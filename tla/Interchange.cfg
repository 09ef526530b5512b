SPECIFICATION Spec
CONSTANTS
  IntBits = 4
  LongBits = 6
  DoubleTenth = 1000
  MaxExponent = 9
  CodeBits = 24
  Locals = {root, a, b}
  DocumentRoot = root
  Scalars <- MCScalars
  Texts <- MCTexts
  Names <- MCNames
  ShortSize = 2
  ChunkCapacity = 3
  DefaultCapacity = 1
  PoolLimit = 4
  StackLimit = 5
  DepthLimit = 2
  Alphabets <- MCAlphabets
  Beginning <- MCBeginning
  XmlKinds <- MCXmlKinds
  PieceLimit = 5
INVARIANT JsonRead RoundTrip StorageMeant XmlRead
CHECK_DEADLOCK FALSE

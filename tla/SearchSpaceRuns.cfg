SPECIFICATION Spec
CONSTANTS
    IntBits = 4
    LongBits = 5
    Programs <- AllPrograms
    NameOrder <- Order
    BaseOf <- Base
    Incomplete = {"T"}
    SizeOf <- Sizes
    Stores <- AllStores
    ValueBits = 2
    maxConditionParameter = 2
    maxExpressionParameter = 1
    Leaves <- collectFromExpression
    IllTyped <- Untypable
    Corrected <- correctTypes
    Comparisons2 <- bool2Expressions
    Modifications <- baseModifications
    HasNode <- hasNodeOfKind
    Replaced <- substituteNodeOfKind
    IntegerConst <- makeIntegerConst
CHECK_DEADLOCK FALSE
INVARIANTS IdentifiersUnique ArgumentsMatch BitPreciseWithoutParameters MeaningKept

---------------------------- MODULE Expressions ----------------------------
(***************************************************************************)
(* The expressions that f1x modifies (Core.h), how they are read from the  *)
(* file of the transformer (Util.cpp), their types (Typing.cpp), and what  *)
(* they compute in C: the integer types are IntBits and LongBits wide, and *)
(* an evaluation that dereferences NULL or divides by zero has the outcome *)
(* Panic.                                                                  *)
(*                                                                         *)
(* Data abstraction: names, types and literals are strings that are only   *)
(* compared; an operator node has no repr but its operator.                *)
(***************************************************************************)
EXTENDS Integers, Sequences, FiniteSets, Bitwise

CONSTANTS IntBits, LongBits     \* widths of int and long

ASSUME WidthAssumption == IntBits \in Nat \ {0} /\ LongBits \in Nat /\ IntBits < LongBits

Expression(kind, type, op, raw, repr, args) ==
    [kind |-> kind, type |-> type, op |-> op, raw |-> raw, repr |-> repr, args |-> args]

Atom(kind, type, raw, repr)   == Expression(kind, type, "NONE", raw, repr, <<>>)
Operation(op, type, raw, args) == Expression("OPERATOR", type, op, raw, op, args)

TRUE_NODE  == Atom("CONSTANT", "BOOLEAN", "int", "1")
FALSE_NODE == Atom("CONSTANT", "BOOLEAN", "int", "0")
NULL_NODE  == Atom("CONSTANT", "POINTER", "void", "(void*)0")
BOOL2_NODE == Atom("BOOL2", "BOOLEAN", "int", "bool2_value")
PARAMETER_NODE == Atom("PARAMETER", "INTEGER", "unsigned long", "param_value")

Comparisons == {"EQ", "NEQ", "LT", "LE", "GT", "GE"}
Connectives == {"OR", "AND"}
Arithmetic  == {"ADD", "SUB", "MUL", "DIV", "MOD"}
BitOperators == {"BV_AND", "BV_OR", "BV_XOR", "BV_SHL", "BV_SHR"}
PointerArithmetic == {"PTR_ADD", "PTR_SUB"}
Casts == {"IMPLICIT_BV_CAST", "IMPLICIT_INT_CAST", "EXPLICIT_BV_CAST",
          "EXPLICIT_INT_CAST", "EXPLICIT_PTR_CAST", "EXPLICIT_UNSIGNED_CAST"}

operatorOutputType(op) ==
    CASE op \in Comparisons \cup Connectives \cup {"NOT"} -> "BOOLEAN"
      [] op \in Arithmetic \cup {"NEG"}                   -> "INTEGER"
      [] op \in BitOperators \cup {"BV_NOT"}              -> "BITVECTOR"
      [] op \in PointerArithmetic                         -> "POINTER"

operatorFirstArgType(op) ==
    CASE op \in {"EQ", "NEQ"} \cup Casts                        -> "ANY"
      [] op \in (Comparisons \ {"EQ", "NEQ"}) \cup Arithmetic \cup {"NEG"} -> "INTEGER"
      [] op \in Connectives \cup {"NOT"}                        -> "BOOLEAN"
      [] op \in BitOperators \cup {"BV_NOT"}                    -> "BITVECTOR"
      [] op \in PointerArithmetic                               -> "POINTER"

unaryOperatorByString == [s \in {"-", "!", "~"} |->
    CASE s = "-" -> "NEG" [] s = "!" -> "NOT" [] s = "~" -> "BV_NOT"]

\* "+" and "-" are pointer arithmetic where the result is a pointer.
binaryOperatorByString(s, pointer) ==
    CASE s = "==" -> "EQ" [] s = "!=" -> "NEQ" [] s = "<" -> "LT" [] s = "<=" -> "LE"
      [] s = ">"  -> "GT" [] s = ">=" -> "GE"  [] s = "||" -> "OR" [] s = "&&" -> "AND"
      [] s = "+"  -> IF pointer THEN "PTR_ADD" ELSE "ADD"
      [] s = "-"  -> IF pointer THEN "PTR_SUB" ELSE "SUB"
      [] s = "*"  -> "MUL" [] s = "/" -> "DIV" [] s = "%" -> "MOD"
      [] s = "&"  -> "BV_AND" [] s = "|" -> "BV_OR" [] s = "^" -> "BV_XOR"

kindByString ==
    [operator |-> "OPERATOR", variable |-> "VARIABLE", dereference |-> "DEREFERENCE",
     constant |-> "CONSTANT"]

\* convertExpression: an atom is a pointer or an integer, whatever its C type.
ConvertAtom(kind, pointer, raw, repr) ==
    Atom(kindByString[kind], IF pointer THEN "POINTER" ELSE "INTEGER", raw, repr)

\* convertExpression: an operator node has the type of its operator.
ConvertOperation(s, pointer, raw, args) ==
    LET op == IF Len(args) = 1 THEN unaryOperatorByString[s]
                               ELSE binaryOperatorByString(s, pointer)
    IN  Operation(op, operatorOutputType(op), raw, args)

---------------------------------------------------------------------------
(* Typing.                                                                 *)

Literals == [n \in 0 .. 9 |-> <<"0", "1", "2", "3", "4", "5", "6", "7", "8", "9">>[n + 1]]
makeIntegerConst(n) == Atom("CONSTANT", "INTEGER", "int", Literals[n])

wrapWith(cast, e) ==
    CASE cast = "IMPLICIT_INT_CAST" -> Operation(cast, "INTEGER", e.raw, <<e>>)
      [] cast = "IMPLICIT_BV_CAST"  -> Operation(cast, "BITVECTOR", e.raw, <<e>>)
      [] cast = "EXPLICIT_INT_CAST" -> Operation(cast, "INTEGER", "long", <<e>>)
      [] cast = "EXPLICIT_BV_CAST"  -> Operation(cast, "BITVECTOR", "unsigned long", <<e>>)
      [] cast = "EXPLICIT_PTR_CAST" -> Operation(cast, "POINTER", "void", <<e>>)
      [] cast = "EXPLICIT_UNSIGNED_CAST" -> Operation(cast, "INTEGER", "unsigned int", <<e>>)

applyBoolOperator(op, left, right) == Operation(op, "BOOLEAN", "int", <<left, right>>)
makeNULLCheckInstead(e) == applyBoolOperator("EQ", e, NULL_NODE)     \* Mutant.
makeNonNULLCheck(e) == applyBoolOperator("NEQ", e, NULL_NODE)
makeNULLCheck(e)    == applyBoolOperator("EQ", e, NULL_NODE)
makeNonZeroCheck(e) == applyBoolOperator("EQ", e, makeIntegerConst(0))

\* POINTER before BOOLEAN before INTEGER before ANY; it throws for two bit-vectors.
Throws == "throws"
commonSubtype(a, b) ==
    CASE a = "ANY" -> b
      [] a # "ANY" /\ b = "ANY" -> a
      [] OTHER -> IF "POINTER" \in {a, b} THEN "POINTER"
                  ELSE IF "BOOLEAN" \in {a, b} THEN "BOOLEAN"
                  ELSE IF "INTEGER" \in {a, b} THEN "INTEGER" ELSE Throws

correctTopNode(e, context) ==
    IF context \in {"ANY", e.type} THEN e
    ELSE CASE context = "INTEGER" ->
              wrapWith(IF e.type = "POINTER" THEN "EXPLICIT_INT_CAST" ELSE "IMPLICIT_INT_CAST", e)
           [] context = "BITVECTOR" ->
              wrapWith(IF e.type = "POINTER" THEN "EXPLICIT_BV_CAST" ELSE "IMPLICIT_BV_CAST", e)
           [] context = "POINTER" -> wrapWith("EXPLICIT_PTR_CAST", e)
           [] context = "BOOLEAN" ->
              IF e.type = "POINTER" THEN makeNonNULLCheck(e)
              ELSE IF e.type = "INTEGER" /\ e.kind = "CONSTANT" /\ e.repr = "0" THEN FALSE_NODE
              ELSE IF e.type = "INTEGER" /\ e.kind = "CONSTANT" /\ e.repr = "1" THEN TRUE_NODE
              ELSE makeNonZeroCheck(e)

\* The type both arguments of e are corrected to.
argContext(e) ==
    IF operatorFirstArgType(e.op) = "ANY" /\ Len(e.args) = 2
      THEN commonSubtype(e.args[1].type, e.args[2].type)
      ELSE operatorFirstArgType(e.op)

\* correctTypes has no result: the exception of commonSubtype, the assertion
\* on the first argument of pointer arithmetic.
RECURSIVE Untypable(_)
Untypable(e) ==
    \/ /\ e.op \in PointerArithmetic
       /\ e.args[1].type # "POINTER" \/ Untypable(e.args[2])
    \/ /\ e.kind = "OPERATOR" /\ e.op \notin PointerArithmetic
       /\ argContext(e) = Throws \/ \E k \in DOMAIN e.args : Untypable(e.args[k])

\* The pointer of pointer arithmetic is left as it is.
RECURSIVE correctTypes(_, _)
correctTypes(e, context) ==
    IF e.kind # "OPERATOR" THEN correctTopNode(e, context)
    ELSE LET corrected ==
               IF e.op \in PointerArithmetic
                 THEN <<e.args[1], correctTypes(e.args[2], "INTEGER")>>
                 ELSE [k \in DOMAIN e.args |-> correctTypes(e.args[k], argContext(e))]
         IN  correctTopNode([e EXCEPT !.args = corrected], context)

---------------------------------------------------------------------------
(* What an expression computes, by the rules of C.  A value has a C type   *)
(* and an integer; the signed types wrap, as gcc's code does in practice.  *)

Panic == [c |-> "panic", v |-> 0]
IsSigned(c) == c \in {"int", "long"}
Width(c)  == IF c \in {"int", "unsigned int"} THEN IntBits ELSE LongBits
Unsigned(c, n) == n % 2 ^ Width(c)
Value(c, n) ==
    LET m == Unsigned(c, n)
    IN  [c |-> c, v |-> IF IsSigned(c) /\ m >= 2 ^ (Width(c) - 1) THEN m - 2 ^ Width(c) ELSE m]

\* Usual arithmetic conversions: the first of these types that occurs.
CommonType(a, b) ==
    IF "unsigned long" \in {a, b} THEN "unsigned long"
    ELSE IF "long" \in {a, b} THEN "long"
    ELSE IF "unsigned int" \in {a, b} THEN "unsigned int" ELSE "int"

Truth(condition) == Value("int", IF condition THEN 1 ELSE 0)
Magnitude(n) == IF n < 0 THEN -n ELSE n
Quotient(a, b) == (IF (a < 0) = (b < 0) THEN 1 ELSE -1) * (Magnitude(a) \div Magnitude(b))

Compare(op, a, b) ==
    CASE op = "EQ" -> a = b [] op = "NEQ" -> a # b [] op = "LT" -> a < b
      [] op = "LE" -> a <= b [] op = "GT" -> a > b [] op = "GE" -> a >= b

Compute(op, c, a, b) ==
    CASE op = "ADD" -> a + b [] op = "SUB" -> a - b [] op = "MUL" -> a * b
      [] op = "DIV" -> Quotient(a, b) [] op = "MOD" -> a - b * Quotient(a, b)
      [] op = "BV_AND" -> Unsigned(c, a) & Unsigned(c, b)
      [] op = "BV_OR"  -> Unsigned(c, a) | Unsigned(c, b)
      [] op = "BV_XOR" -> Unsigned(c, a) ^^ Unsigned(c, b)

\* A strict binary operator; size is the size of the pointee of l.
Offset(r, size) == Value(CommonType(size.c, r.c), size.v * r.v).v
Combine(op, l, r, size) ==
    LET c == CommonType(l.c, r.c)  a == Value(c, l.v).v  b == Value(c, r.v).v
    IN  IF Panic \in {l, r} \/ (op \in {"DIV", "MOD"} /\ b = 0) THEN Panic
        ELSE IF op = "PTR_ADD" THEN Value("void*", l.v + Offset(r, size))
        ELSE IF op = "PTR_SUB" THEN Value("void*", l.v - Offset(r, size))
        ELSE IF op = "SUB" /\ l.c = "void*" THEN Value("long", Quotient(l.v - r.v, size.v))
        ELSE IF op \in Comparisons
               THEN Truth(IF l.c = "void*" THEN Compare(op, l.v, r.v) ELSE Compare(op, a, b))
        ELSE Value(c, Compute(op, c, a, b))

Cast(op, a) ==
    IF a = Panic THEN Panic
    ELSE CASE op = "EXPLICIT_INT_CAST" -> Value("long", a.v)
           [] op = "EXPLICIT_BV_CAST"  -> Value("unsigned long", a.v)
           [] op = "EXPLICIT_PTR_CAST" -> Value("void*", a.v)
           [] op = "EXPLICIT_UNSIGNED_CAST" -> Value("unsigned int", a.v)
           [] op \in {"IMPLICIT_INT_CAST", "IMPLICIT_BV_CAST"} -> a
           [] op = "NOT" -> Truth(a.v = 0)
           [] op = "NEG" -> Value(a.c, -a.v) [] op = "BV_NOT" -> Value(a.c, -a.v - 1)

\* env gives the values of the names, size the sizes of pointees.  A connective
\* evaluates its right side only if the left one has not decided.
RECURSIVE Evaluate(_, _, _)
Evaluate(e, env, size) ==
    IF e.args = <<>>
      THEN IF e = NULL_NODE THEN Value("void*", 0)
           ELSE IF e.kind = "CONSTANT"
                  THEN Value(e.raw, CHOOSE n \in DOMAIN Literals : Literals[n] = e.repr)
                  ELSE env[e.repr]
      ELSE LET left == Evaluate(e.args[1], env, size)
           IN  IF Len(e.args) = 1 THEN Cast(e.op, left)
               ELSE IF e.op \in Connectives
                 THEN IF left = Panic THEN Panic
                      ELSE IF (left.v # 0) = (e.op = "OR") THEN Truth(e.op = "OR")
                      ELSE LET right == Evaluate(e.args[2], env, size)
                           IN  IF right = Panic THEN Panic ELSE Truth(right.v # 0)
                 ELSE Combine(e.op, left, Evaluate(e.args[2], env, size),
                              IF e.args[1].type = "POINTER" /\ e.args[1].raw \in DOMAIN size
                                THEN size[e.args[1].raw] ELSE Truth(TRUE))
===========================================================================

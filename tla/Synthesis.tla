----------------------------- MODULE Synthesis -----------------------------
(***************************************************************************)
(* What SearchSpace leaves open: the components in an expression, the      *)
(* modifications of an expression and their parameters; and what the       *)
(* candidates compute, in the patched source and in the generated function. *)
(***************************************************************************)
EXTENDS SearchSpace, Expressions

CONSTANTS
    BaseOf,         \* p for the dereference p->f
    SizeOf,         \* sizes of the complete pointee types
    Stores          \* values of the names when the statement runs

RECURSIVE collectFromExpression(_)
collectFromExpression(e) ==
    IF e.kind = "CONSTANT" THEN <<>>
    ELSE IF e.args = <<>> THEN <<e>>
    ELSE FlattenSeq(MapSeq(collectFromExpression, e.args))

---------------------------------------------------------------------------
(* Synthesis.                                                              *)

RECURSIVE expressionDepth(_)
expressionDepth(e) ==
    CASE e.kind \in {"VARIABLE", "CONSTANT", "PARAMETER", "DEREFERENCE"} -> 1
      [] e.kind = "BOOL2" -> 2
      [] e.kind = "OPERATOR" ->
           Max({expressionDepth(e.args[k]) : k \in DOMAIN e.args})
           + (IF e.op \in Casts THEN 0 ELSE 1)

mutateOperator(e) ==
    IF e.args[1].type = "POINTER"
      THEN IF e.op \in {"EQ", "NEQ"} THEN {"EQ", "NEQ"} \ {e.op}
           ELSE IF e.op \in PointerArithmetic THEN PointerArithmetic \ {e.op} ELSE {}
      ELSE CASE e.op \in Comparisons -> Comparisons \ {e.op}
             [] e.op \in Connectives -> Connectives \ {e.op}
             [] e.op \in Arithmetic  -> {"ADD", "SUB", "MUL"} \ {e.op}
             [] e.op \in {"BV_AND", "BV_OR", "BV_XOR"} -> {"BV_AND", "BV_OR", "BV_XOR"} \ {e.op}
             [] e.op \in {"BV_SHL", "BV_SHR"} -> {"BV_SHL", "BV_SHR"} \ {e.op}
             [] OTHER -> {}

isSimplifiable(e) == e.op \in Connectives \cup Arithmetic \cup {"NEG"} \cup BitOperators

\* Every comparison of two components or of a component and a parameter.
bool2Expressions(comps) ==
    LET withPointer(l) ==
          <<makeNULLCheck(l), makeNonNULLCheck(l)>>
          \o Listed({applyBoolOperator(op, l, comps[k]) : op \in {"EQ", "NEQ"},
               k \in {j \in DOMAIN comps : IsPointer(comps[j]) /\ comps[j].raw = l.raw}})
        withInteger(l) ==
          Listed({applyBoolOperator(op, l, r) : op \in Comparisons,
               r \in {PARAMETER_NODE} \cup
                     {comps[k] : k \in {j \in DOMAIN comps : IsInteger(comps[j])}}})
    IN  FlattenSeq(MapSeq(LAMBDA l : IF IsPointer(l) THEN withPointer(l) ELSE withInteger(l),
                          comps))

Mod(e, rule, distance) == [expr |-> e, rule |-> rule, distance |-> distance]

\* An atom becomes a component of its type, a parameter or NULL.
atomSubstitutions(e, comps) ==
    LET others == {comps[k] : k \in {j \in DOMAIN comps :
                     comps[j].type = e.type /\ (e.type = "POINTER" => comps[j].raw = e.raw)}}
        constant == e.kind = "CONSTANT"
    IN  IF e.args # <<>> \/ e.type \notin {"INTEGER", "POINTER"}
           \/ (constant /\ e.type = "POINTER") THEN {}
        ELSE {Mod(c, IF constant THEN "GENERALIZATION" ELSE "SUBSTITUTION", 1) : c \in others}
             \cup {Mod(IF IsInteger(e) THEN PARAMETER_NODE ELSE NULL_NODE,
                       IF constant THEN "SUBSTITUTION" ELSE "CONCRETIZATION", 1)}

\* substituteArg, substituteLeftArg, substituteRightArg.
substituteArg(e, k, subs) == [e EXCEPT !.args[k] = subs]

\* The arguments that modifications are made in.
modifiable(e) == IF e.op \in PointerArithmetic THEN {2} ELSE DOMAIN e.args

RECURSIVE baseSubstitutions(_, _)
baseSubstitutions(e, comps) ==
    LET binary == Len(e.args) = 2
        other(k) == e.args[3 - k]
    IN  (IF e.type = "BOOLEAN"
           THEN {Mod(BOOL2_NODE, "SUBSTITUTION",
                     expressionDepth(e) + expressionDepth(BOOL2_NODE) - 1)} ELSE {})
        \cup atomSubstitutions(e, comps)
        \cup (IF e.args = <<>> THEN {}
              ELSE {Mod([e EXCEPT !.op = m, !.repr = m], "OPERATOR", 1) : m \in mutateOperator(e)})
        \cup UNION {{[m EXCEPT !.expr = substituteArg(e, k, m.expr)] :
                       m \in baseSubstitutions(e.args[k], comps)} : k \in modifiable(e)}
        \cup {Mod(substituteArg(e, k, wrapWith("EXPLICIT_UNSIGNED_CAST", e.args[k])),
                  "UNSIGNED_CAST", 1) :
                k \in {j \in DOMAIN e.args : binary /\ IsInteger(e.args[j])}}
        \cup {Mod(e.args[k], "SIMPLIFICATION", IF binary THEN expressionDepth(other(k)) ELSE 1) :
                k \in IF isSimplifiable(e) THEN DOMAIN e.args ELSE {}}

baseModifications(schema, e, comps) ==
    LET depth == expressionDepth(BOOL2_NODE)
    IN  IF schema = "EXPRESSION"
          THEN baseSubstitutions(e, comps) \cup
               (IF e.type # "BOOLEAN" THEN {}
                ELSE {Mod(applyBoolOperator("OR", e, BOOL2_NODE), "LOOSENING", depth),
                      Mod(applyBoolOperator("AND", e, BOOL2_NODE), "TIGHTENING", depth)})
          ELSE {Mod(BOOL2_NODE, "SUBSTITUTION", depth)}
               \cup (IF e.repr = TRUE_NODE.repr THEN {Mod(FALSE_NODE, "SUBSTITUTION", 1)} ELSE {})
               \cup (IF e.repr = FALSE_NODE.repr THEN {Mod(TRUE_NODE, "SUBSTITUTION", 1)} ELSE {})

RECURSIVE hasNodeOfKind(_, _), substituteNodeOfKind(_, _, _)
hasNodeOfKind(e, kind) ==
    e.kind = kind \/ \E k \in DOMAIN e.args : hasNodeOfKind(e.args[k], kind)

\* Only the first one.
substituteNodeOfKind(e, kind, subs) ==
    IF e.kind = kind THEN subs
    ELSE LET k == Min({j \in DOMAIN e.args : hasNodeOfKind(e.args[j], kind)})
         IN  [e EXCEPT !.args[k] = substituteNodeOfKind(@, kind, subs)]

---------------------------------------------------------------------------
(* What the statement computes once a patch is applied, and what the       *)
(* generated function returns for its id in the instrumented program.      *)

\* A component in the source; of a dereference, only while its base is a pointer.
SourceValue(c, store) ==
    IF IsDereference(c) /\ store[BaseOf[c.repr]] = 0 THEN Panic
    ELSE Value(IF IsPointer(c) THEN "void*" ELSE c.raw, store[c.repr])
SourceEnv(comps, store) ==
    [n \in ReprsOf(comps) |->
       SourceValue(comps[CHOOSE k \in DOMAIN comps : comps[k].repr = n], store)]

\* sizeof has the type unsigned long; the array of sizes has elements of type int.
SourceSizes  == [t \in DOMAIN SizeOf |-> Value("unsigned long", SizeOf[t])]
RuntimeSizes == [t \in DOMAIN SizeOf |-> Value("int", SizeOf[t])]

InSource(i, e, store) == Evaluate(e, SourceEnv(sas[i].components, store), SourceSizes)

\* The call passes 0 for the target of a null pointer.
CellValue(cell, store) ==
    CASE cell.kind = "size" -> Value("int", SizeOf[cell.of])
      [] cell.kind = "null" -> Truth(store[BaseOf[cell.of]] = 0)
      [] cell.kind = "value" ->
           IF SourceValue(cell.of, store) = Panic THEN Value(cell.of.raw, 0)
                                                  ELSE SourceValue(cell.of, store)

RuntimeEnv(i, store) ==
    LET comps == sas[i].components
        nulls == nullDerefCondition(comps)
    IN  [n \in ReprsOf(comps) |->
           IF n \in DOMAIN nulls /\ CellValue(Slot(i, nulls[n]), store).v # 0 THEN Panic
           ELSE CellValue(Slot(i, runtimeRenaming(comps)[n]), store)]

Converted(i, a) == IF a = Panic THEN Panic ELSE Value(OutputType(i), a.v)

\* bool2_value is computed before base_value, needed or not.
GeneratedFunction(i, id, store) ==
    LET f == functions[i]
        withParam == RuntimeEnv(i, store) @@ [param_value |-> Value("unsigned long", id.param)]
        bool2 == IF id.bool2 = 0 THEN Truth(FALSE)
                 ELSE Evaluate(f.bool2[id.bool2], withParam, RuntimeSizes)
        base == Evaluate(f.base[id.base - f.first + 1],
                         withParam @@ [bool2_value |-> Truth(bool2.v # 0)], RuntimeSizes)
    IN  Converted(i, IF bool2 = Panic THEN Panic ELSE base)

RECURSIVE Nodes(_)
Nodes(e) == {e} \cup UNION {Nodes(e.args[k]) : k \in DOMAIN e.args}

---------------------------------------------------------------------------
(* The runtime against the patched source.                                 *)

\* The function returns what the patched statement computes, as a value of the
\* type of the original expression.  It may panic where the statement does not
\* (bool2_value is computed first), never the other way round.
Agrees(p, store) ==
    LET patched == InSource(p.app, p.modified, store)
        result  == GeneratedFunction(p.app, p.id, store)
    IN  result = Panic \/ (patched # Panic /\ result = Converted(p.app, patched))

HasParameter(p) ==
    LET f == functions[p.app]
    IN  \/ hasNodeOfKind(f.base[p.id.base - f.first + 1], "PARAMETER")
        \/ p.id.bool2 # 0 /\ hasNodeOfKind(f.bool2[p.id.bool2], "PARAMETER")

\* The scaled offset of pointer arithmetic is a value of its own type.
OffsetsFit(p, store) ==
    \A n \in Nodes(p.modified) :
        n.op \in PointerArithmetic =>
            LET r == InSource(p.app, n.args[2], store)
            IN  r = Panic \/ Offset(r, RuntimeSizes[n.args[1].raw])
                               = RuntimeSizes[n.args[1].raw].v * r.v

\* Bit-precision without parameters, which are unsigned long in the runtime and
\* int in the source, and without overflow of the offsets of pointers.
BitPreciseWithoutParameters ==
    stage = "done" =>
        \A p \in searchSpace, store \in Stores :
            ~HasParameter(p) /\ OffsetsFit(p, store) => Agrees(p, store)

---------------------------------------------------------------------------
(* The corrected expression against the one in the source.                 *)

ContextType(i) == TypeFor(sas[i].context)

\* Some number other than 0 and 1 is used as a truth value.
RECURSIVE NumberTested(_, _)
NumberTested(e, context) ==
    \/ /\ context = "BOOLEAN" /\ e.type \in {"INTEGER", "BITVECTOR"}
       /\ ~(e.kind = "CONSTANT" /\ e.repr \in {"0", "1"})
    \/ e.kind = "OPERATOR" /\ \E k \in DOMAIN e.args : NumberTested(e.args[k], argContext(e))

PointerDifference(e) ==
    \E n \in Nodes(e) : n.op = "SUB" /\ \A k \in {1, 2} : IsPointer(n.args[k])

SameMeaning(i, store) ==
    LET given     == InSource(i, program[i].expr, store)
        corrected == InSource(i, sas[i].original, store)
    IN  IF ContextType(i) = "BOOLEAN" /\ given # Panic /\ corrected # Panic
          THEN (given.v # 0) = (corrected.v # 0)
          ELSE (given = Panic) = (corrected = Panic) /\ given.v = corrected.v

\* correctTypes does not change what a statement computes, as long as it uses no
\* number as a truth value and no difference of pointers, which is taken in bytes.
MeaningKept ==
    stage = "done" =>
        \A i \in DOMAIN sas :
            NumberTested(program[i].expr, ContextType(i)) \/ PointerDifference(program[i].expr)
            \/ \A store \in Stores : SameMeaning(i, store)

\* Core.h, LOOSENING is "adding "|| something"": the patched condition holds
\* wherever the condition of the source holds (TIGHTENING dually).
RefinementsAppend ==
    stage = "done" =>
        \A p \in searchSpace, store \in Stores :
            LET given   == InSource(p.app, program[p.app].expr, store)
                patched == InSource(p.app, p.modified, store)
            IN  p.rule \in {"LOOSENING", "TIGHTENING"} /\ given # Panic =>
                  IF p.rule = "LOOSENING" THEN given.v # 0 => patched.v # 0
                                          ELSE given.v = 0 => patched.v = 0

===========================================================================

---------------------------- MODULE SearchSpace ----------------------------
(***************************************************************************)
(* From the statements of the program to the search space and the runtime: *)
(* f1x-transform extracts schema applications and writes the call of the   *)
(* generated function into the source (ApplySchema), repair() corrects the *)
(* types (InferTypes), generateSearchSpace numbers the modifications of    *)
(* every application and generates the function that evaluates them        *)
(* (GenerateFunction), and every patch gets its cost (AssignCosts).        *)
(*                                                                         *)
(* Data abstraction: the generated C code is its two tables of cases, with *)
(* expressions over the names of the components; what the renamed operands *)
(* denote is given by the slots of the arrays that the call passes.  The   *)
(* order of the modifications of one expression is not specified, and equal *)
(* ones (x from either side of x + x) are one.  What the expressions are,   *)
(* how they are typed and which modifications they have are parameters: the *)
(* module Synthesis defines them.                                          *)
(***************************************************************************)
EXTENDS Integers, Sequences, FiniteSets, FiniteSetsExt, SequencesExt

CONSTANTS
    Programs,       \* sequences of statements, by file
    NameOrder,      \* names of types and dereferences, in alphabetic order
    Incomplete,     \* pointee types that are incomplete
    ValueBits,      \* F1XAPP_WIDTH - F1XAPP_VALUE_BITS
    maxConditionParameter, maxExpressionParameter

CONSTANTS
    Leaves(_),                  \* the components in an expression, in their order
    IllTyped(_),                \* it cannot be typed
    Corrected(_, _),            \* the expression with the types for a context
    Comparisons2(_),            \* the cases of bool2_value, from components
    Modifications(_, _, _),     \* from a schema, an expression and components
    HasNode(_, _),              \* the expression has a node of a kind
    Replaced(_, _, _),          \* the first node of a kind is an expression instead
    IntegerConst(_)

VARIABLES
    stage,          \* "transform", "load", "types", "generate", "cost", "done", "threw"
    next,           \* the statement, file or application at hand
    program,        \* a statement has file, schema, context, expr, visible
    baseAppId,      \* cfg.baseAppId of the f1x-transform process
    documents,      \* the files of the transformer: applications of each file
    sas,            \* schema applications loaded
    calls,          \* argument lists of the calls in the instrumented source
    baseId,
    functions,      \* the cases of the generated functions
    searchSpace,
    cost

vars == <<stage, next, program, baseAppId, documents, sas, calls, baseId, functions, searchSpace, cost>>

MapSeq(f(_), s) == [k \in DOMAIN s |-> f(s[k])]
Listed(S) == FoldSet(LAMBDA e, s : Append(s, e), <<>>, S)    \* in some order
Selected(s, S) == FoldLeft(LAMBDA acc, e : IF e \in S THEN Append(acc, e) ELSE acc, <<>>, s)
Sorted(S) == Selected(NameOrder, S)
IsInteger(c) == c.type = "INTEGER"
IsPointer(c) == c.type = "POINTER"
IsDereference(c) == c.kind = "DEREFERENCE"
ReprsOf(comps) == {c.repr : c \in Range(comps)}

---------------------------------------------------------------------------
(* The transformer.                                                        *)

\* Each file has a process of its own, which counts from zero.
f1xapp(id, fileId) == fileId * 2 ^ ValueBits + id

\* The first component of each name.
collectComponents(e, visible) ==
    FoldLeft(LAMBDA acc, c : IF c.repr \in ReprsOf(acc) THEN acc ELSE Append(acc, c),
             <<>>, Leaves(e) \o visible)

IntegerTypes(comps) == {c.raw : c \in {d \in Range(comps) : ~IsPointer(d)}}
Dereferences(comps) == {c.repr : c \in {d \in Range(comps) : IsDereference(d)}}
PointersOf(comps)   == Selected(comps, {c \in Range(comps) : IsPointer(c)})
OfType(comps, t)    == Selected(comps, {c \in Range(comps) : ~IsPointer(c) /\ c.raw = t})
completePointeeTypes(comps) ==
    Sorted({c.raw : c \in {d \in Range(comps) : IsPointer(d)}} \ Incomplete)

Array(elem, kind, s) ==
    [elem |-> elem, cells |-> [k \in DOMAIN s |-> [kind |-> kind, of |-> s[k]]]]

\* One array per integer type, then the pointers and the sizes of what they
\* point to, then whether the base of each dereference is NULL.
makeArgumentList(comps) ==
    MapSeq(LAMBDA t : Array(t, "value", OfType(comps, t)), Sorted(IntegerTypes(comps)))
    \o (IF PointersOf(comps) = <<>> THEN <<>>
        ELSE <<Array("void*", "value", PointersOf(comps)),
               Array("int", "size", completePointeeTypes(comps))>>)
    \o (IF Dereferences(comps) = {} THEN <<>>
        ELSE <<Array("int", "null", Sorted(Dereferences(comps)))>>)

---------------------------------------------------------------------------
(* What repair() loads.                                                    *)

transformationSchemaByString ==
    [expression |-> "EXPRESSION", if_guard |-> "IF_GUARD", initialization |-> "INITIALIZATION"]
contextByString(s) == IF s = "condition" THEN "CONDITION" ELSE "UNKNOWN"

TypeFor(context) == IF context = "CONDITION" THEN "BOOLEAN" ELSE "ANY"

loadSAFile(document) ==
    MapSeq(LAMBDA app : [id |-> app.appId, schema |-> transformationSchemaByString[app.schema],
                         context |-> contextByString(app.context),
                         original |-> app.expression, components |-> app.components],
           document)

---------------------------------------------------------------------------
(* Assumptions about the programs.                                         *)

IsList(s) == s \in Seq(Range(s))

\* The statements of file f are the positions start[f] .. start[f + 1] - 1.
IsLayout(prog, n, start) ==
    /\ start[0] = 1 /\ start[n] = Len(prog) + 1
    /\ \A k \in DOMAIN prog : prog[k].file \in 0 .. n - 1
    /\ \A f \in 0 .. n - 1 :
         /\ start[f] < start[f + 1]
         /\ \A k \in DOMAIN prog :
              prog[k].file = f <=> start[f] <= k /\ k < start[f + 1]

\* One file after the other is instrumented, and no file has more statements
\* than f1xapp, which asserts it, has numbers.
ASSUME ProgramsAssumption ==
    /\ 2 ^ ValueBits \in Nat
    /\ \A prog \in Programs :
         /\ IsList(prog)
         /\ \E n \in 1 .. Len(prog) : \E start \in [0 .. n -> 1 .. Len(prog) + 1] :
              /\ IsLayout(prog, n, start)
              /\ \A f \in 0 .. n - 1 : start[f + 1] - start[f] <= 2 ^ ValueBits

\* The names of the generated parameters are reserved.
ASSUME NamesAssumption ==
    /\ IsList(NameOrder)
    /\ {"__ptr_vals", "__ptr_sizes", "__nullderef"} \cap Range(NameOrder) = {}

\* Names have their place in the order; the modifications of an expression that
\* can be typed are finitely many, each with at most one node for bool2_value.
ASSUME StatementsAssumption ==
    \A prog \in Programs : \A k \in DOMAIN prog :
        LET s == prog[k]
            found == Range(Leaves(s.expr)) \cup Range(s.visible)
            comps == collectComponents(s.expr, s.visible)
        IN  /\ IsList(Leaves(s.expr)) /\ IsList(s.visible)
            /\ \A c \in found :
                 /\ ~IsPointer(c) => c.raw \in Range(NameOrder)
                 /\ IsDereference(c) => c.repr \in Range(NameOrder)
            /\ IsList(Comparisons2(comps))
            /\ ~IllTyped(s.expr) =>
                 LET mods == Modifications(transformationSchemaByString[s.schema],
                               Corrected(s.expr, TypeFor(contextByString(s.context))), comps)
                 IN  /\ IsFiniteSet(mods)
                     /\ \A m \in mods, bool2 \in Range(Comparisons2(comps)) :
                          HasNode(m.expr, "BOOL2") =>
                            ~HasNode(Replaced(m.expr, "BOOL2", bool2), "BOOL2")

ASSUME BoundsAssumption == maxConditionParameter \in Nat /\ maxExpressionParameter \in Nat

---------------------------------------------------------------------------
(* The generated function.                                                 *)

paramBound(sa) == IF sa.context = "CONDITION" THEN maxConditionParameter
                                              ELSE maxExpressionParameter

\* bool2 is the number of the case, 0 if there is none.
PatchID(base, bool2, param) == [base |-> base, bool2 |-> bool2, param |-> param]

\* The loop over the candidates that are left has two levels, since a modification
\* has at most one node for bool2_value, and a comparison none.
bool2Instances(bool2s, id, e) ==
    IF HasNode(e, "BOOL2")
      THEN {[id |-> [id EXCEPT !.bool2 = k], expr |-> Replaced(e, "BOOL2", bool2s[k])] :
              k \in DOMAIN bool2s}
      ELSE {[id |-> id, expr |-> e]}
parameterInstances(sa, i) ==
    IF HasNode(i.expr, "PARAMETER")
      THEN {[id |-> [i.id EXCEPT !.param = n],
             modified |-> Replaced(i.expr, "PARAMETER", IntegerConst(n))] : n \in 0 .. paramBound(sa)}
      ELSE {[id |-> i.id, modified |-> i.expr]}
instances(sa, bool2s, id, e) ==
    UNION {parameterInstances(sa, i) : i \in bool2Instances(bool2s, id, e)}

\* Mutant: sizes before pointers.
parameterListSizesFirst(comps) ==
    Sorted(IntegerTypes(comps))
    \o (IF PointersOf(comps) = <<>> THEN <<>> ELSE <<"__ptr_sizes", "__ptr_vals">>)
    \o (IF Dereferences(comps) = {} THEN <<>> ELSE <<"__nullderef">>)

parameterList(comps) ==
    Sorted(IntegerTypes(comps))
    \o (IF PointersOf(comps) = <<>> THEN <<>> ELSE <<"__ptr_vals", "__ptr_sizes">>)
    \o (IF Dereferences(comps) = {} THEN <<>> ELSE <<"__nullderef">>)

\* Array and index that stand for the name of a component.
runtimeRenaming(comps) ==
    [n \in ReprsOf(comps) |->
       LET c == comps[CHOOSE k \in DOMAIN comps : comps[k].repr = n]
           peers == IF IsPointer(c) THEN PointersOf(comps) ELSE OfType(comps, c.raw)
       IN  [array |-> IF IsPointer(c) THEN "__ptr_vals" ELSE c.raw,
            index |-> CHOOSE k \in DOMAIN peers : peers[k].repr = n]]

typeSizes(comps) ==
    [t \in Range(completePointeeTypes(comps)) |->
       [array |-> "__ptr_sizes",
        index |-> CHOOSE k \in DOMAIN completePointeeTypes(comps) : completePointeeTypes(comps)[k] = t]]

\* Mutant: dereferences are not checked.
nullDerefConditionNone(comps) == [n \in {} |-> [array |-> "__nullderef", index |-> 1]]

nullDerefCondition(comps) ==
    LET names == Sorted(Dereferences(comps))
    IN  [n \in Range(names) |->
           [array |-> "__nullderef", index |-> CHOOSE k \in DOMAIN names : names[k] = n]]

---------------------------------------------------------------------------
Init ==
    /\ program \in Programs
    /\ stage = "transform" /\ next = 1 /\ baseAppId = 0
    /\ documents = [f \in {program[k].file : k \in DOMAIN program} |-> <<>>]
    /\ sas = <<>> /\ calls = <<>> /\ baseId = 1 /\ functions = <<>>
    /\ searchSpace = {} /\ cost = <<>>

\* One more of n items at this stage, or on to the next stage.
Advance(n, to) == IF next < n THEN next' = next + 1 /\ stage' = stage
                              ELSE next' = 1 /\ stage' = to

ApplySchema ==
    /\ stage = "transform"
    /\ LET s == program[next]
           comps == collectComponents(s.expr, s.visible)
           app == [appId |-> f1xapp(baseAppId, s.file), schema |-> s.schema,
                   context |-> s.context, expression |-> s.expr, components |-> comps]
       IN  /\ documents' = [documents EXCEPT ![s.file] = Append(@, app)]
           /\ calls' = Append(calls, makeArgumentList(comps))
    /\ baseAppId' = IF next < Len(program) /\ program[next + 1].file = program[next].file
                      THEN baseAppId + 1 ELSE 0
    /\ Advance(Len(program), "load")
    /\ UNCHANGED <<program, sas, baseId, functions, searchSpace, cost>>

\* loadSchemaApplications: the applications of the files, in their order.
LoadFile ==
    /\ stage = "load"
    /\ sas' = sas \o loadSAFile(documents[next - 1])
    /\ Advance(Cardinality(DOMAIN documents), "types")
    /\ UNCHANGED <<program, baseAppId, documents, calls, baseId, functions, searchSpace, cost>>

\* An expression that cannot be typed ends the program.
InferTypes ==
    /\ stage = "types"
    /\ IF IllTyped(sas[next].original)
         THEN stage' = "threw" /\ UNCHANGED <<next, sas>>
         ELSE /\ sas' = [sas EXCEPT ![next].original =
                           Corrected(@, TypeFor(sas[next].context))]
              /\ Advance(Len(sas), "generate")
    /\ UNCHANGED <<program, baseAppId, documents, calls, baseId, functions, searchSpace, cost>>

\* Mutant: every application starts with the same number.
FirstIdAgain(id) == 1

\* The number of the next modification.
FirstId(id) == id

GenerateFunction ==
    /\ stage = "generate"
    /\ LET sa == sas[next]
           bool2s == Comparisons2(sa.components)
           mods == Listed(Modifications(sa.schema, sa.original, sa.components))
           first == FirstId(baseId)
           partial(k) == PatchID(first + k - 1, 0, 0)
       IN  /\ functions' = Append(functions,
                [bool2 |-> bool2s, first |-> first, base |-> MapSeq(LAMBDA m : m.expr, mods)])
           /\ searchSpace' = searchSpace \cup
                UNION {{[id |-> p.id, app |-> next, modified |-> p.modified,
                         rule |-> mods[k].rule, distance |-> mods[k].distance] :
                          p \in instances(sa, bool2s, partial(k), mods[k].expr)} :
                       k \in DOMAIN mods}
           /\ baseId' = first + Len(mods)
    /\ Advance(Len(sas), "cost")
    /\ UNCHANGED <<program, baseAppId, documents, sas, calls, cost>>

\* syntacticDiff, in tenths.
GOOD == 2
OK   == 1
syntacticDiff(p) ==
    10 * p.distance -
    (CASE sas[p.app].schema = "IF_GUARD" -> GOOD
       [] sas[p.app].schema = "EXPRESSION" /\ p.rule \in
            {"OPERATOR", "SIMPLIFICATION", "GENERALIZATION", "SUBSTITUTION"} -> GOOD
       [] sas[p.app].schema = "EXPRESSION" /\ p.rule \in {"LOOSENING", "TIGHTENING"} -> OK
       [] OTHER -> 0)

AssignCosts ==
    /\ stage = "cost" /\ stage' = "done"
    /\ cost' = [id \in {p.id : p \in searchSpace} |->
                  syntacticDiff(CHOOSE p \in searchSpace : p.id = id)]
    /\ UNCHANGED <<next, program, baseAppId, documents, sas, calls, baseId, functions, searchSpace>>

Next == ApplySchema \/ LoadFile \/ InferTypes \/ GenerateFunction \/ AssignCosts

Spec == Init /\ [][Next]_vars
---------------------------------------------------------------------------
(* The calls and the functions that they call.                             *)

\* Arguments are bound to parameters by position.
Slot(i, slot) ==
    calls[i][CHOOSE k \in DOMAIN calls[i] :
               parameterList(sas[i].components)[k] = slot.array].cells[slot.index]

OutputType(i) == IF IsPointer(sas[i].original) THEN "void*" ELSE sas[i].original.raw
Element(p) == CASE p = "__ptr_vals" -> "void*" [] p \in {"__ptr_sizes", "__nullderef"} -> "int"
                [] OTHER -> p

\* The header that the instrumented files include.
declaration(i) ==
    [type |-> OutputType(i), parameters |-> MapSeq(Element, parameterList(sas[i].components))]
---------------------------------------------------------------------------
TypeOK ==
    /\ stage \in {"transform", "load", "types", "generate", "cost", "done", "threw"}
    /\ program \in Programs /\ next \in 1 .. Len(program)
    /\ baseAppId \in Nat /\ baseId \in Nat \ {0}
    /\ Len(sas) <= Len(calls) /\ Len(calls) <= Len(program) /\ Len(functions) <= Len(sas)
    /\ \A p \in searchSpace : p.app \in DOMAIN functions

\* The identifier of a patch and the identifier of an application belong to no
\* other one, over all files and locations, and base 0 stays free for the
\* terminators of partitions.
IdentifiersUnique ==
    /\ \A i, j \in DOMAIN sas : sas[i].id = sas[j].id => i = j
    /\ Cardinality({p.id : p \in searchSpace}) = Cardinality(searchSpace)
    /\ \A p \in searchSpace : p.id.base \in 1 .. baseId - 1

\* The call that the transformer writes and the function that the generator
\* declares, computed by two programs from one list of components, agree: the
\* arrays match in number and element type, and every name, size and null
\* condition is where the generated code looks for it.
ArgumentsMatch ==
    \A i \in DOMAIN sas :
        LET comps == sas[i].components
            call == calls[i]
        IN  /\ MapSeq(LAMBDA a : a.elem, call) = declaration(i).parameters
            /\ \A k \in DOMAIN comps :
                 Slot(i, runtimeRenaming(comps)[comps[k].repr]) = [kind |-> "value", of |-> comps[k]]
            /\ \A t \in DOMAIN typeSizes(comps) :
                 Slot(i, typeSizes(comps)[t]) = [kind |-> "size", of |-> t]
            /\ \A n \in DOMAIN nullDerefCondition(comps) :
                 Slot(i, nullDerefCondition(comps)[n]) = [kind |-> "null", of |-> n]

===========================================================================

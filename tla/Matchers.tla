------------------------------ MODULE Matchers ------------------------------
(***************************************************************************)
(* What f1x-transform reads off the syntax tree of a translation unit: the *)
(* statements and expressions that the schemas apply to, in the order in   *)
(* which Clang reports them, and the components visible at each of them.   *)
(*                                                                         *)
(* A tree is the sequence of its nodes in pre-order: the first child of n  *)
(* is n + 1.  A node has its Clang class (kind), operator or text (op),    *)
(* type, parent and role below it.  Text is abstracted to names.           *)
(***************************************************************************)
EXTENDS Integers, SequencesExt

RECURSIVE Ancestors(_, _)
Ancestors(ast, n) ==
    IF ast[n].parent = 0 THEN {} ELSE {ast[n].parent} \cup Ancestors(ast, ast[n].parent)

Nodes(ast) == DOMAIN ast
Descendants(ast, n) == {m \in Nodes(ast) : n \in Ancestors(ast, m)}
Children(ast, n) == SelectSeq([m \in Nodes(ast) |-> m], LAMBDA m : ast[m].parent = n)
Kind(ast, n) == IF n \in Nodes(ast) THEN ast[n].kind ELSE "none"
Op(ast, n) == ast[n].op
Type(ast, n) == ast[n].type
FirstChild(n) == n + 1
LHS(n) == FirstChild(n)
RHS(ast, n) == Children(ast, n)[2]

isInteger(t) == t \in {"char", "int", "long", "enum"}
isPointer(t) == t \in {"int*", "S*", "void*", "fn*"}
isArray(t) == t \in {"int[]"}

Exprs == {"Binary", "Unary", "ICast", "CCast", "Paren", "DeclRef", "Member",
          "Subscript", "Int", "Char", "Call", "OtherExpr"}

---------------------------------------------------------------------------
(* Matchers.                                                               *)

RECURSIVE ignoringParenImpCasts(_, _)
ignoringParenImpCasts(ast, n) ==
    IF Kind(ast, n) \in {"Paren", "ICast"} THEN ignoringParenImpCasts(ast, FirstChild(n)) ELSE n

RECURSIVE ignoringImpCasts(_, _)
ignoringImpCasts(ast, n) ==
    IF Kind(ast, n) = "ICast" THEN ignoringImpCasts(ast, FirstChild(n)) ELSE n

Connectives == {"&&", "||"}
AssignmentOperators ==
    {"=", "+=", "-=", "*=", "/=", "%=", "&=", "|=", "^=", "<<=", ">>="}

RepairableOperator(ast, n) ==
    \/ Kind(ast, n) = "Binary"
       /\ Op(ast, n) \in Connectives \cup {"==", "!=", "<=", ">=", ">", "<"}
                       \cup {"+", "-", "*", "%", "/"} \cup {"&", "|", "^", "<<", ">>"}
    \/ Kind(ast, n) = "Unary" /\ Op(ast, n) \in {"!", "~"}

RepairableArraySubscript(ast, n) ==
    /\ Kind(ast, n) = "Subscript"
    /\ Kind(ast, ignoringImpCasts(ast, RHS(ast, n))) \in {"Int", "DeclRef", "Member"}
    /\ Kind(ast, FirstChild(n)) = "ICast" /\ Kind(ast, n + 2) = "DeclRef" /\ isArray(Type(ast, n + 2))

RepairableAtom(ast, n) ==
    \/ Kind(ast, n) \in {"DeclRef", "Int", "Char"}
    \/ Kind(ast, n) = "Member" /\ (isInteger(Type(ast, n)) \/ isPointer(Type(ast, n)))
    \/ /\ Kind(ast, n) = "CCast" /\ isInteger(Type(ast, n))
       /\ Kind(ast, n + 1) = "ICast" /\ Kind(ast, n + 2) \in {"Int", "DeclRef", "Member"}
    \/ /\ Kind(ast, n) \in {"ICast", "CCast"} /\ Type(ast, n) = "void*"
       /\ \E d \in Descendants(ast, n) : Kind(ast, d) = "Int" /\ Op(ast, d) = "0"

RepairableNode(ast, n) ==
    RepairableOperator(ast, n) \/ RepairableArraySubscript(ast, n) \/ RepairableAtom(ast, n)

\* .bind(BOUND): the third alternative for declRefExpr binds nothing.
Binds(ast, n) == Kind(ast, n) = "DeclRef" => isInteger(Type(ast, n)) \/ isPointer(Type(ast, n))

BaseRepairableExpression(ast, n) ==
    /\ RepairableNode(ast, n)
    /\ \A d \in Descendants(ast, n) :
          Kind(ast, d) \in Exprs => RepairableNode(ast, ignoringParenImpCasts(ast, d))

LeftBase(ast, n)  == BaseRepairableExpression(ast, ignoringParenImpCasts(ast, LHS(n)))
RightBase(ast, n) == BaseRepairableExpression(ast, ignoringParenImpCasts(ast, RHS(ast, n)))
Splittable(ast, n) ==
    Kind(ast, n) = "Binary" /\ Op(ast, n) \in Connectives /\ LeftBase(ast, n) # RightBase(ast, n)

SplitOperand(ast, n) == ignoringParenImpCasts(ast, IF LeftBase(ast, n) THEN LHS(n) ELSE RHS(ast, n))

\* hasSplittableCondition: what it binds in the condition c.
ConditionMatches(ast, c) ==
    IF BaseRepairableExpression(ast, ignoringParenImpCasts(ast, c))
      THEN <<ignoringParenImpCasts(ast, c)>>
      ELSE LET splits == {d \in {c} \cup Descendants(ast, c) : Splittable(ast, d)}
           IN  [k \in 1 .. Cardinality(splits) |-> SplitOperand(ast, SetToSortSeq(splits, <)[k])]

RepairableCondition(ast, n) ==
    IF Kind(ast, n) \in {"If", "While", "For"}
      THEN FlattenSeq([k \in DOMAIN Children(ast, n) |->
             IF ast[Children(ast, n)[k]].role = "cond"
               THEN ConditionMatches(ast, Children(ast, n)[k]) ELSE <<>>])
      ELSE <<>>

RepairableAssignment(ast, n) ==
    /\ Kind(ast, n) = "Binary" /\ Op(ast, n) \in AssignmentOperators
    /\ Kind(ast, ignoringParenImpCasts(ast, LHS(n))) \in {"DeclRef", "Member", "Subscript"}
    /\ RightBase(ast, n)

RepairableReturn(ast, n) ==
    /\ Kind(ast, n) = "Return" /\ Children(ast, n) # <<>>
    /\ BaseRepairableExpression(ast, ignoringParenImpCasts(ast, FirstChild(n)))

\* The nodes ExpressionSchemaMatcher binds when it matches n.
ExpressionSchemaMatcher(ast, n) ==
    SelectSeq(
        RepairableCondition(ast, n)
        \o (IF RepairableAssignment(ast, n) THEN <<ignoringParenImpCasts(ast, RHS(ast, n))>> ELSE <<>>)
        \o (IF RepairableReturn(ast, n) THEN <<ignoringParenImpCasts(ast, FirstChild(n))>> ELSE <<>>),
        LAMBDA m : Binds(ast, m))

\* Mutant: a call is guarded whatever its arguments do.
GuardsAnyCall(ast, n) == Kind(ast, n) \in {"Call", "Break", "Continue"}

\* A call is guarded unless an argument of it is repaired on its own.
IfGuardSchemaMatcher(ast, n) ==
    \/ Kind(ast, n) \in {"Break", "Continue"}
    \/ /\ Kind(ast, n) = "Call"
       /\ \A d \in Descendants(ast, n) :
             /\ Kind(ast, d) # "Compound"
             /\ Kind(ast, d) \in Exprs => ~RepairableAssignment(ast, ignoringParenImpCasts(ast, d))

\* The matches of a tree, in the order of the handlers' calls.
matchAST(ast) ==
    FlattenSeq([n \in Nodes(ast) |->
        [k \in DOMAIN ExpressionSchemaMatcher(ast, n) |->
           [node |-> ExpressionSchemaMatcher(ast, n)[k], schema |-> "expression"]]
        \o (IF IfGuardSchemaMatcher(ast, n) THEN <<[node |-> n, schema |-> "if_guard"]>>
            ELSE <<>>)])

---------------------------------------------------------------------------
(* Where a statement stands.                                               *)

Role(ast, n) == ast[n].role
ParentKind(ast, n) == Kind(ast, ast[n].parent)

isChildOfNonblock(ast, n) ==
    \/ ParentKind(ast, n) \in {"If", "While"} /\ Role(ast, n) # "cond"
    \/ ParentKind(ast, n) = "For" /\ Role(ast, n) \notin {"cond", "inc", "init"}

isTopLevelStatement(ast, n) ==
    ast[n].parent = 0 \/ ParentKind(ast, n) = "Compound" \/ isChildOfNonblock(ast, n)

RECURSIVE OutOfImpCasts(_, _)
OutOfImpCasts(ast, n) ==
    IF ParentKind(ast, n) = "ICast" THEN OutOfImpCasts(ast, ast[n].parent) ELSE n

\* Mutant: an operand of any binary operator.
AnyOperandIsCondition(ast, n) ==
    \/ Role(ast, n) = "cond"
    \/ ParentKind(ast, OutOfImpCasts(ast, n)) = "Binary"

\* The casts are left on the way up, but the condition is compared with n.
inConditionContext(ast, n) ==
    \/ Role(ast, n) = "cond" /\ ParentKind(ast, n) \in {"If", "While", "For"}
    \/ /\ ParentKind(ast, OutOfImpCasts(ast, n)) = "Binary"
       /\ Op(ast, ast[OutOfImpCasts(ast, n)].parent) \in Connectives

---------------------------------------------------------------------------
(* Expressions and components as JSON.                                     *)

clangKindToString(t) == IF t \in {"char", "int", "long"} THEN t ELSE "long"
PointeeType(t) == CASE t \in {"int*", "int[]"} -> "int" [] t = "S*" -> "S" [] OTHER -> "void"

JSON(kind, t, repr, base, args) ==
    [kind |-> kind, repr |-> repr, base |-> base, args |-> args,
     type |-> IF isPointer(t) \/ isArray(t) THEN "pointer" ELSE "integer",
     rawType |-> IF isPointer(t) \/ isArray(t) THEN PointeeType(t) ELSE clangKindToString(t)]

RECURSIVE stmtToJSON(_, _)
stmtToJSON(ast, n) ==
    LET leaf(kind, base) == JSON(kind, Type(ast, n), Op(ast, n), base, <<>>)
    IN  CASE Kind(ast, n) \in {"ICast", "Paren"} -> stmtToJSON(ast, FirstChild(n))
          [] Kind(ast, n) = "Binary" ->
               JSON("operator", Type(ast, n), Op(ast, n), "",
                    <<stmtToJSON(ast, LHS(n)), stmtToJSON(ast, RHS(ast, n))>>)
          [] Kind(ast, n) = "Unary" ->
               JSON("operator", Type(ast, n), Op(ast, n), "", <<stmtToJSON(ast, FirstChild(n))>>)
          [] Kind(ast, n) = "Int" -> leaf("constant", "")
          [] Kind(ast, n) = "Char" -> JSON("constant", "char", Op(ast, n), "", <<>>)
          [] Kind(ast, n) = "Member" /\ ast[n].base # "" -> leaf("dereference", ast[n].base)
          [] OTHER -> leaf("variable", "")

varDeclToJSON(ast, d) == JSON("variable", Type(ast, d), Op(ast, d), "", <<>>)
isSuitableComponentType(t) == t \in {"char", "int", "long", "enum", "int*", "S*", "void*"}

\* CollectComponents descends into operators, implicit casts and parentheses
\* only: not into calls, conditionals or other statements.
RECURSIVE collectFromExpression(_, _, _, _)
collectFromExpression(ast, n, ignoreCasts, suitableTypes) ==
    LET below == Children(ast, n)
    IN  CASE Kind(ast, n) \in {"Binary", "Unary", "ICast", "Paren"} ->
               FlattenSeq([k \in DOMAIN below |->
                   collectFromExpression(ast, below[k], ignoreCasts, suitableTypes)])
          [] Kind(ast, n) = "CCast" /\ ~ignoreCasts -> <<stmtToJSON(ast, n)>>
          [] /\ Kind(ast, n) \in {"Member", "DeclRef", "Subscript"}
             /\ ~suitableTypes \/ isSuitableComponentType(Type(ast, n)) -> <<stmtToJSON(ast, n)>>
          [] OTHER -> <<>>

Line(position) == position \div 100


\* line > beginLine
Earlier(ast, s, line) == line > Line(ast[s].begin)

\* What a statement of an enclosing block contributes.
FromStatement(ast, s) ==
    LET suitable(d) == IF isSuitableComponentType(Type(ast, d)) THEN <<varDeclToJSON(ast, d)>> ELSE <<>>
        arguments(c) == FlattenSeq([k \in 1 .. Len(Children(ast, c)) - 1 |->
                            collectFromExpression(ast, Children(ast, c)[k + 1], TRUE, TRUE)])
        then == SelectSeq(Children(ast, s), LAMBDA c : Role(ast, c) = "then" /\ Kind(ast, c) = "Call")
    IN  (IF Kind(ast, s) = "Binary" /\ Op(ast, s) = "=" /\ Kind(ast, LHS(s)) = "DeclRef"
           THEN suitable(LHS(s)) ELSE <<>>)
        \o (IF Kind(ast, s) = "Decl" /\ ast[s].init THEN suitable(s) ELSE <<>>)
        \o collectFromExpression(ast, s, TRUE, TRUE)
        \o (IF Kind(ast, s) = "If" /\ then # <<>> THEN arguments(then[1]) ELSE <<>>)

\* From the innermost block out to the parameters of the function.
RECURSIVE collectVisible(_, _, _, _)
collectVisible(ast, n, line, useGlobalVariables) ==
    LET declared(s) == [k \in DOMAIN s |-> varDeclToJSON(ast, s[k])]
        isVariable(d) == Kind(ast, d) \in {"Param", "Decl"} /\ isSuitableComponentType(Type(ast, d))
        globals == SelectSeq(Children(ast, 0), LAMBDA d : isVariable(d) /\ Earlier(ast, d, line))
        block == SelectSeq(Children(ast, n), LAMBDA s : Earlier(ast, s, line))
    IN  IF Kind(ast, n) = "Function"
          THEN declared(SelectSeq(Children(ast, n), isVariable))
               \o (IF useGlobalVariables THEN declared(globals) ELSE <<>>)
          ELSE (IF Kind(ast, n) = "Compound"
                  THEN FlattenSeq([k \in DOMAIN block |-> FromStatement(ast, block[k])]) ELSE <<>>)
               \o (IF ast[n].parent = 0 THEN <<>>
                   ELSE collectVisible(ast, ast[n].parent, line, useGlobalVariables))

\* The first component of each name.
collectComponents(ast, n, useGlobalVariables) ==
    FoldLeft(LAMBDA acc, c : IF \E k \in DOMAIN acc : acc[k].repr = c.repr THEN acc
                             ELSE Append(acc, c),
             <<>>, collectFromExpression(ast, n, FALSE, FALSE)
                   \o collectVisible(ast, n, Line(ast[n].begin), useGlobalVariables))
=============================================================================

---------------------------- MODULE MCTransform ----------------------------
(* A small instance of Transform for TLC: programs written as trees, laid   *)
(* out in lines and columns, one token a column.                           *)
EXTENDS Transform

\* A tree: a node's class, operator or text, type and children.
T(kind, op, type, kids) ==
    [kind |-> kind, op |-> op, type |-> type, kids |-> kids, role |-> "", base |-> "",
     init |-> FALSE, line |-> 0, macro |-> FALSE, comment |-> FALSE, else |-> FALSE]

On(line, t)  == [t EXCEPT !.line = line]
As(role, t)  == [t EXCEPT !.role = role]
Macro(t)     == [t EXCEPT !.macro = TRUE]
Comment(t)   == [t EXCEPT !.comment = TRUE]
BeforeElse(t) == [t EXCEPT !.else = TRUE]

Name(x, t)    == T("DeclRef", x, t, <<>>)
Num(c)        == T("Int", c, "int", <<>>)
Load(t)       == T("ICast", "", t.type, <<t>>)
IntVar(x)     == Load(Name(x, "int"))
Bin(o, l, r)  == T("Binary", o, "int", <<l, r>>)
Un(o, e)      == T("Unary", o, "int", <<e>>)
Paren(e)      == T("Paren", "", e.type, <<e>>)
Call(f, args) == T("Call", "", "int", <<Name(f, "function")>> \o args)
Set(x, e)     == Bin("=", Name(x, "int"), e)
Block(s)      == T("Compound", "", "", s)
Ret(e)        == T("Return", "", "", <<e>>)
Break         == T("Break", "", "", <<>>)
If(c, s)      == T("If", "", "", <<As("cond", c), As("then", s)>>)
IfElse(c, s, e) == T("If", "", "", <<As("cond", c), As("then", BeforeElse(s)), As("else", e)>>)
While(c, s)   == T("While", "", "", <<As("cond", c), As("body", s)>>)
Var(x, t)     == T("Decl", x, t, <<>>)
VarInit(x, t, e) == [T("Decl", x, t, <<e>>) EXCEPT !.init = TRUE]
Arrow(p, f, t) == [T("Member", f, t, <<Load(Name(p, "S*"))>>) EXCEPT !.base = p]
Fun(params, body) ==
    T("Function", "", "", [k \in DOMAIN params |-> T("Param", params[k][1], params[k][2], <<>>)]
                          \o <<body>>)

Before(kind) == CASE kind \in {"If", "While", "Decl"} -> 2
                  [] kind \in {"Paren", "Unary", "Return", "Compound", "CCast", "Label"} -> 1
                  [] OTHER -> 0
Between(kind) == IF kind \in {"Compound", "If", "While"} THEN 2 ELSE 1
After(kind) == IF kind \in {"Paren", "Compound", "Call", "Subscript"} THEN 1 ELSE 0

\* The nodes of a tree whose first token is at position, and the next position;
\* LayAll: of the trees of a sequence, which are the children of parent.
RECURSIVE Lay(_, _, _, _, _), LayAll(_, _, _, _, _, _)
Lay(t, id, parent, position, file) ==
    LET start == IF t.line = 0 THEN position ELSE 100 * t.line + 1
        kids == LayAll(t.kids, id + 1, id, start + Before(t.kind), Between(t.kind), file)
        end == IF t.kids = <<>> THEN start
               ELSE kids.next - Between(t.kind) - 1 + After(t.kind)
        here == [kind |-> t.kind, op |-> t.op, type |-> t.type, role |-> t.role,
                 base |-> t.base, init |-> t.init, parent |-> parent, file |-> file,
                 begin |-> start, end |-> end, startInside |-> FALSE, endInside |-> FALSE,
                 semicolon |-> IF t.comment THEN 0 ELSE end + 1, beforeElse |-> t.else]
        expanded(n) == [n EXCEPT !.begin = start, !.end = start,
                                 !.startInside = n.begin # start, !.endInside = n.end # end]
        all == <<here>> \o kids.nodes
    IN  IF t.macro
          THEN [nodes |-> [k \in DOMAIN all |-> expanded(all[k])], next |-> start + 1]
          ELSE [nodes |-> all, next |-> end + 1]
LayAll(s, id, parent, position, between, file) ==
    IF s = <<>> THEN [nodes |-> <<>>, next |-> position]
    ELSE LET first == Lay(Head(s), id, parent, position, file)
             rest == LayAll(Tail(s), id + Len(first.nodes), parent, first.next + between,
                            between, file)
         IN  [nodes |-> first.nodes \o rest.nodes, next |-> rest.next]

\* A unit: declarations of a header, then those of the main file.
Laid(header, main) ==
    LET h == LayAll(header, 1, 0, 101, 1, "header").nodes
    IN  h \o LayAll(main, Len(h) + 1, 0, 101, 1, "main").nodes

Conditions ==
    Laid(<<>>, <<On(1, Fun(<<<<"x", "int">>, <<"y", "int">>, <<"d", "double">>>>, Block(<<
        On(2, VarInit("z", "int", Num("0"))),
        On(3, If(Bin("&", IntVar("x"), Num("2")), Set("y", Bin("+", IntVar("z"), Num("1"))))),
        On(4, While(Bin("&&", Bin(">", IntVar("x"), Num("0")), Call("g", <<IntVar("y")>>)),
                    Block(<<On(5, Set("z", IntVar("x"))), On(6, Break)>>)))>>)))>>)

Operands ==
    Laid(<<>>, <<On(1, Fun(<<<<"y", "int">>, <<"z", "int">>>>, Block(<<
        On(7, While(Paren(Bin("||", Call("g", <<Bin("&&", Call("g", <<>>), Un("!", IntVar("y")))>>),
                                 Paren(IntVar("z")))),
                 Bin("+=", Name("z", "int"), Num("1")))),
        On(8, Set("z", On(9, Bin("-", IntVar("y"), Num("1"))))),
        On(10, Ret(Paren(IntVar("z"))))>>)))>>)

Guards ==
    Laid(<<>>, <<On(1, Fun(<<<<"x", "int">>, <<"y", "int">>>>, Block(<<
        On(2, Var("z", "int")),
        On(3, IfElse(IntVar("x"), Call("f", <<IntVar("y")>>), Call("g", <<>>))),
        On(4, IfElse(IntVar("y"), T("Label", "", "", <<BeforeElse(Call("f", <<>>))>>),
                     Comment(Call("g", <<IntVar("x")>>)))),
        On(5, Call("f", <<Call("h", <<IntVar("x")>>)>>)),
        On(6, Call("f", <<Set("z", IntVar("x"))>>)),
        On(7, While(IntVar("y"), Block(<<Break>>)))>>)))>>)

Macros ==
    Laid(<<On(1, Fun(<<<<"w", "int">>>>, Block(<<On(3, Ret(IntVar("w")))>>)))>>,
         <<On(1, Fun(<<<<"x", "int">>, <<"y", "int">>>>, Block(<<
             On(2, If(Macro(Bin(">", IntVar("x"), Num("0"))), Macro(Call("f", <<Call("h", <<>>)>>)))),
             On(3, Ret(IntVar("x"))),
             On(4, Macro(Set("y", IntVar("x")))),
             On(5, Set("x", On(6, Bin("*", IntVar("y"), On(8, IntVar("y")))))),
             On(9, Ret(IntVar("y")))>>)))>>)

Scopes ==
    Laid(<<>>, <<On(1, Var("G", "int")), On(2, Fun(<<<<"x", "int">>, <<"p", "S*">>>>, Block(<<
        On(3, VarInit("z", "long", Num("0"))),
        On(4, Block(<<
            On(5, VarInit("z", "int", Num("1"))),
            On(6, If(Bin(">", Load(Arrow("p", "p->f", "int")), IntVar("z")),
                     Call("h", <<IntVar("G")>>))),
            On(7, If(Bin("==", Load(Name("p", "S*")),
                         T("ICast", "", "S*", <<T("CCast", "NULL", "void*", <<Num("0")>>)>>)),
                     Set("x", T("CCast", "(int)z", "int", <<IntVar("z")>>)))),
            On(8, VarInit("late", "int", Num("0")))>>)),
        On(9, Ret(Load(T("Subscript", "a[x]", "int",
                         <<T("ICast", "", "int*", <<Name("a", "int[]")>>), IntVar("x")>>))))>>))),
        On(10, VarInit("H", "int", Num("3")))>>)

\* Inner declarations that do not count: of v after a use of the outer one, of y
\* without an initializer, of z on the line of the location, of w for its type.
Shadows ==
    Laid(<<>>, <<On(1, VarInit("w", "int", Num("0"))),
                 On(2, Fun(<<<<"u", "int">>, <<"y", "int">>, <<"w", "double">>>>, Block(<<
        On(3, VarInit("v", "int", Num("0"))),
        On(4, VarInit("z", "int", Num("1"))),
        On(5, Block(<<
            On(7, Set("u", IntVar("v"))),
            On(8, VarInit("v", "long", Num("5"))),
            On(9, Var("y", "long")),
            On(10, VarInit("z", "long", Num("6"))), Set("u", IntVar("u"))>>)),
        On(11, Ret(IntVar("z")))>>)))>>)

Unit(nodes, ranges) == [nodes |-> nodes, conditionals |-> ranges]

\* In the macros: #if between the lines 6 and 8, in the middle of an expression.
AllUnits ==
    {Unit(Conditions, {}), Unit(Operands, {}), Unit(Guards, {}), Unit(Macros, {<<701, 709>>}),
     Unit(Scopes, {}), Unit(Shadows, {})}

TwoOptions ==
    {[addGuards |-> g, useGlobalVariables |-> g, range |-> IF g THEN <<>> ELSE <<4, 7>>] :
        g \in BOOLEAN}
=============================================================================

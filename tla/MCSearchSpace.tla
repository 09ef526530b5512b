--------------------------- MODULE MCSearchSpace ---------------------------
(* A small instance of Synthesis for TLC.                                  *)
EXTENDS Synthesis

\* An int, an unsigned int, a pointer to a complete type and one to an
\* incomplete type, and an int member of what p points to.
x == ConvertAtom("variable", FALSE, "int", "x")
u == ConvertAtom("variable", FALSE, "unsigned int", "u")
p1 == ConvertAtom("variable", TRUE, "S", "p")
q1 == ConvertAtom("variable", TRUE, "T", "q")
d == ConvertAtom("dereference", FALSE, "int", "p->f")
zero == ConvertAtom("constant", FALSE, "int", "0")
two  == ConvertAtom("constant", FALSE, "int", "2")

Base  == [n \in {"p->f"} |-> "p"]
Order == <<"S", "T", "int", "p->f", "unsigned int">>
Sizes == [t \in {"S"} |-> 2]

Small == [x : {-1, 1}, u : {0, 3}, p : {0, 2}, q : {4}, f : {0, 1}]
AllStores ==
    {[n \in {"x", "u", "p", "q", "p->f"} |-> IF n = "p->f" THEN m.f ELSE m[n]] : m \in Small}

Of(sym, l, r) == ConvertOperation(sym, FALSE, "int", <<l, r>>)
PtrOf(sym, l, r) == ConvertOperation(sym, TRUE, l.raw, <<l, r>>)
Negation(e) == ConvertOperation("!", FALSE, "int", <<e>>)

\* Comparisons, connectives, arithmetic and bit operators on pairs of atoms.
Pairs ==
    {Of(sym, l, r) : sym \in {"==", "<", "/", "&"}, l \in {x, d}, r \in {u, two}}
    \cup {Of(sym, l, r) : sym \in {"&&", "||"}, l \in {p1, x}, r \in {d, zero}}
    \cup {Of("==", p1, zero), Of("==", p1, q1), Of("<", p1, q1), Of("-", p1, q1),
          PtrOf("+", p1, x), PtrOf("-", p1, u)}
Atoms == {x, u, p1, q1, d, zero, two}
Nested ==
    {Negation(x), Negation(d), Negation(Of("<", x, u)), Of("&&", p1, Of("<", d, u)),
     Of("==", Of("<", x, u), Of("<", d, zero)), Of("+", x, Of("<", u, two)),
     Of("==", Of("&", x, two), Of("&", u, two)), Of("==", PtrOf("+", p1, x), p1),
     Of("==", Of("&", x, two), zero), Of("<", Of("-", x, two), zero)}

Statement(file, schema, context, e, visible) ==
    [file |-> file, schema |-> schema, context |-> context, expr |-> e, visible |-> visible]
One == ConvertAtom("constant", FALSE, "int", "1")
Guard == Statement(0, "if_guard", "condition", One, <<x, q1>>)
Return == Statement(1, "expression", "unknown", u, <<>>)

\* A statement, a guard in the same file, a statement of another file.
AllPrograms ==
    {<<Statement(0, "expression", context, e, visible), Guard, Return>> :
        e \in Pairs \cup Atoms \cup Nested, context \in {"condition", "unknown"},
        visible \in {<<>>, <<p1, d>>}}
===========================================================================

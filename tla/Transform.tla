----------------------------- MODULE Transform -----------------------------
(***************************************************************************)
(* f1x-transform on one file, three times over a repair: it traces the     *)
(* locations (--profile), applies the schemas where a failing test went    *)
(* (--instrument), and replaces one location by a patch (--apply).  Each   *)
(* pass is a process that parses the original file and handles the matches *)
(* as Clang reports them, possibly more than once.                         *)
(*                                                                         *)
(* A location is the begin and end, in lines and columns, of a node after  *)
(* macro expansion.  A rewrite is the range it replaces and what for.      *)
(***************************************************************************)
EXTENDS Matchers

CONSTANTS
    Units,              \* translation units: the nodes, and the ranges of
                        \* #if ... #endif in the main file
    Options             \* addGuards, useGlobalVariables, and the range of lines
                        \* after the file name in --files

VARIABLES
    ast,                \* of the original file
    conditionals,       \* globalConditionalsPP
    options,
    pass,               \* "profile", "schema", "patch"
    phase,              \* "started", "matching", "ended"
    alreadyTransformed,
    matches,            \* what Clang reports of the file
    cursor,             \* matches reported so far
    alreadyMatched,
    rewrites,           \* of the Rewriter of this pass
    written,            \* by pass: the rewrites of the file on the disk
    interesting,        \* interestingLocations
    applications,       \* schemaApplications
    baseAppId,
    target              \* the application that the patch is for

fileVars == <<ast, conditionals, options>>
processVars == <<alreadyTransformed, matches, cursor, alreadyMatched, rewrites>>
vars == <<fileVars, pass, phase, processVars, written, interesting,
          applications, baseAppId, target>>

None == [node |-> 0]

---------------------------------------------------------------------------
Location(n) == <<ast[n].begin, ast[n].end>>
InMainFile(n) == ast[n].file = "main"

\* An end of the node is in a macro, not where the macro's expansion ends.
insideMacro(n) == ast[n].startInside \/ ast[n].endInside

intersectConditionalPP(n) ==
    \E range \in conditionals :
        LET b == ast[n].begin
            e == ast[n].end
        IN  \/ b < range[1] /\ range[1] < e /\ e < range[2]
            \/ range[1] < b /\ b < range[2] /\ range[2] < e

inRange(line) ==
    options.fromLine # 0 \/ options.toLine # 0 =>
        options.fromLine <= line /\ line <= options.toLine

ReplaceText(n, from, to, text) == [node |-> n, from |-> from, to |-> to, text |-> text]

\* Before the file of the node is looked at: a location of a header counts.
Seen(n) == Location(n) \in alreadyMatched

\* A guard that is the body of an if or a loop becomes a block that takes the
\* semicolon with it, and is given up when anything but space comes first.
ReplaceGuarded(n) ==
    IF ~isChildOfNonblock(ast, n)
      THEN <<ReplaceText(n, ast[n].begin, ast[n].end, "if")>>
    ELSE IF ast[n].semicolon = 0 THEN <<>>
    ELSE <<ReplaceText(n, ast[n].begin, ast[n].semicolon, "{if}")>>

Replacement(m) ==
    IF m.schema = "if_guard" THEN ReplaceGuarded(m.node)
    ELSE <<ReplaceText(m.node, ast[m.node].begin, ast[m.node].end, "expression")>>

\* The early returns that only the handlers of the profile pass have.
ProfileReturns(m) ==
    \/ insideMacro(m.node) \/ intersectConditionalPP(m.node)
    \/ m.schema = "if_guard" /\ ~(options.addGuards /\ isTopLevelStatement(ast, m.node))
    \/ ~inRange(Line(ast[m.node].begin))

\* The application refers to the generated function; a guard's expression is 1.
SchemaApplication(m) ==
    LET guard == m.schema = "if_guard"
    IN  [node |-> m.node, schema |-> m.schema, location |-> Location(m.node), appId |-> baseAppId,
         expression |-> IF guard THEN JSON("constant", "int", "1", "", <<>>)
                        ELSE stmtToJSON(ast, m.node),
         context |-> IF guard \/ inConditionContext(ast, m.node) THEN "condition" ELSE "unknown",
         components |-> collectComponents(ast, m.node, options.useGlobalVariables)]

\* Mutant: the columns of the patch are not compared.
SelectsLines(n) ==
    CASE pass = "profile" -> TRUE
      [] pass = "schema"  -> Location(n) \in interesting
      [] pass = "patch"   -> Line(ast[n].begin) = Line(target.location[1])

\* The location is one this pass is to rewrite.
Selects(n) ==
    CASE pass = "profile" -> TRUE
      [] pass = "schema"  -> Location(n) \in interesting
      [] pass = "patch"   -> Location(n) = target.location

Rewrite(m) ==
    /\ rewrites' = rewrites \o
          (IF pass = "profile"
             THEN <<ReplaceText(m.node, ast[m.node].begin, ast[m.node].end, "trace")>>
             ELSE Replacement(m))
    /\ IF pass = "schema"
         THEN /\ applications' = Append(applications, SchemaApplication(m))
              /\ baseAppId' = baseAppId + 1
         ELSE UNCHANGED <<applications, baseAppId>>

Handle(m) ==
    IF (pass = "profile" /\ ProfileReturns(m)) \/ Seen(m.node)
      THEN UNCHANGED <<alreadyMatched, rewrites, applications, baseAppId>>
      ELSE /\ alreadyMatched' = alreadyMatched \cup {Location(m.node)}
           /\ IF InMainFile(m.node) /\ Selects(m.node) THEN Rewrite(m)
              ELSE UNCHANGED <<rewrites, applications, baseAppId>>

---------------------------------------------------------------------------
\* "file", "file:line" or "file:from-to"
parseFilesArg(range) ==
    IF range = <<>> THEN [fromLine |-> 0, toLine |-> 0]
    ELSE [fromLine |-> Head(range), toLine |-> Last(range)]

Init ==
    /\ \E o \in Options : options = o @@ parseFilesArg(o.range)
    /\ \E u \in Units : ast = u.nodes /\ conditionals = u.conditionals
    /\ pass = "profile" /\ phase = "started"
    /\ alreadyTransformed = FALSE /\ matches = <<>> /\ cursor = 0 /\ alreadyMatched = {} /\ rewrites = <<>>
    /\ written = [q \in {"profile", "schema", "patch"} |-> <<>>]
    /\ interesting = {} /\ applications = <<>> /\ baseAppId = 0 /\ target = None

\* Mutant: nothing keeps Clang from starting the action again.
StartsAgain == alreadyTransformed' = TRUE

\* BeginSourceFileAction refuses a second start; the patch pass has none.
RefusesSecondStart ==
    IF pass = "patch" THEN UNCHANGED alreadyTransformed
    ELSE ~alreadyTransformed /\ alreadyTransformed' = TRUE

\* Clang starts the action on the file, with a Rewriter of its own.
BeginSourceFile ==
    /\ phase \in {"started", "ended"} /\ RefusesSecondStart
    /\ phase' = "matching" /\ matches' = matchAST(ast) /\ cursor' = 0 /\ rewrites' = <<>>
    /\ applications' = IF pass = "schema" THEN <<>> ELSE applications
    /\ UNCHANGED <<fileVars, pass, alreadyMatched, written, interesting, baseAppId, target>>

\* The next match, or one that was reported before.
Match ==
    /\ phase = "matching"
    /\ \E k \in 1 .. Len(matches) :
          /\ k <= cursor + 1
          /\ cursor' = IF k > cursor THEN k ELSE cursor
          /\ Handle(matches[k])
    /\ UNCHANGED <<fileVars, pass, phase, alreadyTransformed, matches, written, interesting, target>>

\* Nothing is written if nothing was rewritten.
overwriteMainChangedFile ==
    written' = IF rewrites = <<>> THEN written ELSE [written EXCEPT ![pass] = rewrites]

\* Once in the patch pass; the JSON in the schema pass.
EndSourceFile ==
    /\ phase = "matching" /\ cursor = Len(matches)
    /\ phase' = "ended" /\ alreadyTransformed' = TRUE
    /\ IF pass = "patch" /\ alreadyTransformed THEN UNCHANGED written ELSE overwriteMainChangedFile
    /\ UNCHANGED <<fileVars, pass, matches, cursor, alreadyMatched, rewrites, interesting,
                   applications, baseAppId, target>>

\* A new process on the original file.
NewProcess ==
    /\ phase' = "started" /\ alreadyTransformed' = FALSE
    /\ matches' = <<>> /\ cursor' = 0 /\ alreadyMatched' = {} /\ rewrites' = <<>> /\ baseAppId' = 0

\* The instrumented program ran: failing tests went through some locations.
StartSchemaApplication ==
    /\ pass = "profile" /\ phase = "ended" /\ pass' = "schema" /\ NewProcess
    /\ interesting' \in SUBSET {Location(written.profile[k].node) : k \in DOMAIN written.profile}
    /\ UNCHANGED <<fileVars, written, applications, target>>

\* A patch was found for one of the applications.
StartPatchApplication ==
    /\ pass = "schema" /\ phase = "ended" /\ pass' = "patch" /\ NewProcess
    /\ \E k \in DOMAIN applications : target' = applications[k]
    /\ applications' = <<>> /\ interesting' = {}
    /\ UNCHANGED <<fileVars, written>>

Next ==
    \/ BeginSourceFile \/ Match \/ EndSourceFile
    \/ StartSchemaApplication \/ StartPatchApplication

Spec == Init /\ [][Next]_vars

---------------------------------------------------------------------------
(* Properties.                                                             *)

\* The rewrites that are made or asked for so far.
Rewrites == {rewrites} \cup {written[q] : q \in DOMAIN written}

\* No two rewrites of a file overlap, or the text they leave is garbage, and
\* none is at the positions of a header: Rewriter::ReplaceText checks neither.
RewritesDisjoint ==
    \A r \in Rewrites : \A i, j \in DOMAIN r :
        /\ InMainFile(r[i].node)
        /\ i < j => r[i].to < r[j].from \/ r[j].to < r[i].from

\* Every location a failing test went through is offered for repair, once, with
\* the node that was traced there: the schema pass repeats neither the checks
\* nor the state of the profile pass.
InterestingCovered ==
    pass = "schema" /\ phase = "ended" =>
        \A t \in Range(written.profile) :
            Location(t.node) \in interesting =>
                /\ \E k \in DOMAIN applications : applications[k].node = t.node
                /\ \A j, k \in DOMAIN applications :
                      applications[j].location = applications[k].location => j = k

\* A patch ends up on the disk, once, at the node of its schema application: the
\* node is found again by its lines and columns only.  (The exception is a guard
\* that neither pass can put in a block.)
PatchHitsApplication ==
    pass = "patch" /\ phase = "ended" =>
        written.patch = SelectSeq(written.schema, LAMBDA r : r.node = target.node)

RECURSIVE Leaves(_)
Leaves(json) ==
    IF json.kind = "operator" THEN UNION {Leaves(json.args[k]) : k \in DOMAIN json.args}
    ELSE IF json.kind = "constant" THEN {} ELSE {json}

\* The declarations of a name that are in scope at n; the innermost is the last.
InScope(n, name) ==
    {d \in Nodes(ast) : /\ Kind(ast, d) \in {"Decl", "Param"} /\ Op(ast, d) = name /\ d < n
                        /\ ast[d].parent \in {0} \cup Ancestors(ast, n)}

\* Declarations that do not count at n, or not first: of a type for which there are
\* no components; in a block without an initializer, on the line of the location, or
\* after a statement of the block that uses a variable of this name further out.
Overlooked(n, d) ==
    \/ ~isSuitableComponentType(Type(ast, d))
    \/ /\ ParentKind(ast, d) = "Compound"
       /\ \/ ~ast[d].init
          \/ Line(ast[d].begin) = Line(ast[n].begin)
          \/ \E s \in Nodes(ast) :
                /\ s < d /\ ast[s].parent = ast[d].parent
                /\ \E m \in {s} \cup Descendants(ast, s) :
                      Kind(ast, m) = "DeclRef" /\ Op(ast, m) = Op(ast, d)


RECURSIVE TruthValueOnly(_)
TruthValueOnly(n) ==
    CASE ParentKind(ast, n) \in {"Paren", "ICast"} -> TruthValueOnly(ast[n].parent)
      [] ParentKind(ast, n) = "Binary" -> Op(ast, ast[n].parent) \in Connectives
      [] OTHER -> Role(ast, n) = "cond"

\* Where the context is "condition" only the truth value counts, so that the
\* candidates of a condition may replace the value.
ContextSound ==
    \A k \in DOMAIN applications :
        applications[k].schema = "expression" /\ applications[k].context = "condition" =>
            TruthValueOnly(applications[k].node)

=============================================================================

---------------------------- MODULE BuildProofs ----------------------------
(***************************************************************************)
(* Proofs about Build, for any build tool, environment and number of runs: *)
(* what a write of the compilation database that is cut short does to its  *)
(* run and to those that follow; the header that a build includes; the     *)
(* calls that bear records; the flags that f1x writes into the database;   *)
(* and that the database is exact.                                         *)
(***************************************************************************)
EXTENDS Build, FoldTheorems

\* The phases that only a run reaches that could parse the database, or found
\* none.
PastStart == {"building", "dump", "check", "adjust", "ready", "compiled"}

\* The phases in which the file will be written, or is.
ToWrite == phase \in {"dump", "adjust"} \/ (phase = "building" /\ build.bear)

\* The history of damage is the state of the file: nothing repairs it, and
\* nothing but a write that is cut short breaks it; no run writes it again.
DamageShows ==
    /\ phase \in {"idle", "initial", "aborted"} \cup PastStart
    /\ runs \in Nat /\ (phase # "idle" => runs # 0)
    /\ ghost.damaged \in 0..runs
    /\ ghost.damaged # 0 <=> db = Broken
    /\ ToWrite => db # Broken
    /\ DOMAIN ghost = {"compiled", "user", "first", "calls", "dumped", "existing", "adjusted",
                       "damaged"}

IInv == DamageShows /\ AbortOnlyAfterCutWrite

---------------------------------------------------------------------------
\* What f1x and bear write is no cut file.
LEMMA WrittenWhole == \A entries : Present(entries) # Broken
<1> SUFFICES ASSUME NEW entries PROVE Present(entries).state # Broken.state
  OBVIOUS
<1> QED BY DEF Present, Broken

LEMMA InitInv == Init => IInv
<1> SUFFICES ASSUME Init PROVE IInv
  OBVIOUS
<1>1. phase = "idle" /\ runs = 0 /\ ghost.damaged = 0 /\ db.state = "absent" BY DEF Init
<1>2. Broken.state = "broken" BY DEF Broken
<1>3. DOMAIN ghost = {"compiled", "user", "first", "calls", "dumped", "existing", "adjusted",
                      "damaged"}
  BY DEF Init
<1> QED BY <1>1, <1>2, <1>3 DEF IInv, DamageShows, AbortOnlyAfterCutWrite, ToWrite

LEMMA StepInv == IInv /\ [Next]_vars => IInv'
<1> SUFFICES ASSUME IInv, [Next]_vars PROVE IInv'
  OBVIOUS
<1> USE DEF IInv, DamageShows, AbortOnlyAfterCutWrite, PastStart
\* A step that leaves the file and its history alone.
<1>k. ASSUME UNCHANGED <<db, runs>>, ghost'.damaged = ghost.damaged, DOMAIN ghost' = DOMAIN ghost,
             phase' \in {"idle", "initial", "aborted"} \cup PastStart,
             phase' # "idle" => phase # "idle",
             phase' = "aborted" => db = Broken,
             phase' \in PastStart => phase \in PastStart \/ db # Broken,
             ToWrite' => ToWrite \/ db # Broken
      PROVE  IInv'
  BY <1>k
\* A write that is cut short, in the run that goes on or is killed.
<1>c. ASSUME db' = Broken, runs' = runs, ghost'.damaged = runs, DOMAIN ghost' = DOMAIN ghost,
             phase # "idle", phase' \in {"idle"} \cup PastStart, ~ToWrite'
      PROVE  IInv'
  BY <1>c
\* A whole one, after which nothing is broken.
<1>w. ASSUME phase \in PastStart, phase' \in PastStart, runs' = runs, db' # Broken, ToWrite,
             ghost'.damaged = ghost.damaged, DOMAIN ghost' = DOMAIN ghost
      PROVE  IInv'
  BY <1>w
<1>1. CASE Start
  <2>1. PICK e \in UserEnvs :
          ghost' = [ghost EXCEPT !.user = e, !.first = None, !.adjusted = FALSE]
    BY <1>1 DEF Start
  <2>2. ghost'.damaged = ghost.damaged /\ DOMAIN ghost' = DOMAIN ghost BY <2>1
  <2>3. phase' = "initial" /\ db' = db /\ runs' = runs + 1 BY <1>1 DEF Start
  <2> QED BY <2>2, <2>3 DEF Broken, ToWrite
<1>2. CASE Abort
  <2>1. UNCHANGED <<db, runs>> /\ phase' = "aborted" /\ phase # "idle" /\ db = Broken
    BY <1>2 DEF Abort, Unparsable
  <2>2. ghost'.damaged = ghost.damaged /\ DOMAIN ghost' = DOMAIN ghost
    BY <1>2 DEF Abort, Forgotten
  <2> QED BY <1>k, <2>1, <2>2 DEF ToWrite
<1>o. ASSUME NEW kind, NEW header, NEW bear, NEW e, Run(kind, header, bear, e),
             phase # "idle", phase \in PastStart \/ db # Broken, bear => db # Broken
      PROVE  IInv'
  <2>1. ghost' = [ghost EXCEPT !.compiled = {}, !.calls = 0,
                    !.first = IF @ = None THEN header ELSE @]
    BY <1>o DEF Run
  <2>2. ghost'.damaged = ghost.damaged /\ DOMAIN ghost' = DOMAIN ghost BY <2>1
  <2>3. phase' = "building" /\ build'.bear = bear /\ UNCHANGED <<db, runs>> BY <1>o DEF Run
  <2> QED BY <1>k, <1>o, <2>2, <2>3 DEF ToWrite
<1>3. CASE initialBuild BY <1>3, <1>o DEF initialBuild, Unparsable
<1>4. CASE buildProject BY <1>4, <1>o DEF buildProject
<1>5. CASE compileProfiler \/ compileRuntime
  BY <1>5, <1>k DEF compileProfiler, compileRuntime, Compile, ToWrite
<1>6. CASE buildWithRuntime BY <1>6, <1>o DEF buildWithRuntime
<1>7. CASE ForkExec BY <1>7, <1>k DEF ForkExec, Called, ToWrite
<1>8. CASE Exec BY <1>8, <1>k DEF Exec, Called, ToWrite
<1>9. CASE Exit BY <1>9, <1>k DEF Exit, ToWrite
<1>10. CASE Finish 
  <2>1. ghost'.damaged = ghost.damaged /\ DOMAIN ghost' = DOMAIN ghost
    BY <1>10 DEF Finish, Forgotten
  <2>2. phase = "building" /\ phase' \in {"dump", "check", "ready"} /\ UNCHANGED <<db, runs>>
        /\ (phase' = "dump" => build.bear)
    BY <1>10 DEF Finish
  <2> QED BY <1>k, <2>1, <2>2 DEF ToWrite
<1>11. CASE Dump
  <2>1. phase = "dump" /\ phase' = "check" /\ runs' = runs BY <1>11 DEF Dump
  <2>2. ASSUME NEW existing, db' = Present(post_processing(existing)),
               ghost' = [ghost EXCEPT !.dumped = TRUE, !.existing = existing]
        PROVE  IInv'
    <3>1. db' # Broken /\ ToWrite BY <2>1, <2>2, WrittenWhole DEF ToWrite
    <3>2. ghost'.damaged = ghost.damaged /\ DOMAIN ghost' = DOMAIN ghost BY <2>2
    <3> QED BY <1>w, <2>1, <2>2, <3>1, <3>2
  <2>3. CASE CutShort BY <1>c, <2>1, <2>3 DEF CutShort, ToWrite
  <2>4. CASE UNCHANGED <<db, ghost>> BY <1>k, <2>1, <2>4 DEF ToWrite
  <2> QED BY <1>11, <2>2, <2>3, <2>4 DEF Dump
<1>12. CASE Check
  <2>1. ghost'.damaged = ghost.damaged /\ DOMAIN ghost' = DOMAIN ghost
    BY <1>12 DEF Check, Forgotten
  <2>2. phase = "check" /\ phase' \in {"idle", "adjust"} /\ UNCHANGED <<db, runs>>
        /\ db # Broken
    BY <1>12 DEF Check, Gone, Unparsable
  <2> QED BY <1>k, <2>1, <2>2
<1>13. CASE Adjust
  <2>1. phase = "adjust" /\ phase' = "ready" /\ runs' = runs BY <1>13 DEF Adjust
  <2>2. CASE db' = adjustCompileDB /\ ghost' = [ghost EXCEPT !.adjusted = TRUE]
    <3>1. db' # Broken /\ ToWrite BY <2>1, <2>2, WrittenWhole DEF adjustCompileDB, ToWrite
    <3>2. ghost'.damaged = ghost.damaged /\ DOMAIN ghost' = DOMAIN ghost BY <2>2
    <3> QED BY <1>w, <2>1, <2>2, <3>1, <3>2
  <2>3. CASE CutShort BY <1>c, <2>1, <2>3 DEF CutShort, ToWrite
  <2>4. CASE UNCHANGED <<db, ghost>> BY <1>k, <2>1, <2>4 DEF ToWrite
  <2> QED BY <1>13, <2>2, <2>3, <2>4 DEF Adjust
<1>14. CASE execute BY <1>14, <1>k DEF execute, ToWrite
<1>15. CASE Quit BY <1>15, <1>k DEF Quit, Gone, ToWrite
<1>16. CASE Interrupt
  <2>1. runs' = runs /\ phase # "idle" /\ phase' = "idle" /\ DOMAIN ghost' = DOMAIN ghost
    BY <1>16 DEF Interrupt, Gone
  <2>2. CASE phase \in {"dump", "adjust"} BY <1>c, <1>16, <2>1, <2>2 DEF Interrupt, ToWrite
  <2>3. CASE phase \notin {"dump", "adjust"} BY <1>k, <1>16, <2>1, <2>3 DEF Interrupt, ToWrite
  <2> QED BY <2>2, <2>3
<1>17. CASE UNCHANGED vars BY <1>17 DEF vars, ToWrite
<1> QED
  BY <1>1, <1>2, <1>3, <1>4, <1>5, <1>6, <1>7, <1>8, <1>9, <1>10, <1>11, <1>12, <1>13, <1>14,
     <1>15, <1>16, <1>17
  DEF Next

\* The assertion of GetArray ends a run only after a write of
\* compile_commands.json was cut short, in it or in an earlier run; once an
\* earlier run has left such a file no run gets past its start.
THEOREM AbortsOnlyAfterCutWrite == Spec => []AbortOnlyAfterCutWrite
<1>1. IInv => AbortOnlyAfterCutWrite BY DEF IInv
<1> QED BY InitInv, StepInv, <1>1, PTL DEF Spec
---------------------------------------------------------------------------
(* Which header a wrapped compile includes.  The build tool's own commands  *)
(* carry neither of the flags f1x-cc adds, and no header has the name of    *)
(* the flag.                                                                *)
OwnFlags == {"--coverage", "-include"}
OwnFlagsOnly ==
    /\ \A c \in Commands : OwnFlags \cap Range(c.args) = {}
    /\ \A e \in UserEnvs : e["F1X_RUNTIME_H"] # "-include"

H == "F1X_RUNTIME_H"
Headers == {"profile.h", "rt.h"}

\* What the variable is outside of the scopes of this run.
Outside == IF ghost.user[H] # None THEN ghost.user[H] ELSE ghost.first

\* The scope of a build gives the variable the value expected of the build, and
\* will put back the one it has outside.
Scoped ==
    /\ DOMAIN env = Vars
    /\ ghost.user \in UserEnvs
    /\ ghost.first \in {None} \cup Headers
    /\ phase \in {"initial", "check", "adjust", "ready", "compiled"} => env[H] = Outside
    /\ phase \in {"building", "dump"} =>
          (IF H \in DOMAIN original THEN original[H] ELSE env[H]) = Outside
    /\ phase = "building" => env[H] = HeaderExpected
    /\ phase = "compiled" \/ (phase = "building" /\ build.kind = "runtime") =>
          build.header \in Headers

Unflagged(args) == args \in Seq(STRING) /\ OwnFlags \cap Range(args) = {}
Askers == {"sh", "f1x-cc"} \cup CompilerWrappers

\* A process of the build has f1x's value of the variable, and one that runs
\* another program has not met the flags.
Inherited(p) ==
    /\ H \in DOMAIN p.env
    /\ p.env[H] = env[H]
    /\ p.cmd.prog \in Askers => Unflagged(p.cmd.args)
Tree == phase = "building" => \A pid \in DOMAIN procs : Inherited(procs[pid])

HInv == IInv /\ Scoped /\ Tree /\ HeaderOfBuild

---------------------------------------------------------------------------
\* The interception replaces its own two variables only.
LEMMA PassedKeeps ==
  ASSUME NEW p, NEW e, H \in DOMAIN e
  PROVE  H \in DOMAIN Passed(p, e) /\ Passed(p, e)[H] = e[H]
<1>1. H \notin Range(EnvNames) BY DEF EnvNames, Range, H
<1>2. H \in DOMAIN bear_update_environment(e, p.captured)
      /\ bear_update_environment(e, p.captured)[H] = e[H]
  BY <1>1 DEF bear_update_environment
<1> QED BY <1>2 DEF Passed

\* Neither does what a process strips from the environment it passes on.
LEMMA EnvironmentsKeep ==
  ASSUME NEW p, H \in DOMAIN p.env, NEW e \in Environments(p)
  PROVE  H \in DOMAIN e /\ e[H] = p.env[H]
BY DEF Environments, H

\* A command without its first word is as free of the flags.
LEMMA TailUnflagged ==
  ASSUME NEW args, Unflagged(args), args # <<>>
  PROVE  Unflagged(Tail(args)) /\ Head(args) \in STRING
<1>1. args \in Seq(STRING) /\ Len(args) > 0 BY DEF Unflagged
<1>2. Tail(args) \in Seq(STRING) /\ Head(args) \in STRING BY <1>1
<1>3. \A i \in DOMAIN Tail(args) : i + 1 \in DOMAIN args /\ Tail(args)[i] = args[i + 1] BY <1>1
<1>4. Range(Tail(args)) \subseteq Range(args) BY <1>3 DEF Range
<1> QED BY <1>2, <1>4 DEF Unflagged

\* What HeaderOfBuild says of one call.
Includes(args, h) ==
  "--coverage" \in Range(args) =>
    IF h = None THEN "-include" \notin Range(args)
    ELSE {args[i + 1] : i \in {j \in DOMAIN args : args[j] = "-include"}} = {h}

\* The wrapper adds the one header, or none.
LEMMA WrapperIncludes ==
  ASSUME NEW p, Unflagged(p.cmd.args), p.env[H] # "-include"
  PROVE  Wrapped(p).prog = "gcc" /\ Includes(Wrapped(p).args, p.env[H])
<1> DEFINE a == p.cmd.args
           h == p.env[H]
<1>1. a \in Seq(STRING) /\ \A i \in DOMAIN a : a[i] \notin OwnFlags BY DEF Unflagged, Range
<1>2. CASE h = None
  <2> DEFINE w == <<"--coverage">> \o a
  <2>1. Wrapped(p).args = w BY <1>2 DEF Wrapped, H
  <2>2. \A j \in DOMAIN w : w[j] = "--coverage" \/ \E i \in DOMAIN a : w[j] = a[i]
    <3> SUFFICES ASSUME NEW j \in DOMAIN w, j # 1
                 PROVE  j - 1 \in DOMAIN a /\ w[j] = a[j - 1]
      OBVIOUS
    <3> QED BY <1>1
  <2>3. "-include" \notin Range(w) BY <1>1, <2>2 DEF Range, OwnFlags
  <2> QED BY <1>2, <2>1, <2>3 DEF Includes, Wrapped
<1>3. CASE h # None
  <2> DEFINE w == <<"--coverage", "-include", h>> \o a \o <<"-l", "f1xrt">>
  <2>1. Wrapped(p).args = w BY <1>3 DEF Wrapped, H
  <2>2. DOMAIN w = 1..(Len(a) + 5) /\ w[1] = "--coverage" /\ w[2] = "-include" /\ w[3] = h
    BY <1>1
  <2>3. \A j \in DOMAIN w : j > 3 => w[j] # "-include"
    <3> SUFFICES ASSUME NEW j \in DOMAIN w, j > 3 PROVE w[j] # "-include"
      OBVIOUS
    <3>1. CASE j <= Len(a) + 3
      <4>1. j - 3 \in DOMAIN a /\ w[j] = a[j - 3] BY <1>1, <2>2, <3>1
      <4> QED BY <1>1, <4>1 DEF OwnFlags
    <3>2. CASE j > Len(a) + 3
      <4>1. w[j] = "-l" \/ w[j] = "f1xrt" BY <1>1, <2>2, <3>2
      <4> QED BY <4>1
    <3> QED BY <3>1, <3>2, <1>1, <2>2
  <2>4. {j \in DOMAIN w : w[j] = "-include"} = {2} BY <1>1, <2>2, <2>3
  <2>5. {w[i + 1] : i \in {j \in DOMAIN w : w[j] = "-include"}} = {h} BY <2>2, <2>4
  <2> QED BY <1>3, <2>1, <2>5 DEF Includes, Wrapped
<1> QED BY <1>2, <1>3

\* A command that a process of the build runs is the build tool's own, without
\* the flags, or the wrapper's, with the header of the process.
LEMMA AskedCommands ==
  ASSUME OwnFlagsOnly, NEW p, Inherited(p), env[H] # "-include",
         NEW cmd \in Asked(p)
  PROVE  Unflagged(cmd.args) \/ (cmd.prog = "gcc" /\ Includes(cmd.args, env[H]))
<1>1. CASE p.cmd.prog = "f1x-cc"
  <2>1. Unflagged(p.cmd.args) BY <1>1 DEF Inherited, Askers
  <2>2. cmd = Wrapped(p) BY <1>1 DEF Asked
  <2> QED BY <2>1, <2>2, WrapperIncludes DEF Inherited
<1>2. CASE p.cmd.prog = "sh"
  <2>1. PICK c \in Commands : cmd.args = c.args
    <3>1. PICK c \in Commands :
            cmd = [c EXCEPT !.prog = IF @ = "$CC" /\ p.env["CC"] # None THEN p.env["CC"]
                                     ELSE IF @ = "$CC" THEN "cc" ELSE @]
      BY <1>2 DEF Asked
    <3>2. c \in [prog : STRING, args : Seq(STRING)] BY BuildAssumption
    <3> QED BY <3>1, <3>2
  <2>2. c.args \in Seq(STRING) BY BuildAssumption
  <2> QED BY <2>1, <2>2 DEF Unflagged, OwnFlagsOnly
<1>3. CASE p.cmd.prog \in CompilerWrappers /\ p.cmd.args # <<>> /\ p.cmd.prog \notin {"sh", "f1x-cc"}
  <2>1. Unflagged(p.cmd.args) BY <1>3 DEF Inherited, Askers
  <2>2. cmd = [prog |-> Head(p.cmd.args), args |-> Tail(p.cmd.args)] BY <1>3 DEF Asked
  <2> QED BY <1>3, <2>1, <2>2, TailUnflagged
<1> QED BY <1>1, <1>2, <1>3 DEF Asked

\* The history's record of such a command, seen through a compiler wrapper.
LEMMA CalledIncludes ==
  ASSUME NEW cmd, NEW h, CompilesSource(cmd),
         Unflagged(cmd.args) \/ (cmd.prog = "gcc" /\ Includes(cmd.args, h))
  PROVE  Includes(Unwrapped(cmd).args, h)
<1>1. "gcc" \notin CompilerWrappers BY DEF CompilerWrappers
<1>2. cmd.args # <<>> BY DEF CompilesSource, Range
<1>3. CASE cmd.prog = "gcc" /\ Includes(cmd.args, h) BY <1>1, <1>3 DEF Unwrapped
<1>4. CASE Unflagged(cmd.args)
  <2>1. Unflagged(Unwrapped(cmd).args) BY <1>2, <1>4, TailUnflagged DEF Unwrapped
  <2> QED BY <2>1 DEF Includes, Unflagged, OwnFlags
<1> QED BY <1>3, <1>4

\* A process that a call starts has f1x's value of the variable too.
LEMMA ImageInherits ==
  ASSUME OwnFlagsOnly, NEW p, Inherited(p), env[H] # "-include",
         NEW cmd \in Asked(p), NEW e \in Environments(p)
  PROVE  Inherited(Loaded(cmd, Passed(p, e)))
<1>1. Loaded(cmd, Passed(p, e)).cmd = cmd /\ Loaded(cmd, Passed(p, e)).env = Passed(p, e)
  BY DEF Loaded
<1>2. H \in DOMAIN Passed(p, e) /\ Passed(p, e)[H] = env[H]
  BY EnvironmentsKeep, PassedKeeps DEF Inherited
<1>3. cmd.prog \in Askers => Unflagged(cmd.args)
  BY AskedCommands DEF Askers, CompilerWrappers
<1> QED BY <1>1, <1>2, <1>3 DEF Inherited

---------------------------------------------------------------------------
\* The value of the variable in a build is one that the wrapper can use.
LEMMA ScopedValue ==
  ASSUME OwnFlagsOnly, Scoped, phase = "building"
  PROVE  env[H] # "-include" /\ HeaderExpected = env[H]
<1>1. \A e \in UserEnvs : e[H] # "-include" BY DEF OwnFlagsOnly, H
<1>2. build.kind = "runtime" => build.header \in Headers BY DEF Scoped
<1>3. ghost.user \in UserEnvs /\ ghost.first \in {None} \cup Headers BY DEF Scoped
<1>4. HeaderExpected = env[H] BY DEF Scoped
<1>5. \A h \in {None} \cup Headers : h # "-include" BY DEF Headers, None
<1>6. CASE build.kind = "runtime"
  <2>1. HeaderExpected = build.header BY <1>6 DEF HeaderExpected
  <2> QED BY <1>2, <1>4, <1>5, <1>6, <2>1
<1>7. CASE build.kind # "runtime"
  <2>1. HeaderExpected \in {ghost.user[H], ghost.first} BY <1>7 DEF HeaderExpected, H
  <2> QED BY <1>1, <1>3, <1>4, <1>5, <2>1
<1> QED BY <1>6, <1>7

\* The property, call by call.
LEMMA PropertyByCall ==
  HeaderOfBuild <=>
    (phase = "building" => \A c \in ghost.compiled : Includes(c.cmd.args, HeaderExpected))
BY DEF HeaderOfBuild, Includes

LEMMA InitHInv == Init => HInv
<1> SUFFICES ASSUME Init PROVE HInv
  OBVIOUS
<1>1. IInv BY InitInv
<1>2. phase = "idle" BY DEF Init
<1>3. DOMAIN env = Vars BY BuildAssumption DEF Init
<1>4. ghost.user = env /\ ghost.first = None BY DEF Init
<1>5. Scoped BY <1>2, <1>3, <1>4 DEF Scoped, Init
<1> QED BY <1>1, <1>2, <1>5 DEF HInv, Tree, HeaderOfBuild

\* A build opens its scope.
LEMMA RunOpens ==
  ASSUME DamageShows, Scoped, env[H] = Outside,
         NEW kind, NEW header, NEW bear, NEW e, DOMAIN e \subseteq Vars,
         Run(kind, header, bear, e),
         \/ kind = "runtime" /\ header \in Headers /\ H \in DOMAIN e /\ e[H] = header
         \/ kind # "runtime" /\ header = None /\ H \notin DOMAIN e
  PROVE  Scoped' /\ Tree' /\ HeaderOfBuild'
<1> DEFINE scoped == [v \in Vars |-> IF v \in DOMAIN e THEN e[v] ELSE env[v]]
           sh == Loaded([prog |-> "f1x-bear", args |-> <<>>], scoped)
           given == IF bear THEN Passed(sh, setup_environment(scoped)) ELSE scoped
<1>1. H \in Vars BY DEF H, Vars
<1>2. env' = scoped /\ original' = [v \in {w \in DOMAIN e : env[w] # None} |-> env[v]]
  BY DEF Run, Enter
<1>3. ghost'.user = ghost.user /\ ghost'.compiled = {}
      /\ ghost'.first = IF ghost.first = None THEN header ELSE ghost.first
  BY DEF Run, DamageShows
<1>4. phase' = "building" /\ build'.kind = kind /\ build'.header = header BY DEF Run
<1>5. Scoped'
  <2>1. DOMAIN env' = Vars BY <1>2
  <2>2. ghost'.user \in UserEnvs /\ ghost'.first \in {None} \cup Headers
    BY <1>3 DEF Scoped
  <2>3. env'[H] = HeaderExpected'
    BY <1>1, <1>2, <1>3, <1>4 DEF HeaderExpected, Outside, H
  <2>4. (IF H \in DOMAIN original' THEN original'[H] ELSE env'[H]) = Outside'
    <3>1. CASE H \in DOMAIN original'
      <4>1. original'[H] = env[H] /\ env[H] # None BY <1>2, <3>1
      <4> QED BY <3>1, <4>1, <1>3 DEF Outside
    <3>2. CASE H \notin DOMAIN original'
      BY <1>1, <1>2, <1>3, <3>2 DEF Outside
    <3> QED BY <3>1, <3>2
  <2> QED BY <1>4, <2>1, <2>2, <2>3, <2>4 DEF Scoped
<1>6. Tree'
  <2>1. H \in DOMAIN given /\ given[H] = env'[H]
    <3>1. H \in DOMAIN setup_environment(scoped) /\ setup_environment(scoped)[H] = scoped[H]
      BY <1>1 DEF setup_environment, H
    <3>2. H \in DOMAIN Passed(sh, setup_environment(scoped))
          /\ Passed(sh, setup_environment(scoped))[H] = scoped[H]
      BY <3>1, PassedKeeps
    <3> QED BY <1>1, <1>2, <3>2
  <2>2. procs' = [pid \in {1} |-> Loaded([prog |-> "sh", args |-> <<>>], given)]
    BY DEF Run
  <2>3. Unflagged(<<>>) BY DEF Unflagged, Range
  <2>4. \A pid \in DOMAIN procs' : procs'[pid].env = given /\ procs'[pid].cmd.args = <<>>
    BY <2>2 DEF Loaded
  <2> HIDE DEF given
  <2> SUFFICES ASSUME NEW pid \in DOMAIN procs' PROVE Inherited(procs[pid])'
    BY DEF Tree
  <2> QED BY <2>1, <2>3, <2>4 DEF Inherited
<1>7. HeaderOfBuild' BY <1>3 DEF HeaderOfBuild
<1> QED BY <1>5, <1>6, <1>7

\* The end of a build closes it.
LEMMA LeaveCloses ==
  ASSUME Scoped, phase \in {"building", "dump"}, Leave,
         ghost'.user = ghost.user, ghost'.first = ghost.first,
         phase' \in {"check", "ready"}
  PROVE  Scoped'
<1>1. H \in Vars BY DEF H, Vars
<1>2. DOMAIN env' = Vars /\ env'[H] = Outside BY <1>1 DEF Leave, Scoped
<1>3. Outside' = Outside BY DEF Outside
<1> QED BY <1>2, <1>3 DEF Scoped

\* A call keeps the tree and adds at most its own record.
LEMMA CallKeeps ==
  ASSUME OwnFlagsOnly, DamageShows, Scoped, Tree, HeaderOfBuild, phase = "building",
         UNCHANGED <<phase, env, original, build>>,
         NEW pid \in DOMAIN procs, NEW cmd \in Asked(procs[pid]),
         NEW e \in Environments(procs[pid]), NEW found, ghost' = Called(cmd, found),
         \A q \in DOMAIN procs' :
            \/ procs'[q] = Loaded(cmd, Passed(procs[pid], e))
            \/ q \in DOMAIN procs /\ procs'[q] = procs[q]
  PROVE  Scoped' /\ Tree' /\ HeaderOfBuild'
<1>1. Inherited(procs[pid]) BY DEF Tree
<1>2. env[H] # "-include" /\ HeaderExpected = env[H] BY ScopedValue
<1>3. ghost'.user = ghost.user /\ ghost'.first = ghost.first
      /\ ghost'.compiled = IF CompilesSource(cmd)
                           THEN ghost.compiled \cup {[cmd |-> Unwrapped(cmd), ran |-> found]}
                           ELSE ghost.compiled
  BY DEF Called, DamageShows
<1>4. HeaderExpected' = HeaderExpected /\ Outside' = Outside
  BY <1>3 DEF HeaderExpected, Outside
<1>5. Scoped' BY <1>3, <1>4 DEF Scoped
<1>6. Tree'
  <2> SUFFICES ASSUME NEW q \in DOMAIN procs' PROVE Inherited(procs'[q])
    BY DEF Tree, Inherited
  <2>1. CASE procs'[q] = Loaded(cmd, Passed(procs[pid], e))
    BY <1>1, <1>2, <2>1, ImageInherits
  <2>2. CASE q \in DOMAIN procs /\ procs'[q] = procs[q] BY <2>2 DEF Tree
  <2> QED BY <2>1, <2>2
<1>7. HeaderOfBuild'
  <2> SUFFICES ASSUME NEW c \in ghost'.compiled PROVE Includes(c.cmd.args, HeaderExpected)
    BY <1>4 DEF HeaderOfBuild, Includes
  <2>1. CASE c \in ghost.compiled BY <2>1, PropertyByCall
  <2>2. CASE CompilesSource(cmd) /\ c = [cmd |-> Unwrapped(cmd), ran |-> found]
    <3>1. Unflagged(cmd.args) \/ (cmd.prog = "gcc" /\ Includes(cmd.args, env[H]))
      BY <1>1, <1>2, AskedCommands
    <3>2. Includes(Unwrapped(cmd).args, env[H]) BY <2>2, <3>1, CalledIncludes
    <3> QED BY <1>2, <2>2, <3>2
  <2> QED BY <1>3, <2>1, <2>2
<1> QED BY <1>5, <1>6, <1>7

LEMMA StepHInv == OwnFlagsOnly /\ HInv /\ [Next]_vars => HInv'
<1> SUFFICES ASSUME OwnFlagsOnly, HInv, [Next]_vars PROVE HInv'
  OBVIOUS
<1>i. IInv' BY StepInv DEF HInv
<1>d. DamageShows /\ Scoped /\ Tree /\ HeaderOfBuild BY DEF HInv, IInv
<1>q. ASSUME Scoped', phase' # "building" PROVE HInv'
  BY <1>i, <1>q DEF HInv, Tree, HeaderOfBuild
<1>r. ASSUME Scoped', Tree', HeaderOfBuild' PROVE HInv' BY <1>i, <1>r DEF HInv
<1>1. CASE Start
  <2>1. PICK e \in UserEnvs :
          env' = e /\ ghost' = [ghost EXCEPT !.user = e, !.first = None, !.adjusted = FALSE]
    BY <1>1 DEF Start
  <2>2. ghost'.user = e /\ ghost'.first = None BY <1>d, <2>1 DEF DamageShows
  <2>3. DOMAIN e = Vars BY BuildAssumption
  <2>4. phase' = "initial" BY <1>1 DEF Start
  <2>5. Scoped' BY <2>1, <2>2, <2>3, <2>4 DEF Scoped, Outside
  <2> QED BY <1>q, <2>4, <2>5
<1>2. CASE Abort
  <2>1. phase' = "aborted" /\ env' = env BY <1>2 DEF Abort
  <2>2. ghost'.user = ghost.user /\ ghost'.first = ghost.first
    BY <1>2, <1>d DEF Abort, Forgotten, DamageShows
  <2>3. Scoped' BY <1>d, <2>1, <2>2 DEF Scoped
  <2> QED BY <1>q, <2>1, <2>3
<1>3. CASE initialBuild \/ buildProject
  <2>1. PICK kind, bear : Run(kind, None, bear, Compilers) /\ kind \in {"initial", "build"}
    BY <1>3 DEF initialBuild, buildProject
  <2>2. phase \in {"initial", "ready"} BY <1>3 DEF initialBuild, buildProject
  <2>3. DOMAIN Compilers \subseteq Vars /\ H \notin DOMAIN Compilers BY DEF Compilers, Vars, H
  <2>4. env[H] = Outside BY <1>d, <2>2 DEF Scoped
  <2>5. Scoped' /\ Tree' /\ HeaderOfBuild' BY <1>d, <2>1, <2>3, <2>4, RunOpens
  <2> QED BY <1>r, <2>5
<1>4. CASE compileProfiler \/ compileRuntime
  <2>1. phase = "ready" /\ phase' = "compiled" /\ UNCHANGED <<env, original, ghost>>
        /\ build'.header \in Headers
    BY <1>4 DEF compileProfiler, compileRuntime, Compile, Headers
  <2>2. Scoped' BY <1>d, <2>1 DEF Scoped, Outside
  <2> QED BY <1>q, <2>1, <2>2
<1>5. CASE buildWithRuntime
  <2> DEFINE h == build.header
             e == [v \in {"CC", "F1X_RUNTIME_H", "LD_LIBRARY_PATH"} |->
                     CASE v = "CC" -> "f1x-cc" [] v = "F1X_RUNTIME_H" -> h [] OTHER -> "datadir"]
  <2>1. phase = "compiled" /\ Run("runtime", h, FALSE, e) BY <1>5 DEF buildWithRuntime
  <2>2. DOMAIN e \subseteq Vars /\ H \in DOMAIN e /\ e[H] = h BY DEF Vars, H
  <2>3. h \in Headers /\ env[H] = Outside BY <1>d, <2>1 DEF Scoped
  <2> HIDE DEF e
  <2>4. Scoped' /\ Tree' /\ HeaderOfBuild' BY <1>d, <2>1, <2>2, <2>3, RunOpens
  <2> QED BY <1>r, <2>4
<1>6. CASE ForkExec
  <2>p. PICK pid \in DOMAIN procs, child \in Pids \ DOMAIN procs, found \in BOOLEAN :
          \E cmd \in Asked(procs[pid]), e \in Environments(procs[pid]) :
            /\ procs' = IF found THEN [p \in DOMAIN procs \cup {child} |->
                                         IF p = child THEN Loaded(cmd, Passed(procs[pid], e))
                                         ELSE procs[p]] ELSE procs
            /\ ghost' = Called(cmd, found)
    BY <1>6 DEF ForkExec
  <2>1. PICK cmd \in Asked(procs[pid]), e \in Environments(procs[pid]) :
          /\ procs' = IF found THEN [p \in DOMAIN procs \cup {child} |->
                                       IF p = child THEN Loaded(cmd, Passed(procs[pid], e))
                                       ELSE procs[p]] ELSE procs
          /\ ghost' = Called(cmd, found)
    BY <2>p
  <2>2. phase = "building" /\ UNCHANGED <<phase, env, original, build>> BY <1>6 DEF ForkExec
  <2>3. \A q \in DOMAIN procs' : \/ procs'[q] = Loaded(cmd, Passed(procs[pid], e))
                                 \/ q \in DOMAIN procs /\ procs'[q] = procs[q]
    BY <2>1
  <2>4. Scoped' /\ Tree' /\ HeaderOfBuild' BY <1>d, <2>1, <2>2, <2>3, CallKeeps
  <2> QED BY <1>r, <2>4
<1>7. CASE Exec
  <2>p. PICK pid \in DOMAIN procs :
          \E cmd \in Asked(procs[pid]), e \in Environments(procs[pid]) :
            /\ procs' = [procs EXCEPT ![pid] = Loaded(cmd, Passed(procs[pid], e))]
            /\ ghost' = Called(cmd, TRUE)
    BY <1>7 DEF Exec
  <2>1. PICK cmd \in Asked(procs[pid]), e \in Environments(procs[pid]) :
          /\ procs' = [procs EXCEPT ![pid] = Loaded(cmd, Passed(procs[pid], e))]
          /\ ghost' = Called(cmd, TRUE)
    BY <2>p
  <2>2. phase = "building" /\ UNCHANGED <<phase, env, original, build>> BY <1>7 DEF Exec
  <2>3. \A q \in DOMAIN procs' : \/ procs'[q] = Loaded(cmd, Passed(procs[pid], e))
                                 \/ q \in DOMAIN procs /\ procs'[q] = procs[q]
    BY <2>1
  <2>4. Scoped' /\ Tree' /\ HeaderOfBuild' BY <1>d, <2>1, <2>2, <2>3, CallKeeps
  <2> QED BY <1>r, <2>4
<1>8. CASE Exit
  <2>1. UNCHANGED <<phase, env, original, build, ghost>> BY <1>8 DEF Exit
  <2>2. \A q \in DOMAIN procs' : q \in DOMAIN procs /\ procs'[q] = procs[q]
    BY <1>8 DEF Exit, Restrict
  <2>3. Scoped' BY <1>d, <2>1 DEF Scoped, Outside, HeaderExpected
  <2>4. Tree' BY <1>d, <2>1, <2>2 DEF Tree, Inherited
  <2>5. HeaderOfBuild' BY <1>d, <2>1 DEF HeaderOfBuild, HeaderExpected
  <2> QED BY <1>r, <2>3, <2>4, <2>5
<1>9. CASE Finish /\ build.bear
  <2>1. phase = "building" /\ phase' = "dump" /\ UNCHANGED <<env, original, build, ghost>>
    BY <1>9 DEF Finish
  <2>2. Scoped' BY <1>d, <2>1 DEF Scoped, Outside
  <2> QED BY <1>q, <2>1, <2>2
<1>10. CASE Finish /\ ~build.bear
  <2>1. phase = "building" /\ phase' \in {"check", "ready"} /\ Leave /\ Forgotten
    BY <1>10 DEF Finish
  <2>2. ghost'.user = ghost.user /\ ghost'.first = ghost.first
    BY <1>d, <2>1 DEF Forgotten, DamageShows
  <2>3. Scoped' BY <1>d, <2>1, <2>2, LeaveCloses
  <2> QED BY <1>q, <2>1, <2>3
<1>11. CASE Dump
  <2>1. phase = "dump" /\ phase' = "check" /\ Leave BY <1>11 DEF Dump
  <2>g. ghost'.user = ghost.user /\ ghost'.first = ghost.first
    BY <1>11, <1>d DEF Dump, CutShort, DamageShows
  <2>2. Scoped' BY <1>d, <2>1, <2>g, LeaveCloses
  <2> QED BY <1>q, <2>1, <2>2
<1>g. ASSUME Gone, ghost'.user = ghost.user, ghost'.first = ghost.first PROVE HInv'
  <2>1. phase' = "idle" /\ env' = ghost.user BY <1>g DEF Gone
  <2>2. ghost.user \in UserEnvs BY <1>d DEF Scoped
  <2>3. DOMAIN ghost.user = Vars BY <2>2, BuildAssumption
  <2>4. Scoped' BY <1>d, <1>g, <2>1, <2>3 DEF Scoped
  <2> QED BY <1>q, <2>1, <2>4
<1>12. CASE Check
  <2>1. ghost'.user = ghost.user /\ ghost'.first = ghost.first
    BY <1>12, <1>d DEF Check, Forgotten, DamageShows
  <2>2. CASE Gone BY <1>g, <2>1, <2>2
  <2>3. CASE ~Gone
    <3>1. phase = "check" /\ phase' = "adjust" /\ env' = env BY <1>12, <2>3 DEF Check
    <3>2. Scoped' BY <1>d, <2>1, <3>1 DEF Scoped, Outside
    <3> QED BY <1>q, <3>1, <3>2
  <2> QED BY <2>2, <2>3
<1>13. CASE Adjust
  <2>1. phase = "adjust" /\ phase' = "ready" /\ env' = env BY <1>13 DEF Adjust
  <2>g. ghost'.user = ghost.user /\ ghost'.first = ghost.first
    BY <1>13, <1>d DEF Adjust, CutShort, DamageShows
  <2>2. Scoped' BY <1>d, <2>1, <2>g DEF Scoped, Outside
  <2> QED BY <1>q, <2>1, <2>2
<1>14. CASE execute
  <2>1. phase = "ready" /\ phase' = "ready" /\ ghost' = ghost BY <1>14 DEF execute
  <2>2. DOMAIN env' = DOMAIN env /\ env'[H] = env[H] BY <1>14 DEF execute, H
  <2>3. Scoped' BY <1>d, <2>1, <2>2 DEF Scoped, Outside
  <2> QED BY <1>q, <2>1, <2>3
<1>15. CASE Quit BY <1>15, <1>g DEF Quit
<1>16. CASE Interrupt
  <2>1. ghost'.user = ghost.user /\ ghost'.first = ghost.first
    BY <1>16, <1>d DEF Interrupt, DamageShows
  <2> QED BY <1>16, <2>1, <1>g DEF Interrupt
<1>17. CASE UNCHANGED vars
  <2>1. Scoped' BY <1>17, <1>d DEF vars, Scoped, Outside, HeaderExpected
  <2>2. Tree' BY <1>17, <1>d DEF vars, Tree, Inherited
  <2>3. HeaderOfBuild' BY <1>17, <1>d DEF vars, HeaderOfBuild, HeaderExpected
  <2> QED BY <1>r, <2>1, <2>2, <2>3
<1> QED
  BY <1>1, <1>2, <1>3, <1>4, <1>5, <1>6, <1>7, <1>8, <1>9, <1>10, <1>11, <1>12, <1>13, <1>14,
     <1>15, <1>16, <1>17
  DEF Next

\* If the build tool's commands carry neither of the flags that f1x-cc adds, a
\* wrapped compile of a build with a runtime includes that build's header and
\* no other, and any other one includes what the user had set, or the header of
\* the first runtime build of the run.
THEOREM BuildsIncludeTheirHeader == OwnFlagsOnly /\ Spec => []HeaderOfBuild
<1>1. HInv => HeaderOfBuild BY DEF HInv
<1> SUFFICES ASSUME OwnFlagsOnly PROVE Spec => []HeaderOfBuild
  OBVIOUS
<1>2. HInv /\ [Next]_vars => HInv' BY StepHInv
<1> QED BY InitHInv, <1>1, <1>2, PTL DEF Spec

---------------------------------------------------------------------------
(* What the interception sees: whatever a process strips from the           *)
(* environment it passes on, the library is in every process of the build,  *)
(* and every call of a compiler is in the traces that bear reads.           *)
ReportedCalls == UNION {Range(traces[p]) : p \in Pids}
EveryCallReported ==
    phase \in {"building", "dump"} /\ Intercepted =>
        {c.cmd : c \in ghost.compiled} = {Unwrapped(d) : d \in {r \in ReportedCalls : CompilesSource(r)}}

Preload == "LD_PRELOAD"

\* No scope of f1x sets the variable that loads the library.
Untouched ==
    /\ DOMAIN env = Vars
    /\ ghost.user \in UserEnvs
    /\ Preload \notin DOMAIN original
    /\ env[Preload] = ghost.user[Preload]

\* A process with the library has the values of its parent.
Follows(p) ==
    /\ DOMAIN p.env = Vars
    /\ p.lib /\ p.captured[1] = "traces" /\ p.captured[2] = "libear"
Followed ==
    phase = "building" /\ Intercepted =>
        \A pid \in DOMAIN procs : pid \in Pids /\ Follows(procs[pid])

TracesWritten == DOMAIN traces = Pids /\ \A p \in Pids : traces[p] \in Seq(Range(traces[p]))

RInv == IInv /\ Untouched /\ Followed /\ TracesWritten /\ EveryCallReported

---------------------------------------------------------------------------
\* What update_environment writes, name by name.
LEMMA Restored ==
  ASSUME NEW p, Follows(p), NEW e, DOMAIN e = Vars
  PROVE  /\ DOMAIN Passed(p, e) = Vars
         /\ Passed(p, e)["BEAR_OUTPUT"] = "traces"
         /\ Passed(p, e)["LD_PRELOAD"] = "libear"
<1>1. Passed(p, e) = bear_update_environment(e, p.captured) BY DEF Passed, Follows
<1>2. /\ Len(EnvNames) = 2 /\ DOMAIN EnvNames = {1, 2}
      /\ EnvNames[1] = "BEAR_OUTPUT" /\ EnvNames[2] = "LD_PRELOAD"
  BY DEF EnvNames
<1>3. "BEAR_OUTPUT" \in Vars /\ "LD_PRELOAD" \in Vars BY DEF Vars
<1>4. "BEAR_OUTPUT" \in Range(EnvNames) /\ "LD_PRELOAD" \in Range(EnvNames) BY <1>2 DEF Range
<1>5. 1 .. Len(EnvNames) = {1, 2} BY <1>2
<1>6. \A i \in 1 .. Len(EnvNames) : p.captured[i] # None BY <1>5 DEF Follows, None
<1>7. \A v : \A i \in 1 .. Len(EnvNames) : EnvNames[i] = v => \A j \in 1 .. i : p.captured[j] # None
  BY <1>2, <1>5, <1>6
<1>8. (CHOOSE i \in 1 .. Len(EnvNames) : EnvNames[i] = "BEAR_OUTPUT") = 1 BY <1>2, <1>5
<1>9. (CHOOSE i \in 1 .. Len(EnvNames) : EnvNames[i] = "LD_PRELOAD") = 2 BY <1>2, <1>5
<1> DEFINE u == bear_update_environment(e, p.captured)
<1>10. DOMAIN u = Vars BY DEF bear_update_environment
<1>11. u["BEAR_OUTPUT"] = p.captured[1]
  BY <1>3, <1>4, <1>7, <1>8 DEF bear_update_environment
<1>12. u["LD_PRELOAD"] = p.captured[2]
  BY <1>3, <1>4, <1>7, <1>9 DEF bear_update_environment
<1> QED BY <1>1, <1>10, <1>11, <1>12 DEF Follows

\* An image that finds both variables follows.
LEMMA LoadedFollows ==
  ASSUME NEW cmd, NEW e, DOMAIN e = Vars, e["BEAR_OUTPUT"] = "traces", e["LD_PRELOAD"] = "libear"
  PROVE  Follows(Loaded(cmd, e))
<1>1. Len(EnvNames) = 2 /\ EnvNames[1] = "BEAR_OUTPUT" /\ EnvNames[2] = "LD_PRELOAD"
  BY DEF EnvNames
<1>2. 1 \in 1 .. Len(EnvNames) /\ 2 \in 1 .. Len(EnvNames) BY <1>1
<1>3. Loaded(cmd, e).captured = [i \in 1 .. Len(EnvNames) |-> e[EnvNames[i]]]
      /\ Loaded(cmd, e).lib /\ Loaded(cmd, e).env = e
  BY DEF Loaded
<1> QED BY <1>1, <1>2, <1>3 DEF Follows

LEMMA ChildFollows ==
  ASSUME NEW p, Follows(p), NEW cmd, NEW e \in Environments(p)
  PROVE  Follows(Loaded(cmd, Passed(p, e)))
<1>1. DOMAIN e = Vars BY DEF Environments, Follows
<1> QED BY <1>1, Restored, LoadedFollows

LEMMA AppendedRange ==
  ASSUME NEW s, s \in Seq(Range(s)), NEW c
  PROVE  /\ Range(Append(s, c)) = Range(s) \cup {c}
         /\ Append(s, c) \in Seq(Range(Append(s, c)))
<1> DEFINE R == Range(s) \cup {c}
<1>1. s \in Seq(R) /\ c \in R OBVIOUS
<1>2. Append(s, c) \in Seq(R) BY <1>1
<1>3. DOMAIN s = 1 .. Len(s) /\ Len(s) \in Nat OBVIOUS
<1>4. DOMAIN Append(s, c) = 1 .. (Len(s) + 1) BY <1>1
<1>5. Append(s, c)[Len(s) + 1] = c /\ \A i \in 1 .. Len(s) : Append(s, c)[i] = s[i] BY <1>1
<1>6. 1 .. (Len(s) + 1) = (1 .. Len(s)) \cup {Len(s) + 1} BY <1>3
<1>7. Range(Append(s, c)) = R BY <1>3, <1>4, <1>5, <1>6 DEF Range
<1> QED BY <1>2, <1>7

\* The report of a call: one more command in the traces, or none.
LEMMA Reported ==
  ASSUME TracesWritten, NEW pid, NEW p, NEW cmd, traces' = bear_report_call(pid, p, cmd)
  PROVE  /\ TracesWritten'
         /\ ReportedCalls' \subseteq ReportedCalls \cup {cmd}
         /\ Follows(p) /\ pid \in Pids => ReportedCalls' = ReportedCalls \cup {cmd}
<1>1. CASE traces' = [traces EXCEPT ![pid] = Append(@, cmd)] /\ pid \in Pids
  <2>1. DOMAIN traces' = Pids /\ traces'[pid] = Append(traces[pid], cmd)
        /\ \A q \in Pids : q # pid => traces'[q] = traces[q]
    BY <1>1 DEF TracesWritten
  <2>2. /\ Range(traces'[pid]) = Range(traces[pid]) \cup {cmd}
        /\ traces'[pid] \in Seq(Range(traces'[pid]))
    BY <1>1, <2>1, AppendedRange DEF TracesWritten
  <2>3. TracesWritten' BY <2>1, <2>2 DEF TracesWritten
  <2>4. ReportedCalls' = ReportedCalls \cup {cmd} BY <1>1, <2>1, <2>2 DEF ReportedCalls
  <2> QED BY <2>3, <2>4
<1>2. CASE traces' = traces /\ ~Follows(p) BY <1>2 DEF TracesWritten, ReportedCalls
<1>3. CASE pid \notin Pids
  <2>1. DOMAIN traces' = Pids /\ \A q \in Pids : traces'[q] = traces[q]
    BY <1>3 DEF bear_report_call, TracesWritten
  <2>2. ReportedCalls' = ReportedCalls BY <2>1 DEF ReportedCalls
  <2> QED BY <1>3, <2>1, <2>2 DEF TracesWritten
<1>4. Follows(p) => initialized(p) /\ p.captured[1] = "traces"
  <2>1. Len(EnvNames) = 2 BY DEF EnvNames
  <2>2. 1 .. Len(EnvNames) = {1, 2} BY <2>1
  <2> QED BY <2>2 DEF Follows, initialized, None
<1> QED BY <1>1, <1>2, <1>3, <1>4 DEF bear_report_call

LEMMA InitRInv == Init => RInv
<1> SUFFICES ASSUME Init PROVE RInv
  OBVIOUS
<1>1. IInv BY InitInv
<1>2. phase = "idle" /\ env \in UserEnvs /\ ghost.user = env /\ original = <<>>
      /\ traces = [p \in Pids |-> <<>>]
  BY DEF Init
<1>3. DOMAIN env = Vars BY <1>2, BuildAssumption
<1>4. TracesWritten BY <1>2 DEF TracesWritten
<1> QED BY <1>1, <1>2, <1>3, <1>4 DEF RInv, Untouched, Followed, EveryCallReported

\* A build starts with the shell, which follows if bear runs it.
LEMMA RunFollows ==
  ASSUME DamageShows, Untouched, NEW kind, NEW header, NEW bear, NEW e,
         DOMAIN e \subseteq Vars, Preload \notin DOMAIN e, Run(kind, header, bear, e)
  PROVE  Untouched' /\ Followed' /\ TracesWritten' /\ EveryCallReported'
<1> DEFINE scoped == [v \in Vars |-> IF v \in DOMAIN e THEN e[v] ELSE env[v]]
           python == Loaded([prog |-> "f1x-bear", args |-> <<>>], scoped)
           set == setup_environment(scoped)
           given == IF bear THEN Passed(python, set) ELSE scoped
<1>1. env' = scoped /\ original' = [v \in {w \in DOMAIN e : env[w] # None} |-> env[v]]
  BY DEF Run, Enter
<1>2. Preload \in Vars /\ "BEAR_OUTPUT" \in Vars BY DEF Preload, Vars
<1>3. ghost'.user = ghost.user /\ ghost'.compiled = {} BY DEF Run, DamageShows
<1>4. Untouched' BY <1>1, <1>2, <1>3 DEF Untouched
<1>5. /\ procs' = [pid \in {1} |-> Loaded([prog |-> "sh", args |-> <<>>], given)]
      /\ traces' = [p \in Pids |-> <<>>] /\ build'.bear = bear
  BY DEF Run
<1>6. Followed'
  <2> SUFFICES ASSUME bear, ghost.user["LD_PRELOAD"] # "libear"
               PROVE  Follows(Loaded([prog |-> "sh", args |-> <<>>], given))
    <3>1. 1 \in Pids BY BuildAssumption
    <3>2. DOMAIN procs' = {1}
          /\ procs'[1] = Loaded([prog |-> "sh", args |-> <<>>], given)
      BY <1>5
    <3>3. Follows(procs[1])' <=> Follows(procs'[1]) BY DEF Follows
    <3> HIDE DEF given
    <3> QED BY <1>3, <1>5, <3>1, <3>2 DEF Followed, Intercepted, Follows
  <2>1. scoped["LD_PRELOAD"] # "libear" BY <1>2 DEF Untouched, Preload
  <2>2. ~python.lib BY <2>1 DEF Loaded
  <2>3. given = set BY <2>2 DEF Passed
  <2>4. DOMAIN set = Vars /\ set["BEAR_OUTPUT"] = "traces" /\ set["LD_PRELOAD"] = "libear"
    BY <1>2 DEF setup_environment, Preload
  <2> QED BY <2>3, <2>4, LoadedFollows
<1>7. \A p \in Pids : traces'[p] = <<>> BY <1>5
<1>8. TracesWritten'
  <2>1. DOMAIN traces' = Pids BY <1>5
  <2>2. \A S : <<>> \in Seq(S) OBVIOUS
  <2> QED BY <1>7, <2>1, <2>2 DEF TracesWritten
<1>9. ReportedCalls' = {} BY <1>7 DEF ReportedCalls, Range
<1>10. EveryCallReported' BY <1>3, <1>9 DEF EveryCallReported
<1> QED BY <1>4, <1>6, <1>8, <1>10

\* A call is reported by the process that makes it, and its image follows.
LEMMA CallReported ==
  ASSUME RInv, phase = "building", UNCHANGED <<phase, env, original, build>>,
         NEW pid \in DOMAIN procs, NEW cmd, NEW e \in Environments(procs[pid]),
         NEW found, ghost' = Called(cmd, found),
         NEW reporter, Intercepted => reporter \in Pids,
         traces' = bear_report_call(reporter, procs[pid], cmd),
         \A q \in DOMAIN procs' :
            \/ q = reporter /\ procs'[q] = Loaded(cmd, Passed(procs[pid], e))
            \/ q \in DOMAIN procs /\ procs'[q] = procs[q]
  PROVE  Untouched' /\ Followed' /\ TracesWritten' /\ EveryCallReported'
<1> USE DEF RInv
<1>1. ghost'.user = ghost.user
      /\ ghost'.compiled = IF CompilesSource(cmd)
                           THEN ghost.compiled \cup {[cmd |-> Unwrapped(cmd), ran |-> found]}
                           ELSE ghost.compiled
  BY DEF Called, IInv, DamageShows
<1>2. Untouched' BY <1>1 DEF Untouched
<1>3. Intercepted' <=> Intercepted BY <1>1 DEF Intercepted
<1>4. ASSUME Intercepted PROVE Follows(procs[pid]) BY <1>4 DEF Followed
<1>5. Followed'
  <2> SUFFICES ASSUME Intercepted, NEW q \in DOMAIN procs'
               PROVE  q \in Pids /\ Follows(procs'[q])
    BY <1>3 DEF Followed, Follows
  <2>1. CASE q = reporter /\ procs'[q] = Loaded(cmd, Passed(procs[pid], e))
    BY <1>4, <2>1, ChildFollows
  <2>2. CASE q \in DOMAIN procs /\ procs'[q] = procs[q] BY <2>2 DEF Followed
  <2> QED BY <2>1, <2>2
<1>6. TracesWritten' BY Reported
<1>7. EveryCallReported'
  <2> SUFFICES ASSUME Intercepted
               PROVE  {c.cmd : c \in ghost'.compiled}
                        = {Unwrapped(d) : d \in {r \in ReportedCalls' : CompilesSource(r)}}
    BY <1>3 DEF EveryCallReported
  <2>1. {c.cmd : c \in ghost.compiled}
          = {Unwrapped(d) : d \in {r \in ReportedCalls : CompilesSource(r)}}
    BY DEF EveryCallReported
  <2>2. ReportedCalls' = ReportedCalls \cup {cmd} BY <1>4, Reported
  <2>3. CASE CompilesSource(cmd)
    <3>1. {c.cmd : c \in ghost'.compiled} = {c.cmd : c \in ghost.compiled} \cup {Unwrapped(cmd)}
      <4> DEFINE new == [cmd |-> Unwrapped(cmd), ran |-> found]
      <4>1. ghost'.compiled = ghost.compiled \cup {new} /\ new.cmd = Unwrapped(cmd)
        BY <1>1, <2>3
      <4> HIDE DEF new
      <4> QED BY <4>1
    <3>2. {Unwrapped(d) : d \in {r \in ReportedCalls' : CompilesSource(r)}}
            = {Unwrapped(d) : d \in {r \in ReportedCalls : CompilesSource(r)}} \cup {Unwrapped(cmd)}
      BY <2>2, <2>3
    <3> QED BY <2>1, <3>1, <3>2
  <2>4. CASE ~CompilesSource(cmd)
    <3>1. {r \in ReportedCalls' : CompilesSource(r)} = {r \in ReportedCalls : CompilesSource(r)}
      BY <2>2, <2>4
    <3> QED BY <1>1, <2>1, <2>4, <3>1
  <2> QED BY <2>3, <2>4
<1> QED BY <1>2, <1>5, <1>6, <1>7

LEMMA StepRInv == RInv /\ [Next]_vars => RInv'
<1> SUFFICES ASSUME RInv, [Next]_vars PROVE RInv'
  OBVIOUS
<1>i. IInv /\ IInv' /\ DamageShows BY StepInv DEF RInv, IInv
<1>u. Untouched /\ Followed /\ TracesWritten /\ EveryCallReported BY DEF RInv
<1>p. Preload \in Vars BY DEF Preload, Vars
\* Steps that leave no build in progress.
<1>q. ASSUME Untouched', phase' \notin {"building", "dump"},
             \/ traces' = traces
             \/ traces' = [p \in Pids |-> <<>>]
      PROVE  RInv'
  <2>1. TracesWritten'
    <3>1. CASE traces' = traces BY <3>1, <1>u DEF TracesWritten
    <3>2. CASE traces' = [p \in Pids |-> <<>>] BY <3>2 DEF TracesWritten
    <3> QED BY <1>q, <3>1, <3>2
  <2> QED BY <1>i, <1>q, <2>1 DEF RInv, Followed, EveryCallReported
<1>r. ASSUME Untouched', Followed', TracesWritten', EveryCallReported' PROVE RInv'
  BY <1>i, <1>r DEF RInv
<1>1. CASE Start
  <2>1. PICK e \in UserEnvs :
          env' = e /\ ghost' = [ghost EXCEPT !.user = e, !.first = None, !.adjusted = FALSE]
    BY <1>1 DEF Start
  <2>2. ghost'.user = e BY <1>i, <2>1 DEF DamageShows
  <2>3. DOMAIN e = Vars BY BuildAssumption
  <2>4. phase' = "initial" /\ traces' = traces /\ original' = <<>> BY <1>1 DEF Start
  <2>5. Untouched' BY <2>1, <2>2, <2>3, <2>4 DEF Untouched
  <2> QED BY <1>q, <2>4, <2>5
<1>2. CASE Abort
  <2>1. phase' = "aborted" /\ UNCHANGED <<env, original>> /\ traces' = [p \in Pids |-> <<>>]
    BY <1>2 DEF Abort, Forgotten
  <2>2. ghost'.user = ghost.user BY <1>2, <1>i DEF Abort, Forgotten, DamageShows
  <2>3. Untouched' BY <1>u, <2>1, <2>2 DEF Untouched
  <2> QED BY <1>q, <2>1, <2>3
<1>3. CASE initialBuild \/ buildProject
  <2>1. PICK kind, bear : Run(kind, None, bear, Compilers)
    BY <1>3 DEF initialBuild, buildProject
  <2>2. DOMAIN Compilers \subseteq Vars /\ Preload \notin DOMAIN Compilers
    BY DEF Compilers, Vars, Preload
  <2>3. Untouched' /\ Followed' /\ TracesWritten' /\ EveryCallReported'
    BY <1>i, <1>u, <2>1, <2>2, RunFollows
  <2> QED BY <1>r, <2>3
<1>4. CASE compileProfiler \/ compileRuntime
  <2>1. phase' = "compiled" /\ UNCHANGED <<env, original, ghost, traces>>
    BY <1>4 DEF compileProfiler, compileRuntime, Compile
  <2>2. Untouched' BY <1>u, <2>1 DEF Untouched
  <2> QED BY <1>q, <2>1, <2>2
<1>5. CASE buildWithRuntime
  <2> DEFINE h == build.header
             e == [v \in {"CC", "F1X_RUNTIME_H", "LD_LIBRARY_PATH"} |->
                     CASE v = "CC" -> "f1x-cc" [] v = "F1X_RUNTIME_H" -> h [] OTHER -> "datadir"]
  <2>1. Run("runtime", h, FALSE, e) BY <1>5 DEF buildWithRuntime
  <2>2. DOMAIN e \subseteq Vars /\ Preload \notin DOMAIN e BY DEF Vars, Preload
  <2> HIDE DEF e
  <2>3. Untouched' /\ Followed' /\ TracesWritten' /\ EveryCallReported'
    BY <1>i, <1>u, <2>1, <2>2, RunFollows
  <2> QED BY <1>r, <2>3
<1>6. CASE ForkExec
  <2>p. PICK pid \in DOMAIN procs, child \in Pids \ DOMAIN procs, found \in BOOLEAN :
          \E cmd \in Asked(procs[pid]), e \in Environments(procs[pid]) :
            /\ traces' = bear_report_call(child, procs[pid], cmd)
            /\ procs' = IF found THEN [p \in DOMAIN procs \cup {child} |->
                                         IF p = child THEN Loaded(cmd, Passed(procs[pid], e))
                                         ELSE procs[p]] ELSE procs
            /\ ghost' = Called(cmd, found)
    BY <1>6 DEF ForkExec
  <2>1. PICK cmd \in Asked(procs[pid]), e \in Environments(procs[pid]) :
          /\ traces' = bear_report_call(child, procs[pid], cmd)
          /\ procs' = IF found THEN [p \in DOMAIN procs \cup {child} |->
                                       IF p = child THEN Loaded(cmd, Passed(procs[pid], e))
                                       ELSE procs[p]] ELSE procs
          /\ ghost' = Called(cmd, found)
    BY <2>p
  <2>2. phase = "building" /\ UNCHANGED <<phase, env, original, build>> BY <1>6 DEF ForkExec
  <2>3. \A q \in DOMAIN procs' :
           \/ q = child /\ procs'[q] = Loaded(cmd, Passed(procs[pid], e))
           \/ q \in DOMAIN procs /\ procs'[q] = procs[q]
    BY <2>1
  <2>4. Untouched' /\ Followed' /\ TracesWritten' /\ EveryCallReported'
    BY <2>1, <2>2, <2>3, CallReported
  <2> QED BY <1>r, <2>4
<1>7. CASE Exec
  <2>p. PICK pid \in DOMAIN procs :
          \E cmd \in Asked(procs[pid]), e \in Environments(procs[pid]) :
            /\ traces' = bear_report_call(pid, procs[pid], cmd)
            /\ procs' = [procs EXCEPT ![pid] = Loaded(cmd, Passed(procs[pid], e))]
            /\ ghost' = Called(cmd, TRUE)
    BY <1>7 DEF Exec
  <2>1. PICK cmd \in Asked(procs[pid]), e \in Environments(procs[pid]) :
          /\ traces' = bear_report_call(pid, procs[pid], cmd)
          /\ procs' = [procs EXCEPT ![pid] = Loaded(cmd, Passed(procs[pid], e))]
          /\ ghost' = Called(cmd, TRUE)
    BY <2>p
  <2>2. phase = "building" /\ UNCHANGED <<phase, env, original, build>> BY <1>7 DEF Exec
  <2>3. \A q \in DOMAIN procs' :
           \/ q = pid /\ procs'[q] = Loaded(cmd, Passed(procs[pid], e))
           \/ q \in DOMAIN procs /\ procs'[q] = procs[q]
    BY <2>1
  <2>4. Intercepted => pid \in Pids BY <1>u, <2>2 DEF Followed
  <2>5. Untouched' /\ Followed' /\ TracesWritten' /\ EveryCallReported'
    BY <2>1, <2>2, <2>3, <2>4, CallReported
  <2> QED BY <1>r, <2>5
<1>8. CASE Exit
  <2>1. UNCHANGED <<phase, env, original, build, traces, ghost>> BY <1>8 DEF Exit
  <2>2. \A q \in DOMAIN procs' : q \in DOMAIN procs /\ procs'[q] = procs[q]
    BY <1>8 DEF Exit, Restrict
  <2>3. Untouched' /\ TracesWritten' BY <1>u, <2>1 DEF Untouched, TracesWritten
  <2>4. Followed' BY <1>u, <2>1, <2>2 DEF Followed, Follows, Intercepted
  <2>5. EveryCallReported' BY <1>u, <2>1 DEF EveryCallReported, Intercepted, ReportedCalls
  <2> QED BY <1>r, <2>3, <2>4, <2>5
<1>9. CASE Finish /\ build.bear
  <2>1. phase = "building" /\ phase' = "dump" /\ UNCHANGED <<env, original, build, traces, ghost>>
    BY <1>9 DEF Finish
  <2>2. Untouched' /\ TracesWritten' BY <1>u, <2>1 DEF Untouched, TracesWritten
  <2>3. EveryCallReported' BY <1>u, <2>1 DEF EveryCallReported, Intercepted, ReportedCalls
  <2>4. Followed' BY <2>1 DEF Followed
  <2> QED BY <1>r, <2>2, <2>3, <2>4
<1>l. ASSUME Leave, ghost'.user = ghost.user PROVE Untouched'
  <2>1. DOMAIN env' = Vars /\ env'[Preload] = env[Preload] /\ original' = <<>>
    BY <1>l, <1>u, <1>p DEF Leave, Untouched
  <2> QED BY <1>l, <1>u, <2>1 DEF Untouched
<1>10. CASE Finish /\ ~build.bear
  <2>1. phase' \in {"check", "ready"} /\ Leave /\ Forgotten BY <1>10 DEF Finish
  <2>2. ghost'.user = ghost.user BY <1>i, <2>1 DEF Forgotten, DamageShows
  <2>3. Untouched' BY <1>l, <2>1, <2>2
  <2> QED BY <1>q, <2>1, <2>3 DEF Forgotten
<1>11. CASE Dump
  <2>1. phase' = "check" /\ Leave /\ traces' = traces BY <1>11 DEF Dump
  <2>g. ghost'.user = ghost.user BY <1>11, <1>i DEF Dump, CutShort, DamageShows
  <2>2. Untouched' BY <1>l, <2>1, <2>g
  <2> QED BY <1>q, <2>1, <2>2
<1>g. ASSUME Gone, ghost'.user = ghost.user,
             traces' = traces \/ traces' = [p \in Pids |-> <<>>]
      PROVE  RInv'
  <2>1. phase' = "idle" /\ env' = ghost.user /\ original' = <<>> BY <1>g DEF Gone
  <2>2. ghost.user \in UserEnvs BY <1>u DEF Untouched
  <2>3. DOMAIN ghost.user = Vars BY <2>2, BuildAssumption
  <2>4. Untouched' BY <1>g, <2>1, <2>2, <2>3 DEF Untouched
  <2> QED BY <1>q, <1>g, <2>1, <2>4
<1>12. CASE Check
  <2>1. ghost'.user = ghost.user /\ traces' = [p \in Pids |-> <<>>]
    BY <1>12, <1>i DEF Check, Forgotten, DamageShows
  <2>2. CASE Gone BY <1>g, <2>1, <2>2
  <2>3. CASE ~Gone
    <3>1. phase' = "adjust" /\ UNCHANGED <<env, original>> BY <1>12, <2>3 DEF Check
    <3>2. Untouched' BY <1>u, <2>1, <3>1 DEF Untouched
    <3> QED BY <1>q, <2>1, <3>1, <3>2
  <2> QED BY <2>2, <2>3
<1>13. CASE Adjust
  <2>1. phase' = "ready" /\ UNCHANGED <<env, original, traces>> BY <1>13 DEF Adjust
  <2>g. ghost'.user = ghost.user BY <1>13, <1>i DEF Adjust, CutShort, DamageShows
  <2>2. Untouched' BY <1>u, <2>1, <2>g DEF Untouched
  <2> QED BY <1>q, <2>1, <2>2
<1>14. CASE execute
  <2>1. phase' = "ready" /\ UNCHANGED <<original, traces, ghost>> BY <1>14 DEF execute
  <2>2. DOMAIN env' = DOMAIN env /\ env'[Preload] = env[Preload] BY <1>14 DEF execute, Preload
  <2>3. Untouched' BY <1>u, <2>1, <2>2 DEF Untouched
  <2> QED BY <1>q, <2>1, <2>3
<1>15. CASE Quit BY <1>15, <1>g DEF Quit
<1>16. CASE Interrupt
  <2>1. ghost'.user = ghost.user /\ traces' = [p \in Pids |-> <<>>]
    BY <1>16, <1>i DEF Interrupt, DamageShows
  <2> QED BY <1>16, <2>1, <1>g DEF Interrupt
<1>17. CASE UNCHANGED vars
  <2>1. UNCHANGED <<phase, env, original, build, procs, traces, ghost>> BY <1>17 DEF vars
  <2>2. Untouched' /\ TracesWritten' BY <1>u, <2>1 DEF Untouched, TracesWritten
  <2>3. Followed' BY <1>u, <2>1 DEF Followed, Follows, Intercepted
  <2>4. EveryCallReported' BY <1>u, <2>1 DEF EveryCallReported, Intercepted, ReportedCalls
  <2> QED BY <1>r, <2>2, <2>3, <2>4
<1> QED
  BY <1>1, <1>2, <1>3, <1>4, <1>5, <1>6, <1>7, <1>8, <1>9, <1>10, <1>11, <1>12, <1>13, <1>14,
     <1>15, <1>16, <1>17
  DEF Next

\* In a build under bear, the calls of compilers in the traces are those that
\* were made, whatever the processes of the build do to the environment that
\* they pass on: what the database is computed from is exact.
THEOREM CallsAreReported == Spec => []EveryCallReported
<1>1. RInv => EveryCallReported BY DEF RInv
<1> QED BY InitRInv, StepRInv, <1>1, PTL DEF Spec

---------------------------------------------------------------------------
(* The folds of bear.                                                       *)

\* What the filter does with an entry.
Kept(kept, e, existing) == IF e.file \notin existing \/ duplicate_check(kept, e)
                           THEN kept ELSE Append(kept, e)

\* The filter, entry by entry.
LEMMA DuplicatesInOrder ==
  ASSUME NEW E, NEW entries \in Seq(E), NEW existing
  PROVE  \E h \in [0 .. Len(entries) -> Seq(E)] :
            /\ h[0] = <<>>
            /\ \A i \in 1 .. Len(entries) : h[i] = Kept(h[i - 1], entries[i], existing)
            /\ Filtered(entries, existing) = h[Len(entries)]
<1> DEFINE n == Len(entries)
           V == Seq(E)
           S == DOMAIN entries
           Body(f) == [s \in SUBSET S |-> IF s = {} THEN <<>>
                                          ELSE Kept(f[s \ {Max(s)}], entries[Max(s)], existing)]
           fold == CHOOSE f : f = Body(f)
           step == [vi \in V \X S |-> Kept(vi[1], entries[vi[2]], existing)]
<1>1. Filtered(entries, existing) = fold[S] BY DEF Filtered, FoldLeft, MapThenFoldSet, Kept
<1>2. S = 1 .. n /\ n \in Nat OBVIOUS
<1>3. IsFiniteSet(S) /\ \A s \in SUBSET S : s # {} => LastOf(S)[s] \in s
  BY <1>2, Positions DEF LastOf
<1>4. \A kept \in V, i \in S : Kept(kept, entries[i], existing) \in V BY DEF Kept
<1>5. \A v \in V, i \in S : step[<<v, i>>] \in V BY <1>4
<1>6. <<>> \in V OBVIOUS
<1>v. V = Seq(E) OBVIOUS
<1>b. \A f : \A s \in SUBSET S : Body(f)[s] = IF s = {} THEN <<>>
                                              ELSE Kept(f[s \ {Max(s)}], entries[Max(s)], existing)
  OBVIOUS
<1>d. \A f : Body(f) = [s \in SUBSET S |-> Body(f)[s]] OBVIOUS
<1>s. \A v \in V, i \in S : step[<<v, i>>] = Kept(v, entries[i], existing) OBVIOUS
<1> HIDE DEF step, S, Body, n, V
<1>7. Foldable(S, V, <<>>, step, LastOf(S)) BY <1>3, <1>5, <1>6 DEF Foldable
<1>g. PICK g : Folds(g, S, V, <<>>, step, LastOf(S)) BY <1>7, FoldExists
<1>f. g \in [SUBSET S -> V]
      /\ \A s \in SUBSET S : g[s] = Step(g, <<>>, step, LastOf(S), s)
  BY <1>g DEF Folds
<1>8. \A s \in SUBSET S : g[s] = Body(g)[s]
  <2> TAKE s \in SUBSET S
  <2>1. CASE s = {} BY <1>f, <1>b, <2>1 DEF Step
  <2>2. CASE s # {}
    <3>1. LastOf(S)[s] = Max(s) /\ Max(s) \in S /\ s \ {Max(s)} \in SUBSET S
      BY <1>3, <2>2 DEF LastOf
    <3>2. g[s] = step[<<g[s \ {Max(s)}], Max(s)>>] BY <1>f, <2>2, <3>1 DEF Step
    <3>3. g[s \ {Max(s)}] \in V BY <1>f, <3>1
    <3> QED BY <1>b, <1>s, <2>2, <3>1, <3>2, <3>3
  <2> QED BY <2>1, <2>2
<1>9. g = Body(g)
  <2>1. g = [s \in SUBSET S |-> g[s]] BY <1>f
  <2> QED BY <1>8, <1>d, <2>1
<1>10. fold = Body(fold) BY <1>9
<1> HIDE DEF fold
<1>11. fold[{}] = <<>>
  <2>1. {} \in SUBSET S OBVIOUS
  <2> QED BY <1>10, <1>b, <2>1
<1>12. \A s \in SUBSET S : s # {} /\ fold[s \ {Max(s)}] \in V
                            => fold[s] = step[<<fold[s \ {Max(s)}], Max(s)>>]
  <2> SUFFICES ASSUME NEW s \in SUBSET S, s # {}, fold[s \ {Max(s)}] \in V
               PROVE  fold[s] = step[<<fold[s \ {Max(s)}], Max(s)>>]
    OBVIOUS
  <2>1. Max(s) \in S BY <1>3 DEF LastOf
  <2>2. fold[s] = Kept(fold[s \ {Max(s)}], entries[Max(s)], existing) BY <1>10, <1>b
  <2>3. step[<<fold[s \ {Max(s)}], Max(s)>>] = Kept(fold[s \ {Max(s)}], entries[Max(s)], existing)
    BY <1>s, <2>1
  <2> QED BY <2>2, <2>3
<1>13. TakesLast(fold, n, V, <<>>, step)
  <2>1. n \in Nat BY <1>2
  <2>2. \A v \in V : \A i \in 1 .. n : step[<<v, i>>] \in V
    <3>1. \A i \in 1 .. n : i \in S BY <1>2
    <3> QED BY <1>5, <3>1, Zenon
  <2>3. \A s \in SUBSET (1 .. n) : s # {} /\ fold[s \ {Max(s)}] \in V
                                  => fold[s] = step[<<fold[s \ {Max(s)}], Max(s)>>]
    BY <1>2, <1>12
  <2> QED BY <1>6, <1>11, <2>1, <2>2, <2>3 DEF TakesLast
<1>h. PICK h : InOrder(h, n, V, <<>>, step) /\ fold[1 .. n] = h[n] BY <1>13, FoldByPrefixes
<1>14. \A i \in 1 .. n : i - 1 \in 0 .. n /\ i \in S BY <1>2
<1>15. \A i \in 1 .. n : h[i] = Kept(h[i - 1], entries[i], existing) BY <1>h, <1>14, <1>s DEF InOrder
<1>16. h \in [0 .. n -> V] /\ h[0] = <<>> BY <1>h DEF InOrder
<1> QED BY <1>1, <1>2, <1>h, <1>15, <1>16, <1>v DEF n

\* Entries are left out, none is made up.
LEMMA DuplicatesLeftOut ==
  ASSUME NEW E, NEW entries \in Seq(E), NEW existing
  PROVE  Filtered(entries, existing) \in Seq(E)
<1>1. Len(entries) \in Nat OBVIOUS
<1>2. Len(entries) \in 0 .. Len(entries) BY <1>1
<1> QED BY <1>2, DuplicatesInOrder

\* Of all entries of existing files with the same hash one is left, and nothing
\* else.
LEMMA DuplicatesByHash ==
  ASSUME NEW E, NEW entries \in Seq(E), NEW existing, NEW d, d = Filtered(entries, existing)
  PROVE  /\ d \in Seq(E) /\ Range(d) \subseteq Range(entries)
         /\ \A e \in Range(d) : e.file \in existing
         /\ \A e \in Range(entries) : e.file \in existing =>
               \E k \in Range(d) : entry_hash(k) = entry_hash(e)
         /\ \A i, j \in DOMAIN d : entry_hash(d[i]) = entry_hash(d[j]) => i = j
<1> DEFINE n == Len(entries)
           Once1(s) == \A i, j \in DOMAIN s : entry_hash(s[i]) = entry_hash(s[j]) => i = j
           All(s, i) == \A m \in 1 .. i : entries[m].file \in existing =>
                           \E k \in Range(s) : entry_hash(k) = entry_hash(entries[m])
           There(s) == \A e \in Range(s) : e.file \in existing
           W == [i \in 0 .. n |-> {s \in Seq(E) : /\ Range(s) \subseteq Range(entries) /\ There(s)
                                                  /\ All(s, i) /\ Once1(s)}]
<1>1. n \in Nat /\ n \in 0 .. n /\ 0 \in 0 .. n /\ DOMAIN entries = 1 .. n OBVIOUS
<1>2. PICK h \in [0 .. n -> Seq(E)] :
         /\ h[0] = <<>>
         /\ \A i \in 1 .. n : h[i] = Kept(h[i - 1], entries[i], existing)
         /\ Filtered(entries, existing) = h[n]
  BY DuplicatesInOrder
<1>3. h[0] \in W[0]
  <2>1. Range(<<>>) = {} /\ DOMAIN <<>> = {} BY DEF Range
  <2>2. 1 .. 0 = {} OBVIOUS
  <2>3. All(<<>>, 0) /\ Once1(<<>>) /\ There(<<>>) BY <2>1, <2>2
  <2>4. <<>> \in Seq(E) OBVIOUS
  <2> HIDE DEF All, Once1, There
  <2> QED BY <1>1, <1>2, <2>1, <2>3, <2>4
<1>4. ASSUME NEW i \in 1 .. n, h[i - 1] \in W[i - 1] PROVE h[i] \in W[i]
  <2> DEFINE s == h[i - 1]
             e == entries[i]
  <2>1. i \in 0 .. n /\ i - 1 \in 0 .. n BY <1>1
  <2>2. s \in Seq(E) /\ Range(s) \subseteq Range(entries) /\ There(s)
        /\ All(s, i - 1) /\ Once1(s)
    BY <1>4, <2>1
  <2>3. h[i] = Kept(s, e, existing) /\ e \in E /\ e \in Range(entries) BY <1>1, <1>2 DEF Range
  <2>4. 1 .. i = (1 .. (i - 1)) \cup {i} BY <1>1
  <2> HIDE DEF s, W
  <2>5. CASE e.file \notin existing \/ \E k \in Range(s) : entry_hash(k) = entry_hash(e)
    <3>1. h[i] = s BY <2>3, <2>5 DEF Kept, duplicate_check
    <3>2. All(s, i) BY <2>2, <2>4, <2>5
    <3> HIDE DEF All, Once1, There
    <3> QED BY <2>1, <2>2, <3>1, <3>2 DEF W
  <2>6. CASE e.file \in existing /\ ~\E k \in Range(s) : entry_hash(k) = entry_hash(e)
    <3> DEFINE t == Append(s, e)
    <3> HIDE DEF e
    <3>1. h[i] = t BY <2>3, <2>6 DEF Kept, duplicate_check
    <3>2. t \in Seq(E) /\ Len(t) = Len(s) + 1 /\ Len(s) \in Nat /\ DOMAIN t = 1 .. (Len(s) + 1)
          /\ DOMAIN s = 1 .. Len(s) /\ t[Len(s) + 1] = e /\ \A m \in 1 .. Len(s) : t[m] = s[m]
      BY <2>2, <2>3
    <3> HIDE DEF t
    <3>3. 1 .. (Len(s) + 1) = (1 .. Len(s)) \cup {Len(s) + 1} BY <3>2
    <3>4. Range(t) = Range(s) \cup {e} BY <3>2, <3>3 DEF Range
    <3>5. All(t, i) BY <2>2, <2>4, <3>4 DEF e
    <3>6. Once1(t)
      <4> SUFFICES ASSUME NEW p \in DOMAIN t, NEW q \in DOMAIN t, entry_hash(t[p]) = entry_hash(t[q])
                   PROVE  p = q
        OBVIOUS
      <4>1. \A m \in 1 .. Len(s) : t[m] \in Range(s) BY <3>2 DEF Range
      <4>2. CASE p \in 1 .. Len(s) /\ q \in 1 .. Len(s) BY <2>2, <3>2, <4>2
      <4>3. CASE p \notin 1 .. Len(s) \/ q \notin 1 .. Len(s)
        <5>1. p = Len(s) + 1 \/ q = Len(s) + 1 BY <3>2, <3>3, <4>3
        <5>2. \A m \in 1 .. Len(s) : entry_hash(t[m]) # entry_hash(e) BY <2>6, <4>1
        <5> QED BY <3>2, <3>3, <5>1, <5>2
      <4> QED BY <4>2, <4>3
    <3>7. Range(t) \subseteq Range(entries) /\ There(t) BY <2>2, <2>3, <2>6, <3>4
    <3> HIDE DEF All, Once1, There
    <3> QED BY <2>1, <3>1, <3>2, <3>5, <3>6, <3>7 DEF W
  <2> QED BY <2>5, <2>6
<1> HIDE DEF W
<1>5. h[n] \in W[n] BY <1>1, <1>3, <1>4, PrefixInduction
<1>6. d \in Seq(E) /\ Range(d) \subseteq Range(entries) /\ There(d) /\ All(d, n) /\ Once1(d)
  BY <1>1, <1>2, <1>5 DEF W
<1>7. \A e \in Range(entries) : \E m \in 1 .. n : e = entries[m] BY <1>1 DEF Range
<1> QED BY <1>6, <1>7

\* What Flags does with the word at a position.
Flag(args, flags, i) == IF IsFlag(args, i) THEN Append(flags, args[i]) ELSE flags

\* Flags, word by word.
LEMMA FlagsInOrder ==
  ASSUME NEW W, NEW cmd, cmd.args \in Seq(W)
  PROVE  \E h \in [0 .. Len(cmd.args) -> Seq(W)] :
            /\ h[0] = <<>>
            /\ \A i \in 1 .. Len(cmd.args) : h[i] = Flag(cmd.args, h[i - 1], i)
            /\ Flags(cmd) = h[Len(cmd.args)]
<1> DEFINE args == cmd.args
           n == Len(args)
           V == Seq(W)
           places == [i \in DOMAIN args |-> i]
           S == DOMAIN places
           Body(f) == [s \in SUBSET S |-> IF s = {} THEN <<>>
                                          ELSE Flag(args, f[s \ {Max(s)}], places[Max(s)])]
           fold == CHOOSE f : f = Body(f)
           step == [vi \in V \X S |-> Flag(args, vi[1], places[vi[2]])]
<1>1. Flags(cmd) = fold[S] BY DEF Flags, FoldLeftDomain, FoldLeft, MapThenFoldSet, Flag
<1>2. S = 1 .. n /\ n \in Nat /\ \A i \in S : places[i] = i OBVIOUS
<1>3. IsFiniteSet(S) /\ \A s \in SUBSET S : s # {} => LastOf(S)[s] \in s
  BY <1>2, Positions DEF LastOf
<1>4. \A v \in V, i \in S : Flag(args, v, places[i]) \in V
  <2> SUFFICES ASSUME NEW v \in V, NEW i \in S PROVE Flag(args, v, i) \in V
    BY <1>2
  <2>1. args[i] \in W BY <1>2
  <2> QED BY <2>1 DEF Flag
<1>5. \A v \in V, i \in S : step[<<v, i>>] \in V
  <2> HIDE DEF V, S, args, places
  <2> QED BY <1>4
<1>6. <<>> \in V OBVIOUS
<1>v. V = Seq(W) OBVIOUS
<1>b. \A f : \A s \in SUBSET S : Body(f)[s] = IF s = {} THEN <<>>
                                              ELSE Flag(args, f[s \ {Max(s)}], places[Max(s)])
  OBVIOUS
<1>d. \A f : Body(f) = [s \in SUBSET S |-> Body(f)[s]] OBVIOUS
<1>s. \A v \in V, i \in S : step[<<v, i>>] = Flag(args, v, places[i])
  <2> HIDE DEF V, S, args, places
  <2> QED OBVIOUS
<1> HIDE DEF step, S, Body, n, V, args, places
<1>7. Foldable(S, V, <<>>, step, LastOf(S)) BY <1>3, <1>5, <1>6 DEF Foldable
<1>g. PICK g : Folds(g, S, V, <<>>, step, LastOf(S)) BY <1>7, FoldExists
<1>f. g \in [SUBSET S -> V]
      /\ \A s \in SUBSET S : g[s] = Step(g, <<>>, step, LastOf(S), s)
  BY <1>g DEF Folds
<1>8. \A s \in SUBSET S : g[s] = Body(g)[s]
  <2> TAKE s \in SUBSET S
  <2>1. CASE s = {} BY <1>f, <1>b, <2>1 DEF Step
  <2>2. CASE s # {}
    <3>1. LastOf(S)[s] = Max(s) /\ Max(s) \in S /\ s \ {Max(s)} \in SUBSET S
      BY <1>3, <2>2 DEF LastOf
    <3>2. g[s] = step[<<g[s \ {Max(s)}], Max(s)>>] BY <1>f, <2>2, <3>1 DEF Step
    <3>3. g[s \ {Max(s)}] \in V BY <1>f, <3>1
    <3> QED BY <1>b, <1>s, <2>2, <3>1, <3>2, <3>3
  <2> QED BY <2>1, <2>2
<1>9. g = Body(g)
  <2>1. g = [s \in SUBSET S |-> g[s]] BY <1>f
  <2> QED BY <1>8, <1>d, <2>1
<1>10. fold = Body(fold) BY <1>9
<1> HIDE DEF fold
<1>11. fold[{}] = <<>>
  <2>1. {} \in SUBSET S OBVIOUS
  <2> QED BY <1>10, <1>b, <2>1
<1>12. \A s \in SUBSET S : s # {} /\ fold[s \ {Max(s)}] \in V
                            => fold[s] = step[<<fold[s \ {Max(s)}], Max(s)>>]
  <2> SUFFICES ASSUME NEW s \in SUBSET S, s # {}, fold[s \ {Max(s)}] \in V
               PROVE  fold[s] = step[<<fold[s \ {Max(s)}], Max(s)>>]
    OBVIOUS
  <2>1. Max(s) \in S BY <1>3 DEF LastOf
  <2>2. fold[s] = Flag(args, fold[s \ {Max(s)}], places[Max(s)]) BY <1>10, <1>b
  <2>3. step[<<fold[s \ {Max(s)}], Max(s)>>] = Flag(args, fold[s \ {Max(s)}], places[Max(s)])
    BY <1>s, <2>1
  <2> QED BY <2>2, <2>3
<1>13. TakesLast(fold, n, V, <<>>, step)
  <2>1. n \in Nat BY <1>2
  <2>2. \A v \in V : \A i \in 1 .. n : step[<<v, i>>] \in V
    <3>1. \A i \in 1 .. n : i \in S BY <1>2
    <3> QED BY <1>5, <3>1, Zenon
  <2>3. \A s \in SUBSET (1 .. n) : s # {} /\ fold[s \ {Max(s)}] \in V
                                  => fold[s] = step[<<fold[s \ {Max(s)}], Max(s)>>]
    BY <1>2, <1>12
  <2> QED BY <1>6, <1>11, <2>1, <2>2, <2>3 DEF TakesLast
<1>h. PICK h : InOrder(h, n, V, <<>>, step) /\ fold[1 .. n] = h[n] BY <1>13, FoldByPrefixes
<1>14. \A i \in 1 .. n : i - 1 \in 0 .. n /\ i \in S BY <1>2
<1>15. ASSUME NEW i \in 1 .. n PROVE h[i] = Flag(args, h[i - 1], i)
  <2>1. i \in S /\ places[i] = i /\ h[i - 1] \in V BY <1>2, <1>h, <1>14 DEF InOrder
  <2>2. h[i] = step[<<h[i - 1], i>>] BY <1>h DEF InOrder
  <2> QED BY <1>s, <2>1, <2>2
<1>16. h \in [0 .. n -> V] /\ h[0] = <<>> BY <1>h DEF InOrder
<1> QED BY <1>1, <1>2, <1>h, <1>15, <1>16, <1>v DEF n, args

\* The words that follow the program are its arguments.
LEMMA WordsAfter ==
  ASSUME NEW W, NEW args \in Seq(W), NEW x, NEW m \in Nat, m >= 2, m <= Len(args) + 2
  PROVE  SubSeq(<<x>> \o args, m, Len(<<x>> \o args)) \in Seq(W)
<1> DEFINE words == <<x>> \o args
           rest == SubSeq(words, m, Len(words))
<1>1. args \in Seq(W \cup {x}) /\ Len(args) \in Nat OBVIOUS
<1>2. words \in Seq(W \cup {x}) BY <1>1
<1>3. Len(words) = Len(args) + 1 /\ \A i \in 2 .. Len(words) : words[i] = args[i - 1]
  BY <1>1
<1> HIDE DEF words
<1>4. Len(rest) = Len(words) - m + 1 /\ DOMAIN rest = 1 .. (Len(words) - m + 1)
      /\ \A i \in DOMAIN rest : rest[i] = words[m + i - 1]
      /\ rest \in Seq(W \cup {x})
  BY <1>1, <1>2, <1>3
<1>5. \A i \in DOMAIN rest : rest[i] \in W
  <2> TAKE i \in DOMAIN rest
  <2>1. m + i - 1 \in 2 .. Len(words) BY <1>1, <1>3, <1>4
  <2>2. rest[i] = args[m + i - 1 - 1] /\ m + i - 1 - 1 \in 1 .. Len(args)
    BY <1>1, <1>3, <1>4, <2>1
  <2> QED BY <2>2
<1>6. rest \in Seq(W) BY <1>1, <1>3, <1>4, <1>5
<1> QED BY <1>6 DEF words

LEMMA CompilerWords ==
  ASSUME NEW W, NEW cmd, cmd.args \in Seq(W)
  PROVE  split_compiler(cmd) \in Seq(W)
<1> DEFINE words == <<cmd.prog>> \o cmd.args
           I == {i \in 1 .. Len(words) : words[i] \notin CompilerWrappers}
           k == IF I # {} THEN Min(I) ELSE 0
<1>1. split_compiler(cmd) =
        IF k = 0 THEN <<>>
        ELSE IF words[k] \in CompilerNames THEN SubSeq(words, k + 1, Len(words))
        ELSE IF k > 1 THEN SubSeq(words, k, Len(words)) ELSE <<>>
  BY DEF split_compiler, SelectInSeq
<1>2. Len(cmd.args) \in Nat OBVIOUS
<1>3. Len(words) = Len(cmd.args) + 1 BY <1>2
<1>4. k \in 0 .. Len(words)
  <2>1. CASE I = {} BY <1>2, <1>3, <2>1
  <2>2. CASE I # {}
    <3>1. I \in SUBSET Nat BY <1>2, <1>3
    <3>2. PICK n \in I : n \in Nat /\ \A m \in Nat : m < n => m \notin I
      <4> HIDE DEF I
      <4> QED BY <2>2, <3>1, LeastNumber
    <3>3. \A m \in I : n <= m BY <3>1, <3>2
    <3>4. Min(I) \in I BY <3>2, <3>3 DEF Min
    <3>5. k = Min(I) /\ Min(I) \in 1 .. Len(words) BY <2>2, <3>4
    <3> HIDE DEF k, words
    <3> QED BY <1>2, <1>3, <3>5
  <2> QED BY <2>1, <2>2
<1> HIDE DEF k
<1>5. CASE k = 0 BY <1>1, <1>5
<1>6. CASE k # 0
  <2>1. SubSeq(words, k + 1, Len(words)) \in Seq(W)
    <3>1. k + 1 \in Nat /\ k + 1 >= 2 /\ k + 1 <= Len(cmd.args) + 2 BY <1>2, <1>3, <1>4, <1>6
    <3> QED BY <3>1, WordsAfter
  <2>2. k > 1 => SubSeq(words, k, Len(words)) \in Seq(W)
    <3> SUFFICES ASSUME k > 1 PROVE SubSeq(words, k, Len(words)) \in Seq(W)
      OBVIOUS
    <3>1. k \in Nat /\ k >= 2 /\ k <= Len(cmd.args) + 2 BY <1>2, <1>3, <1>4
    <3> QED BY <3>1, WordsAfter
  <2>3. <<>> \in Seq(W) OBVIOUS
  <2> HIDE DEF words
  <2> QED BY <1>1, <1>6, <2>1, <2>2, <2>3
<1> QED BY <1>5, <1>6

\* What split_command does with a word.
Parsed(acc, w) ==
    IF acc.skip > 0 THEN [acc EXCEPT !.skip = @ - 1]
    ELSE IF w \in Quits THEN [acc EXCEPT !.quit = TRUE]
    ELSE IF w \in DOMAIN IgnoredArguments THEN [acc EXCEPT !.skip = IgnoredArguments[w]]
    ELSE IF is_source(w) THEN [acc EXCEPT !.files = Append(@, w)]
    ELSE [acc EXCEPT !.flags = Append(@, w)]
Unparsed == [skip |-> 0, quit |-> FALSE, flags |-> <<>>, files |-> <<>>]
Parses(W) == [skip : Nat, quit : BOOLEAN, flags : Seq(W), files : Seq(W)]

\* What it makes of the words it has read.
Finished(parsed) == IF parsed.quit \/ parsed.skip > 0 THEN [parsed EXCEPT !.files = <<>>] ELSE parsed

\* split_command, word by word.
LEMMA ParsedInOrder ==
  ASSUME NEW W, NEW cmd, split_compiler(cmd) \in Seq(W)
  PROVE  \E h \in [0 .. Len(split_compiler(cmd)) -> Parses(W)] :
            /\ h[0] = Unparsed
            /\ \A i \in 1 .. Len(split_compiler(cmd)) : h[i] = Parsed(h[i - 1], split_compiler(cmd)[i])
            /\ split_command(cmd) = Finished(h[Len(split_compiler(cmd))])
<1> DEFINE words == split_compiler(cmd)
           n == Len(words)
           V == Parses(W)
           S == DOMAIN words
           Body(f) == [s \in SUBSET S |-> IF s = {} THEN Unparsed
                                          ELSE Parsed(f[s \ {Max(s)}], words[Max(s)])]
           fold == CHOOSE f : f = Body(f)
           step == [vi \in V \X S |-> Parsed(vi[1], words[vi[2]])]
<1>1. split_command(cmd) = Finished(fold[S])
  BY DEF split_command, FoldLeft, MapThenFoldSet, Parsed, Unparsed, Finished
<1>2. S = 1 .. n /\ n \in Nat OBVIOUS
<1>3. IsFiniteSet(S) /\ \A s \in SUBSET S : s # {} => LastOf(S)[s] \in s
  BY <1>2, Positions DEF LastOf
<1>4. \A v \in V, i \in S : Parsed(v, words[i]) \in V
  <2>1. \A i \in S : words[i] \in W OBVIOUS
  <2> HIDE DEF V, S, words
  <2> SUFFICES ASSUME NEW v \in Parses(W), NEW w \in W PROVE Parsed(v, w) \in Parses(W)
    BY <2>1 DEF V
  <2>2. \A u \in DOMAIN IgnoredArguments : IgnoredArguments[u] \in Nat BY DEF IgnoredArguments
  <2>3. CASE v.skip > 0
    <3>1. v.skip \in Nat BY DEF Parses
    <3>2. v.skip - 1 \in Nat BY <2>3, <3>1
    <3>3. \A k \in Nat : [v EXCEPT !.skip = k] \in Parses(W) BY DEF Parses
    <3> QED BY <2>3, <3>2, <3>3 DEF Parsed
  <2>4. CASE ~(v.skip > 0)
    <3>1. [v EXCEPT !.quit = TRUE] \in Parses(W) BY DEF Parses
    <3>2. w \in DOMAIN IgnoredArguments => [v EXCEPT !.skip = IgnoredArguments[w]] \in Parses(W)
      BY <2>2 DEF Parses
    <3>3. Append(v.files, w) \in Seq(W) /\ Append(v.flags, w) \in Seq(W) BY DEF Parses
    <3>4. [v EXCEPT !.files = Append(@, w)] \in Parses(W) /\ [v EXCEPT !.flags = Append(@, w)] \in Parses(W)
      BY <3>3 DEF Parses
    <3> QED BY <2>4, <3>1, <3>2, <3>4 DEF Parsed
  <2> QED BY <2>3, <2>4
<1>5. \A v \in V, i \in S : step[<<v, i>>] \in V
  <2> HIDE DEF V, S, words
  <2> QED BY <1>4
<1>6. Unparsed \in V BY DEF Unparsed, Parses
<1>v. V = Parses(W) OBVIOUS
<1>b. \A f : \A s \in SUBSET S : Body(f)[s] = IF s = {} THEN Unparsed
                                              ELSE Parsed(f[s \ {Max(s)}], words[Max(s)])
  OBVIOUS
<1>d. \A f : Body(f) = [s \in SUBSET S |-> Body(f)[s]] OBVIOUS
<1>s. \A v \in V, i \in S : step[<<v, i>>] = Parsed(v, words[i])
  <2> HIDE DEF V, S, words
  <2> QED OBVIOUS
<1> HIDE DEF step, S, Body, n, V, words
<1>7. Foldable(S, V, Unparsed, step, LastOf(S)) BY <1>3, <1>5, <1>6 DEF Foldable
<1>g. PICK g : Folds(g, S, V, Unparsed, step, LastOf(S)) BY <1>7, FoldExists
<1>f. g \in [SUBSET S -> V]
      /\ \A s \in SUBSET S : g[s] = Step(g, Unparsed, step, LastOf(S), s)
  BY <1>g DEF Folds
<1>8. \A s \in SUBSET S : g[s] = Body(g)[s]
  <2> TAKE s \in SUBSET S
  <2>1. CASE s = {} BY <1>f, <1>b, <2>1 DEF Step
  <2>2. CASE s # {}
    <3>1. LastOf(S)[s] = Max(s) /\ Max(s) \in S /\ s \ {Max(s)} \in SUBSET S
      BY <1>3, <2>2 DEF LastOf
    <3>2. g[s] = step[<<g[s \ {Max(s)}], Max(s)>>] BY <1>f, <2>2, <3>1 DEF Step
    <3>3. g[s \ {Max(s)}] \in V BY <1>f, <3>1
    <3> QED BY <1>b, <1>s, <2>2, <3>1, <3>2, <3>3
  <2> QED BY <2>1, <2>2
<1>9. g = Body(g)
  <2>1. g = [s \in SUBSET S |-> g[s]] BY <1>f
  <2> QED BY <1>8, <1>d, <2>1
<1>10. fold = Body(fold) BY <1>9
<1> HIDE DEF fold
<1>11. fold[{}] = Unparsed
  <2>1. {} \in SUBSET S OBVIOUS
  <2> QED BY <1>10, <1>b, <2>1
<1>12. \A s \in SUBSET S : s # {} /\ fold[s \ {Max(s)}] \in V
                            => fold[s] = step[<<fold[s \ {Max(s)}], Max(s)>>]
  <2> SUFFICES ASSUME NEW s \in SUBSET S, s # {}, fold[s \ {Max(s)}] \in V
               PROVE  fold[s] = step[<<fold[s \ {Max(s)}], Max(s)>>]
    OBVIOUS
  <2>1. Max(s) \in S BY <1>3 DEF LastOf
  <2>2. fold[s] = Parsed(fold[s \ {Max(s)}], words[Max(s)]) BY <1>10, <1>b
  <2>3. step[<<fold[s \ {Max(s)}], Max(s)>>] = Parsed(fold[s \ {Max(s)}], words[Max(s)])
    BY <1>s, <2>1
  <2> QED BY <2>2, <2>3
<1>13. TakesLast(fold, n, V, Unparsed, step)
  <2>1. n \in Nat BY <1>2
  <2>2. \A v \in V : \A i \in 1 .. n : step[<<v, i>>] \in V
    <3>1. \A i \in 1 .. n : i \in S BY <1>2
    <3> QED BY <1>5, <3>1, Zenon
  <2>3. \A s \in SUBSET (1 .. n) : s # {} /\ fold[s \ {Max(s)}] \in V
                                  => fold[s] = step[<<fold[s \ {Max(s)}], Max(s)>>]
    BY <1>2, <1>12
  <2> QED BY <1>6, <1>11, <2>1, <2>2, <2>3 DEF TakesLast
<1>h. PICK h : InOrder(h, n, V, Unparsed, step) /\ fold[1 .. n] = h[n] BY <1>13, FoldByPrefixes
<1>14. \A i \in 1 .. n : i - 1 \in 0 .. n /\ i \in S BY <1>2
<1>15. \A i \in 1 .. n : h[i] = Parsed(h[i - 1], words[i]) BY <1>h, <1>14, <1>s DEF InOrder
<1>16. h \in [0 .. n -> V] /\ h[0] = Unparsed BY <1>h DEF InOrder
<1> QED BY <1>1, <1>2, <1>h, <1>15, <1>16, <1>v DEF n, words

\* The flags and the files are words of the arguments.
LEMMA ParsedWords ==
  ASSUME NEW W, NEW cmd, cmd.args \in Seq(W)
  PROVE  split_command(cmd).flags \in Seq(W) /\ split_command(cmd).files \in Seq(W)
<1> DEFINE n == Len(split_compiler(cmd))
<1>1. split_compiler(cmd) \in Seq(W) BY CompilerWords
<1>2. n \in Nat /\ n \in 0 .. n BY <1>1
<1> HIDE DEF n
<1>3. PICK parsed \in Parses(W) : split_command(cmd) = Finished(parsed)
  BY <1>1, <1>2, ParsedInOrder DEF n
<1>4. <<>> \in Seq(W) OBVIOUS
<1> QED BY <1>3, <1>4 DEF Parses, Finished

LEMMA JoinedRange ==
  ASSUME NEW R, NEW s \in Seq(R), NEW t \in Seq(R)
  PROVE  Range(s \o t) = Range(s) \cup Range(t)
<1>1. Len(s) \in Nat /\ Len(t) \in Nat /\ Len(s \o t) = Len(s) + Len(t) OBVIOUS
<1>2. DOMAIN s = 1 .. Len(s) /\ DOMAIN t = 1 .. Len(t) /\ DOMAIN (s \o t) = 1 .. (Len(s) + Len(t))
  OBVIOUS
<1>3. \A i \in 1 .. Len(s) : (s \o t)[i] = s[i] /\ i \in 1 .. (Len(s) + Len(t)) BY <1>1
<1>4. \A i \in 1 .. Len(t) : (s \o t)[Len(s) + i] = t[i] /\ Len(s) + i \in 1 .. (Len(s) + Len(t))
  BY <1>1
<1>5. \A i \in 1 .. (Len(s) + Len(t)) : i \in 1 .. Len(s) \/ (i - Len(s) \in 1 .. Len(t) /\ Len(s) + (i - Len(s)) = i)
  BY <1>1
<1>6. \A i \in 1 .. (Len(s) + Len(t)) : (s \o t)[i] \in Range(s) \cup Range(t)
  BY <1>2, <1>3, <1>4, <1>5 DEF Range
<1>7. \A x \in Range(s) \cup Range(t) : \E i \in 1 .. (Len(s) + Len(t)) : (s \o t)[i] = x
  BY <1>2, <1>3, <1>4 DEF Range
<1> QED BY <1>2, <1>6, <1>7 DEF Range

\* FlattenSeq, sequence by sequence.
LEMMA FlattenedInOrder ==
  ASSUME NEW R, NEW seqs \in Seq(Seq(R))
  PROVE  \E h \in [0 .. Len(seqs) -> Seq(R)] :
            /\ h[0] = <<>>
            /\ \A i \in 1 .. Len(seqs) : h[i] = h[i - 1] \o seqs[i]
            /\ FlattenSeq(seqs) = h[Len(seqs)]
<1> DEFINE n == Len(seqs)
           S == 1 .. n
           Body(f) == [i \in 1 .. n |-> IF i = 1 THEN seqs[i] ELSE f[i - 1] \o seqs[i]]
           flat == CHOOSE f : f = Body(f)
           V == Seq(R)
           step == [vi \in V \X S |-> vi[1] \o seqs[vi[2]]]
<1>1. FlattenSeq(seqs) = IF n = 0 THEN seqs ELSE flat[n] BY DEF FlattenSeq
<1>2. n \in Nat /\ \A i \in S : seqs[i] \in V OBVIOUS
<1>3. CASE n = 0
  <2>1. seqs = <<>> BY <1>3
  <2>2. <<>> \in Seq(R) OBVIOUS
  <2> DEFINE none == [i \in {0} |-> <<>>]
  <2>3. 0 .. Len(seqs) = {0} /\ 1 .. Len(seqs) = {} BY <1>3
  <2>4. none \in [{0} -> Seq(R)] /\ none[0] = <<>> BY <2>2
  <2> HIDE DEF none
  <2> QED BY <1>1, <1>3, <2>1, <2>3, <2>4
<1>4. CASE n # 0
  <2>1. IsFiniteSet(S) /\ \A s \in SUBSET S : s # {} => LastOf(S)[s] \in s
    BY <1>2, Positions DEF LastOf
  <2>2. \A v \in V, i \in S : v \o seqs[i] \in V BY <1>2
  <2>3. <<>> \in V /\ \A v \in V : <<>> \o v = v OBVIOUS
  <2>b. \A f : \A i \in S : Body(f)[i] = IF i = 1 THEN seqs[i] ELSE f[i - 1] \o seqs[i]
    OBVIOUS
  <2>d. \A f : Body(f) = [i \in S |-> Body(f)[i]] OBVIOUS
  <2> HIDE DEF V
  <2>s. \A v \in V, i \in S : step[<<v, i>>] = v \o seqs[i] OBVIOUS
  <2> HIDE DEF step, Body
  <2>e. \A v \in V, i \in S : step[<<v, i>>] \in V BY <2>2, <2>s, Zenon
  <2>4. Foldable(S, V, <<>>, step, LastOf(S))
    <3> HIDE DEF S
    <3> QED BY <2>1, <2>3, <2>e DEF Foldable
  <2>5. PICK g : Folds(g, S, V, <<>>, step, LastOf(S)) BY <2>4, FoldExists
  <2>6. g \in [SUBSET S -> V] /\ \A s \in SUBSET S : g[s] = Step(g, <<>>, step, LastOf(S), s)
    BY <2>5 DEF Folds
  <2> DEFINE k == [i \in S |-> g[1 .. i]]
  <2>7. \A i \in S : k[i] = Body(k)[i]
    <3> TAKE i \in S
    <3> HIDE DEF n
    <3>a. i \in Nat /\ 1 <= i /\ i <= n BY <1>2
    <3>0. \A x \in 1 .. i : x \in 1 .. n BY <1>2, <3>a
    <3>z. 1 .. i \in SUBSET S
      <4>1. \A x \in 1 .. i : x \in S BY <3>0
      <4> QED BY <4>1, Zenon
    <3>y. i \in 1 .. i BY <3>a
    <3>1. 1 .. i \in SUBSET S /\ 1 .. i # {} /\ i \in 1 .. i /\ i \in Nat BY <3>z, <3>y, <3>a
    <3>2. Max(1 .. i) = i
      <4>1. Max(1 .. i) \in 1 .. i /\ \A x \in 1 .. i : x <= Max(1 .. i) BY <1>2, <3>1, Positions
      <4> QED BY <3>1, <4>1
    <3>3. LastOf(S)[1 .. i] = i BY <3>1, <3>2 DEF LastOf
    <3>4. (1 .. i) \ {i} = 1 .. (i - 1) /\ 1 .. (i - 1) \in SUBSET S BY <1>2, <3>1
    <3>5. g[1 .. i] = step[<<g[1 .. (i - 1)], i>>] BY <2>6, <3>1, <3>3, <3>4 DEF Step
    <3>6. g[1 .. (i - 1)] \in V BY <2>6, <3>4
    <3>7. g[1 .. i] = g[1 .. (i - 1)] \o seqs[i] BY <2>s, <3>5, <3>6
    <3>8. CASE i = 1
      <4>1. 1 .. (i - 1) = {} BY <3>8
      <4>2. {} \in SUBSET S OBVIOUS
      <4>3. g[{}] = <<>> BY <2>6, <4>2 DEF Step
      <4>4. g[1 .. i] = seqs[i] BY <1>2, <2>3, <3>7, <4>1, <4>3
      <4>5. Body(k)[i] = seqs[i] BY <2>b, <3>8
      <4> QED BY <4>4, <4>5
    <3>9. CASE i # 1
      <4>1. i - 1 \in S BY <1>2, <3>1, <3>9
      <4>2. Body(k)[i] = k[i - 1] \o seqs[i] BY <2>b, <3>9
      <4>3. k[i] = g[1 .. i] /\ k[i - 1] = g[1 .. (i - 1)] BY <4>1
      <4> QED BY <3>7, <4>2, <4>3
    <3> QED BY <3>8, <3>9
  <2>8. k = Body(k)
    <3>1. k = [i \in S |-> k[i]] OBVIOUS
    <3> HIDE DEF k
    <3> QED BY <2>7, <2>d, <3>1
  <2>9. flat = Body(flat) BY <2>8
  <2> HIDE DEF flat, k
  <2>10. \A i \in S : flat[i] = IF i = 1 THEN seqs[i] ELSE flat[i - 1] \o seqs[i]
    BY <2>9, <2>b
  <2> DEFINE h == [i \in 0 .. n |-> IF i = 0 THEN <<>> ELSE flat[i]]
             W == [i \in 0 .. n |-> V]
  <2>12. \A i \in 1 .. n : i \in S /\ i # 0 /\ i \in 0 .. n /\ i - 1 \in 0 .. n /\ (i = 1 <=> i - 1 = 0)
    BY <1>2
  <2>13. h[0] = <<>> /\ 0 \in 0 .. n BY <1>2
  <2>14. \A i \in 1 .. n : h[i - 1] \in V => h[i] = h[i - 1] \o seqs[i]
    <3> TAKE i \in 1 .. n
    <3>1. h[i] = flat[i] /\ h[i - 1] = IF i = 1 THEN <<>> ELSE flat[i - 1] BY <2>12
    <3>2. flat[i] = IF i = 1 THEN seqs[i] ELSE flat[i - 1] \o seqs[i] BY <2>10, <2>12
    <3>3. <<>> \o seqs[i] = seqs[i] BY <1>2, <2>3, <2>12
    <3> QED BY <3>1, <3>2, <3>3
  <2>15. \A i \in 0 .. n : W[i] = V OBVIOUS
  <2>16. h = [i \in 0 .. n |-> h[i]] OBVIOUS
  <2>17. h[n] = flat[n] BY <1>2, <1>4
  <2> HIDE DEF h, W, n
  <2>18. ASSUME NEW i \in 1 .. n, h[i - 1] \in W[i - 1] PROVE h[i] \in W[i]
    <3>1. W[i - 1] = V /\ W[i] = V BY <2>12, <2>15
    <3>2. h[i - 1] \in V BY <2>18, <3>1
    <3>3. h[i] = h[i - 1] \o seqs[i] BY <2>14, <3>2
    <3>4. h[i - 1] \o seqs[i] \in V BY <2>2, <2>12, <3>2
    <3> QED BY <3>1, <3>3, <3>4
  <2>19. h[0] \in W[0] BY <2>3, <2>13, <2>15
  <2>20. \A i \in 0 .. n : h[i] \in V BY <1>2, <2>15, <2>18, <2>19, PrefixInduction
  <2>21. \A i \in 1 .. n : h[i] = h[i - 1] \o seqs[i] BY <2>12, <2>14, <2>20
  <2>22. h \in [0 .. n -> V] BY <2>16, <2>20
  <2> QED BY <1>1, <1>4, <2>13, <2>17, <2>21, <2>22 DEF V, n
<1> QED BY <1>3, <1>4

\* Flattening makes nothing up and loses nothing.
LEMMA FlattenedWithin ==
  ASSUME NEW R, NEW seqs \in Seq(Seq(R))
  PROVE  /\ FlattenSeq(seqs) \in Seq(R)
         /\ Range(FlattenSeq(seqs)) = UNION {Range(seqs[i]) : i \in 1 .. Len(seqs)}
<1> DEFINE n == Len(seqs)
           Upto(i) == UNION {Range(seqs[j]) : j \in 1 .. i}
           W == [i \in 0 .. n |-> {s \in Seq(R) : Range(s) = Upto(i)}]
<1>1. n \in Nat /\ n \in 0 .. n /\ 0 \in 0 .. n OBVIOUS
<1>2. PICK h \in [0 .. n -> Seq(R)] :
         /\ h[0] = <<>>
         /\ \A i \in 1 .. n : h[i] = h[i - 1] \o seqs[i]
         /\ FlattenSeq(seqs) = h[n]
  BY FlattenedInOrder
<1>3. h[0] \in W[0]
  <2>1. Range(<<>>) = {} BY DEF Range
  <2>2. Upto(0) = {} OBVIOUS
  <2> QED BY <1>1, <1>2, <2>1, <2>2
<1>4. ASSUME NEW i \in 1 .. n, h[i - 1] \in W[i - 1] PROVE h[i] \in W[i]
  <2>1. i \in 0 .. n /\ i - 1 \in 0 .. n BY <1>1
  <2>2. h[i - 1] \in Seq(R) /\ seqs[i] \in Seq(R)
    <3>1. h[i - 1] \in Seq(R) BY <1>2, <2>1
    <3>2. seqs[i] \in Seq(R) OBVIOUS
    <3> QED BY <3>1, <3>2
  <2>3. Range(h[i - 1] \o seqs[i]) = Range(h[i - 1]) \cup Range(seqs[i]) BY <2>2, JoinedRange
  <2>4. Upto(i) = Upto(i - 1) \cup Range(seqs[i])
    <3>1. 1 .. i = (1 .. (i - 1)) \cup {i} BY <1>1
    <3> QED BY <3>1
  <2>5. Range(h[i - 1]) = Upto(i - 1) BY <1>4, <2>1
  <2>6. h[i] = h[i - 1] \o seqs[i] BY <1>2
  <2>7. h[i] \in Seq(R) BY <2>2, <2>6
  <2> HIDE DEF Upto
  <2> QED BY <2>1, <2>3, <2>4, <2>5, <2>6, <2>7
<1> HIDE DEF W
<1>5. h[n] \in W[n] BY <1>1, <1>3, <1>4, PrefixInduction
<1> QED BY <1>1, <1>2, <1>5 DEF W

---------------------------------------------------------------------------
(* What bear makes of a command.  An option that takes a parameter has one,  *)
(* which is no option and no source; no source has the name of an option.    *)
Options == DOMAIN IgnoredArguments \cup Quits
WellFormed(args) ==
    \A i \in DOMAIN args : TakesParameter(args[i]) =>
        i < Len(args) /\ args[i + 1] \notin Options \cup Sources
SourcesAreFiles == Sources \cap (Options \cup CompilerNames) = {}

LEMMA OptionKinds ==
  /\ Quits \cap DOMAIN IgnoredArguments = {}
  /\ \A w \in DOMAIN IgnoredArguments : IgnoredArguments[w] = IF TakesParameter(w) THEN 1 ELSE 0
  /\ \A w : TakesParameter(w) => w \in DOMAIN IgnoredArguments
BY DEF IgnoredArguments, Quits, TakesParameter

\* The words up to a position are parsed as they are meant: the parameter of an
\* option is left out with it, and nothing else is.
LEMMA ParsedAsMeant ==
  ASSUME SourcesAreFiles, NEW W, NEW cmd, NEW c, split_compiler(cmd) = c.args,
         c.args \in Seq(W), WellFormed(c.args)
  PROVE  /\ split_command(cmd).flags \in Seq(W) /\ split_command(cmd).files \in Seq(W)
         /\ Range(c.args) \cap Quits # {} => split_command(cmd).files = <<>>
         /\ Range(c.args) \cap Quits = {} =>
               /\ split_command(cmd).flags = Flags(c)
               /\ Range(split_command(cmd).files) = Range(c.args) \cap Sources
<1> DEFINE P == c.args
           n == Len(P)
           Upto(i) == {P[j] : j \in 1 .. i}
<1>1. n \in Nat /\ n \in 0 .. n /\ 0 \in 0 .. n /\ DOMAIN P = 1 .. n OBVIOUS
<1>2. PICK h \in [0 .. n -> Parses(W)] :
         /\ h[0] = Unparsed
         /\ \A i \in 1 .. n : h[i] = Parsed(h[i - 1], P[i])
         /\ split_command(cmd) = Finished(h[n])
  <2>1. split_compiler(cmd) \in Seq(W) OBVIOUS
  <2> QED BY <2>1, ParsedInOrder
<1>3. PICK g \in [0 .. n -> Seq(W)] :
         /\ g[0] = <<>>
         /\ \A i \in 1 .. n : g[i] = Flag(P, g[i - 1], i)
         /\ Flags(c) = g[n]
  BY FlagsInOrder
<1> DEFINE Meant(p, i) ==
             /\ p.skip = IF i > 0 /\ TakesParameter(P[i]) THEN 1 ELSE 0
             /\ Range(p.files) = Upto(i) \cap Sources
             /\ p.quit <=> Upto(i) \cap Quits # {}
             /\ Upto(i) \cap Quits = {} => p.flags = g[i]
           V == [i \in 0 .. n |-> {p \in Parses(W) : Meant(p, i)}]
<1>4. h[0] \in V[0]
  <2>1. Upto(0) = {} OBVIOUS
  <2>2. Range(<<>>) = {} BY DEF Range
  <2>3. Meant(Unparsed, 0) BY <1>3, <2>1, <2>2 DEF Unparsed
  <2>4. h[0] \in Parses(W) BY <1>1, <1>2
  <2> HIDE DEF Meant
  <2> QED BY <1>1, <1>2, <2>3, <2>4
<1>5. ASSUME NEW i \in 1 .. n, h[i - 1] \in V[i - 1] PROVE h[i] \in V[i]
  <2> DEFINE p == h[i - 1]
             w == P[i]
  <2>1. i \in 0 .. n /\ i - 1 \in 0 .. n /\ i > 0 /\ (i - 1 > 0 <=> i > 1) /\ i \in DOMAIN P BY <1>1
  <2>2. p \in Parses(W) /\ Meant(p, i - 1) BY <1>5, <2>1
  <2>3. h[i] = Parsed(p, w) /\ h[i] \in Parses(W) BY <1>2, <2>1
  <2>4. g[i] = Flag(P, g[i - 1], i) BY <1>3
  <2>5. Upto(i) = Upto(i - 1) \cup {w}
    <3>1. 1 .. i = (1 .. (i - 1)) \cup {i} BY <1>1
    <3> QED BY <3>1
  <2>f. p.files \in Seq(W) /\ p.flags \in Seq(W) /\ w \in W BY <2>1, <2>2 DEF Parses
  <2>s. /\ p.skip = IF i > 1 /\ TakesParameter(P[i - 1]) THEN 1 ELSE 0
        /\ Range(p.files) = Upto(i - 1) \cap Sources
        /\ p.quit <=> Upto(i - 1) \cap Quits # {}
        /\ Upto(i - 1) \cap Quits = {} => p.flags = g[i - 1]
    BY <2>1, <2>2
  <2>m. ASSUME h[i].skip = IF TakesParameter(w) THEN 1 ELSE 0,
               Range(h[i].files) = Upto(i) \cap Sources,
               h[i].quit <=> Upto(i) \cap Quits # {},
               Upto(i) \cap Quits = {} => h[i].flags = g[i]
        PROVE  h[i] \in V[i]
    <3>1. Meant(h[i], i) BY <2>m, <2>1
    <3> HIDE DEF Meant
    <3> QED BY <2>1, <2>3, <3>1
  <2>x. ASSUME NEW files, files \in Seq(W)
        PROVE  Range(Append(files, w)) = Range(files) \cup {w}
    <3>1. DOMAIN files = 1 .. Len(files) /\ Len(files) \in Nat BY <2>x
    <3>2. \A k \in 1 .. Len(files) : files[k] \in Range(files) BY <3>1 DEF Range
    <3>3. files \in Seq(Range(files)) BY <2>x, <3>1, <3>2
    <3> QED BY <3>3, AppendedRange
  <2>c. w \in Sources => w \notin Quits /\ w \notin DOMAIN IgnoredArguments
    BY DEF SourcesAreFiles, Options
  <2>d. w \in Quits => w \notin DOMAIN IgnoredArguments BY OptionKinds
  <2> HIDE DEF w, Upto, V, Meant
  <2>6. CASE p.skip > 0
    <3>1. i > 1 /\ TakesParameter(P[i - 1]) /\ p.skip = 1 BY <2>6, <2>s
    <3>2. i - 1 \in DOMAIN P /\ i - 1 + 1 = i BY <1>1, <2>1, <3>1
    <3>3. w \notin Options \cup Sources BY <3>1, <3>2 DEF WellFormed, w
    <3>4. ~TakesParameter(w) BY <3>3, OptionKinds DEF Options
    <3>5. ~IsFlag(P, i) BY <3>1 DEF IsFlag
    <3>6. g[i] = g[i - 1] BY <2>4, <3>5 DEF Flag
    <3>7. h[i] = [p EXCEPT !.skip = @ - 1] BY <2>3, <2>6 DEF Parsed
    <3>8. h[i].skip = 0 /\ h[i].files = p.files /\ h[i].flags = p.flags /\ h[i].quit = p.quit
      BY <2>2, <3>1, <3>7 DEF Parses
    <3>9. Upto(i) \cap Sources = Upto(i - 1) \cap Sources /\ Upto(i) \cap Quits = Upto(i - 1) \cap Quits
      BY <2>5, <3>3 DEF Options
    <3> QED BY <2>m, <2>s, <3>4, <3>6, <3>8, <3>9
  <2>7. CASE ~(p.skip > 0) /\ w \in Quits
    <3>1. h[i] = [p EXCEPT !.quit = TRUE] BY <2>3, <2>7 DEF Parsed
    <3>2. h[i].skip = p.skip /\ h[i].files = p.files /\ h[i].quit BY <2>2, <3>1 DEF Parses
    <3>3. p.skip = 0 BY <2>7, <2>s
    <3>4. ~TakesParameter(w) BY <2>7, <2>d, OptionKinds
    <3>5. Upto(i) \cap Quits # {} BY <2>5, <2>7
    <3>6. Upto(i) \cap Sources = Upto(i - 1) \cap Sources BY <2>5, <2>7, <2>c
    <3> QED BY <2>m, <2>s, <3>2, <3>3, <3>4, <3>5, <3>6
  <2>8. CASE ~(p.skip > 0) /\ w \in DOMAIN IgnoredArguments
    <3>1. w \notin Quits /\ w \notin Sources BY <2>8, <2>c, <2>d
    <3>2. h[i] = [p EXCEPT !.skip = IgnoredArguments[w]] BY <2>3, <2>8, <3>1 DEF Parsed
    <3>3. h[i].skip = IgnoredArguments[w] /\ h[i].files = p.files /\ h[i].flags = p.flags /\ h[i].quit = p.quit
      BY <2>2, <3>2 DEF Parses
    <3>4. IgnoredArguments[w] = IF TakesParameter(w) THEN 1 ELSE 0 BY <2>8, OptionKinds
    <3>5. ~IsFlag(P, i) BY <2>8 DEF IsFlag, w
    <3>6. g[i] = g[i - 1] BY <2>4, <3>5 DEF Flag
    <3>9. Upto(i) \cap Sources = Upto(i - 1) \cap Sources /\ Upto(i) \cap Quits = Upto(i - 1) \cap Quits
      BY <2>5, <3>1
    <3> QED BY <2>m, <2>s, <3>3, <3>4, <3>6, <3>9
  <2>9. CASE ~(p.skip > 0) /\ w \in Sources
    <3>1. w \notin Quits /\ w \notin DOMAIN IgnoredArguments BY <2>9, <2>c
    <3>2. h[i] = [p EXCEPT !.files = Append(@, w)] BY <2>3, <2>9, <3>1 DEF Parsed, is_source
    <3>3. h[i].skip = p.skip /\ h[i].files = Append(p.files, w) /\ h[i].flags = p.flags /\ h[i].quit = p.quit
      BY <2>2, <3>2 DEF Parses
    <3>4. p.skip = 0 BY <2>9, <2>s
    <3>5. ~TakesParameter(w) BY <3>1, OptionKinds
    <3>6. g[i] = g[i - 1]
      <4>1. ~IsFlag(P, i) BY <2>9 DEF IsFlag, w
      <4> QED BY <2>4, <4>1 DEF Flag
    <3>7. Range(h[i].files) = Upto(i) \cap Sources BY <2>5, <2>9, <2>f, <2>s, <2>x, <3>3
    <3>9. Upto(i) \cap Quits = Upto(i - 1) \cap Quits BY <2>5, <3>1
    <3> QED BY <2>m, <2>s, <3>3, <3>4, <3>5, <3>6, <3>7, <3>9
  <2>10. CASE ~(p.skip > 0) /\ w \notin Options \cup Sources
    <3>1. h[i] = [p EXCEPT !.flags = Append(@, w)] BY <2>3, <2>10 DEF Parsed, is_source, Options
    <3>2. h[i].skip = p.skip /\ h[i].files = p.files /\ h[i].flags = Append(p.flags, w) /\ h[i].quit = p.quit
      BY <2>2, <3>1 DEF Parses
    <3>3. p.skip = 0 /\ ~(i > 1 /\ TakesParameter(P[i - 1])) BY <2>10, <2>s
    <3>4. ~TakesParameter(w) BY <2>10, OptionKinds DEF Options
    <3>5. IsFlag(P, i) BY <2>10, <3>3 DEF IsFlag, w, Options
    <3>6. g[i] = Append(g[i - 1], w) BY <2>4, <3>5 DEF Flag, w
    <3>9. Upto(i) \cap Sources = Upto(i - 1) \cap Sources /\ Upto(i) \cap Quits = Upto(i - 1) \cap Quits
      BY <2>5, <2>10 DEF Options
    <3> QED BY <2>m, <2>s, <3>2, <3>3, <3>4, <3>6, <3>9
  <2> QED BY <2>6, <2>7, <2>8, <2>9, <2>10 DEF Options
<1>6. Upto(n) = Range(P) BY <1>1 DEF Range
<1> HIDE DEF V
<1>7. h[n] \in V[n] BY <1>1, <1>4, <1>5, PrefixInduction
<1>8. h[n] \in Parses(W) /\ Meant(h[n], n) BY <1>1, <1>7 DEF V
<1> DEFINE m == h[n]
<1>9. /\ m \in Parses(W)
      /\ Range(m.files) = Range(P) \cap Sources
      /\ m.quit <=> Range(P) \cap Quits # {}
      /\ Range(P) \cap Quits = {} => m.flags = Flags(c)
      /\ split_command(cmd) = Finished(m)
  BY <1>2, <1>3, <1>6, <1>8
\* No option is left without its parameter.
<1>s. m.skip = 0
  <2>1. m.skip = IF n > 0 /\ TakesParameter(P[n]) THEN 1 ELSE 0 BY <1>8
  <2>2. n > 0 => n \in DOMAIN P /\ ~(n < Len(P)) BY <1>1
  <2> QED BY <2>1, <2>2 DEF WellFormed
<1>f. split_command(cmd) = IF m.quit THEN [m EXCEPT !.files = <<>>] ELSE m
  BY <1>9, <1>s DEF Finished
<1> HIDE DEF m, P
<1>10. <<>> \in Seq(W) OBVIOUS
<1>11. m.flags \in Seq(W) /\ m.files \in Seq(W) /\ [m EXCEPT !.files = <<>>].files = <<>>
       /\ [m EXCEPT !.files = <<>>].flags = m.flags
  BY <1>9 DEF Parses
<1> QED BY <1>9, <1>10, <1>11, <1>f DEF P

---------------------------------------------------------------------------
(* The entries of a call, and the database of all calls.                    *)
\* The words of the commands: any, among them those that f1x and bear write.
Texts == STRING \cup Headers \cup
         {None, "sh", "f1x-cc", "gcc", "cc", "-c", "--coverage", "-include", "-l", "f1xrt"}
Calls == [prog : Texts, args : Seq(Texts)]

\* A compiler, or f1x's wrapper of it, is called with a well-formed command, a
\* compiler wrapper with a compiler.
Fits(cmd) ==
    IF cmd.prog \in CompilerWrappers
    THEN cmd.args # <<>> /\ Head(cmd.args) \in CompilerNames /\ WellFormed(Tail(cmd.args))
    ELSE cmd.prog \in CompilerNames \cup {"f1x-cc"} => WellFormed(cmd.args)
FittingCalls == {cmd \in Calls : Fits(cmd)}

LEMMA TailOf ==
  ASSUME NEW W, NEW args \in Seq(W), args # <<>>
  PROVE  Tail(args) \in Seq(W) /\ Range(Tail(args)) \subseteq Range(args)
<1>1. Tail(args) \in Seq(W) OBVIOUS
<1>2. Len(args) \in Nat /\ Len(args) > 0 /\ Len(Tail(args)) = Len(args) - 1
      /\ \A i \in 1 .. (Len(args) - 1) : Tail(args)[i] = args[i + 1]
  OBVIOUS
<1>3. DOMAIN Tail(args) = 1 .. (Len(args) - 1) /\ DOMAIN args = 1 .. Len(args) BY <1>1, <1>2
<1>4. \A i \in 1 .. (Len(args) - 1) : i + 1 \in 1 .. Len(args) BY <1>2
<1>5. \A i \in DOMAIN Tail(args) : Tail(args)[i] \in Range(args) BY <1>2, <1>3, <1>4 DEF Range
<1> QED BY <1>1, <1>5 DEF Range

\* The compiler is the first word that is no wrapper.
LEMMA FirstCompiler ==
  ASSUME NEW cmd \in Calls
  PROVE  /\ cmd.prog \in CompilerNames => split_compiler(cmd) = cmd.args
         /\ cmd.prog \notin CompilerNames \cup CompilerWrappers => split_compiler(cmd) = <<>>
         /\ cmd.prog \in CompilerWrappers /\ cmd.args # <<>> /\ Head(cmd.args) \in CompilerNames
               => split_compiler(cmd) = Tail(cmd.args)
<1> DEFINE words == <<cmd.prog>> \o cmd.args
           I == {i \in 1 .. Len(words) : words[i] \notin CompilerWrappers}
           k == IF I # {} THEN Min(I) ELSE 0
<1>1. split_compiler(cmd) =
        IF k = 0 THEN <<>>
        ELSE IF words[k] \in CompilerNames THEN SubSeq(words, k + 1, Len(words))
        ELSE IF k > 1 THEN SubSeq(words, k, Len(words)) ELSE <<>>
  BY DEF split_compiler, SelectInSeq
<1>2. cmd.args \in Seq(Texts) /\ cmd.prog \in Texts /\ Len(cmd.args) \in Nat BY DEF Calls
<1>3. Len(words) = Len(cmd.args) + 1 /\ words[1] = cmd.prog
      /\ \A i \in 1 .. Len(cmd.args) : words[i + 1] = cmd.args[i]
  BY <1>2
<1>4. ASSUME NEW m \in I, \A i \in I : m <= i PROVE k = m
  <2>1. I # {} /\ I \subseteq Nat BY <1>4
  <2>2. \A x \in I : (\A i \in I : x <= i) => x = m
    <3> SUFFICES ASSUME NEW x \in I, \A i \in I : x <= i PROVE x = m
      OBVIOUS
    <3>1. x \in Nat /\ m \in Nat /\ x <= m /\ m <= x BY <1>4, <2>1
    <3> QED BY <3>1
  <2> HIDE DEF I
  <2>3. Min(I) = m BY <1>4, <2>2 DEF Min
  <2> QED BY <2>1, <2>3
<1>5. CASE cmd.prog \notin CompilerWrappers
  <2>1. cmd.prog \notin CompilerWrappers BY <1>5
  <2>2. 1 \in I /\ \A i \in I : 1 <= i BY <1>2, <1>3, <2>1
  <2> HIDE DEF I, k
  <2>3. k = 1 BY <1>4, <2>2
  <2>4. SubSeq(words, 2, Len(words)) = cmd.args BY <1>2, <1>3
  <2>6. split_compiler(cmd) = IF words[1] \in CompilerNames THEN SubSeq(words, 2, Len(words)) ELSE <<>>
    <3> HIDE DEF words
    <3> QED BY <1>1, <2>3
  <2> HIDE DEF words
  <2>7. cmd.prog \in CompilerNames => split_compiler(cmd) = cmd.args BY <1>3, <2>4, <2>6
  <2>8. cmd.prog \notin CompilerNames => split_compiler(cmd) = <<>> BY <1>3, <2>6
  <2> QED BY <2>1, <2>7, <2>8
<1>6. CASE cmd.prog \in CompilerWrappers /\ cmd.args # <<>> /\ Head(cmd.args) \in CompilerNames
  <2>1. cmd.prog \notin CompilerNames /\ Head(cmd.args) \notin CompilerWrappers
    BY <1>6 DEF CompilerNames, CompilerWrappers
  <2>2. words[2] = Head(cmd.args) /\ Len(words) >= 2 BY <1>2, <1>3, <1>6
  <2>3. 2 \in I /\ \A i \in I : 2 <= i
    <3>1. 1 \notin I BY <1>3, <1>6
    <3>2. 2 \in I BY <1>2, <1>3, <2>1, <2>2
    <3>3. \A i \in I : i \in Nat /\ i >= 1 BY <1>2, <1>3
    <3> HIDE DEF I
    <3>4. \A i \in I : i # 1 BY <3>1
    <3> QED BY <3>2, <3>3, <3>4
  <2> HIDE DEF I, k
  <2>4. k = 2 BY <1>4, <2>3
  <2>5. SubSeq(words, 3, Len(words)) = Tail(cmd.args) BY <1>2, <1>3, <1>6
  <2>6. split_compiler(cmd) = IF words[2] \in CompilerNames THEN SubSeq(words, 3, Len(words))
                              ELSE SubSeq(words, 2, Len(words))
    <3> HIDE DEF words
    <3> QED BY <1>1, <2>4
  <2> HIDE DEF words
  <2>7. split_compiler(cmd) = Tail(cmd.args) BY <1>6, <2>2, <2>5, <2>6
  <2> QED BY <1>6, <2>1, <2>7
<1>7. cmd.prog \in CompilerNames => cmd.prog \notin CompilerWrappers
  BY DEF CompilerNames, CompilerWrappers
<1> QED BY <1>5, <1>6, <1>7

LEMMA UnwrappedCall ==
  ASSUME SourcesAreFiles, NEW cmd \in FittingCalls, CompilesSource(cmd)
  PROVE  /\ split_compiler(cmd) = Unwrapped(cmd).args
         /\ Unwrapped(cmd).args \in Seq(Texts) /\ WellFormed(Unwrapped(cmd).args)
         /\ Range(Unwrapped(cmd).args) \cap Quits = {}
<1>1. cmd \in Calls /\ Fits(cmd) /\ cmd.prog \in CompilerNames \cup CompilerWrappers
      /\ Range(cmd.args) \cap Quits = {}
  BY DEF FittingCalls, CompilesSource
<1>2. cmd.args \in Seq(Texts) BY <1>1 DEF Calls
<1>3. CASE cmd.prog \in CompilerNames
  <2>1. cmd.prog \notin CompilerWrappers BY <1>3 DEF CompilerNames, CompilerWrappers
  <2>2. Unwrapped(cmd) = cmd /\ WellFormed(cmd.args) BY <1>1, <2>1 DEF Unwrapped, Fits
  <2> QED BY <1>1, <1>2, <1>3, <2>2, FirstCompiler
<1>4. CASE cmd.prog \notin CompilerNames
  <2>1. cmd.prog \in CompilerWrappers /\ cmd.args # <<>> /\ Head(cmd.args) \in CompilerNames
        /\ WellFormed(Tail(cmd.args))
    BY <1>1, <1>4 DEF Fits
  <2>2. Unwrapped(cmd).args = Tail(cmd.args) BY <2>1 DEF Unwrapped
  <2>3. Tail(cmd.args) \in Seq(Texts) /\ Range(Tail(cmd.args)) \subseteq Range(cmd.args)
    BY <1>2, <2>1, TailOf
  <2> QED BY <1>1, <2>1, <2>2, <2>3, FirstCompiler
<1> QED BY <1>3, <1>4

---------------------------------------------------------------------------
\* The entry that a compiler call should have for one of its sources.
EntryFor(c, f) == [file |-> f, command |-> <<"cc", "-c">> \o Flags(c) \o <<f>>]
EntriesFor(c) == {EntryFor(c, f) : f \in Range(c.args) \cap Sources}
Database == [file : Texts, command : Seq(Texts)]

LEMMA EntryOfSource ==
  ASSUME NEW c, c.args \in Seq(Texts), NEW f \in Texts
  PROVE  /\ EntryFor(c, f) \in Database
         /\ entry_hash(EntryFor(c, f)) = <<f, <<"-c">> \o Flags(c) \o <<f>>>>
<1>1. Flags(c) \in Seq(Texts)
  <2>1. Len(c.args) \in Nat /\ Len(c.args) \in 0 .. Len(c.args) OBVIOUS
  <2> QED BY <2>1, FlagsInOrder
<1> DEFINE g == Flags(c)
           line == <<"cc", "-c">> \o g \o <<f>>
<1>2. EntryFor(c, f) = [file |-> f, command |-> line] BY DEF EntryFor
<1>3. g \in Seq(Texts) BY <1>1
<1> HIDE DEF g
<1>w. "cc" \in Texts /\ "-c" \in Texts BY DEF Texts
<1>x. ASSUME NEW R, NEW a \in R, NEW b \in R, NEW w \in R, NEW s \in Seq(R)
      PROVE  /\ <<a, b>> \o s \o <<w>> \in Seq(R)
             /\ Tail(<<a, b>> \o s \o <<w>>) = <<b>> \o s \o <<w>>
  <2> DEFINE l == <<a, b>> \o s \o <<w>>
             t == <<b>> \o s \o <<w>>
  <2>1. l \in Seq(R) /\ t \in Seq(R) /\ Len(l) = Len(s) + 3 /\ Len(t) = Len(s) + 2 OBVIOUS
  <2>2. Len(s) \in Nat /\ l # <<>> BY <2>1
  <2>3. \A i \in 1 .. (Len(s) + 2) : t[i] = l[i + 1] BY <2>2
  <2> HIDE DEF l, t
  <2>4. Tail(l) \in Seq(R) /\ Len(Tail(l)) = Len(t) BY <2>1, <2>2
  <2>5. \A i \in 1 .. Len(t) : Tail(l)[i] = l[i + 1] BY <2>1, <2>2
  <2>6. Tail(l) = t BY <2>1, <2>3, <2>4, <2>5
  <2> QED BY <2>1, <2>6 DEF l, t
<1>4. line \in Seq(Texts) /\ Tail(line) = <<"-c">> \o g \o <<f>> BY <1>3, <1>w, <1>x
<1>5. entry_hash(EntryFor(c, f)) = <<f, Tail(line)>> BY <1>2 DEF entry_hash
<1> HIDE DEF line
<1>6. EntryFor(c, f) \in Database BY <1>2, <1>4 DEF Database
<1>7. entry_hash(EntryFor(c, f)) = <<f, <<"-c">> \o g \o <<f>>>> BY <1>4, <1>5
<1> QED BY <1>6, <1>7 DEF g

\* The entries of a call that is parsed as it is meant.
LEMMA FormattedAsMeant ==
  ASSUME SourcesAreFiles, NEW cmd, NEW c, split_compiler(cmd) = c.args,
         c.args \in Seq(Texts), WellFormed(c.args)
  PROVE  /\ format_entry(cmd) \in Seq(Database)
         /\ Range(format_entry(cmd)) = IF Range(c.args) \cap Quits = {} THEN EntriesFor(c) ELSE {}
<1> DEFINE s == split_command(cmd)
           F == format_entry(cmd)
           n == Len(s.files)
<1>1. /\ s.flags \in Seq(Texts) /\ s.files \in Seq(Texts)
      /\ Range(c.args) \cap Quits # {} => s.files = <<>>
      /\ Range(c.args) \cap Quits = {} => s.flags = Flags(c) /\ Range(s.files) = Range(c.args) \cap Sources
  BY ParsedAsMeant
<1>2. F = [i \in 1 .. n |-> [file |-> s.files[i], command |-> <<"cc", "-c">> \o s.flags \o <<s.files[i]>>]]
  BY DEF format_entry
<1>3. n \in Nat /\ DOMAIN s.files = 1 .. n /\ \A i \in 1 .. n : s.files[i] \in Texts BY <1>1
<1>g. \A G : \A k \in Nat : (\A i \in 1 .. k : G[i] \in Database) => [i \in 1 .. k |-> G[i]] \in Seq(Database)
  OBVIOUS
<1> HIDE DEF s, n
<1>4. CASE Range(c.args) \cap Quits # {}
  <2>1. s.files = <<>> /\ n = 0 BY <1>1, <1>4 DEF n
  <2>2. F = <<>> BY <1>2, <2>1
  <2>3. Range(<<>>) = {} /\ <<>> \in Seq(Database) BY DEF Range
  <2> QED BY <1>4, <2>2, <2>3
<1>5. CASE Range(c.args) \cap Quits = {}
  <2>1. s.flags = Flags(c) /\ Range(s.files) = Range(c.args) \cap Sources BY <1>1, <1>5
  <2>2. \A i \in 1 .. n : F[i] = EntryFor(c, s.files[i]) BY <1>2, <2>1 DEF EntryFor
  <2>3. DOMAIN F = 1 .. n /\ F = [i \in 1 .. n |-> F[i]] BY <1>2
  <2> HIDE DEF F
  <2>4. \A i \in 1 .. n : F[i] \in Database BY <1>3, <2>2, EntryOfSource
  <2>5. F \in Seq(Database) BY <1>3, <1>g, <2>3, <2>4
  <2>6. Range(F) = EntriesFor(c)
    <3>1. Range(F) = {EntryFor(c, s.files[i]) : i \in 1 .. n} BY <2>2, <2>3 DEF Range
    <3>2. Range(s.files) = {s.files[i] : i \in 1 .. n} BY <1>3 DEF Range
    <3>3. EntriesFor(c) = {EntryFor(c, f) : f \in {s.files[i] : i \in 1 .. n}}
      BY <2>1, <3>2 DEF EntriesFor
    <3>4. {EntryFor(c, f) : f \in {s.files[i] : i \in 1 .. n}} = {EntryFor(c, s.files[i]) : i \in 1 .. n}
      OBVIOUS
    <3> QED BY <3>1, <3>3, <3>4
  <2> QED BY <1>5, <2>5, <2>6 DEF F
<1> QED BY <1>4, <1>5

\* A call that compiles sources has their entries; any other has none.
LEMMA EntriesOfCall ==
  ASSUME SourcesAreFiles, NEW cmd \in FittingCalls
  PROVE  /\ format_entry(cmd) \in Seq(Database)
         /\ Range(format_entry(cmd)) = IF CompilesSource(cmd) THEN EntriesFor(Unwrapped(cmd)) ELSE {}
<1>1. cmd \in Calls /\ Fits(cmd) /\ cmd.args \in Seq(Texts) BY DEF FittingCalls, Calls
<1>e. ASSUME NEW c, Range(c.args) \cap Sources = {} PROVE EntriesFor(c) = {}
  BY <1>e DEF EntriesFor
<1>2. CASE CompilesSource(cmd)
  <2>1. /\ split_compiler(cmd) = Unwrapped(cmd).args
        /\ Unwrapped(cmd).args \in Seq(Texts) /\ WellFormed(Unwrapped(cmd).args)
        /\ Range(Unwrapped(cmd).args) \cap Quits = {}
    BY <1>2, UnwrappedCall
  <2> QED BY <1>2, <2>1, FormattedAsMeant
<1>3. CASE cmd.prog \notin CompilerNames \cup CompilerWrappers
  <2> DEFINE c == [prog |-> None, args |-> <<>>]
  <2>1. split_compiler(cmd) = c.args BY <1>1, <1>3, FirstCompiler
  <2>2. Range(c.args) = {} /\ c.args \in Seq(Texts) /\ WellFormed(c.args) BY DEF Range, WellFormed
  <2>3. ~CompilesSource(cmd) BY <1>3 DEF CompilesSource
  <2> HIDE DEF c
  <2>4. Range(format_entry(cmd)) = EntriesFor(c) /\ format_entry(cmd) \in Seq(Database)
    BY <2>1, <2>2, FormattedAsMeant
  <2> QED BY <1>e, <2>2, <2>3, <2>4
<1>4. CASE ~CompilesSource(cmd) /\ cmd.prog \in CompilerNames
  <2>1. split_compiler(cmd) = cmd.args BY <1>1, <1>4, FirstCompiler
  <2>2. cmd.prog \notin CompilerWrappers BY <1>4 DEF CompilerNames, CompilerWrappers
  <2>3. WellFormed(cmd.args) BY <1>1, <1>4, <2>2 DEF Fits
  <2>4. Range(cmd.args) \cap Quits # {} \/ Range(cmd.args) \cap Sources = {}
    BY <1>4, <2>2 DEF CompilesSource
  <2> QED BY <1>1, <1>4, <1>e, <2>1, <2>3, <2>4, FormattedAsMeant
<1>5. CASE ~CompilesSource(cmd) /\ cmd.prog \in CompilerWrappers
  <2>2. cmd.args # <<>> /\ Head(cmd.args) \in CompilerNames /\ WellFormed(Tail(cmd.args))
    BY <1>1, <1>5 DEF Fits
  <2> DEFINE c == [prog |-> Head(cmd.args), args |-> Tail(cmd.args)]
  <2>3. split_compiler(cmd) = c.args BY <1>1, <1>5, <2>2, FirstCompiler
  <2>4. c.args \in Seq(Texts) /\ Range(c.args) \subseteq Range(cmd.args) BY <1>1, <2>2, TailOf
  <2>5. \A w \in Range(cmd.args) : w = Head(cmd.args) \/ w \in Range(c.args)
    <3>1. \A i \in DOMAIN cmd.args : i # 1 =>
            i - 1 \in DOMAIN Tail(cmd.args) /\ cmd.args[i] = Tail(cmd.args)[i - 1]
      BY <1>1, <2>2
    <3>2. Head(cmd.args) = cmd.args[1] /\ c.args = Tail(cmd.args) BY <1>1, <2>2
    <3> HIDE DEF c
    <3> QED BY <3>1, <3>2 DEF Range
  <2>6. Head(cmd.args) \notin Quits \cup Sources
    <3>1. Head(cmd.args) \notin Quits BY <2>2 DEF CompilerNames, Quits
    <3>2. Head(cmd.args) \notin Sources BY <2>2 DEF SourcesAreFiles
    <3> QED BY <3>1, <3>2
  <2>7. Range(c.args) \cap Quits # {} \/ Range(c.args) \cap Sources = {}
    BY <1>5, <2>4, <2>5, <2>6 DEF CompilesSource
  <2>8. WellFormed(c.args) BY <2>2
  <2> HIDE DEF c
  <2> QED BY <1>5, <1>e, <2>3, <2>4, <2>7, <2>8, FormattedAsMeant
<1> QED BY <1>1, <1>2, <1>3, <1>4, <1>5 DEF Fits

\* What DatabaseExact says of a set of calls and the sources that exist.
Exact(entries, calls, existing) ==
  /\ \A c \in calls : \A f \in Range(c.args) \cap existing :
       Cardinality({i \in DOMAIN entries :
          entries[i].file = f /\ EntryOf(entries[i], [cmd |-> c])}) = 1
  /\ \A e \in Range(entries) : e.file \in existing /\ \E c \in calls : EntryOf(e, [cmd |-> c])

\* The calls of compilers among those of the traces, seen through a wrapper.
CompilerCalls == {Unwrapped(d) : d \in {r \in ReportedCalls : CompilesSource(r)}}

\* Of the entries of some calls, those that the filter leaves are exact.
LEMMA DuplicatesExact ==
  ASSUME NEW calls, \A c \in calls : c.args \in Seq(Texts),
         NEW existing \in SUBSET Sources,
         NEW all \in Seq(Database), Range(all) = UNION {EntriesFor(c) : c \in calls}
  PROVE  Exact(Filtered(all, existing), calls, existing)
<1> DEFINE d == Filtered(all, existing)
<1>1. /\ d \in Seq(Database) /\ Range(d) \subseteq Range(all)
      /\ \A e \in Range(d) : e.file \in existing
      /\ \A e \in Range(all) : e.file \in existing =>
            \E k \in Range(d) : entry_hash(k) = entry_hash(e)
      /\ \A i, j \in DOMAIN d : entry_hash(d[i]) = entry_hash(d[j]) => i = j
  BY DuplicatesByHash
<1> HIDE DEF d
<1>h. \A e, f, t : entry_hash(e) = <<f, t>> <=> e.file = f /\ Tail(e.command) = t
  BY DEF entry_hash
<1>2. ASSUME NEW c \in calls, NEW f \in Range(c.args) \cap existing
      PROVE  Cardinality({i \in DOMAIN d : d[i].file = f /\ EntryOf(d[i], [cmd |-> c])}) = 1
  <2> DEFINE t == <<"-c">> \o Flags(c) \o <<f>>
  <2>1. f \in Texts BY <1>2 DEF Range
  <2>2. entry_hash(EntryFor(c, f)) = <<f, t>> BY <1>2, <2>1, EntryOfSource
  <2>3. EntryFor(c, f) \in Range(all) BY <1>2 DEF EntriesFor
  <2>e. EntryFor(c, f).file \in existing BY <1>2 DEF EntryFor
  <2>4. PICK k \in Range(d) : entry_hash(k) = <<f, t>> BY <1>1, <2>2, <2>3, <2>e
  <2>5. PICK i \in DOMAIN d : d[i] = k BY DEF Range
  <2>6. \A j \in DOMAIN d : d[j].file = f /\ EntryOf(d[j], [cmd |-> c]) <=> entry_hash(d[j]) = <<f, t>>
    <3> SUFFICES ASSUME NEW j \in DOMAIN d
                 PROVE  d[j].file = f /\ EntryOf(d[j], [cmd |-> c]) <=> entry_hash(d[j]) = <<f, t>>
      OBVIOUS
    <3>1. d[j].file = f => (EntryOf(d[j], [cmd |-> c]) <=> Tail(d[j].command) = t)
      BY <1>2 DEF EntryOf
    <3> HIDE DEF t
    <3> QED BY <1>h, <3>1
  <2> HIDE DEF t
  <2>7. {j \in DOMAIN d : d[j].file = f /\ EntryOf(d[j], [cmd |-> c])} = {i}
    BY <1>1, <2>4, <2>5, <2>6
  <2> QED BY <2>7, FS_Singleton
<1>3. ASSUME NEW e \in Range(d) PROVE e.file \in existing /\ \E c \in calls : EntryOf(e, [cmd |-> c])
  <2>0. e.file \in existing BY <1>1, <1>3
  <2>1. e \in Range(all) BY <1>1, <1>3
  <2>2. PICK c \in calls : e \in EntriesFor(c) BY <2>1
  <2>3. PICK f \in Range(c.args) \cap Sources : e = EntryFor(c, f) BY <2>2 DEF EntriesFor
  <2>4. f \in Texts BY <2>3 DEF Range
  <2>5. entry_hash(e) = <<f, <<"-c">> \o Flags(c) \o <<f>>>> BY <2>3, <2>4, EntryOfSource
  <2>6. e.file = f /\ Tail(e.command) = <<"-c">> \o Flags(c) \o <<f>> BY <1>h, <2>5
  <2>7. EntryOf(e, [cmd |-> c]) BY <2>3, <2>6 DEF EntryOf
  <2> QED BY <2>0, <2>7
<1> QED BY <1>2, <1>3 DEF Exact, d

\* The database that bear dumps is exact for the calls in the traces.
LEMMA DumpIsExact ==
  ASSUME SourcesAreFiles, TracesWritten, ReportedCalls \subseteq FittingCalls,
         NEW existing \in SUBSET Sources
  PROVE  Exact(post_processing(existing), CompilerCalls, existing)
<1> DEFINE n == Cardinality(Pids)
           files == [p \in 1 .. n |-> traces[p]]
           calls == FlattenSeq(files)
           formatted == [i \in 1 .. Len(calls) |-> format_entry(calls[i])]
           all == FlattenSeq(formatted)
<1>0. post_processing(existing) = Filtered(all, existing) BY DEF post_processing
<1>1. n \in Nat /\ Pids = 1 .. n BY BuildAssumption, FS_CardinalityType
<1>2. \A p \in Pids : traces[p] \in Seq(ReportedCalls)
  <2> TAKE p \in Pids
  <2>1. traces[p] \in Seq(Range(traces[p])) BY DEF TracesWritten
  <2>2. Range(traces[p]) \subseteq ReportedCalls BY DEF ReportedCalls
  <2> QED BY <2>1, <2>2
<1> HIDE DEF n
<1>3. files \in Seq(Seq(ReportedCalls)) /\ Len(files) = n /\ \A p \in 1 .. n : files[p] = traces[p]
  BY <1>1, <1>2
<1> HIDE DEF files
<1>4. calls \in Seq(ReportedCalls) /\ Range(calls) = UNION {Range(files[i]) : i \in 1 .. Len(files)}
  BY <1>3, FlattenedWithin
<1>5. Range(calls) = ReportedCalls BY <1>1, <1>3, <1>4 DEF ReportedCalls
<1> HIDE DEF calls
<1>6. Len(calls) \in Nat /\ DOMAIN calls = 1 .. Len(calls) BY <1>4
<1>7. \A i \in 1 .. Len(calls) : calls[i] \in FittingCalls BY <1>4
<1>8. \A i \in 1 .. Len(calls) : formatted[i] = format_entry(calls[i]) /\ formatted[i] \in Seq(Database)
  BY <1>7, EntriesOfCall
<1>9. Len(formatted) = Len(calls) BY <1>6
<1>10. formatted \in Seq(Seq(Database))
  <2>1. \A i \in 1 .. Len(calls) : format_entry(calls[i]) \in Seq(Database) BY <1>8
  <2> QED BY <1>6, <2>1
<1> HIDE DEF formatted
<1>11. all \in Seq(Database) /\ Range(all) = UNION {Range(formatted[i]) : i \in 1 .. Len(formatted)}
  BY <1>10, FlattenedWithin
<1> HIDE DEF all
<1>12. Range(all) = UNION {Range(format_entry(d)) : d \in ReportedCalls}
  <2>1. Range(all) = UNION {Range(format_entry(calls[i])) : i \in 1 .. Len(calls)}
    BY <1>8, <1>9, <1>11
  <2>2. ReportedCalls = {calls[i] : i \in 1 .. Len(calls)} BY <1>5, <1>6 DEF Range
  <2>3. {Range(format_entry(d)) : d \in {calls[i] : i \in 1 .. Len(calls)}}
          = {Range(format_entry(calls[i])) : i \in 1 .. Len(calls)}
    OBVIOUS
  <2> QED BY <2>1, <2>2, <2>3
<1>13. UNION {Range(format_entry(d)) : d \in ReportedCalls} = UNION {EntriesFor(c) : c \in CompilerCalls}
  <2>1. \A d \in ReportedCalls :
          Range(format_entry(d)) = IF CompilesSource(d) THEN EntriesFor(Unwrapped(d)) ELSE {}
    BY EntriesOfCall
  <2> QED BY <2>1 DEF CompilerCalls
<1>14. \A c \in CompilerCalls : c.args \in Seq(Texts) BY UnwrappedCall DEF CompilerCalls
<1> QED BY <1>0, <1>11, <1>12, <1>13, <1>14, DuplicatesExact

---------------------------------------------------------------------------
(* The commands of the database.  No command of the project, and no header  *)
(* that a user has set, is one of the two flags f1x writes into it.          *)
Own == {IncludeCmd, DefineCmd}
ProjectWords == (UNION {Range(c.args) : c \in Commands}) \cup {e["F1X_RUNTIME_H"] : e \in UserEnvs}
OwnWordsOnly == Own \cap ProjectWords = {}

\* The words of the commands that a build runs, and of those of the database.
Words == ProjectWords \cup Headers \cup {None, "--coverage", "-include", "-l", "f1xrt"}
LineWords == Words \cup {"cc", "-c"} \cup Own

\* A line of the database has neither of the two flags twice.
Once(line, w) == \A i, j \in DOMAIN line : line[i] = w /\ line[j] = w => i = j
Line(line) == line # <<>> /\ line[1] = "cc" /\ \A w \in Own : Once(line, w)
Lines == {line \in Seq(LineWords) : Line(line)}
Entries == [file : Words, command : Lines]
Flagged(entries) == \A e \in Range(entries) : Own \subseteq Range(e.command)

\* The environments of the build's processes, and what they and the traces have
\* for arguments, consist of these words.
EnvsWorded ==
    /\ DOMAIN env = Vars /\ env[H] \in Words
    /\ ghost.user \in UserEnvs
    /\ H \in DOMAIN original => original[H] \in Words
    /\ phase = "compiled" => build.header \in Words
Worded(p) == p.cmd.args \in Seq(Words) /\ H \in DOMAIN p.env /\ p.env[H] \in Words
TreeWorded == phase = "building" => \A pid \in DOMAIN procs : Worded(procs[pid])
TracesWorded == TracesWritten /\ \A d \in ReportedCalls : d.args \in Seq(Words)

\* A run before it has adjusted the database.
Unadjusted == \/ phase \in {"initial", "dump", "check", "adjust"}
              \/ phase = "building" /\ (build.kind = "initial" \/ build.bear)

\* Each entry of the database is a line; once it is adjusted, it has both flags.
DatabaseLines ==
    /\ db.entries \in Seq(Entries)
    /\ Unadjusted => ghost.adjusted = FALSE
    /\ ghost.adjusted => Flagged(db.entries)

WInv == IInv /\ EnvsWorded /\ TreeWorded /\ TracesWorded /\ DatabaseLines

---------------------------------------------------------------------------
LEMMA WordsAreOthers ==
  ASSUME OwnWordsOnly
  PROVE  /\ Words \subseteq LineWords /\ Own \subseteq LineWords
         /\ "cc" \in LineWords /\ "-c" \in LineWords
         /\ Words \cap Own = {} /\ "cc" \notin Own /\ "-c" \notin Own
         /\ IncludeCmd # DefineCmd
<1>1. \A h \in Headers \cup {None, "--coverage", "-include", "-l", "f1xrt"} : h \notin Own
  BY DEF Headers, None, Own, IncludeCmd, DefineCmd
<1>2. "cc" \notin Own /\ "-c" \notin Own /\ IncludeCmd # DefineCmd
  BY DEF Own, IncludeCmd, DefineCmd
<1>3. Words \cap Own = {} BY <1>1 DEF OwnWordsOnly, Words
<1> QED BY <1>2, <1>3 DEF LineWords

\* The entries of a command: its flags and its files are words of it.
LEMMA FormattedEntries ==
  ASSUME OwnWordsOnly, NEW cmd, cmd.args \in Seq(Words)
  PROVE  format_entry(cmd) \in Seq(Entries)
<1> DEFINE c == split_command(cmd)
<1>1. c.flags \in Seq(Words) /\ c.files \in Seq(Words) BY ParsedWords
<1>2. format_entry(cmd) = [i \in 1 .. Len(c.files) |->
         [file |-> c.files[i], command |-> <<"cc", "-c">> \o c.flags \o <<c.files[i]>>]]
  BY DEF format_entry
<1> HIDE DEF c
<1>3. ASSUME NEW i \in 1 .. Len(c.files)
      PROVE  c.files[i] \in Words /\ <<"cc", "-c">> \o c.flags \o <<c.files[i]>> \in Lines
  <2> DEFINE f == c.files[i]
             line == <<"cc", "-c">> \o c.flags \o <<f>>
  <2>1. f \in Words BY <1>1
  <2> HIDE DEF f
  <2>2. c.flags \in Seq(LineWords) /\ f \in LineWords /\ "cc" \in LineWords /\ "-c" \in LineWords
    BY <1>1, <2>1, WordsAreOthers
  <2>3. line \in Seq(LineWords) BY <2>2
  <2>4. Len(c.flags) \in Nat BY <1>1
  <2>5. Len(line) = Len(c.flags) + 3 /\ DOMAIN line = 1 .. (Len(c.flags) + 3) BY <2>2, <2>4
  <2>6. line[1] = "cc" /\ line[2] = "-c" BY <2>2, <2>4
  <2>7. \A j \in DOMAIN line : line[j] \in Words \cup {"cc", "-c"}
    <3> SUFFICES ASSUME NEW j \in 3 .. (Len(c.flags) + 3) PROVE line[j] \in Words
      BY <2>4, <2>5, <2>6
    <3>1. CASE j = Len(c.flags) + 3
      <4>1. line[j] = f BY <2>2, <2>4, <3>1
      <4> QED BY <2>1, <4>1
    <3>2. CASE j # Len(c.flags) + 3
      <4>1. j - 2 \in 1 .. Len(c.flags) BY <2>4, <3>2
      <4>2. line[j] = c.flags[j - 2] BY <2>2, <2>4, <4>1
      <4> QED BY <1>1, <4>1, <4>2
    <3> QED BY <3>1, <3>2
  <2>8. \A j \in DOMAIN line : line[j] \notin Own BY <2>7, WordsAreOthers
  <2>9. line # <<>> BY <2>4, <2>5
  <2>10. line \in Lines
    <3> HIDE DEF line
    <3> QED BY <2>3, <2>6, <2>8, <2>9 DEF Lines, Line, Once
  <2> QED BY <2>1, <2>10 DEF f
<1>4. Len(c.files) \in Nat BY <1>1
<1>5. \A i \in 1 .. Len(c.files) :
        [file |-> c.files[i], command |-> <<"cc", "-c">> \o c.flags \o <<c.files[i]>>] \in Entries
  BY <1>3 DEF Entries
<1>6. \A G : \A n \in Nat : (\A i \in 1 .. n : G[i] \in Entries) => [i \in 1 .. n |-> G[i]] \in Seq(Entries)
  OBVIOUS
<1> DEFINE F == format_entry(cmd)
<1>7. F = [i \in 1 .. Len(c.files) |-> F[i]] BY <1>2
<1>8. \A i \in 1 .. Len(c.files) : F[i] \in Entries BY <1>2, <1>5
<1> HIDE DEF F
<1>9. F \in Seq(Entries) BY <1>4, <1>6, <1>7, <1>8
<1> QED BY <1>9 DEF F

\* The database that bear dumps.
LEMMA DumpedEntries ==
  ASSUME OwnWordsOnly, TracesWorded, NEW existing
  PROVE  post_processing(existing) \in Seq(Entries)
<1> DEFINE n == Cardinality(Pids)
           files == [p \in 1 .. n |-> traces[p]]
           calls == FlattenSeq(files)
           formatted == [i \in 1 .. Len(calls) |-> format_entry(calls[i])]
<1>1. n \in Nat /\ Pids = 1 .. n BY BuildAssumption, FS_CardinalityType
<1>2. \A p \in Pids : traces[p] \in Seq(ReportedCalls)
  <2> TAKE p \in Pids
  <2>1. traces[p] \in Seq(Range(traces[p])) BY DEF TracesWorded, TracesWritten
  <2>2. Range(traces[p]) \subseteq ReportedCalls BY DEF ReportedCalls
  <2> QED BY <2>1, <2>2
<1> HIDE DEF n
<1>3. files \in Seq(Seq(ReportedCalls)) BY <1>1, <1>2
<1> HIDE DEF files
<1>4. calls \in Seq(ReportedCalls) BY <1>3, FlattenedWithin
<1> HIDE DEF calls
<1>5. \A i \in 1 .. Len(calls) : format_entry(calls[i]) \in Seq(Entries)
  <2> TAKE i \in 1 .. Len(calls)
  <2>1. calls[i] \in ReportedCalls BY <1>4
  <2>2. calls[i].args \in Seq(Words) BY <2>1 DEF TracesWorded
  <2> QED BY <2>2, FormattedEntries
<1>6. Len(calls) \in Nat BY <1>4
<1>7. formatted \in Seq(Seq(Entries)) BY <1>5, <1>6
<1> HIDE DEF formatted
<1>8. FlattenSeq(formatted) \in Seq(Entries) BY <1>7, FlattenedWithin
<1>9. Filtered(FlattenSeq(formatted), existing) \in Seq(Entries) BY <1>8, DuplicatesLeftOut
<1> QED BY <1>9 DEF post_processing, formatted, calls, files, n

\* A flag is written where it is missing, and the line keeps what it has.
LEMMA FlagInserted ==
  ASSUME OwnWordsOnly, NEW line \in Lines, NEW w \in Own
  PROVE  /\ Inserted(line, w) \in Lines
         /\ Range(Inserted(line, w)) = Range(line) \cup {w}
<1>1. CASE w \in Range(line) BY <1>1 DEF Inserted
<1>2. CASE w \notin Range(line)
  <2> DEFINE new == <<Head(line), w>> \o Tail(line)
  <2>1. line \in Seq(LineWords) /\ line # <<>> /\ line[1] = "cc" /\ w \in LineWords
    BY WordsAreOthers DEF Lines, Line
  <2>2. Len(line) \in Nat /\ Len(line) >= 1 /\ DOMAIN line = 1 .. Len(line) BY <2>1
  <2>3. /\ Head(line) = line[1] /\ Tail(line) \in Seq(LineWords)
        /\ Len(Tail(line)) = Len(line) - 1
        /\ \A i \in 1 .. (Len(line) - 1) : Tail(line)[i] = line[i + 1]
    BY <2>1, <2>2
  <2>4. new \in Seq(LineWords) /\ Len(new) = Len(line) + 1 BY <2>1, <2>2, <2>3
  <2>5. DOMAIN new = 1 .. (Len(line) + 1) BY <2>4
  <2>6. new[1] = line[1] /\ new[2] = w BY <2>2, <2>3
  <2>7. \A i \in 3 .. (Len(line) + 1) : new[i] = line[i - 1]
    <3> TAKE i \in 3 .. (Len(line) + 1)
    <3>1. i - 2 \in 1 .. (Len(line) - 1) BY <2>2
    <3>2. new[i] = Tail(line)[i - 2] BY <2>2, <2>3, <3>1
    <3>3. Tail(line)[i - 2] = line[i - 2 + 1] BY <2>3, <3>1
    <3> QED BY <2>2, <3>2, <3>3
  <2> HIDE DEF new
  <2>8. Range(new) = Range(line) \cup {w}
    <3>1. ASSUME NEW x \in Range(line) PROVE x \in Range(new)
      <4>1. PICK i \in 1 .. Len(line) : line[i] = x BY <2>2, <3>1 DEF Range
      <4>2. CASE i = 1 BY <2>2, <2>5, <2>6, <4>1, <4>2 DEF Range
      <4>3. CASE i # 1
        <5>1. i + 1 \in 3 .. (Len(line) + 1) /\ i + 1 - 1 = i /\ i + 1 \in DOMAIN new
          BY <2>2, <2>5, <4>3
        <5>2. new[i + 1] = x BY <2>7, <4>1, <5>1
        <5> QED BY <5>1, <5>2 DEF Range
      <4> QED BY <4>2, <4>3
    <3>2. w \in Range(new) BY <2>2, <2>5, <2>6 DEF Range
    <3>3. ASSUME NEW j \in DOMAIN new PROVE new[j] \in Range(line) \cup {w}
      <4>1. j = 1 \/ j = 2 \/ (j \in 3 .. (Len(line) + 1) /\ j - 1 \in DOMAIN line)
        BY <2>2, <2>5
      <4>2. 1 \in DOMAIN line BY <2>2
      <4> QED BY <2>6, <2>7, <4>1, <4>2 DEF Range
    <3> QED BY <3>1, <3>2, <3>3 DEF Range
  <2>9. ASSUME NEW u \in Own PROVE Once(new, u)
    <3> SUFFICES ASSUME NEW i \in DOMAIN new, NEW j \in DOMAIN new, new[i] = u, new[j] = u
                 PROVE  i = j
      BY DEF Once
    <3>0. "cc" \notin Own BY WordsAreOthers
    <3>1. i # 1 /\ j # 1 BY <2>1, <2>6, <2>9, <3>0
    <3>2. \A k \in DOMAIN new : k # 1 /\ k # 2 =>
            k \in 3 .. (Len(line) + 1) /\ k - 1 \in DOMAIN line /\ new[k] = line[k - 1]
      <4> SUFFICES ASSUME NEW k \in DOMAIN new, k # 1, k # 2
                   PROVE  k \in 3 .. (Len(line) + 1) /\ k - 1 \in DOMAIN line
        BY <2>7
      <4> QED BY <2>2, <2>5
    <3>3. CASE u = w
      <4>1. \A k \in DOMAIN line : line[k] # w BY <1>2 DEF Range
      <4>2. i = 2 /\ j = 2 BY <3>1, <3>2, <3>3, <4>1
      <4> QED BY <4>2
    <3>4. CASE u # w
      <4>1. i # 2 /\ j # 2 BY <2>6, <3>4
      <4>2. i - 1 \in DOMAIN line /\ j - 1 \in DOMAIN line /\ line[i - 1] = u /\ line[j - 1] = u
        BY <3>1, <3>2, <4>1
      <4>3. Once(line, u) BY <2>9 DEF Lines, Line
      <4>4. i - 1 = j - 1 BY <4>2, <4>3 DEF Once
      <4> QED BY <2>2, <2>5, <4>4
    <3> QED BY <3>3, <3>4
  <2>10. new # <<>> BY <2>2, <2>4
  <2>11. new \in Lines BY <2>1, <2>4, <2>6, <2>9, <2>10 DEF Lines, Line
  <2> QED BY <1>2, <2>8, <2>11 DEF Inserted, new
<1> QED BY <1>1, <1>2

LEMMA AdjustedEntries ==
  ASSUME OwnWordsOnly, db.entries \in Seq(Entries)
  PROVE  adjustCompileDB.entries \in Seq(Entries) /\ Flagged(adjustCompileDB.entries)
<1> DEFINE old == db.entries
           both(line) == Inserted(Inserted(line, IncludeCmd), DefineCmd)
           new == [i \in DOMAIN old |-> [old[i] EXCEPT !.command = both(@)]]
<1>1. adjustCompileDB.entries = new BY DEF adjustCompileDB, Present
<1>2. \A line \in Lines : both(line) \in Lines /\ Own \subseteq Range(both(line))
  <2> TAKE line \in Lines
  <2>1. IncludeCmd \in Own /\ DefineCmd \in Own /\ Own = {IncludeCmd, DefineCmd} BY DEF Own
  <2>2. Inserted(line, IncludeCmd) \in Lines
        /\ Range(Inserted(line, IncludeCmd)) = Range(line) \cup {IncludeCmd}
    BY <2>1, FlagInserted
  <2>3. both(line) \in Lines
        /\ Range(both(line)) = Range(Inserted(line, IncludeCmd)) \cup {DefineCmd}
    BY <2>1, <2>2, FlagInserted
  <2> QED BY <2>1, <2>2, <2>3
<1>3. \A e \in Entries : [e EXCEPT !.command = both(@)] \in Entries
                         /\ [e EXCEPT !.command = both(@)].command = both(e.command)
                         /\ e.command \in Lines
  <2> HIDE DEF both
  <2> QED BY <1>2 DEF Entries
<1> HIDE DEF both
<1>4. old \in Seq(Entries) /\ Len(old) \in Nat /\ DOMAIN old = 1 .. Len(old) OBVIOUS
<1>5. \A i \in DOMAIN old : old[i] \in Entries BY <1>4
<1>6. \A i \in DOMAIN old : new[i] = [old[i] EXCEPT !.command = both(@)] OBVIOUS
<1>7. DOMAIN new = 1 .. Len(old) BY <1>4
<1>8. \A i \in 1 .. Len(old) : new[i] \in Entries BY <1>3, <1>4, <1>5, <1>6
<1>9. new = [i \in 1 .. Len(old) |-> new[i]] BY <1>4
<1> HIDE DEF new
<1>10. new \in Seq(Entries) BY <1>4, <1>8, <1>9
<1>11. Flagged(new)
  <2> SUFFICES ASSUME NEW i \in DOMAIN new PROVE Own \subseteq Range(new[i].command)
    BY DEF Flagged, Range
  <2>1. new[i].command = both(old[i].command) /\ old[i].command \in Lines
    BY <1>3, <1>4, <1>5, <1>6, <1>7
  <2> QED BY <1>2, <2>1
<1> QED BY <1>1, <1>10, <1>11
---------------------------------------------------------------------------
LEMMA TailWorded ==
  ASSUME NEW args \in Seq(Words), args # <<>>
  PROVE  Tail(args) \in Seq(Words)
OBVIOUS

\* What a process asks for is made of the words.
LEMMA AskedWords ==
  ASSUME NEW p, Worded(p), NEW cmd \in Asked(p)
  PROVE  cmd.args \in Seq(Words)
<1>w. \A w \in {"--coverage", "-include", "-l", "f1xrt"} : w \in Words BY DEF Words
<1>a. p.cmd.args \in Seq(Words) /\ p.env[H] \in Words BY DEF Worded
<1>1. CASE p.cmd.prog = "f1x-cc"
  <2> DEFINE a == p.cmd.args
             h == p.env["F1X_RUNTIME_H"]
  <2>1. cmd.args = IF h # None THEN <<"--coverage", "-include", h>> \o a \o <<"-l", "f1xrt">>
                   ELSE <<"--coverage">> \o a
    BY <1>1 DEF Asked, Wrapped
  <2>2. a \in Seq(Words) /\ h \in Words BY <1>a DEF H
  <2> HIDE DEF a, h
  <2>3. <<"--coverage", "-include", h>> \in Seq(Words) /\ <<"-l", "f1xrt">> \in Seq(Words)
        /\ <<"--coverage">> \in Seq(Words)
    <3> HIDE DEF Words
    <3> QED BY <1>w, <2>2
  <2>4. <<"--coverage", "-include", h>> \o a \in Seq(Words) BY <2>2, <2>3
  <2> QED BY <2>1, <2>2, <2>3, <2>4
<1>2. CASE p.cmd.prog = "sh"
  <2>1. PICK c \in Commands :
          cmd = [c EXCEPT !.prog = IF @ = "$CC" /\ p.env["CC"] # None THEN p.env["CC"]
                                   ELSE IF @ = "$CC" THEN "cc" ELSE @]
    BY <1>2 DEF Asked
  <2>2. c \in [prog : STRING, args : Seq(STRING)] BY BuildAssumption
  <2>3. cmd.args = c.args /\ c.args \in Seq(STRING) BY <2>1, <2>2
  <2>4. Range(c.args) \subseteq Words BY DEF Words, ProjectWords
  <2>5. \A i \in 1 .. Len(c.args) : c.args[i] \in Words BY <2>3, <2>4 DEF Range
  <2>6. c.args \in Seq(Words)
    <3> HIDE DEF Words
    <3> QED BY <2>3, <2>5
  <2> QED BY <2>3, <2>6
<1>3. CASE p.cmd.prog \in CompilerWrappers /\ p.cmd.args # <<>> /\ p.cmd.prog \notin {"sh", "f1x-cc"}
  <2>1. cmd = [prog |-> Head(p.cmd.args), args |-> Tail(p.cmd.args)] BY <1>3 DEF Asked
  <2> QED BY <1>3, <1>a, <2>1, TailWorded
<1> QED BY <1>1, <1>2, <1>3 DEF Asked

LEMMA ImageWorded ==
  ASSUME NEW p, Worded(p), NEW cmd \in Asked(p), NEW e \in Environments(p)
  PROVE  Worded(Loaded(cmd, Passed(p, e)))
<1>1. Loaded(cmd, Passed(p, e)).cmd = cmd /\ Loaded(cmd, Passed(p, e)).env = Passed(p, e)
  BY DEF Loaded
<1>2. H \in DOMAIN Passed(p, e) /\ Passed(p, e)[H] = p.env[H]
  BY EnvironmentsKeep, PassedKeeps DEF Worded
<1>3. cmd.args \in Seq(Words) BY AskedWords
<1> QED BY <1>1, <1>2, <1>3 DEF Worded

LEMMA UserWords ==
  ASSUME NEW e \in UserEnvs
  PROVE  DOMAIN e = Vars /\ e[H] \in Words
<1>1. DOMAIN e = Vars BY BuildAssumption
<1>2. e["F1X_RUNTIME_H"] \in {u["F1X_RUNTIME_H"] : u \in UserEnvs} OBVIOUS
<1>3. e["F1X_RUNTIME_H"] \in ProjectWords BY <1>2 DEF ProjectWords
<1>4. e["F1X_RUNTIME_H"] \in Words BY <1>3 DEF Words
<1> QED BY <1>1, <1>4 DEF H

LEMMA NothingTraced ==
  ASSUME traces' = [p \in Pids |-> <<>>]
  PROVE  TracesWorded'
<1>1. TracesWritten' BY DEF TracesWritten
<1>2. ReportedCalls' = {} BY DEF ReportedCalls, Range
<1> QED BY <1>1, <1>2 DEF TracesWorded

LEMMA InitWInv == Init => WInv
<1> SUFFICES ASSUME Init PROVE WInv
  OBVIOUS
<1>1. IInv BY InitInv
<1>2. phase = "idle" /\ env \in UserEnvs /\ ghost.user = env /\ original = <<>>
      /\ traces = [p \in Pids |-> <<>>] /\ db.entries = <<>> /\ ghost.adjusted = FALSE
  BY DEF Init
<1>3. DOMAIN env = Vars BY <1>2, UserWords
<1>4. env[H] \in Words BY <1>2, UserWords
<1>5. H \notin DOMAIN original BY <1>2
<1>6. TracesWorded
  <2>1. TracesWritten BY <1>2 DEF TracesWritten
  <2>2. ReportedCalls = {} BY <1>2 DEF ReportedCalls, Range
  <2> QED BY <2>1, <2>2 DEF TracesWorded
<1>7. DatabaseLines BY <1>2 DEF DatabaseLines, Unadjusted
<1> QED BY <1>1, <1>2, <1>3, <1>4, <1>5, <1>6, <1>7 DEF WInv, EnvsWorded, TreeWorded

\* A build starts with a shell that has f1x's environment, or what python
\* passed on.
LEMMA RunWorded ==
  ASSUME DamageShows, EnvsWorded, NEW kind, NEW header, NEW bear, NEW e,
         DOMAIN e \subseteq Vars, H \in DOMAIN e => e[H] \in Words, Run(kind, header, bear, e)
  PROVE  EnvsWorded' /\ TreeWorded' /\ TracesWorded'
<1> DEFINE scoped == [v \in Vars |-> IF v \in DOMAIN e THEN e[v] ELSE env[v]]
           python == Loaded([prog |-> "f1x-bear", args |-> <<>>], scoped)
           given == IF bear THEN Passed(python, setup_environment(scoped)) ELSE scoped
<1>1. env' = scoped /\ original' = [v \in {w \in DOMAIN e : env[w] # None} |-> env[v]]
  BY DEF Run, Enter
<1>2. ghost'.user = ghost.user BY DEF Run, DamageShows
<1>3. phase' = "building" BY DEF Run
<1>4. H \in Vars BY DEF H, Vars
<1>5. scoped[H] \in Words BY <1>4 DEF EnvsWorded
<1>6. EnvsWorded' BY <1>1, <1>2, <1>3, <1>4, <1>5 DEF EnvsWorded
<1>7. H \in DOMAIN given /\ given[H] = scoped[H]
  <2>1. H \in DOMAIN setup_environment(scoped) /\ setup_environment(scoped)[H] = scoped[H]
    BY <1>4 DEF setup_environment, H
  <2>2. H \in DOMAIN Passed(python, setup_environment(scoped))
        /\ Passed(python, setup_environment(scoped))[H] = scoped[H]
    BY <2>1, PassedKeeps
  <2> QED BY <1>4, <2>2
<1>8. procs' = [pid \in {1} |-> Loaded([prog |-> "sh", args |-> <<>>], given)]
      /\ traces' = [p \in Pids |-> <<>>]
  BY DEF Run
<1>9. \A pid \in DOMAIN procs' : procs'[pid].env = given /\ procs'[pid].cmd.args = <<>>
  BY <1>8 DEF Loaded
<1>10. TreeWorded'
  <2> HIDE DEF given, scoped
  <2>1. <<>> \in Seq(Words) OBVIOUS
  <2> SUFFICES ASSUME NEW pid \in DOMAIN procs' PROVE Worded(procs[pid])'
    BY DEF TreeWorded
  <2> QED BY <1>5, <1>7, <1>9, <2>1 DEF Worded
<1> QED BY <1>6, <1>8, <1>10, NothingTraced

\* The end of a build puts back words.
LEMMA LeaveWorded ==
  ASSUME EnvsWorded, Leave, ghost'.user = ghost.user, phase' # "compiled"
  PROVE  EnvsWorded'
<1>1. H \in Vars BY DEF H, Vars
<1>2. /\ DOMAIN env' = Vars /\ original' = <<>>
      /\ env'[H] = IF H \in DOMAIN original THEN original[H] ELSE env[H]
  BY <1>1 DEF Leave
<1>3. H \notin DOMAIN original' BY <1>2
<1> QED BY <1>2, <1>3 DEF EnvsWorded

\* A call adds at most a worded process and a worded trace.
LEMMA CallWorded ==
  ASSUME DamageShows, EnvsWorded, TreeWorded, TracesWorded, phase = "building",
         UNCHANGED <<phase, env, original, build>>,
         NEW pid \in DOMAIN procs, NEW cmd \in Asked(procs[pid]),
         NEW e \in Environments(procs[pid]), NEW found, ghost' = Called(cmd, found),
         NEW reporter, traces' = bear_report_call(reporter, procs[pid], cmd),
         \A q \in DOMAIN procs' :
            \/ procs'[q] = Loaded(cmd, Passed(procs[pid], e))
            \/ q \in DOMAIN procs /\ procs'[q] = procs[q]
  PROVE  EnvsWorded' /\ TreeWorded' /\ TracesWorded'
<1>1. Worded(procs[pid]) BY DEF TreeWorded
<1>2. cmd.args \in Seq(Words) BY <1>1, AskedWords
<1>3. ghost'.user = ghost.user BY DEF Called, DamageShows
<1>4. EnvsWorded' BY <1>3 DEF EnvsWorded
<1>5. TreeWorded'
  <2> SUFFICES ASSUME NEW q \in DOMAIN procs' PROVE Worded(procs'[q])
    BY DEF TreeWorded, Worded
  <2>1. CASE procs'[q] = Loaded(cmd, Passed(procs[pid], e)) BY <1>1, <2>1, ImageWorded
  <2>2. CASE q \in DOMAIN procs /\ procs'[q] = procs[q] BY <2>2 DEF TreeWorded
  <2> QED BY <2>1, <2>2
<1>6. TracesWorded'
  <2>1. TracesWritten' /\ ReportedCalls' \subseteq ReportedCalls \cup {cmd}
    BY Reported DEF TracesWorded
  <2> QED BY <1>2, <2>1 DEF TracesWorded
<1> QED BY <1>4, <1>5, <1>6

LEMMA StepWInv == OwnWordsOnly /\ WInv /\ [Next]_vars => WInv'
<1> SUFFICES ASSUME OwnWordsOnly, WInv, [Next]_vars PROVE WInv'
  OBVIOUS
<1>i. IInv' BY StepInv DEF WInv
<1>d. DamageShows /\ EnvsWorded /\ TreeWorded /\ TracesWorded /\ DatabaseLines
  BY DEF WInv, IInv
<1>r. ASSUME EnvsWorded', TreeWorded', TracesWorded', DatabaseLines' PROVE WInv'
  BY <1>i, <1>r DEF WInv
<1>t. traces' = traces => TracesWorded'
  BY <1>d DEF TracesWorded, TracesWritten, ReportedCalls
<1>q. ASSUME EnvsWorded', TracesWorded', DatabaseLines', phase' # "building" PROVE WInv'
  BY <1>r, <1>q DEF TreeWorded
<1>l. ASSUME db' = db, ghost'.adjusted = ghost.adjusted, Unadjusted' => Unadjusted
      PROVE  DatabaseLines'
  BY <1>d, <1>l DEF DatabaseLines, Flagged
\* A database that is cut short has no entries.
<1>b. ASSUME db' = Broken, ghost'.adjusted = ghost.adjusted, Unadjusted' => Unadjusted
      PROVE  DatabaseLines'
  <2>1. db'.entries = <<>> BY <1>b DEF Broken
  <2>2. <<>> \in Seq(Entries) /\ Range(<<>>) = {} BY DEF Range
  <2>3. Flagged(db.entries)' BY <2>1, <2>2 DEF Flagged
  <2> QED BY <1>d, <1>b, <2>1, <2>2, <2>3 DEF DatabaseLines
<1>k. ASSUME db' = db, build' = build, phase' = phase, ghost'.adjusted = ghost.adjusted
      PROVE  DatabaseLines'
  BY <1>k, <1>l DEF Unadjusted
<1>1. CASE Start
  <2>1. PICK e \in UserEnvs :
          env' = e /\ ghost' = [ghost EXCEPT !.user = e, !.first = None, !.adjusted = FALSE]
    BY <1>1 DEF Start
  <2>2. ghost'.user = e BY <1>d, <2>1 DEF DamageShows
  <2>3. DOMAIN e = Vars /\ e[H] \in Words BY UserWords
  <2>4. phase' = "initial" /\ original' = <<>> /\ traces' = traces /\ db' = db BY <1>1 DEF Start
  <2>5. H \notin DOMAIN original' BY <2>4
  <2>6. EnvsWorded' BY <2>1, <2>2, <2>3, <2>4, <2>5 DEF EnvsWorded
  <2>7. ghost'.adjusted = FALSE BY <1>d, <2>1 DEF DamageShows
  <2>8. DatabaseLines' BY <1>d, <2>4, <2>7 DEF DatabaseLines
  <2> QED BY <1>q, <1>t, <2>4, <2>6, <2>8
<1>2. CASE Abort
  <2>1. phase' = "aborted" /\ UNCHANGED <<env, original, db>> /\ traces' = [p \in Pids |-> <<>>]
    BY <1>2 DEF Abort, Forgotten
  <2>2. ghost'.user = ghost.user /\ ghost'.adjusted = ghost.adjusted
    BY <1>2, <1>d DEF Abort, Forgotten, DamageShows
  <2>3. EnvsWorded' BY <1>d, <2>1, <2>2 DEF EnvsWorded
  <2>4. DatabaseLines' BY <1>l, <2>1, <2>2 DEF Unadjusted
  <2> QED BY <1>q, <2>1, <2>3, <2>4, NothingTraced
<1>3. CASE initialBuild \/ buildProject
  <2>1. PICK kind, bear : /\ Run(kind, None, bear, Compilers)
                          /\ \/ kind = "initial" /\ phase = "initial"
                             \/ kind = "build" /\ bear = FALSE
    BY <1>3 DEF initialBuild, buildProject
  <2>2. DOMAIN Compilers \subseteq Vars /\ H \notin DOMAIN Compilers BY DEF Compilers, Vars, H
  <2>3. EnvsWorded' /\ TreeWorded' /\ TracesWorded' BY <1>d, <2>1, <2>2, RunWorded
  <2>4. phase' = "building" /\ build'.kind = kind /\ build'.bear = bear /\ db' = db BY <2>1 DEF Run
  <2>g. ghost'.adjusted = ghost.adjusted BY <1>d, <2>1 DEF Run, DamageShows
  <2>5. DatabaseLines' BY <1>l, <2>1, <2>4, <2>g DEF Unadjusted
  <2> QED BY <1>r, <2>3, <2>5
<1>4. CASE compileProfiler \/ compileRuntime
  <2>1. phase = "ready" /\ phase' = "compiled" /\ UNCHANGED <<env, original, ghost, traces, db>>
        /\ build'.header \in Headers
    BY <1>4 DEF compileProfiler, compileRuntime, Compile, Headers
  <2>2. EnvsWorded' BY <1>d, <2>1 DEF EnvsWorded, Words
  <2>3. DatabaseLines' BY <1>l, <2>1 DEF Unadjusted
  <2> QED BY <1>q, <1>t, <2>1, <2>2, <2>3
<1>5. CASE buildWithRuntime
  <2> DEFINE h == build.header
             e == [v \in {"CC", "F1X_RUNTIME_H", "LD_LIBRARY_PATH"} |->
                     CASE v = "CC" -> "f1x-cc" [] v = "F1X_RUNTIME_H" -> h [] OTHER -> "datadir"]
  <2>1. phase = "compiled" /\ Run("runtime", h, FALSE, e) BY <1>5 DEF buildWithRuntime
  <2>2. DOMAIN e \subseteq Vars /\ e[H] = h BY DEF Vars, H
  <2>3. h \in Words BY <1>d, <2>1 DEF EnvsWorded
  <2> HIDE DEF e
  <2>4. EnvsWorded' /\ TreeWorded' /\ TracesWorded' BY <1>d, <2>1, <2>2, <2>3, RunWorded
  <2>5. phase' = "building" /\ build'.kind = "runtime" /\ build'.bear = FALSE /\ db' = db
    BY <2>1 DEF Run
  <2>g. ghost'.adjusted = ghost.adjusted BY <1>d, <2>1 DEF Run, DamageShows
  <2>6. DatabaseLines' BY <1>l, <2>5, <2>g DEF Unadjusted
  <2> QED BY <1>r, <2>4, <2>6
<1>6. CASE ForkExec
  <2>p. PICK pid \in DOMAIN procs, child \in Pids \ DOMAIN procs, found \in BOOLEAN :
          \E cmd \in Asked(procs[pid]), e \in Environments(procs[pid]) :
            /\ traces' = bear_report_call(child, procs[pid], cmd)
            /\ procs' = IF found THEN [p \in DOMAIN procs \cup {child} |->
                                         IF p = child THEN Loaded(cmd, Passed(procs[pid], e))
                                         ELSE procs[p]] ELSE procs
            /\ ghost' = Called(cmd, found)
    BY <1>6 DEF ForkExec
  <2>1. PICK cmd \in Asked(procs[pid]), e \in Environments(procs[pid]) :
          /\ traces' = bear_report_call(child, procs[pid], cmd)
          /\ procs' = IF found THEN [p \in DOMAIN procs \cup {child} |->
                                       IF p = child THEN Loaded(cmd, Passed(procs[pid], e))
                                       ELSE procs[p]] ELSE procs
          /\ ghost' = Called(cmd, found)
    BY <2>p
  <2>2. phase = "building" /\ UNCHANGED <<phase, env, original, build, db>> BY <1>6 DEF ForkExec
  <2>3. \A q \in DOMAIN procs' : \/ procs'[q] = Loaded(cmd, Passed(procs[pid], e))
                                 \/ q \in DOMAIN procs /\ procs'[q] = procs[q]
    BY <2>1
  <2>4. EnvsWorded' /\ TreeWorded' /\ TracesWorded' BY <1>d, <2>1, <2>2, <2>3, CallWorded
  <2>g. ghost'.adjusted = ghost.adjusted BY <1>d, <2>1 DEF Called, DamageShows
  <2> QED BY <1>k, <1>r, <2>2, <2>4, <2>g
<1>7. CASE Exec
  <2>p. PICK pid \in DOMAIN procs :
          \E cmd \in Asked(procs[pid]), e \in Environments(procs[pid]) :
            /\ traces' = bear_report_call(pid, procs[pid], cmd)
            /\ procs' = [procs EXCEPT ![pid] = Loaded(cmd, Passed(procs[pid], e))]
            /\ ghost' = Called(cmd, TRUE)
    BY <1>7 DEF Exec
  <2>1. PICK cmd \in Asked(procs[pid]), e \in Environments(procs[pid]) :
          /\ traces' = bear_report_call(pid, procs[pid], cmd)
          /\ procs' = [procs EXCEPT ![pid] = Loaded(cmd, Passed(procs[pid], e))]
          /\ ghost' = Called(cmd, TRUE)
    BY <2>p
  <2>2. phase = "building" /\ UNCHANGED <<phase, env, original, build, db>> BY <1>7 DEF Exec
  <2>3. \A q \in DOMAIN procs' : \/ procs'[q] = Loaded(cmd, Passed(procs[pid], e))
                                 \/ q \in DOMAIN procs /\ procs'[q] = procs[q]
    BY <2>1
  <2>4. EnvsWorded' /\ TreeWorded' /\ TracesWorded' BY <1>d, <2>1, <2>2, <2>3, CallWorded
  <2>g. ghost'.adjusted = ghost.adjusted BY <1>d, <2>1 DEF Called, DamageShows
  <2> QED BY <1>k, <1>r, <2>2, <2>4, <2>g
<1>8. CASE Exit
  <2>1. UNCHANGED <<phase, env, original, build, traces, db, ghost>> BY <1>8 DEF Exit
  <2>2. \A q \in DOMAIN procs' : q \in DOMAIN procs /\ procs'[q] = procs[q]
    BY <1>8 DEF Exit, Restrict
  <2>3. EnvsWorded' BY <1>d, <2>1 DEF EnvsWorded
  <2>4. TreeWorded' BY <1>d, <2>1, <2>2 DEF TreeWorded, Worded
  <2> QED BY <1>k, <1>r, <1>t, <2>1, <2>3, <2>4
<1>9. CASE Finish /\ build.bear
  <2>1. phase' = "dump" /\ UNCHANGED <<env, original, traces, ghost, db>> /\ Unadjusted
    BY <1>9 DEF Finish, Unadjusted
  <2>2. EnvsWorded' BY <1>d, <2>1 DEF EnvsWorded
  <2> QED BY <1>l, <1>q, <1>t, <2>1, <2>2
<1>10. CASE Finish /\ ~build.bear
  <2>1. phase = "building" /\ Leave /\ Forgotten /\ db' = db
        /\ phase' = IF build.kind = "initial" THEN "check" ELSE "ready"
    BY <1>10 DEF Finish
  <2>2. ghost'.user = ghost.user /\ ghost'.adjusted = ghost.adjusted
    BY <1>d, <2>1 DEF Forgotten, DamageShows
  <2>3. EnvsWorded' BY <1>d, <2>1, <2>2, LeaveWorded
  <2>4. TracesWorded' BY <2>1, NothingTraced DEF Forgotten
  <2>5. DatabaseLines' BY <1>l, <2>1, <2>2 DEF Unadjusted
  <2> QED BY <1>q, <2>1, <2>3, <2>4, <2>5
<1>11. CASE Dump
  <2>1. phase = "dump" /\ phase' = "check" /\ Leave /\ traces' = traces BY <1>11 DEF Dump
  <2>g. ghost'.user = ghost.user /\ ghost'.adjusted = ghost.adjusted
    BY <1>11, <1>d DEF Dump, CutShort, DamageShows
  <2>u. Unadjusted BY <2>1 DEF Unadjusted
  <2>2. EnvsWorded' BY <1>d, <2>1, <2>g, LeaveWorded
  <2>3. ASSUME NEW existing, db' = Present(post_processing(existing)) PROVE DatabaseLines'
    <3>1. db'.entries \in Seq(Entries) BY <1>d, <2>3, DumpedEntries DEF Present
    <3> QED BY <1>d, <2>g, <2>u, <3>1 DEF DatabaseLines
  <2>4. CutShort => DatabaseLines' BY <1>b, <2>g, <2>u DEF CutShort
  <2>5. UNCHANGED <<db, ghost>> => DatabaseLines' BY <1>l, <2>g, <2>u
  <2>6. DatabaseLines' BY <1>11, <2>3, <2>4, <2>5 DEF Dump
  <2> QED BY <1>q, <1>t, <2>1, <2>2, <2>6
<1>g. ASSUME Gone, ghost'.user = ghost.user, traces' = [p \in Pids |-> <<>>] \/ traces' = traces,
             db' = db \/ db' = Broken, ghost'.adjusted = ghost.adjusted
      PROVE  WInv'
  <2>1. phase' = "idle" /\ env' = ghost.user /\ original' = <<>> BY <1>g DEF Gone
  <2>2. ghost.user \in UserEnvs BY <1>d DEF EnvsWorded
  <2>3. DOMAIN ghost.user = Vars /\ ghost.user[H] \in Words BY <2>2, UserWords
  <2>4. H \notin DOMAIN original' BY <2>1
  <2>5. EnvsWorded' BY <1>g, <2>1, <2>2, <2>3, <2>4 DEF EnvsWorded
  <2>6. TracesWorded' BY <1>g, <1>t, NothingTraced
  <2>7. ~Unadjusted' BY <2>1 DEF Unadjusted
  <2>9. DatabaseLines' BY <1>b, <1>g, <1>l, <2>7
  <2> QED BY <1>q, <2>1, <2>5, <2>6, <2>9
<1>12. CASE Check
  <2>1. ghost'.user = ghost.user /\ ghost'.adjusted = ghost.adjusted
        /\ traces' = [p \in Pids |-> <<>>] /\ db' = db
    BY <1>12, <1>d DEF Check, Forgotten, DamageShows
  <2>2. CASE Gone BY <1>g, <2>1, <2>2
  <2>3. CASE ~Gone
    <3>1. phase' = "adjust" /\ env' = env /\ original' = original /\ Unadjusted
      BY <1>12, <2>3 DEF Check, Unadjusted
    <3>2. EnvsWorded' BY <1>d, <2>1, <3>1 DEF EnvsWorded
    <3> QED BY <1>l, <1>q, <2>1, <3>1, <3>2, NothingTraced
  <2> QED BY <2>2, <2>3
<1>13. CASE Adjust
  <2>1. phase = "adjust" /\ phase' = "ready" /\ UNCHANGED <<env, original, traces>>
    BY <1>13 DEF Adjust
  <2>u. Unadjusted /\ ~Unadjusted' BY <2>1 DEF Unadjusted
  <2>g. ghost'.user = ghost.user BY <1>13, <1>d DEF Adjust, CutShort, DamageShows
  <2>2. EnvsWorded' BY <1>d, <2>1, <2>g DEF EnvsWorded
  <2>3. db.entries \in Seq(Entries) BY <1>d DEF DatabaseLines
  <2>4. ASSUME db' = adjustCompileDB PROVE DatabaseLines'
    <3>1. Flagged(db.entries)' /\ db'.entries \in Seq(Entries)
      BY <2>3, <2>4, AdjustedEntries DEF Flagged
    <3> QED BY <2>u, <3>1 DEF DatabaseLines
  <2>5. ASSUME CutShort PROVE DatabaseLines'
    <3>1. ghost'.adjusted = ghost.adjusted BY <1>d, <2>5 DEF CutShort, DamageShows
    <3> QED BY <1>b, <2>u, <2>5, <3>1 DEF CutShort
  <2>6. UNCHANGED <<db, ghost>> => DatabaseLines' BY <1>l, <2>u
  <2>7. DatabaseLines' BY <1>13, <2>4, <2>5, <2>6 DEF Adjust
  <2> QED BY <1>q, <1>t, <2>1, <2>2, <2>7
<1>14. CASE execute
  <2>1. phase = "ready" /\ phase' = "ready" /\ UNCHANGED <<original, traces, ghost, db, build>>
    BY <1>14 DEF execute
  <2>2. DOMAIN env' = DOMAIN env /\ env'[H] = env[H] BY <1>14 DEF execute, H
  <2>3. EnvsWorded' BY <1>d, <2>1, <2>2 DEF EnvsWorded
  <2> QED BY <1>k, <1>q, <1>t, <2>1, <2>3
<1>15. CASE Quit BY <1>15, <1>g DEF Quit
<1>16. CASE Interrupt
  <2>1. ghost'.user = ghost.user /\ traces' = [p \in Pids |-> <<>>]
        /\ (db' = db \/ db' = Broken) /\ Gone /\ ghost'.adjusted = ghost.adjusted
    BY <1>16, <1>d DEF Interrupt, DamageShows
  <2> QED BY <1>g, <2>1
<1>17. CASE UNCHANGED vars
  <2>1. UNCHANGED <<phase, env, original, build, procs, traces, db, ghost>> BY <1>17 DEF vars
  <2>2. EnvsWorded' BY <1>d, <2>1 DEF EnvsWorded
  <2>3. TreeWorded' BY <1>d, <2>1 DEF TreeWorded, Worded
  <2> QED BY <1>k, <1>r, <1>t, <2>1, <2>2, <2>3
<1> QED
  BY <1>1, <1>2, <1>3, <1>4, <1>5, <1>6, <1>7, <1>8, <1>9, <1>10, <1>11, <1>12, <1>13, <1>14,
     <1>15, <1>16, <1>17
  DEF Next

\* A flag that a line has, and has not twice, is there once; one that it has not,
\* never.
LEMMA OncePresent ==
  ASSUME NEW line \in Lines, NEW w \in Own
  PROVE  Occurrences(w, line) <= 1 /\ (w \in Range(line) => Occurrences(w, line) = 1)
<1>1. CASE w \in Range(line)
  <2>1. PICK i \in DOMAIN line : line[i] = w BY <1>1 DEF Range
  <2>2. Once(line, w) BY DEF Lines, Line
  <2>3. {j \in DOMAIN line : line[j] = w} = {i} BY <2>1, <2>2 DEF Once
  <2> QED BY <2>3, FS_Singleton DEF Occurrences
<1>2. CASE w \notin Range(line)
  <2>1. {j \in DOMAIN line : line[j] = w} = {} BY <1>2 DEF Range
  <2>2. Cardinality({}) = 0 BY FS_EmptySet
  <2> QED BY <1>2, <2>1, <2>2 DEF Occurrences
<1> QED BY <1>1, <1>2

\* If no command of the project has one of the two flags that f1x writes into
\* the database, no entry has one of them twice when a repair works with it, and
\* each has both where the adjusted database was written, whatever was built,
\* dumped, reused, cut short or killed before.
THEOREM FlagsWrittenOnce == OwnWordsOnly /\ Spec => []AdjustedOnce
<1>1. WInv => AdjustedOnce
  <2> SUFFICES ASSUME WInv, phase = "ready", NEW e \in Range(db.entries)
               PROVE  /\ \A w \in Own : /\ Occurrences(w, e.command) <= 1
                                        /\ ghost.adjusted => Occurrences(w, e.command) = 1
                      /\ e.command[1] = "cc"
    BY DEF AdjustedOnce, Own
  <2>1. db.entries \in Seq(Entries) /\ (ghost.adjusted => Own \subseteq Range(e.command))
    BY DEF WInv, DatabaseLines, Flagged
  <2>2. e \in Entries BY <2>1 DEF Range
  <2>3. e.command \in Lines BY <2>2 DEF Entries
  <2>4. e.command[1] = "cc" BY <2>3 DEF Lines, Line
  <2> QED BY <2>1, <2>3, <2>4, OncePresent
<1> SUFFICES ASSUME OwnWordsOnly PROVE Spec => []AdjustedOnce
  OBVIOUS
<1>2. WInv /\ [Next]_vars => WInv' BY StepWInv
<1> QED BY InitWInv, <1>1, <1>2, PTL DEF Spec

---------------------------------------------------------------------------
(* The database is exact.  The compiler calls of the project are well        *)
(* formed, a compiler wrapper runs a compiler, and no header that a user has *)
(* set is an option with a parameter.                                        *)
Meant(c) == [c EXCEPT !.prog = IF @ = "$CC" THEN "f1x-cc" ELSE @]
CommandsWellFormed ==
    /\ SourcesAreFiles /\ "f1xrt" \notin Sources
    /\ \A c \in Commands : Fits(Meant(c))
    /\ \A e \in UserEnvs : ~TakesParameter(e["F1X_RUNTIME_H"])

\* The header that the wrapper includes is no option with a parameter, and make
\* has the wrapper for its compiler.
Harmless(h) == h \in Texts /\ ~TakesParameter(h)
HeadersHarmless ==
    /\ DOMAIN env = Vars /\ Harmless(env[H])
    /\ ghost.user \in UserEnvs
    /\ H \in DOMAIN original => Harmless(original[H])
    /\ phase = "compiled" => Harmless(build.header)
Wrapping(e) == DOMAIN e = Vars /\ e["CC"] = "f1x-cc" /\ Harmless(e[H])
TreeFits ==
    phase = "building" =>
        \A pid \in DOMAIN procs : procs[pid].cmd \in FittingCalls /\ Wrapping(procs[pid].env)
CallsFit == ReportedCalls \subseteq FittingCalls

\* A dump is remembered until its database is looked at.
DumpedOnce == phase # "check" => ghost.dumped = FALSE

DInv == RInv /\ HeadersHarmless /\ TreeFits /\ CallsFit /\ DatabaseExact /\ DumpedOnce

---------------------------------------------------------------------------
LEMMA SeqSubset ==
  ASSUME NEW A, NEW B, A \subseteq B, NEW s \in Seq(A)
  PROVE  s \in Seq(B)
OBVIOUS

LEMMA WellFormedJoin ==
  ASSUME NEW R, NEW a \in Seq(R), NEW b \in Seq(R), WellFormed(a), WellFormed(b)
  PROVE  WellFormed(a \o b)
<1> DEFINE s == a \o b
<1>1. /\ Len(a) \in Nat /\ Len(b) \in Nat /\ DOMAIN a = 1 .. Len(a) /\ DOMAIN b = 1 .. Len(b)
      /\ Len(s) = Len(a) + Len(b) /\ DOMAIN s = 1 .. (Len(a) + Len(b))
  OBVIOUS
<1>2. \A i \in 1 .. Len(a) : s[i] = a[i] BY <1>1
<1>3. \A i \in 1 .. Len(b) : s[Len(a) + i] = b[i] BY <1>1
<1> HIDE DEF s
<1>4. ASSUME NEW i \in DOMAIN s, TakesParameter(s[i])
      PROVE  i < Len(s) /\ s[i + 1] \notin Options \cup Sources
  <2>1. CASE i <= Len(a)
    <3>1. i \in DOMAIN a /\ s[i] = a[i] BY <1>1, <1>2, <2>1
    <3>2. i < Len(a) /\ a[i + 1] \notin Options \cup Sources BY <1>4, <3>1 DEF WellFormed
    <3>3. i + 1 \in 1 .. Len(a) BY <1>1, <3>2
    <3>4. s[i + 1] = a[i + 1] BY <1>2, <3>3
    <3> QED BY <1>1, <3>2, <3>4
  <2>2. CASE i > Len(a)
    <3> DEFINE k == i - Len(a)
    <3>1. k \in 1 .. Len(b) /\ Len(a) + k = i /\ Len(a) + (k + 1) = i + 1 BY <1>1, <2>2
    <3> HIDE DEF k
    <3>2. s[i] = b[k] BY <1>3, <3>1
    <3>3. k < Len(b) /\ b[k + 1] \notin Options \cup Sources BY <1>1, <1>4, <3>1, <3>2 DEF WellFormed
    <3>4. k + 1 \in 1 .. Len(b) BY <1>1, <3>1, <3>3
    <3>5. s[i + 1] = b[k + 1] BY <1>3, <3>1, <3>4
    <3> QED BY <1>1, <3>1, <3>3, <3>5
  <2> QED BY <1>1, <2>1, <2>2
<1> QED BY <1>4 DEF WellFormed, s

\* The wrapper's own call is well formed, with the header or without.
LEMMA WrapperFits ==
  ASSUME CommandsWellFormed, NEW p, p.cmd.args \in Seq(Texts), WellFormed(p.cmd.args), Harmless(p.env[H])
  PROVE  Wrapped(p) \in FittingCalls
<1> DEFINE a == p.cmd.args
           h == p.env["F1X_RUNTIME_H"]
           before == <<"--coverage", "-include", h>>
           after == <<"-l", "f1xrt">>
<1>t. \A w \in {"gcc", "--coverage", "-include", "-l", "f1xrt"} : w \in Texts BY DEF Texts
<1>o. \A w : TakesParameter(w) <=> w \in {"-MF", "-l"} BY DEF TakesParameter, IgnoredArguments
<1>h. h \in Texts /\ ~TakesParameter(h) BY DEF Harmless, H
<1>a. a \in Seq(Texts) /\ WellFormed(a) OBVIOUS
<1>p. Wrapped(p) = [prog |-> "gcc",
                    args |-> IF h # None THEN before \o a \o after ELSE <<"--coverage">> \o a]
  BY DEF Wrapped
<1> HIDE DEF a, h
<1>1. before \in Seq(Texts) /\ WellFormed(before)
  <2>1. before \in Seq(Texts) BY <1>t, <1>h
  <2>2. DOMAIN before = {1, 2, 3} /\ before[1] = "--coverage" /\ before[2] = "-include" /\ before[3] = h
    OBVIOUS
  <2> HIDE DEF before
  <2>3. \A i \in DOMAIN before : ~TakesParameter(before[i]) BY <1>h, <1>o, <2>2
  <2> QED BY <2>1, <2>3 DEF WellFormed
<1>2. after \in Seq(Texts) /\ WellFormed(after)
  <2>1. after \in Seq(Texts) BY <1>t
  <2>2. DOMAIN after = {1, 2} /\ Len(after) = 2 /\ after[1] = "-l" /\ after[2] = "f1xrt" OBVIOUS
  <2> HIDE DEF after
  <2>3. ~TakesParameter(after[2]) BY <1>o, <2>2
  <2>4. after[2] \notin Options \cup Sources
    <3>1. "f1xrt" \notin Options BY DEF Options, IgnoredArguments, Quits
    <3> QED BY <2>2, <3>1 DEF CommandsWellFormed
  <2>5. 1 < 2 /\ 1 + 1 = 2 OBVIOUS
  <2> QED BY <2>1, <2>2, <2>3, <2>4, <2>5 DEF WellFormed
<1>3. <<"--coverage">> \in Seq(Texts) /\ WellFormed(<<"--coverage">>)
  <2>1. <<"--coverage">> \in Seq(Texts) BY <1>t
  <2>2. \A i \in DOMAIN <<"--coverage">> : ~TakesParameter(<<"--coverage">>[i]) BY <1>o
  <2> QED BY <2>1, <2>2 DEF WellFormed
<1> HIDE DEF before, after
<1>j. ASSUME NEW l, NEW m, l \in Seq(Texts), m \in Seq(Texts), WellFormed(l), WellFormed(m)
      PROVE  l \o m \in Seq(Texts) /\ WellFormed(l \o m)
  <2>1. l \o m \in Seq(Texts) BY <1>j
  <2>2. WellFormed(l \o m) BY <1>j, WellFormedJoin
  <2> QED BY <2>1, <2>2
<1>4. before \o a \in Seq(Texts) /\ WellFormed(before \o a) BY <1>1, <1>a, <1>j
<1>5. before \o a \o after \in Seq(Texts) /\ WellFormed(before \o a \o after) BY <1>2, <1>4, <1>j
<1>6. <<"--coverage">> \o a \in Seq(Texts) /\ WellFormed(<<"--coverage">> \o a) BY <1>3, <1>a, <1>j
<1>7. Wrapped(p) \in Calls /\ WellFormed(Wrapped(p).args) BY <1>p, <1>t, <1>5, <1>6 DEF Calls
<1>8. Wrapped(p).prog \notin CompilerWrappers BY <1>p DEF CompilerWrappers
<1> QED BY <1>7, <1>8 DEF FittingCalls, Fits

\* What a process asks for fits.
LEMMA AskedFits ==
  ASSUME CommandsWellFormed, NEW p, p.cmd \in FittingCalls, Wrapping(p.env), NEW cmd \in Asked(p)
  PROVE  cmd \in FittingCalls
<1>a. p.cmd \in Calls /\ p.cmd.args \in Seq(Texts) /\ Fits(p.cmd) BY DEF FittingCalls, Calls
<1>t. \A w \in {"f1x-cc", "gcc", "cc", "clang"} : w = "clang" \/ w \in Texts BY DEF Texts
<1>1. CASE p.cmd.prog = "f1x-cc"
  <2>1. p.cmd.prog \notin CompilerWrappers BY <1>1 DEF CompilerWrappers
  <2>2. WellFormed(p.cmd.args) BY <1>1, <1>a, <2>1 DEF Fits
  <2>3. cmd = Wrapped(p) BY <1>1 DEF Asked
  <2> QED BY <1>a, <2>2, <2>3, WrapperFits DEF Wrapping
<1>2. CASE p.cmd.prog = "sh"
  <2>1. PICK c \in Commands :
          cmd = [c EXCEPT !.prog = IF @ = "$CC" /\ p.env["CC"] # None THEN p.env["CC"]
                                   ELSE IF @ = "$CC" THEN "cc" ELSE @]
    BY <1>2 DEF Asked
  <2>2. c \in [prog : STRING, args : Seq(STRING)] BY BuildAssumption
  <2>3. p.env["CC"] = "f1x-cc" /\ "f1x-cc" # None BY DEF Wrapping, None
  <2>4. cmd = Meant(c) BY <2>1, <2>3 DEF Meant
  <2>5. Fits(cmd) BY <2>4 DEF CommandsWellFormed
  <2>6. c.prog \in Texts /\ c.args \in Seq(Texts)
    <3>1. STRING \subseteq Texts BY DEF Texts
    <3>2. c.prog \in STRING /\ c.args \in Seq(STRING) BY <2>2
    <3>3. c.args \in Seq(Texts) BY <3>1, <3>2, SeqSubset
    <3> QED BY <3>1, <3>2, <3>3
  <2>7. cmd \in Calls
    <3>1. cmd = [prog |-> IF c.prog = "$CC" THEN "f1x-cc" ELSE c.prog, args |-> c.args]
      BY <2>2, <2>4 DEF Meant
    <3> QED BY <1>t, <2>6, <3>1 DEF Calls
  <2> QED BY <2>5, <2>7 DEF FittingCalls
<1>3. CASE p.cmd.prog \in CompilerWrappers /\ p.cmd.args # <<>> /\ p.cmd.prog \notin {"sh", "f1x-cc"}
  <2>1. cmd = [prog |-> Head(p.cmd.args), args |-> Tail(p.cmd.args)] BY <1>3 DEF Asked
  <2>2. Head(p.cmd.args) \in CompilerNames /\ WellFormed(Tail(p.cmd.args)) BY <1>3, <1>a DEF Fits
  <2>3. Tail(p.cmd.args) \in Seq(Texts) BY <1>3, <1>a, TailOf
  <2>4. Head(p.cmd.args) \in Texts BY <1>3, <1>a
  <2>5. cmd.prog \notin CompilerWrappers BY <2>1, <2>2 DEF CompilerNames, CompilerWrappers
  <2> QED BY <2>1, <2>2, <2>3, <2>4, <2>5 DEF FittingCalls, Calls, Fits
<1> QED BY <1>1, <1>2, <1>3 DEF Asked

\* The interception and the processes leave the compiler and the header alone.
LEMMA PassedWrapping ==
  ASSUME NEW p, NEW e, Wrapping(e)
  PROVE  Wrapping(Passed(p, e))
<1>1. H \notin Range(EnvNames) /\ "CC" \notin Range(EnvNames) BY DEF EnvNames, Range, H
<1>2. H \in Vars /\ "CC" \in Vars BY DEF H, Vars
<1> DEFINE u == bear_update_environment(e, p.captured)
<1>3. DOMAIN u = Vars /\ u[H] = e[H] /\ u["CC"] = e["CC"]
  BY <1>1, <1>2 DEF bear_update_environment, Wrapping
<1> QED BY <1>3 DEF Passed, Wrapping

LEMMA ImageFits ==
  ASSUME NEW p, Wrapping(p.env), NEW cmd \in FittingCalls, NEW e \in Environments(p)
  PROVE  /\ Loaded(cmd, Passed(p, e)).cmd \in FittingCalls
         /\ Wrapping(Loaded(cmd, Passed(p, e)).env)
<1>1. Wrapping(e)
  <2>1. DOMAIN p.env = Vars /\ H # "LD_PRELOAD" /\ H # "BEAR_OUTPUT" BY DEF Wrapping, H
  <2>2. DOMAIN e = Vars /\ \A v \in Vars \ {"LD_PRELOAD", "BEAR_OUTPUT"} : e[v] = p.env[v]
    BY <2>1 DEF Environments
  <2>3. H \in Vars /\ "CC" \in Vars BY DEF H, Vars
  <2>4. e[H] = p.env[H] /\ e["CC"] = p.env["CC"] BY <2>1, <2>2, <2>3
  <2> QED BY <2>2, <2>4 DEF Wrapping
<1>2. Loaded(cmd, Passed(p, e)).cmd = cmd /\ Loaded(cmd, Passed(p, e)).env = Passed(p, e)
  BY DEF Loaded
<1> QED BY <1>1, <1>2, PassedWrapping

LEMMA UserHarmless ==
  ASSUME CommandsWellFormed, NEW e \in UserEnvs
  PROVE  DOMAIN e = Vars /\ Harmless(e[H])
<1>1. e \in [Vars -> STRING] BY BuildAssumption
<1>2. H \in Vars BY DEF H, Vars
<1>3. e[H] \in STRING BY <1>1, <1>2
<1>4. ~TakesParameter(e[H]) BY DEF CommandsWellFormed, H
<1> QED BY <1>1, <1>3, <1>4 DEF Harmless, Texts

\* A build starts with a shell, which has the wrapper for its compiler.
LEMMA RunFits ==
  ASSUME DamageShows, HeadersHarmless, NEW kind, NEW header, NEW bear, NEW e,
         DOMAIN e \subseteq Vars, "CC" \in DOMAIN e, e["CC"] = "f1x-cc",
         H \in DOMAIN e => Harmless(e[H]), Run(kind, header, bear, e)
  PROVE  HeadersHarmless' /\ TreeFits' /\ CallsFit'
<1> DEFINE scoped == [v \in Vars |-> IF v \in DOMAIN e THEN e[v] ELSE env[v]]
           python == Loaded([prog |-> "f1x-bear", args |-> <<>>], scoped)
           given == IF bear THEN Passed(python, setup_environment(scoped)) ELSE scoped
           shell == [prog |-> "sh", args |-> <<>>]
<1>1. env' = scoped /\ original' = [v \in {w \in DOMAIN e : env[w] # None} |-> env[v]]
  BY DEF Run, Enter
<1>2. ghost'.user = ghost.user BY DEF Run, DamageShows
<1>3. phase' = "building" BY DEF Run
<1>4. H \in Vars /\ "CC" \in Vars BY DEF H, Vars
<1>5. Wrapping(scoped) BY <1>4 DEF HeadersHarmless, Wrapping
<1>6. HeadersHarmless' BY <1>1, <1>2, <1>3, <1>5 DEF HeadersHarmless, Wrapping, Harmless
<1>7. Wrapping(given)
  <2> DEFINE set == setup_environment(scoped)
  <2>1. DOMAIN set = Vars /\ set[H] = scoped[H] /\ set["CC"] = scoped["CC"]
    BY <1>4 DEF setup_environment, H
  <2>2. Wrapping(set) BY <1>5, <2>1 DEF Wrapping
  <2>3. Wrapping(Passed(python, set)) BY <2>2, PassedWrapping
  <2> QED BY <1>5, <2>3
<1>8. procs' = [pid \in {1} |-> Loaded(shell, given)] /\ traces' = [p \in Pids |-> <<>>]
  BY DEF Run
<1>9. \A pid \in DOMAIN procs' : procs'[pid].env = given /\ procs'[pid].cmd = shell
  BY <1>8 DEF Loaded
<1>10. shell \in FittingCalls
  <2>1. shell \in Calls BY DEF Calls, Texts
  <2>2. shell.prog \notin CompilerWrappers \cup CompilerNames \cup {"f1x-cc"}
    BY DEF CompilerWrappers, CompilerNames
  <2> HIDE DEF shell
  <2> QED BY <2>1, <2>2 DEF FittingCalls, Fits
<1>11. TreeFits'
  <2> HIDE DEF given, scoped, shell
  <2> QED BY <1>7, <1>9, <1>10 DEF TreeFits, Wrapping, Harmless, H
<1>12. ReportedCalls' = {} BY <1>8 DEF ReportedCalls, Range
<1> QED BY <1>6, <1>11, <1>12 DEF CallsFit

\* A call adds at most a process and a trace that fit.
LEMMA CallFits ==
  ASSUME CommandsWellFormed, DamageShows, HeadersHarmless, TreeFits, CallsFit, TracesWritten,
         phase = "building", UNCHANGED <<phase, env, original, build>>,
         NEW pid \in DOMAIN procs, NEW cmd \in Asked(procs[pid]),
         NEW e \in Environments(procs[pid]), NEW found, ghost' = Called(cmd, found),
         NEW reporter, traces' = bear_report_call(reporter, procs[pid], cmd),
         \A q \in DOMAIN procs' :
            \/ procs'[q] = Loaded(cmd, Passed(procs[pid], e))
            \/ q \in DOMAIN procs /\ procs'[q] = procs[q]
  PROVE  HeadersHarmless' /\ TreeFits' /\ CallsFit'
<1>1. procs[pid].cmd \in FittingCalls /\ Wrapping(procs[pid].env) BY DEF TreeFits
<1>2. cmd \in FittingCalls BY <1>1, AskedFits
<1>3. ghost'.user = ghost.user BY DEF Called, DamageShows
<1>4. HeadersHarmless' BY <1>3 DEF HeadersHarmless, Harmless
<1>5. TreeFits'
  <2> SUFFICES ASSUME NEW q \in DOMAIN procs'
               PROVE  procs'[q].cmd \in FittingCalls /\ Wrapping(procs'[q].env)
    BY DEF TreeFits, Wrapping, Harmless
  <2>1. CASE procs'[q] = Loaded(cmd, Passed(procs[pid], e)) BY <1>1, <1>2, <2>1, ImageFits
  <2>2. CASE q \in DOMAIN procs /\ procs'[q] = procs[q] BY <2>2 DEF TreeFits
  <2> QED BY <2>1, <2>2
<1>6. CallsFit'
  <2>1. ReportedCalls' \subseteq ReportedCalls \cup {cmd} BY Reported
  <2> QED BY <1>2, <2>1 DEF CallsFit
<1> QED BY <1>4, <1>5, <1>6

LEMMA InitDInv == CommandsWellFormed /\ Init => DInv
<1> SUFFICES ASSUME CommandsWellFormed, Init PROVE DInv
  OBVIOUS
<1>1. RInv BY InitRInv
<1>2. phase = "idle" /\ env \in UserEnvs /\ ghost.user = env /\ original = <<>>
      /\ traces = [p \in Pids |-> <<>>] /\ ghost.dumped = FALSE
  BY DEF Init
<1>3. DOMAIN env = Vars /\ Harmless(env[H]) BY <1>2, UserHarmless
<1>4. H \notin DOMAIN original BY <1>2
<1>5. ReportedCalls = {} BY <1>2 DEF ReportedCalls, Range
<1> QED BY <1>1, <1>2, <1>3, <1>4, <1>5
        DEF DInv, HeadersHarmless, TreeFits, CallsFit, DatabaseExact, DumpedOnce

LEMMA StepDInv == CommandsWellFormed /\ DInv /\ [Next]_vars => DInv'
<1> SUFFICES ASSUME CommandsWellFormed, DInv, [Next]_vars PROVE DInv'
  OBVIOUS
<1>i. RInv' BY StepRInv DEF DInv
<1>d. DamageShows /\ HeadersHarmless /\ TreeFits /\ CallsFit /\ TracesWritten /\ DatabaseExact
      /\ EveryCallReported /\ DumpedOnce
  BY DEF DInv, RInv, IInv
<1>r. ASSUME HeadersHarmless', TreeFits', CallsFit', phase' # "check",
             ghost'.dumped = FALSE \/ (ghost'.dumped = ghost.dumped /\ phase # "check")
      PROVE  DInv'
  BY <1>d, <1>i, <1>r DEF DInv, DatabaseExact, DumpedOnce
<1>t. traces' = traces \/ traces' = [p \in Pids |-> <<>>] => CallsFit'
  <2>1. CASE traces' = traces BY <1>d, <2>1 DEF CallsFit, ReportedCalls
  <2>2. CASE traces' = [p \in Pids |-> <<>>]
    <3>1. ReportedCalls' = {} BY <2>2 DEF ReportedCalls, Range
    <3> QED BY <3>1 DEF CallsFit
  <2> QED BY <2>1, <2>2
<1>q. ASSUME HeadersHarmless', CallsFit', phase' # "building", phase' # "check",
             ghost'.dumped = FALSE \/ (ghost'.dumped = ghost.dumped /\ phase # "check")
      PROVE  DInv'
  BY <1>r, <1>q DEF TreeFits
\* Steps that leave the environment as it is, and those that leave the scope.
<1>s. ASSUME UNCHANGED <<env, original>>, ghost'.user = ghost.user, phase' # "compiled"
      PROVE  HeadersHarmless'
  BY <1>d, <1>s DEF HeadersHarmless, Harmless
<1>l. ASSUME Leave, ghost'.user = ghost.user, phase' # "compiled" PROVE HeadersHarmless'
  <2>1. H \in Vars BY DEF H, Vars
  <2>2. /\ DOMAIN env' = Vars /\ original' = <<>>
        /\ env'[H] = IF H \in DOMAIN original THEN original[H] ELSE env[H]
    BY <1>l, <2>1 DEF Leave
  <2>3. H \notin DOMAIN original' BY <2>2
  <2> QED BY <1>d, <1>l, <2>2, <2>3 DEF HeadersHarmless, Harmless
<1>1. CASE Start
  <2>1. PICK e \in UserEnvs :
          env' = e /\ ghost' = [ghost EXCEPT !.user = e, !.first = None, !.adjusted = FALSE]
    BY <1>1, Zenon DEF Start
  <2>2. ghost'.user = e /\ ghost'.dumped = ghost.dumped BY <1>d, <2>1 DEF DamageShows
  <2>3. DOMAIN e = Vars /\ Harmless(e[H]) BY UserHarmless
  <2>4. phase \in {"idle", "aborted"} /\ phase' = "initial" /\ original' = <<>> /\ traces' = traces BY <1>1 DEF Start
  <2>5. H \notin DOMAIN original' BY <2>4
  <2>6. HeadersHarmless' BY <2>1, <2>2, <2>3, <2>4, <2>5 DEF HeadersHarmless, Harmless
  <2> QED BY <1>q, <1>t, <2>2, <2>4, <2>6
<1>2. CASE Abort
  <2>1. phase' = "aborted" /\ UNCHANGED <<env, original>> /\ traces' = [p \in Pids |-> <<>>]
    BY <1>2 DEF Abort, Forgotten
  <2>2. ghost'.user = ghost.user /\ ghost'.dumped = FALSE
    BY <1>2, <1>d DEF Abort, Forgotten, DamageShows
  <2> QED BY <1>q, <1>s, <1>t, <2>1, <2>2
<1>3. CASE initialBuild \/ buildProject
  <2>1. PICK kind, bear : Run(kind, None, bear, Compilers) BY <1>3 , Zenon DEF initialBuild, buildProject
  <2>2. DOMAIN Compilers \subseteq Vars /\ H \notin DOMAIN Compilers
        /\ "CC" \in DOMAIN Compilers /\ Compilers["CC"] = "f1x-cc"
    BY DEF Compilers, Vars, H
  <2>3. HeadersHarmless' /\ TreeFits' /\ CallsFit' BY <1>d, <2>1, <2>2, RunFits
  <2>4. phase' = "building" BY <2>1 DEF Run
  <2>5. phase # "check" /\ ghost'.dumped = ghost.dumped
    BY <1>3, <1>d, <2>1 DEF initialBuild, buildProject, Run, DamageShows
  <2> QED BY <1>r, <2>3, <2>4, <2>5
<1>4. CASE compileProfiler \/ compileRuntime
  <2>1. phase = "ready" /\ phase' = "compiled" /\ UNCHANGED <<env, original, ghost, traces>>
        /\ build'.header \in Headers
    BY <1>4 DEF compileProfiler, compileRuntime, Compile, Headers
  <2>2. \A h \in Headers : Harmless(h)
    BY DEF Harmless, Headers, Texts, TakesParameter, IgnoredArguments
  <2>3. HeadersHarmless' BY <1>d, <2>1, <2>2 DEF HeadersHarmless, Harmless
  <2> QED BY <1>q, <1>t, <2>1, <2>3
<1>5. CASE buildWithRuntime
  <2> DEFINE h == build.header
             e == [v \in {"CC", "F1X_RUNTIME_H", "LD_LIBRARY_PATH"} |->
                     CASE v = "CC" -> "f1x-cc" [] v = "F1X_RUNTIME_H" -> h [] OTHER -> "datadir"]
  <2>1. phase = "compiled" /\ Run("runtime", h, FALSE, e) BY <1>5 DEF buildWithRuntime
  <2>2. DOMAIN e \subseteq Vars /\ e[H] = h /\ "CC" \in DOMAIN e /\ e["CC"] = "f1x-cc" BY DEF Vars, H
  <2>3. Harmless(h) BY <1>d, <2>1 DEF HeadersHarmless
  <2> HIDE DEF e
  <2>4. HeadersHarmless' /\ TreeFits' /\ CallsFit' BY <1>d, <2>1, <2>2, <2>3, RunFits
  <2>5. phase' = "building" /\ ghost'.dumped = ghost.dumped BY <1>d, <2>1 DEF Run, DamageShows
  <2> QED BY <1>r, <2>1, <2>4, <2>5
<1>6. CASE ForkExec
  <2>p. PICK pid \in DOMAIN procs, child \in Pids \ DOMAIN procs, found \in BOOLEAN :
          \E cmd \in Asked(procs[pid]), e \in Environments(procs[pid]) :
            /\ traces' = bear_report_call(child, procs[pid], cmd)
            /\ procs' = IF found THEN [p \in DOMAIN procs \cup {child} |->
                                         IF p = child THEN Loaded(cmd, Passed(procs[pid], e))
                                         ELSE procs[p]] ELSE procs
            /\ ghost' = Called(cmd, found)
    BY <1>6 DEF ForkExec
  <2>1. PICK cmd \in Asked(procs[pid]), e \in Environments(procs[pid]) :
          /\ traces' = bear_report_call(child, procs[pid], cmd)
          /\ procs' = IF found THEN [p \in DOMAIN procs \cup {child} |->
                                       IF p = child THEN Loaded(cmd, Passed(procs[pid], e))
                                       ELSE procs[p]] ELSE procs
          /\ ghost' = Called(cmd, found)
    BY <2>p
  <2>2. phase = "building" /\ UNCHANGED <<phase, env, original, build>> BY <1>6 DEF ForkExec
  <2>3. \A q \in DOMAIN procs' : \/ procs'[q] = Loaded(cmd, Passed(procs[pid], e))
                                 \/ q \in DOMAIN procs /\ procs'[q] = procs[q]
    BY <2>1
  <2>4. HeadersHarmless' /\ TreeFits' /\ CallsFit' BY <1>d, <2>1, <2>2, <2>3, CallFits
  <2>5. ghost'.dumped = ghost.dumped BY <1>d, <2>1 DEF Called, DamageShows
  <2> QED BY <1>r, <2>2, <2>4, <2>5
<1>7. CASE Exec
  <2>p. PICK pid \in DOMAIN procs :
          \E cmd \in Asked(procs[pid]), e \in Environments(procs[pid]) :
            /\ traces' = bear_report_call(pid, procs[pid], cmd)
            /\ procs' = [procs EXCEPT ![pid] = Loaded(cmd, Passed(procs[pid], e))]
            /\ ghost' = Called(cmd, TRUE)
    BY <1>7 DEF Exec
  <2>1. PICK cmd \in Asked(procs[pid]), e \in Environments(procs[pid]) :
          /\ traces' = bear_report_call(pid, procs[pid], cmd)
          /\ procs' = [procs EXCEPT ![pid] = Loaded(cmd, Passed(procs[pid], e))]
          /\ ghost' = Called(cmd, TRUE)
    BY <2>p
  <2>2. phase = "building" /\ UNCHANGED <<phase, env, original, build>> BY <1>7 DEF Exec
  <2>3. \A q \in DOMAIN procs' : \/ procs'[q] = Loaded(cmd, Passed(procs[pid], e))
                                 \/ q \in DOMAIN procs /\ procs'[q] = procs[q]
    BY <2>1
  <2>4. HeadersHarmless' /\ TreeFits' /\ CallsFit' BY <1>d, <2>1, <2>2, <2>3, CallFits
  <2>5. ghost'.dumped = ghost.dumped BY <1>d, <2>1 DEF Called, DamageShows
  <2> QED BY <1>r, <2>2, <2>4, <2>5
<1>8. CASE Exit
  <2>1. phase' = "building" /\ phase = "building" /\ UNCHANGED <<env, original, traces, ghost>>
    BY <1>8 DEF Exit
  <2>2. \A q \in DOMAIN procs' : q \in DOMAIN procs /\ procs'[q] = procs[q]
    BY <1>8 DEF Exit, Restrict
  <2>3. TreeFits' BY <1>d, <2>1, <2>2 DEF TreeFits, Wrapping, Harmless
  <2> QED BY <1>r, <1>s, <1>t, <2>1, <2>3
<1>9. CASE Finish
  <2>1. CASE build.bear
    <3>1. phase = "building" /\ phase' = "dump" /\ UNCHANGED <<env, original, traces, ghost>>
      BY <1>9, <2>1 DEF Finish
    <3> QED BY <1>q, <1>s, <1>t, <3>1
  <2>2. CASE ~build.bear
    <3>1. phase' \in {"check", "ready"} /\ Leave /\ Forgotten BY <1>9, <2>2 DEF Finish
    <3>2. ghost'.user = ghost.user /\ ghost'.dumped = FALSE
      BY <1>d, <3>1 DEF Forgotten, DamageShows
    <3>3. HeadersHarmless' BY <1>l, <3>1, <3>2
    <3>4. CallsFit' BY <1>t, <3>1 DEF Forgotten
    <3>5. DatabaseExact' BY <3>2 DEF DatabaseExact
    <3> QED BY <1>i, <3>1, <3>2, <3>3, <3>4, <3>5 DEF DInv, TreeFits, DumpedOnce
  <2> QED BY <2>1, <2>2
<1>10. CASE Dump
  <2>1. phase = "dump" /\ phase' = "check" /\ Leave /\ UNCHANGED <<build, traces>>
    BY <1>10 DEF Dump
  <2>g. ghost'.user = ghost.user /\ ghost'.compiled = ghost.compiled
    BY <1>10, <1>d DEF Dump, CutShort, DamageShows
  <2>2. HeadersHarmless' BY <1>l, <2>1, <2>g
  <2>3. CallsFit' BY <1>t, <2>1
  <2>4. ASSUME NEW existing \in SUBSET Sources, db' = Present(post_processing(existing)),
               ghost'.existing = existing
        PROVE  DatabaseExact'
    <3> SUFFICES ASSUME Intercepted
                 PROVE  /\ \A c \in ghost.compiled : \A f \in Range(c.cmd.args) \cap existing :
                             Cardinality({i \in DOMAIN db'.entries :
                                db'.entries[i].file = f /\ EntryOf(db'.entries[i], c)}) = 1
                        /\ \A e \in Range(db'.entries) :
                             e.file \in existing /\ \E c \in ghost.compiled : EntryOf(e, c)
      BY <2>1, <2>g, <2>4 DEF DatabaseExact, Intercepted, EntryOf
    <3> DEFINE dumped == post_processing(existing)
    <3>1. {c.cmd : c \in ghost.compiled} = CompilerCalls
      BY <1>d, <2>1 DEF EveryCallReported, CompilerCalls
    <3>2. Exact(dumped, CompilerCalls, existing)
      BY <1>d, DumpIsExact DEF CallsFit, CommandsWellFormed
    <3>3. db'.entries = dumped BY <2>4 DEF Present
    <3> HIDE DEF dumped
    <3>4. \A e, c : EntryOf(e, [cmd |-> c.cmd]) <=> EntryOf(e, c) BY DEF EntryOf
    <3>5. ASSUME NEW c \in ghost.compiled, NEW f \in Range(c.cmd.args) \cap existing
          PROVE  Cardinality({i \in DOMAIN db'.entries :
                    db'.entries[i].file = f /\ EntryOf(db'.entries[i], c)}) = 1
      <4>1. c.cmd \in CompilerCalls BY <3>1, <3>5
      <4>2. Cardinality({i \in DOMAIN dumped :
               dumped[i].file = f /\ EntryOf(dumped[i], [cmd |-> c.cmd])}) = 1
        BY <3>2, <3>5, <4>1 DEF Exact
      <4>3. {i \in DOMAIN dumped :
               dumped[i].file = f /\ EntryOf(dumped[i], [cmd |-> c.cmd])}
             = {i \in DOMAIN dumped :
               dumped[i].file = f /\ EntryOf(dumped[i], c)}
        BY <3>4
      <4> QED BY <3>3, <4>2, <4>3
    <3>6. ASSUME NEW e \in Range(db'.entries)
          PROVE  e.file \in existing /\ \E c \in ghost.compiled : EntryOf(e, c)
      <4>1. e.file \in existing BY <3>2, <3>3, <3>6 DEF Exact
      <4>2. PICK d \in CompilerCalls : EntryOf(e, [cmd |-> d]) BY <3>2, <3>3, <3>6 DEF Exact
      <4>3. PICK c \in ghost.compiled : c.cmd = d BY <3>1
      <4> QED BY <3>4, <4>1, <4>2, <4>3
    <3> QED BY <3>5, <3>6
  <2>5. ASSUME CutShort \/ UNCHANGED <<db, ghost>> PROVE DatabaseExact'
    <3>1. ghost'.dumped = FALSE BY <1>d, <2>1, <2>5 DEF CutShort, DumpedOnce, DamageShows
    <3> QED BY <3>1 DEF DatabaseExact
  <2>6. DatabaseExact'
    <3>1. ASSUME NEW existing \in SUBSET Sources, db' = Present(post_processing(existing)),
                 ghost' = [ghost EXCEPT !.dumped = TRUE, !.existing = existing]
          PROVE  DatabaseExact'
      <4>1. ghost'.existing = existing BY <1>d, <3>1 DEF DamageShows
      <4> QED BY <2>4, <3>1, <4>1
    <3> QED BY <1>10, <2>5, <3>1, Zenon DEF Dump
  <2> QED BY <1>i, <2>1, <2>2, <2>3, <2>6 DEF DInv, TreeFits, DumpedOnce
<1>g. ASSUME Gone, ghost'.user = ghost.user, traces' = [p \in Pids |-> <<>>] \/ traces' = traces,
             ghost'.dumped = FALSE \/ (ghost'.dumped = ghost.dumped /\ phase # "check")
      PROVE  DInv'
  <2>1. phase' = "idle" /\ env' = ghost.user /\ original' = <<>> BY <1>g DEF Gone
  <2>2. ghost.user \in UserEnvs BY <1>d DEF HeadersHarmless
  <2>3. DOMAIN ghost.user = Vars /\ Harmless(ghost.user[H]) BY <2>2, UserHarmless
  <2>4. H \notin DOMAIN original' BY <2>1
  <2>5. HeadersHarmless' BY <1>g, <2>1, <2>2, <2>3, <2>4 DEF HeadersHarmless, Harmless
  <2> QED BY <1>g, <1>q, <1>t, <2>1, <2>5
<1>11. CASE Check
  <2>1. ghost'.user = ghost.user /\ traces' = [p \in Pids |-> <<>>] /\ ghost'.dumped = FALSE
    BY <1>11, <1>d DEF Check, Forgotten, DamageShows
  <2>2. CASE Gone BY <1>g, <2>1, <2>2
  <2>3. CASE ~Gone
    <3>1. phase' = "adjust" /\ UNCHANGED <<env, original>> BY <1>11, <2>3 DEF Check
    <3> QED BY <1>q, <1>s, <1>t, <2>1, <3>1
  <2> QED BY <2>2, <2>3
<1>12. CASE Adjust
  <2>1. phase = "adjust" /\ phase' = "ready" /\ UNCHANGED <<env, original, traces>>
    BY <1>12 DEF Adjust
  <2>2. ghost'.user = ghost.user /\ ghost'.dumped = ghost.dumped
    BY <1>12, <1>d DEF Adjust, CutShort, DamageShows
  <2> QED BY <1>q, <1>s, <1>t, <2>1, <2>2
<1>13. CASE execute
  <2>1. phase = "ready" /\ phase' = "ready" /\ UNCHANGED <<original, traces, ghost>>
    BY <1>13 DEF execute
  <2>2. DOMAIN env' = DOMAIN env /\ env'[H] = env[H] BY <1>13 DEF execute, H
  <2>3. HeadersHarmless' BY <1>d, <2>1, <2>2 DEF HeadersHarmless, Harmless
  <2> QED BY <1>q, <1>t, <2>1, <2>3
<1>14. CASE Quit BY <1>14, <1>g DEF Quit
<1>15. CASE Interrupt
  <2>1. ghost'.user = ghost.user /\ traces' = [p \in Pids |-> <<>>] /\ Gone /\ ghost'.dumped = FALSE
    BY <1>15, <1>d DEF Interrupt, DamageShows
  <2> QED BY <1>g, <2>1
<1>16. CASE UNCHANGED vars
  <2>1. UNCHANGED <<phase, env, original, build, procs, traces, db, ghost>> BY <1>16 DEF vars
  <2>2. HeadersHarmless' BY <1>d, <2>1 DEF HeadersHarmless, Harmless
  <2>3. TreeFits' BY <1>d, <2>1 DEF TreeFits, Wrapping, Harmless
  <2>4. DatabaseExact'
    <3>1. Intercepted' <=> Intercepted BY <2>1 DEF Intercepted
    <3>2. \A e, c : EntryOf(e, c)' <=> EntryOf(e, c) BY DEF EntryOf
    <3> QED BY <1>d, <2>1, <3>1, <3>2 DEF DatabaseExact
  <2>5. DumpedOnce' BY <1>d, <2>1 DEF DumpedOnce
  <2> QED BY <1>i, <1>t, <2>1, <2>2, <2>3, <2>4, <2>5 DEF DInv
<1> QED
  BY <1>1, <1>2, <1>3, <1>4, <1>5, <1>6, <1>7, <1>8, <1>9, <1>10, <1>11, <1>12, <1>13, <1>14,
     <1>15, <1>16
  DEF Next

\* If the commands of the project are well formed, then the database that bear
\* finished for an intercepted build has exactly one entry for each source of
\* each compiler call that is there at the end of the build, with the flags of
\* that call, and no other entry, whatever the build does to the environment
\* that it passes on, whatever sources it removes and whatever ran before it.
THEOREM DatabaseIsExact == CommandsWellFormed /\ Spec => []DatabaseExact
<1>1. DInv => DatabaseExact BY DEF DInv
<1> SUFFICES ASSUME CommandsWellFormed PROVE Spec => []DatabaseExact
  OBVIOUS
<1>2. DInv /\ [Next]_vars => DInv' BY StepDInv
<1>3. Init => DInv BY InitDInv
<1> QED BY <1>1, <1>2, <1>3, PTL DEF Spec
=============================================================================

------------------------------- MODULE Build -------------------------------
(***************************************************************************)
(* Building the project: the environment f1x gives to its builds           *)
(* (Project.cpp, Util.cpp), the compiler wrapper f1x-cc, the interception   *)
(* of exec calls by libear, and the compilation database bear writes, f1x   *)
(* adjusts and later runs reuse.  A process keeps what libear captured when *)
(* its image was loaded; a build is a tree of such processes.               *)
(***************************************************************************)
EXTENDS Naturals, FiniteSets, SequencesExt, Functions

CONSTANTS
  Pids,          \* process identifiers
  Commands,      \* what the build tool runs: [prog, args], args a sequence of words
  Sources,       \* the words that name source files
  ProjectFiles,  \* the source files f1x was given
  UserEnvs,      \* the environments f1x may be started in
  CallLimit,     \* bound on the exec calls of one build
  RunLimit       \* bound on the f1x commands given in one source tree

None == "none"
Vars == {"BEAR_OUTPUT", "LD_PRELOAD", "CC", "F1X_RUNTIME_H", "LD_LIBRARY_PATH"}
EnvNames == <<"BEAR_OUTPUT", "LD_PRELOAD">>

ASSUME BuildAssumption ==
  /\ ProjectFiles \subseteq Sources
  /\ UserEnvs \subseteq [Vars -> STRING]
  /\ Commands \subseteq [prog : STRING, args : Seq(STRING)]
  /\ IsFiniteSet(Pids) /\ 1 \in Pids /\ Pids = 1..Cardinality(Pids)

VARIABLES
  phase,     \* where the f1x command is: idle, initial, building, dump, check, adjust, ready,
             \* compiled (the library of a runtime), aborted
  env,       \* the environment of f1x itself
  original,  \* what InEnvironment will restore; defined for the variables it found set
  build,     \* the build in progress
  procs,     \* the live processes of the build
  traces,    \* the <pid>.cmd files of bear's temporary directory
  db,        \* compile_commands.json: absent, cut short (broken) or present with its entries
  inferred,  \* the inferenceSuccess of initialBuild
  runs,      \* f1x commands started so far
  ghost      \* history: compiles of this build, user environment, first header; was this
             \* build's database dumped, of which existing sources; was the one of this run
             \* adjusted; the run whose write of it was cut short (damaged, 0 for none)

vars == <<phase, env, original, build, procs, traces, db, inferred, runs, ghost>>

----------------------------------------------------------------------------
(* libear: what a process image is, and what an exec call does. *)

\* on_load with bear_capture_env_t: the library is loaded by LD_PRELOAD only
Loaded(cmd, e) ==
  [cmd |-> cmd, env |-> e, lib |-> e["LD_PRELOAD"] = "libear",
   captured |-> [i \in 1..Len(EnvNames) |->
                   IF e["LD_PRELOAD"] = "libear" THEN e[EnvNames[i]] ELSE None]]

initialized(p) == p.lib /\ \A i \in 1..Len(EnvNames) : p.captured[i] # None

\* mutant: an entry that is there is kept
update_environment_appends(e, captured) ==
  [v \in DOMAIN e |-> IF v \in Range(EnvNames) /\ e[v] = None
                      THEN captured[CHOOSE i \in 1..Len(EnvNames) : EnvNames[i] = v] ELSE e[v]]

\* the captured values replace or append; the loop stops at the first missing one
bear_update_environment(e, captured) ==
  LET firstMissing(v) == \A i \in 1..Len(EnvNames) :
        EnvNames[i] = v => \A j \in 1..i : captured[j] # None
      value(v) == captured[CHOOSE i \in 1..Len(EnvNames) : EnvNames[i] = v]
  IN  [v \in DOMAIN e |-> IF v \in Range(EnvNames) /\ firstMissing(v) THEN value(v) ELSE e[v]]

\* exec* and posix_spawn pass the caller's environment through the library
Passed(p, envp) == IF p.lib THEN bear_update_environment(envp, p.captured) ELSE envp

bear_report_call(pid, p, cmd) ==
  IF initialized(p) /\ p.captured[1] = "traces"
  THEN [traces EXCEPT ![pid] = Append(@, cmd)] ELSE traces

----------------------------------------------------------------------------
(* bear: the commands that are compilations, and the database. *)

CompilerWrappers == {"ccache"}
CompilerNames == {"gcc", "cc", "clang"}
is_source(w) == w \in Sources
IgnoredArguments == [w \in {"-c", "-MD", "-MF", "-l"} |-> IF w \in {"-MF", "-l"} THEN 1 ELSE 0]
Quits == {"-E", "-S", "-M"}

\* the parameters of the compiler; a wrapper of anything else is taken for one
split_compiler(cmd) ==
  LET words == <<cmd.prog>> \o cmd.args
      k == SelectInSeq(words, LAMBDA w : w \notin CompilerWrappers)
  IN  IF k = 0 THEN <<>>
      ELSE IF words[k] \in CompilerNames THEN SubSeq(words, k + 1, Len(words))
      ELSE IF k > 1 THEN SubSeq(words, k, Len(words)) ELSE <<>>

\* a call that does not compile has no files, nor has one whose last option lacks its
\* parameter: next(args) ends the generator of its entries (or the program, see Dump)
split_command(cmd) ==
  LET Word(acc, w) ==
        IF acc.skip > 0 THEN [acc EXCEPT !.skip = @ - 1]
        ELSE IF w \in Quits THEN [acc EXCEPT !.quit = TRUE]
        ELSE IF w \in DOMAIN IgnoredArguments THEN [acc EXCEPT !.skip = IgnoredArguments[w]]
        ELSE IF is_source(w) THEN [acc EXCEPT !.files = Append(@, w)]
        ELSE [acc EXCEPT !.flags = Append(@, w)]
      parsed == FoldLeft(Word, [skip |-> 0, quit |-> FALSE, flags |-> <<>>, files |-> <<>>],
                         split_compiler(cmd))
  IN  IF parsed.quit \/ parsed.skip > 0 THEN [parsed EXCEPT !.files = <<>>] ELSE parsed

format_entry(cmd) ==
  LET c == split_command(cmd)
  IN  [i \in 1..Len(c.files) |->
         [file |-> c.files[i], command |-> <<"cc", "-c">> \o c.flags \o <<c.files[i]>>]]

entry_hash(e) == <<e.file, Tail(e.command)>>

duplicate_check(kept, e) == \E k \in Range(kept) : entry_hash(k) = entry_hash(e)

\* if os.path.exists(entry['file']) and not duplicate(entry)
Filtered(entries, existing) ==
  FoldLeft(LAMBDA kept, e : IF e.file \notin existing \/ duplicate_check(kept, e)
                            THEN kept ELSE Append(kept, e), <<>>, entries)

\* the files of the temporary directory, each with its calls, in the order of their
\* names; the build may have removed sources it compiled
post_processing(existing) ==
  Filtered(FlattenSeq(LET calls == FlattenSeq([p \in 1..Cardinality(Pids) |-> traces[p]])
                      IN  [i \in 1..Len(calls) |-> format_entry(calls[i])]), existing)

----------------------------------------------------------------------------
(* f1x: scopes of the environment, the database checks. *)

Enter(e) == /\ original' = [v \in {w \in DOMAIN e : env[w] # None} |-> env[v]]
            /\ env' = [v \in Vars |-> IF v \in DOMAIN e THEN e[v] ELSE env[v]]
\* mutant: the destructor that restores nothing
LeaveAll == env' = env /\ original' = <<>>
Leave == /\ env' = [v \in Vars |-> IF v \in DOMAIN original THEN original[v] ELSE env[v]]
         /\ original' = <<>>

Present(entries) == [state |-> "present", entries |-> entries]
Broken == [state |-> "broken", entries |-> <<>>]
Listed(f) == \E e \in Range(db.entries) : e.file = f
projectFilesInCompileDB == \A f \in ProjectFiles : Listed(f)

IncludeCmd == "-I clang"
DefineCmd == "-D__f1xapp=0ul"
\* mutant: without the search for the flag
InsertedAgain(command, w) == <<Head(command), w>> \o Tail(command)
Inserted(command, w) == IF w \in Range(command) THEN command
                        ELSE <<Head(command), w>> \o Tail(command)
adjustCompileDB ==
  Present([i \in DOMAIN db.entries |->
     [db.entries[i] EXCEPT !.command = Inserted(Inserted(@, IncludeCmd), DefineCmd)]])

\* mutant: a missing file is parsed
UnparsableMissing == db.state # "present"
Unparsable == db = Broken
reusable == db.entries # <<>>

----------------------------------------------------------------------------
Init == /\ phase = "idle" /\ env \in UserEnvs /\ original = <<>>
        /\ build = [kind |-> None, bear |-> FALSE, header |-> None]
        /\ procs = <<>> /\ traces = [p \in Pids |-> <<>>]
        /\ db = [state |-> "absent", entries |-> <<>>] /\ inferred = FALSE /\ runs = 0
        /\ ghost = [compiled |-> {}, user |-> env, first |-> None, calls |-> 0, dumped |-> FALSE,
                    existing |-> {}, adjusted |-> FALSE, damaged |-> 0]

\* a new f1x command, in an environment of the user's choice
Start == /\ phase \in {"idle", "aborted"} /\ runs < RunLimit
         /\ \E e \in UserEnvs : env' = e /\ ghost' = [ghost EXCEPT !.user = e, !.first = None,
                                                                         !.adjusted = FALSE]
         /\ phase' = "initial" /\ runs' = runs + 1 /\ original' = <<>> /\ inferred' = FALSE
         /\ UNCHANGED <<build, procs, traces, db>>

setup_environment(e) == [e EXCEPT !["BEAR_OUTPUT"] = "traces", !["LD_PRELOAD"] = "libear"]

\* std::system of a build command within its environment, under f1x-bear or not;
\* python's own exec of the build may be intercepted
Run(kind, header, bear, e) ==
  LET scoped == [v \in Vars |-> IF v \in DOMAIN e THEN e[v] ELSE env[v]]
      given == IF bear THEN Passed(Loaded([prog |-> "f1x-bear", args |-> <<>>], scoped),
                                   setup_environment(scoped))
               ELSE scoped
  IN  /\ Enter(e)
      /\ build' = [kind |-> kind, bear |-> bear, header |-> header]
      /\ procs' = [pid \in {1} |-> Loaded([prog |-> "sh", args |-> <<>>], given)]
      /\ traces' = [p \in Pids |-> <<>>]
      /\ ghost' = [ghost EXCEPT !.compiled = {}, !.calls = 0,
                     !.first = IF @ = None THEN header ELSE @]
      /\ phase' = "building" /\ UNCHANGED <<db, inferred, runs>>

Compilers == [v \in {"CC"} |-> "f1x-cc"]

initialBuild == phase = "initial" /\ ~Unparsable /\ Run("initial", None, ~reusable, Compilers)
buildProject == phase = "ready" /\ Run("build", None, FALSE, Compilers)

\* Profiler::compile and Runtime::compile write a header and its libf1xrt.so; a
\* failure ends the run (Quit)
Compile(h) == /\ phase = "ready" /\ phase' = "compiled"
              /\ build' = [kind |-> "compiled", bear |-> FALSE, header |-> h]
              /\ UNCHANGED <<env, original, procs, traces, db, inferred, runs, ghost>>
compileProfiler == Compile("profile.h")
compileRuntime == Compile("rt.h")

buildWithRuntime ==
  /\ phase = "compiled"
  /\ LET h == build.header IN Run("runtime", h, FALSE, [v \in {"CC", "F1X_RUNTIME_H", "LD_LIBRARY_PATH"} |->
                              CASE v = "CC" -> "f1x-cc" [] v = "F1X_RUNTIME_H" -> h [] OTHER -> "datadir"])

\* f1x-cc: the command it runs is gcc's, with the runtime if the variable is set
Wrapped(p) ==
  [prog |-> "gcc",
   args |-> IF p.env["F1X_RUNTIME_H"] # None
            THEN <<"--coverage", "-include", p.env["F1X_RUNTIME_H"]>> \o p.cmd.args \o <<"-l", "f1xrt">>
            ELSE <<"--coverage">> \o p.cmd.args]

\* what a process may ask for: the build tool its commands, the wrapper one command
\* (the programs a compiler runs, cc1 or as, are not compilers to bear)
Asked(p) == IF p.cmd.prog = "f1x-cc" THEN {Wrapped(p)}
            ELSE IF p.cmd.prog = "sh"
            THEN {[c EXCEPT !.prog = IF @ = "$CC" /\ p.env["CC"] # None THEN p.env["CC"]
                                     ELSE IF @ = "$CC" THEN "cc" ELSE @] : c \in Commands}
            ELSE IF p.cmd.prog \in CompilerWrappers /\ p.cmd.args # <<>>
            THEN {[prog |-> Head(p.cmd.args), args |-> Tail(p.cmd.args)]}
            ELSE {}

\* a process may pass on its environment, or one without the interception
Environments(p) == {p.env, [p.env EXCEPT !["LD_PRELOAD"] = None, !["BEAR_OUTPUT"] = None],
                    [p.env EXCEPT !["LD_PRELOAD"] = "other"]}

\* the history of the calls of compilers, whether or not the program was found
Unwrapped(cmd) == IF cmd.prog \in CompilerWrappers THEN [prog |-> Head(cmd.args), args |-> Tail(cmd.args)] ELSE cmd
CompilesSource(cmd) == /\ cmd.prog \in CompilerNames \cup CompilerWrappers
                       /\ Range(cmd.args) \cap Quits = {} /\ Range(cmd.args) \cap Sources # {}
Called(cmd, found) ==
  [ghost EXCEPT !.calls = @ + 1,
                !.compiled = IF CompilesSource(cmd) THEN @ \cup {[cmd |-> Unwrapped(cmd), ran |-> found]} ELSE @]

\* fork and exec in the child: the child reports, then its image is replaced if
\* the program is found, else the child ends
ForkExec ==
  /\ phase = "building" /\ ghost.calls < CallLimit
  /\ \E pid \in DOMAIN procs, child \in Pids \ DOMAIN procs, found \in BOOLEAN :
       \E cmd \in Asked(procs[pid]), envp \in Environments(procs[pid]) :
         LET image == Loaded(cmd, Passed(procs[pid], envp))
         IN  /\ traces' = bear_report_call(child, procs[pid], cmd)
             /\ procs' = IF found THEN [p \in DOMAIN procs \cup {child} |->
                                          IF p = child THEN image ELSE procs[p]] ELSE procs
             /\ ghost' = Called(cmd, found)
  /\ UNCHANGED <<phase, env, original, build, db, inferred, runs>>

\* exec in the process itself
Exec ==
  /\ phase = "building" /\ ghost.calls < CallLimit
  /\ \E pid \in DOMAIN procs : \E cmd \in Asked(procs[pid]), envp \in Environments(procs[pid]) :
       LET image == Loaded(cmd, Passed(procs[pid], envp))
       IN  /\ traces' = bear_report_call(pid, procs[pid], cmd)
           /\ procs' = [procs EXCEPT ![pid] = image]
           /\ ghost' = Called(cmd, TRUE)
  /\ UNCHANGED <<phase, env, original, build, db, inferred, runs>>

Exit == /\ phase = "building"
        /\ \E pid \in DOMAIN procs : procs' = Restrict(procs, DOMAIN procs \ {pid})
        /\ UNCHANGED <<phase, env, original, build, traces, db, inferred, runs, ghost>>

\* the build command ended: bear dumps the database, f1x leaves the scope
NoBuild == [kind |-> None, bear |-> FALSE, header |-> None]
Forgotten == /\ build' = NoBuild /\ traces' = [p \in Pids |-> <<>>]
             /\ ghost' = [ghost EXCEPT !.compiled = {}, !.calls = 0, !.dumped = FALSE, !.existing = {}]
Finish == /\ phase = "building" /\ procs = <<>>
          /\ IF build.bear THEN phase' = "dump" /\ UNCHANGED <<env, original, build, traces, ghost>>
             ELSE phase' = (IF build.kind = "initial" THEN "check" ELSE "ready") /\ Leave /\ Forgotten
          /\ UNCHANGED <<procs, db, inferred, runs>>

\* a write of the database that an exception, an error or a kill ends
CutShort == db' = Broken /\ ghost' = [ghost EXCEPT !.damaged = runs]

\* bear opens the file for writing, which empties it, and only then evaluates the
\* generators; or it fails before that.  f1x does not look at its exit status.
Dump == /\ phase = "dump" /\ phase' = "check" /\ Leave
        /\ \/ \E existing \in SUBSET Sources :
                 /\ db' = Present(post_processing(existing))
                 /\ ghost' = [ghost EXCEPT !.dumped = TRUE, !.existing = existing]
           \/ CutShort
           \/ UNCHANGED <<db, ghost>>
        /\ UNCHANGED <<build, procs, traces, inferred, runs>>

\* GetArray on a document that failed to parse: rapidjson's assertion ends f1x; in
\* "ready" in filesFromCompilationDB, when no files are given
Abort == /\ phase \in {"initial", "check", "ready"} /\ Unparsable
         /\ phase' = "aborted" /\ Forgotten
         /\ UNCHANGED <<env, original, procs, db, inferred, runs>>

\* a process that is gone keeps nothing
Gone == phase' = "idle" /\ env' = ghost.user /\ original' = <<>> /\ procs' = <<>>

\* initialBuild's test of the database, then the adjusted one is written; nothing
\* looks at the stream, which may fail to open or to write
Check == /\ phase = "check" /\ ~Unparsable
         /\ inferred' = (db.state # "absent" /\ projectFilesInCompileDB)
         /\ IF inferred' THEN phase' = "adjust" /\ UNCHANGED <<env, original, procs>> ELSE Gone
         /\ Forgotten /\ UNCHANGED <<db, runs>>
Adjust == /\ phase = "adjust" /\ phase' = "ready"
          /\ \/ db' = adjustCompileDB /\ ghost' = [ghost EXCEPT !.adjusted = TRUE]
             \/ CutShort
             \/ UNCHANGED <<db, ghost>>
          /\ UNCHANGED <<env, original, build, procs, traces, inferred, runs>>

\* TestingFramework::execute: a scope around one test
execute == /\ phase = "ready"
           /\ env' = [env EXCEPT !["LD_LIBRARY_PATH"] = IF @ = None THEN "datadir" ELSE @]
           /\ UNCHANGED <<phase, original, build, procs, traces, db, inferred, runs, ghost>>

Quit == /\ phase = "ready" /\ Gone /\ UNCHANGED <<build, traces, db, inferred, runs, ghost>>

\* f1x and its build are killed; a file being written is left cut short
Interrupt == /\ phase \notin {"idle", "aborted"} /\ Gone
             /\ db' = IF phase \in {"dump", "adjust"} THEN Broken ELSE db
             /\ build' = NoBuild /\ traces' = [p \in Pids |-> <<>>]
             /\ ghost' = [ghost EXCEPT !.damaged = IF phase \in {"dump", "adjust"} THEN runs ELSE @,
                                       !.compiled = {}, !.calls = 0, !.dumped = FALSE, !.existing = {}]
             /\ UNCHANGED <<inferred, runs>>

Next == \/ Start \/ Abort \/ initialBuild \/ buildProject \/ compileProfiler \/ compileRuntime \/ buildWithRuntime
        \/ ForkExec \/ Exec \/ Exit \/ Finish \/ Dump \/ Check \/ Adjust \/ execute \/ Quit \/ Interrupt
Spec == Init /\ [][Next]_vars

----------------------------------------------------------------------------
(* Properties *)

Intercepted == build.bear /\ ghost.user["LD_PRELOAD"] # "libear"

\* the words that are neither a source, nor an ignored option or what follows one
TakesParameter(w) == w \in DOMAIN IgnoredArguments /\ IgnoredArguments[w] = 1
IsFlag(args, i) == /\ args[i] \notin Sources \cup DOMAIN IgnoredArguments
                   /\ i > 1 => ~TakesParameter(args[i - 1])
Flags(cmd) == FoldLeftDomain(LAMBDA flags, i : IF IsFlag(cmd.args, i) THEN Append(flags, cmd.args[i])
                                               ELSE flags, <<>>, cmd.args)

(* However the build tool starts its programs, and whatever it does to the  *)
(* environment it passes on, the database bear writes has, for each source  *)
(* of each compiler call that is there when the build has ended, exactly    *)
(* one entry with the call's flags, and no entry that is not such a call:   *)
(* not the wrapper's own call, nor a preprocessing, nor a call twice, nor a *)
(* source the build removed (Project.cpp:187-197, libear, bear).  The       *)
(* conditions: bear got to the end of its dump, and f1x itself does not run *)
(* under an interception of the same library.                               *)
EntryOf(e, c) == /\ e.file \in Range(c.cmd.args)
                 /\ Tail(e.command) = <<"-c">> \o Flags(c.cmd) \o <<e.file>>
DatabaseExact ==
  phase = "check" /\ Intercepted /\ ghost.dumped =>
    /\ \A c \in ghost.compiled : \A f \in Range(c.cmd.args) \cap ghost.existing :
         Cardinality({i \in DOMAIN db.entries : db.entries[i].file = f /\ EntryOf(db.entries[i], c)}) = 1
    /\ \A e \in Range(db.entries) : e.file \in ghost.existing /\ \E c \in ghost.compiled : EntryOf(e, c)

(* The flags f1x adds to an entry are there exactly once, however often the *)
(* database is reused by later runs or written anew; and at most once where *)
(* the adjusted database could not be written (Project.cpp:102-134).        *)
Occurrences(w, s) == Cardinality({i \in DOMAIN s : s[i] = w})
AdjustedOnce ==
  phase = "ready" => \A e \in Range(db.entries) :
    /\ \A w \in {IncludeCmd, DefineCmd} :
         /\ Occurrences(w, e.command) <= 1
         /\ ghost.adjusted => Occurrences(w, e.command) = 1
    /\ e.command[1] = "cc"

(* Which runtime header a wrapped compile includes: in a build with the     *)
(* runtime, that build's header; in any other, the one the user had set,    *)
(* or else the header of the first runtime build of the run, which the      *)
(* scope's destructor leaves behind: a validation build is not a clean one  *)
(* (Util.cpp:57-75, Project.cpp:213-232, f1x-cc).                           *)
HeaderExpected ==
  IF build.kind = "runtime" THEN build.header
  ELSE IF ghost.user["F1X_RUNTIME_H"] # None THEN ghost.user["F1X_RUNTIME_H"]
  ELSE ghost.first
HeaderOfBuild ==
  phase = "building" => \A c \in ghost.compiled :
    "--coverage" \in Range(c.cmd.args) =>
      IF HeaderExpected = None THEN "-include" \notin Range(c.cmd.args)
      ELSE {c.cmd.args[i + 1] : i \in {j \in DOMAIN c.cmd.args : c.cmd.args[j] = "-include"}}
             = {HeaderExpected}

(* A run ends in the assertion of GetArray only if a write of the database *)
(* was cut short, in it or in an earlier run: by a kill, by an exception of *)
(* bear, which does not write through a temporary file, or by an error that *)
(* nobody looks at.  Once an earlier run has left such a file, no run gets  *)
(* past its start until it is deleted (Project.cpp:66-76, 171-185).         *)
AbortOnlyAfterCutWrite ==
  /\ phase = "aborted" => ghost.damaged # 0
  /\ ghost.damaged \in 1..runs - 1 =>
       phase \notin {"building", "dump", "check", "adjust", "ready", "compiled"}
=============================================================================

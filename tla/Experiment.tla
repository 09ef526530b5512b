----------------------------- MODULE Experiment -----------------------------
(***************************************************************************)
(* The two commands that run the repair algorithm of module Repair: f1x,   *)
(* started by a user, and f1x-bench, which takes the defects of a          *)
(* benchmark in turn, starts f1x on each under "timeout", reads its exit   *)
(* status and sums up.  The user may invoke f1x-bench again, on what the   *)
(* last invocation left behind, with the flags that select one stage.      *)
(*                                                                         *)
(* Data abstraction: a defect's directory is its source tree, or absent; a *)
(* patch file is the diff in it and the invocation that wrote it.          *)
(* fetch, set-up and tear-down are commands of the benchmark that succeed  *)
(* or fail; fetch provides a fresh copy.  f1x on sources that are not the  *)
(* original ones is one step with any outcome.                             *)
(***************************************************************************)
EXTENDS Repair, FiniteSets

CONSTANTS
    Defects,            \* sequence: names of the members of the object in
                        \* benchmark.json
    BenchConfig,        \* cfg of f1x when f1x-bench starts it
    MaxInvocations      \* bound: invocations of f1x-bench

ASSUME ExperimentAssumption ==
    /\ Defects \in Seq(Nat) /\ MaxInvocations \in Nat
    /\ \A i, j \in 1 .. Len(Defects) : Defects[i] = Defects[j] => i = j
    /\ BenchConfig = [generateAll |-> FALSE, validatePatches |-> FALSE,
                      outputOnePerLocation |-> FALSE, outputTop |-> 0, filesGiven |-> TRUE]

VARIABLES
    command,            \* "f1x" or "f1x-bench"
    stage,              \* f1x-bench: "idle", a stage of experiment(), "report"
    only,               \* flags given: subset of {"fetch", "set-up", "run", "tear-down"}
    defects,            \* defects still to do, the current one first
    dir,                \* directory of each defect: a tree, or Absent
    patchFile,          \* in the output directory: [writtenIn, diff], or NoPatch;
                        \* history: applied, did applyPatch succeed for the diff?
    result,             \* per defect: status of this invocation, "none" before
    totals,             \* totalRepaired, totalErrors, totalTimeouts, defects reported
    invocation,
    hasTimeout,         \* --timeout
    ranIn,              \* history: invocation of the last run of each defect
    sound,              \* history: the defect's last run started from original
                        \* sources and left main() by itself
    interrupted         \* history: a run was cut since the directory was fresh

benchVars == <<stage, only, defects, dir, patchFile, result, totals, invocation, hasTimeout,
               ranIn, sound, interrupted>>
allVars == <<vars, command, benchVars>>

DefectSet == {Defects[i] : i \in 1 .. Len(Defects)}
Absent    == <<-4>>
NoPatch   == [writtenIn |-> 0, diff |-> <<>>, applied |-> TRUE]
Flags     == {"fetch", "set-up", "run", "tear-down"}
defect    == Head(defects)

---------------------------------------------------------------------------
\* ExperimentPlan: a stage is left out when a flag selects another one.
Plan(s) == only \subseteq {s}

\* if (fetchOnly || setUpOnly || tearDownOnly) continue;
Reports == only \subseteq {"run"}

\* Mutant: the exit status of "timeout" counts as success.
ExperimentStatusLax(code) == IF code \in {0, 124} THEN "SUCCESS" ELSE "FAILURE"

\* run(): WEXITSTATUS, compared with the exit codes of f1x and of "timeout".
ExperimentStatus(code) ==
    CASE code = 0   -> "SUCCESS"
      [] code = 122 -> "FAILURE"
      [] code = 124 -> "TIMEOUT"
      [] OTHER      -> "ERROR"

\* The exit code of main() for a status of repair().
ExitCode(s) == CASE s = "SUCCESS" -> 0
                 [] s = "FAILURE" -> 122
                 [] s = "ERROR"   -> 1
                 [] s = "NO_NEGATIVE_TESTS" -> 123

\* WEXITSTATUS of a shell that runs a command which a signal ended: 128 + SIGABRT
\* when the shell waited for it, 0 when the shell was replaced by it.
AbortCodes == {134, 0}

Cleared == totals' = [repaired |-> 0, errors |-> 0, timeouts |-> 0, reported |-> 0]

---------------------------------------------------------------------------
\* A user runs f1x, or works with f1x-bench in a new directory.
ExperimentInit ==
    /\ command \in {"f1x", "f1x-bench"}
    /\ IF command = "f1x" THEN Init
       ELSE /\ cfg = BenchConfig /\ pc = "terminated"
            /\ tree = Pristine /\ original = None /\ binary = None
            /\ envCandidate = -1 /\ last = 0 /\ plausiblePatches = <<>> /\ toValidate = <<>>
            /\ outputs = <<>> /\ written = 0 /\ status = "none"
            /\ plausible = {} /\ valid = {} /\ compiles = {} /\ applies = {}
            /\ unreliable = FALSE
    /\ stage = "idle" /\ only = {} /\ defects = <<>>
    /\ dir = [d \in DefectSet |-> Absent]
    /\ patchFile = [d \in DefectSet |-> NoPatch]
    /\ result = [d \in DefectSet |-> "none"]
    /\ totals = [repaired |-> 0, errors |-> 0, timeouts |-> 0, reported |-> 0]
    /\ invocation = 0 /\ hasTimeout = FALSE
    /\ ranIn = [d \in DefectSet |-> 0]
    /\ sound = [d \in DefectSet |-> FALSE] /\ interrupted = [d \in DefectSet |-> FALSE]

\* f1x-bench with no defect given does all of them; a flag needs one.
Invoke ==
    /\ command = "f1x-bench" /\ stage = "idle" /\ invocation < MaxInvocations
    /\ only' \in SUBSET Flags /\ hasTimeout' \in BOOLEAN
    /\ \/ only' = {} /\ defects' = Defects
       \/ \E d \in DefectSet : defects' = <<d>>
    /\ result' = [d \in DefectSet |-> "none"] /\ Cleared
    /\ invocation' = invocation + 1
    /\ stage' = IF defects' = <<>> THEN "idle" ELSE "fetch"
    /\ UNCHANGED <<vars, command, dir, patchFile, ranIn, sound, interrupted>>

\* A failing command is warned about, and the experiment goes on.
Fetch ==
    /\ stage = "fetch"
    /\ \/ /\ Plan("fetch")
          /\ dir' = [dir EXCEPT ![defect] = Pristine]
          /\ interrupted' = [interrupted EXCEPT ![defect] = FALSE]
       \/ UNCHANGED <<dir, interrupted>>
    /\ stage' = "set-up"
    /\ UNCHANGED <<vars, command, only, defects, patchFile, result, totals, invocation,
                   hasTimeout, ranIn, sound>>

\* set-up configures the copy, with success or without.
SetUp ==
    /\ stage = "set-up"
    /\ stage' = "run"
    /\ UNCHANGED <<vars, command, only, defects, dir, patchFile, result, totals, invocation,
                   hasTimeout, ranIn, sound, interrupted>>

NoRun ==
    /\ stage = "run" /\ ~Plan("run")
    /\ stage' = "tear-down"
    /\ UNCHANGED <<vars, command, only, defects, dir, patchFile, result, totals, invocation,
                   hasTimeout, ranIn, sound, interrupted>>

CountRun ==
    ranIn' = [ranIn EXCEPT ![defect] = invocation]

\* std::system returns, and its status is mapped.
RunEnds(code) ==
    /\ result' = [result EXCEPT ![defect] = ExperimentStatus(code)]
    /\ stage' = "tear-down"

\* f1x does not get to its repair: the options are wrong, the files are not
\* found (fs::canonical throws, which main() does not catch), or the sources are
\* not the original ones.
RunOtherwise ==
    /\ stage = "run" /\ Plan("run")
    /\ CountRun
    /\ \/ /\ \E code \in {1} \cup AbortCodes : RunEnds(code)
          /\ UNCHANGED <<dir, patchFile>>
       \/ /\ dir[defect] \notin {Pristine, Absent}
          /\ \E code \in {0, 1, 122, 123} \cup AbortCodes : RunEnds(code)
          /\ patchFile' \in {patchFile, [patchFile EXCEPT ![defect] = NoPatch],
                             [patchFile EXCEPT ![defect] = [writtenIn |-> invocation, diff |-> dir[defect],
                                                            applied |-> TRUE]]}
          /\ UNCHANGED dir
    /\ sound' = [sound EXCEPT ![defect] = FALSE]
    /\ UNCHANGED <<vars, command, only, defects, totals, invocation, hasTimeout, interrupted>>

\* fs::remove_all(output), before the repair.
RemoveOutput == patchFile' = [patchFile EXCEPT ![defect] = NoPatch]

\* f1x starts in a process of its own: main() of F1X.cpp up to the Project.  Its
\* builds and its applications of patches may fail as those of module Repair; what
\* only validatePatch asks, valid and compiles, is left open when it is called.
StartRun ==
    /\ stage = "run" /\ Plan("run") /\ dir[defect] = Pristine
    /\ CountRun /\ RemoveOutput
    /\ sound' = [sound EXCEPT ![defect] = TRUE]
    /\ stage' = "running"
    /\ pc' = "initialBuild"
    /\ tree' = dir[defect] /\ original' = dir[defect] /\ binary' = None
    /\ envCandidate' = -1 /\ last' = 0
    /\ plausiblePatches' = <<>> /\ toValidate' = <<>>
    /\ outputs' = <<>> /\ written' = 0 /\ status' = "none"
    /\ plausible' \in SUBSET Candidates
    /\ valid' \in (IF cfg.validatePatches THEN SUBSET Candidates ELSE {plausible'})
    /\ unreliable' \in Unreliable
    /\ compiles' \in (IF unreliable' /\ cfg.validatePatches THEN SUBSET Candidates ELSE {Candidates})
    /\ applies' \in (IF unreliable' THEN SUBSET Locations ELSE {Locations})
    /\ UNCHANGED <<cfg, command, only, defects, dir, result, totals, invocation, hasTimeout,
                   interrupted>>

\* A step of f1x; an output written goes to the patch file of the defect.
F1XStep ==
    /\ command = "f1x" \/ stage = "running"
    /\ Next
    /\ patchFile' = IF command = "f1x" \/ outputs' = outputs THEN patchFile
                    ELSE [patchFile EXCEPT ![defect] =
                            LET o == outputs'[Len(outputs')]
                            IN  [writtenIn |-> invocation, diff |-> o.diff,
                                 applied |-> LocationOf[o.patch] \in applies]]
    /\ UNCHANGED <<command, stage, only, defects, dir, result, totals, invocation, hasTimeout,
                   ranIn, sound, interrupted>>

\* What a run leaves in the directory; the process is gone.
LeaveTree ==
    /\ dir' = [dir EXCEPT ![defect] = tree]
    /\ pc' = "terminated" /\ tree' = Pristine /\ original' = None /\ binary' = None
    /\ envCandidate' = -1 /\ last' = 0
    /\ plausiblePatches' = <<>> /\ toValidate' = <<>> /\ outputs' = <<>> /\ written' = 0
    /\ status' = "none"
    /\ plausible' = {} /\ valid' = {} /\ compiles' = {} /\ applies' = {}
    /\ unreliable' = FALSE
    /\ UNCHANGED cfg

\* f1x has left main(), or was ended by an exception.
RunReturns ==
    /\ stage = "running"
    /\ \/ /\ pc = "exited" /\ RunEnds(ExitCode(status))
          /\ UNCHANGED <<interrupted, sound>>
       \/ /\ pc = "terminated" /\ \E code \in AbortCodes : RunEnds(code)
          /\ interrupted' = [interrupted EXCEPT ![defect] = TRUE]
          /\ sound' = [sound EXCEPT ![defect] = FALSE]
    /\ LeaveTree
    /\ UNCHANGED <<command, only, defects, patchFile, totals, invocation, hasTimeout, ranIn>>

\* "timeout" ends f1x wherever it is: no destructor runs.
RunTimesOut ==
    /\ stage = "running" /\ hasTimeout /\ pc # "exited"
    /\ RunEnds(124)
    /\ interrupted' = [interrupted EXCEPT ![defect] = TRUE]
    /\ LeaveTree
    /\ UNCHANGED <<command, only, defects, patchFile, totals, invocation, hasTimeout, ranIn, sound>>

TearDown ==
    /\ stage = "tear-down"
    /\ stage' = "remove"
    /\ UNCHANGED <<vars, command, only, defects, dir, patchFile, result, totals, invocation,
                   hasTimeout, ranIn, sound, interrupted>>

Remove ==
    /\ stage = "remove"
    /\ IF only = {} THEN /\ dir' = [dir EXCEPT ![defect] = Absent]
                         /\ interrupted' = [interrupted EXCEPT ![defect] = FALSE]
                    ELSE UNCHANGED <<dir, interrupted>>
    /\ stage' = "report"
    /\ UNCHANGED <<vars, command, only, defects, patchFile, result, totals, invocation,
                   hasTimeout, ranIn, sound>>

One(condition) == IF condition THEN 1 ELSE 0

\* The loop of main() over the defects.  A status that was never assigned is the
\* first one, SUCCESS.
Report ==
    /\ stage = "report"
    /\ LET s == IF result[defect] = "none" THEN "SUCCESS" ELSE result[defect]
       IN  totals' = IF ~Reports THEN totals
                     ELSE [repaired |-> totals.repaired + One(s = "SUCCESS"),
                           errors   |-> totals.errors + One(s = "ERROR"),
                           timeouts |-> totals.timeouts + One(s = "TIMEOUT"),
                           reported |-> totals.reported + 1]
    /\ defects' = Tail(defects)
    /\ stage' = IF Tail(defects) = <<>> THEN "idle" ELSE "fetch"
    /\ UNCHANGED <<vars, command, only, dir, patchFile, result, invocation, hasTimeout, ranIn, sound, interrupted>>

Step == \/ F1XStep \/ Fetch \/ SetUp \/ NoRun \/ RunOtherwise \/ StartRun \/ RunReturns
        \/ TearDown \/ Remove \/ Report

ExperimentNext == Step \/ Invoke \/ RunTimesOut

\* Both programs are one thread that waits for commands which end; nothing makes
\* a user invoke f1x-bench again, or a timeout expire.
ExperimentSpec == ExperimentInit /\ [][ExperimentNext]_allVars /\ WF_allVars(Step)

---------------------------------------------------------------------------
\* The number of repaired defects in the summary is not more than the defects that
\* were run in this invocation and have in the output directory a file which this
\* run wrote: no patch of an earlier invocation and no stage that was skipped counts.
\* The file has the diff of one patch of the original sources, or nothing at all if
\* the application of the patch failed, a result that repair() does not look at.
\* (The condition: f1x was not ended by a signal, whose exit status may read as
\* success, and did not start from modified sources.)
RepairedMeansPatch ==
    (command = "f1x-bench" /\ stage = "idle" /\ invocation > 0) =>
        totals.repaired <= Cardinality({d \in DefectSet :
            /\ ranIn[d] = invocation
            /\ sound[d] =>
                 /\ patchFile[d].writtenIn = invocation
                 /\ IF patchFile[d].applied THEN \E c \in Candidates : patchFile[d].diff = <<c>>
                                            ELSE patchFile[d].diff = <<>>})

\* f1x ends, and f1x-bench goes through all defects whatever they do.
Busy == IF command = "f1x" THEN pc \notin {"exited", "terminated"} ELSE stage # "idle"
CommandsEnd == Busy ~> ~Busy
===========================================================================

------------------------------- MODULE Repair -------------------------------
(***************************************************************************)
(* The repair algorithm of repair() and the life of the Project it works   *)
(* on: the project's source files are modified in place (instrumented for  *)
(* profiling, instrumented with the schemas, patched), built, and restored *)
(* from the copies saved before.                                           *)
(*                                                                         *)
(* Data abstraction: the source tree is the sequence of modifications made *)
(* to the original; a binary is the tree it was built from.  A candidate   *)
(* is its index in the prioritised search space.  findNext is one step of  *)
(* PlausibleSearch, which SearchEngine implements.  The outcome of the     *)
(* test suite is a function of the binary: the program patched with p      *)
(* passes iff p \in valid; the program with the runtime passes iff the     *)
(* candidate in the environment is plausible (tests that are not related   *)
(* to its location pass and do not reach it); any other program fails.     *)
(***************************************************************************)
EXTENDS Integers, Sequences

CONSTANTS
    SpaceSize,          \* size of the search space
    Locations, LocationOf,
    Configs,            \* configurations of f1x: possible values of cfg
    Unreliable          \* possible values of unreliable

Candidates == 0 .. SpaceSize - 1

ASSUME RepairAssumption ==
    /\ SpaceSize \in Nat
    /\ LocationOf \in [Candidates -> Locations]
    /\ Configs \subseteq [generateAll : BOOLEAN, validatePatches : BOOLEAN,
                          outputOnePerLocation : BOOLEAN, outputTop : Nat,
                          filesGiven : BOOLEAN]
    /\ Unreliable \subseteq BOOLEAN

VARIABLES
    cfg,                \* generateAll (--all), validatePatches (--enable-validation),
                        \* outputOnePerLocation, outputTop (0 when not given),
                        \* filesGiven (--files: no fault localization)
    pc,
    tree,               \* modifications of the source files
    original,           \* the "original" copies: <<>>, or none saved yet
    binary,             \* modifications the current binary was built with
    envCandidate,       \* F1X_ID_* left in f1x's own environment, -1 for none
    last,               \* index in the search loop
    plausiblePatches,
    toValidate,         \* patches the batch validation has not seen yet
    outputs,            \* sequence of [patch, diff] written to the output
    written,            \* number of plausible patches the output loop has seen
    status,             \* RepairStatus, "none" while running
    plausible, valid,   \* oracles: see above
    compiles,           \* oracle: patches that the project builds with
    applies,            \* oracle: locations where applying a patch succeeds
    unreliable          \* oracle: may rebuilds and patch applications fail?

oracleVars == <<cfg, plausible, valid, compiles, applies, unreliable>>
searchVars == <<envCandidate, last, plausiblePatches, toValidate>>
outVars    == <<outputs, written>>
vars == <<pc, tree, original, binary, searchVars, outVars, status, oracleVars>>

\* Trees: the unmodified sources, modifications other than patches, and the
\* absence of a copy or a binary.
Pristine == <<>>
Profiled == -1
Schema   == -2
None     == <<-3>>

---------------------------------------------------------------------------
\* Mutant: nothing is restored.
RestoreNothing == UNCHANGED tree

\* Project::saveOriginalFiles copies the sources.
SaveOriginalFiles == original' = tree

\* Project::restoreOriginalFiles copies the saved originals over the sources.
RestoreOriginalFiles == tree' = IF original = None THEN tree ELSE original

\* A rebuild gives the binary of the tree, or fails and leaves what was there
\* (or nothing), which the callers only warn about.
Rebuild(t, mayFail) ==
    \/ binary' = t
    \/ mayFail /\ binary' \in {binary, None}

\* Mutant: a program that runs at all is valid.
PassesAnyTest(b) == b # None

\* TestingFramework::execute over all tests, on the program of binary b.
PassesAllTests(b) ==
    \/ \E p \in valid : b = <<p>>
    \/ b = <<Schema>> /\ envCandidate \in plausible

\* Mutant: an error path that only logs and starts over.
ReturnNot(s) == status' = s /\ UNCHANGED pc

\* return s
Return(s) == status' = s /\ pc' = "returned"

---------------------------------------------------------------------------
\* main(): the Project saves its files on construction; with no --files it
\* has none, and setFiles saves them after localization.
Init ==
    /\ cfg \in Configs /\ unreliable \in Unreliable
    /\ pc = "initialBuild"
    /\ tree = Pristine /\ original = IF cfg.filesGiven THEN Pristine ELSE None
    /\ binary = None
    /\ envCandidate = -1 /\ last = 0
    /\ plausiblePatches = <<>> /\ toValidate = <<>>
    /\ outputs = <<>> /\ written = 0 /\ status = "none"
    /\ plausible \in SUBSET Candidates
    /\ valid \in SUBSET Candidates
    /\ compiles \in (IF unreliable THEN SUBSET Candidates ELSE {Candidates})
    /\ applies \in (IF unreliable THEN SUBSET Locations ELSE {Locations})

\* Compile commands are inferred or not, the driver is executable or not.
InitialBuild ==
    /\ pc = "initialBuild"
    /\ Rebuild(tree, TRUE)
    /\ \/ pc' = "localize" /\ UNCHANGED status
       \/ Return("ERROR")
    /\ UNCHANGED <<tree, original, searchVars, outVars, oracleVars>>

\* FaultLocalization, when no files are given: some files, or none suspicious.
LocalizeFiles ==
    /\ pc = "localize"
    /\ \/ ~cfg.filesGiven /\ Return("FAILURE") /\ UNCHANGED original
       \/ pc' = "instrumentProfile" /\ UNCHANGED status
          /\ IF cfg.filesGiven THEN UNCHANGED original ELSE SaveOriginalFiles
    /\ UNCHANGED <<tree, binary, searchVars, outVars, oracleVars>>

\* instrumentFile --profile on every file; profiler.compile.
InstrumentForProfile ==
    /\ pc = "instrumentProfile"
    /\ tree' \in {tree, Append(tree, Profiled)}
    /\ \/ pc' = "buildProfile" /\ UNCHANGED status
       \/ Return("ERROR")
    /\ UNCHANGED <<original, binary, searchVars, outVars, oracleVars>>

\* buildWithRuntime(profile header), then the originals are restored.
BuildProfile ==
    /\ pc = "buildProfile"
    /\ Rebuild(tree, unreliable)
    /\ RestoreOriginalFiles
    /\ pc' = "profile"
    /\ UNCHANGED <<original, searchVars, outVars, status, oracleVars>>

\* The profiling loop (module Profiler): without a failing test nothing to do.
ProfileTests ==
    /\ pc = "profile"
    /\ \/ pc' = "instrumentSchema" /\ UNCHANGED status
       \/ Return("NO_NEGATIVE_TESTS")
    /\ UNCHANGED <<tree, original, binary, searchVars, outVars, oracleVars>>

\* instrumentFile --instrument on the files in turn; ERROR if one does not
\* leave an applications file, with the files before it already modified.
InstrumentSchemas ==
    /\ pc = "instrumentSchema"
    /\ tree' \in {tree, Append(tree, Schema)}
    /\ \/ pc' = "synthesize" /\ UNCHANGED status
       \/ Return("ERROR")
    /\ UNCHANGED <<original, binary, searchVars, outVars, oracleVars>>

\* loadSchemaApplications, correctTypes, generateSearchSpace, runtime.compile.
Synthesize ==
    /\ pc = "synthesize"
    /\ \/ pc' = "buildRuntime" /\ UNCHANGED status
       \/ Return("ERROR")
    /\ UNCHANGED <<tree, original, binary, searchVars, outVars, oracleVars>>

\* An exception of these steps leaves main(), which catches none of them: the
\* process terminates without unwinding its stack.
Throw ==
    /\ pc = "synthesize"
    /\ pc' = "terminated"
    /\ UNCHANGED <<tree, original, binary, searchVars, outVars, status, oracleVars>>

\* buildWithRuntime(runtime header), restoreOriginalFiles.
BuildWithRuntime ==
    /\ pc = "buildRuntime"
    /\ Rebuild(tree, unreliable)
    /\ RestoreOriginalFiles
    /\ pc' = "search"
    /\ UNCHANGED <<original, searchVars, outVars, status, oracleVars>>

\* What findNext can find: nothing passes unless the program has the runtime.
Findable == IF binary = <<Schema>> THEN plausible ELSE {}

\* The environment of the first candidate is never unset (InEnvironment only
\* restores what was set before).
LeakEnvironment == envCandidate' = IF envCandidate = -1 THEN last ELSE envCandidate

\* Mutant: some plausible candidate, not the first.
AnyFindable(c) == c \in last .. SpaceSize - 1 /\ c \in Findable

\* What findNext returns from last on.
NextFindable(c) ==
    /\ c \in last .. SpaceSize - 1 /\ c \in Findable
    /\ \A d \in last .. c - 1 : d \notin Findable

\* cfg.outputTop && plausiblePatches.size() >= cfg.outputTop
EnoughPatches == cfg.outputTop > 0 /\ Len(plausiblePatches) >= cfg.outputTop

\* last = engine.findNext(searchSpace, last) finds a patch.
FindPatch(c) ==
    /\ pc = "search" /\ NextFindable(c)
    /\ LeakEnvironment
    /\ last' = c
    /\ pc' = IF EnoughPatches THEN "batch"
             ELSE IF cfg.generateAll THEN "save" ELSE "single"
    /\ UNCHANGED <<tree, original, binary, plausiblePatches, toValidate, outVars,
                   status, oracleVars>>

\* The search space is exhausted.
NoMorePatches ==
    /\ pc = "search"
    /\ \A d \in last .. SpaceSize - 1 : d \notin Findable
    /\ IF last < SpaceSize THEN LeakEnvironment ELSE UNCHANGED envCandidate
    /\ last' = SpaceSize
    /\ pc' = "batch"
    /\ UNCHANGED <<tree, original, binary, plausiblePatches, toValidate, outVars,
                   status, oracleVars>>

\* Project::applyPatch, whose failure is at most warned about.  A location is
\* rewritten once; its later patches reuse the saved template, failed or not.
Patched(t, p) == IF LocationOf[p] \in applies THEN Append(t, p) ELSE t

\* validatePatch(p): apply, build, run all tests, restore.  A patch that does
\* not compile leaves the previous binary, or none.
ValidatePatch(p) ==
    /\ IF p \in compiles THEN binary' = Patched(tree, p)
                         ELSE binary' \in {binary, None}
    /\ RestoreOriginalFiles

\* Single mode: bool valid = true; if (cfg.validatePatches) validatePatch(...);
\* the patch is taken and the loop left.
TakeSingle ==
    /\ pc = "single"
    /\ IF cfg.validatePatches THEN ValidatePatch(last) ELSE UNCHANGED <<tree, binary>>
    /\ plausiblePatches' = Append(plausiblePatches, last)
    /\ pc' = "batch"
    /\ UNCHANGED <<original, envCandidate, last, toValidate, outVars, status, oracleVars>>

\* Mutant: both findNext and its caller step over the patch.
ResumeTwice == IF last + 2 <= SpaceSize THEN last + 2 ELSE SpaceSize

\* last = last + 1
Resume == last + 1

\* --all: the patch is saved and the search goes on behind it.
SavePatch ==
    /\ pc = "save"
    /\ plausiblePatches' = Append(plausiblePatches, last)
    /\ last' = Resume
    /\ pc' = "search"
    /\ UNCHANGED <<tree, original, binary, envCandidate, toValidate, outVars,
                   status, oracleVars>>

\* The batch validation of --all starts with an empty list of valid patches.
StartBatch ==
    /\ pc = "batch"
    /\ IF cfg.validatePatches /\ cfg.generateAll /\ plausiblePatches # <<>>
         THEN plausiblePatches' = <<>> /\ toValidate' = plausiblePatches /\ pc' = "validate"
         ELSE UNCHANGED <<plausiblePatches, toValidate>> /\ pc' = "output"
    /\ UNCHANGED <<tree, original, binary, envCandidate, last, outVars, status, oracleVars>>

ValidateNext ==
    /\ pc = "validate" /\ toValidate # <<>>
    /\ LET p == Head(toValidate) IN
         /\ ValidatePatch(p)
         /\ plausiblePatches' = IF PassesAllTests(binary')
                                  THEN Append(plausiblePatches, p) ELSE plausiblePatches
    /\ toValidate' = Tail(toValidate)
    /\ UNCHANGED <<pc, original, envCandidate, last, outVars, status, oracleVars>>

BatchDone ==
    /\ pc = "validate" /\ toValidate = <<>>
    /\ pc' = "output"
    /\ UNCHANGED <<tree, original, binary, searchVars, outVars, status, oracleVars>>

\* cfg.outputOnePerLocation && patchLocations.count(app)
LocationSeen(p) ==
    /\ cfg.outputOnePerLocation
    /\ \E k \in 1 .. Len(outputs) : LocationOf[outputs[k].patch] = LocationOf[p]

\* Project::computeDiff, between the copies of one file: what is new in "patched".
computeDiff(from, to) == [k \in 1 .. Len(to) - Len(from) |-> to[Len(from) + k]]

\* Output of one patch: applyPatch, computeDiff, restoreOriginalFiles.
WriteDiff ==
    /\ pc = "output" /\ written < Len(plausiblePatches)
    /\ (cfg.generateAll \/ written = 0)
    /\ LET p == plausiblePatches[written + 1]
       IN IF cfg.generateAll /\ LocationSeen(p)
            THEN UNCHANGED <<outputs, tree>>
            ELSE /\ outputs' = Append(outputs,
                                       [patch |-> p, diff |-> computeDiff(original, Patched(tree, p))])
                 /\ RestoreOriginalFiles
    /\ written' = written + 1
    /\ UNCHANGED <<pc, original, binary, searchVars, status, oracleVars>>

\* The status of a run that went through.
FinalStatus == IF plausiblePatches # <<>> THEN "SUCCESS" ELSE "FAILURE"

\* The end of repair().
Finish ==
    /\ pc = "output"
    /\ written = Len(plausiblePatches) \/ (~cfg.generateAll /\ written > 0)
    /\ Return(FinalStatus)
    /\ UNCHANGED <<tree, original, binary, searchVars, outVars, oracleVars>>

\* The scope in main() ends: ~Project restores the originals; exit.
DestroyProject ==
    /\ pc = "returned"
    /\ RestoreOriginalFiles
    /\ pc' = "exited"
    /\ UNCHANGED <<original, binary, searchVars, outVars, status, oracleVars>>

Next ==
    \/ InitialBuild \/ LocalizeFiles \/ InstrumentForProfile \/ BuildProfile
    \/ ProfileTests \/ InstrumentSchemas \/ Synthesize \/ Throw \/ BuildWithRuntime
    \/ \E c \in Candidates : FindPatch(c)
    \/ NoMorePatches \/ TakeSingle \/ SavePatch \/ StartBatch \/ ValidateNext
    \/ BatchDone \/ WriteDiff \/ Finish \/ DestroyProject

Spec == Init /\ [][Next]_vars

\* One thread; every external command it waits for ends.
FairSpec == Spec /\ WF_vars(Next)
-----------------------------------------------------------------------------
Returned == pc \in {"returned", "exited"}

TypeOK ==
    /\ pc \in {"initialBuild", "localize", "instrumentProfile", "buildProfile",
               "profile", "instrumentSchema", "synthesize", "buildRuntime", "search",
               "single", "save", "batch", "validate", "output",
               "returned", "exited", "terminated"}
    /\ tree \in Seq(Candidates \cup {Profiled, Schema})
    /\ original \in {Pristine, None}
    /\ binary \in Seq(Candidates \cup {Profiled, Schema}) \cup {None}
    /\ envCandidate \in Candidates \cup {-1} /\ last \in 0 .. SpaceSize
    /\ plausiblePatches \in Seq(Candidates) /\ toValidate \in Seq(Candidates)
    /\ outputs \in Seq([patch : Candidates, diff : Seq(Candidates)])
    /\ written \in 0 .. Len(plausiblePatches)
    /\ status \in {"none", "SUCCESS", "FAILURE", "ERROR", "NO_NEGATIVE_TESTS"}
    /\ {plausible, valid, compiles} \subseteq SUBSET Candidates
    /\ applies \in SUBSET Locations
    /\ cfg \in Configs /\ unreliable \in BOOLEAN

\* doc/Manual.md: after f1x terminates successfully, it restores the original
\* source files.  The code does so on every path that returns a status.
OriginalsRestored == pc = "exited" => tree = Pristine

\* Project.h: the convention is to restore the originals after every
\* modification.  What is output is therefore the difference between the
\* original and the original with that one patch, if it applies.
OutputsAreSinglePatches ==
    \A k \in 1 .. Len(outputs) :
        outputs[k].diff = Patched(Pristine, outputs[k].patch)

\* --enable-validation, "validate found patches": what is output with it has
\* passed all tests as a patch of the source, not only inside the runtime.
OutputsValidated ==
    cfg.validatePatches => \A k \in 1 .. Len(outputs) : outputs[k].patch \in valid \cap compiles

\* The batch validation of --all does so while commands succeed.
BatchOutputsValidated == (cfg.generateAll /\ ~unreliable) => OutputsValidated

\* What --all must output if it finds it: with validation, what builds and
\* passes all tests as a patch.
Acceptable(c) ==
    /\ c \in plausible
    /\ cfg.validatePatches => c \in valid \cap compiles /\ LocationOf[c] \in applies

\* The search space is ordered by cost: no acceptable patch is passed over for
\* a more expensive one, unless its location has been output.
CheapestFirst ==
    Returned => \A k \in 1 .. Len(outputs) :
        /\ outputs[k].patch \in plausible
        /\ \A c \in 0 .. outputs[k].patch - 1 :
             Acceptable(c) =>
               \E j \in 1 .. k - 1 :
                  \/ outputs[j].patch = c
                  \/ /\ cfg.outputOnePerLocation
                     /\ LocationOf[outputs[j].patch] = LocationOf[c]

\* --all without a limit outputs every acceptable patch, or an earlier one of
\* its location, once it outputs any (the build with the runtime succeeded).
AllAcceptableOutput ==
    (Returned /\ cfg.generateAll /\ cfg.outputTop = 0 /\ outputs # <<>>) =>
        \A c \in Candidates : Acceptable(c) =>
            \E k \in 1 .. Len(outputs) :
               \/ outputs[k].patch = c
               \/ /\ cfg.outputOnePerLocation /\ outputs[k].patch < c
                  /\ LocationOf[outputs[k].patch] = LocationOf[c]

=============================================================================

---------------------------- MODULE RepairProofs ----------------------------
(***************************************************************************)
(* Proofs about Repair for every search space and configuration: the       *)
(* sources are restored on every path to a status, and what is output is a *)
(* list of single patches, by cost, that leaves none out.  Then about      *)
(* Experiment, for every benchmark and any number of invocations: what is  *)
(* proved about one run of f1x holds of every run that f1x-bench starts,   *)
(* and the number of repaired defects never exceeds the files with patches.*)
(***************************************************************************)
EXTENDS Experiment, TLAPS, FiniteSetTheorems

Elems(s) == {s[k] : k \in 1 .. Len(s)}
Increasing(s) == \A j, k \in 1 .. Len(s) : j < k => s[j] < s[k]

\* Before the search, the search, the list of patches, and the output.
Early     == {"initialBuild", "localize", "instrumentProfile", "buildProfile", "profile",
              "instrumentSchema", "synthesize", "buildRuntime", "terminated"}
Searching == {"search", "single", "save"}
Listing   == {"batch", "validate", "output", "returned", "exited"}
Writing   == {"output", "returned", "exited"}

Shapes ==
    /\ pc \in Early \cup Searching \cup Listing
    /\ last \in 0 .. SpaceSize
    /\ plausiblePatches \in Seq(Candidates) /\ toValidate \in Seq(Candidates)
    /\ outputs \in Seq([patch : Candidates, diff : Seq(Candidates)])
    /\ written \in 0 .. Len(plausiblePatches)
    /\ valid \in SUBSET Candidates
    /\ cfg.generateAll \in BOOLEAN /\ cfg.outputTop \in Nat
    /\ ~unreliable => compiles = Candidates /\ applies = Locations

\* The sources are the original ones wherever the code relies on it, and where
\* they may not be, the copies are.
Restored ==
    /\ original \in {Pristine, None}
    /\ pc \in Early \ {"buildProfile", "synthesize", "buildRuntime", "terminated"} => tree = Pristine
    /\ pc \in Searching \cup {"batch", "validate", "output", "exited"} => tree = Pristine
    /\ pc \notin {"initialBuild", "localize", "returned", "exited"} => original = Pristine
    /\ pc \in {"initialBuild", "localize"} /\ cfg.filesGiven => original = Pristine
    /\ pc = "returned" => tree = Pristine \/ original = Pristine

NothingYet ==
    /\ pc \in Early => last = 0 /\ plausiblePatches = <<>> /\ toValidate = <<>>
    /\ pc \notin Writing => outputs = <<>> /\ written = 0

\* The patches saved are the findable candidates before last.
Found ==
    pc \in Searching =>
        /\ Increasing(plausiblePatches) /\ toValidate = <<>>
        /\ \A x \in Elems(plausiblePatches) : x \in plausible /\ x < last
        /\ binary = <<Schema>> =>
             \A c \in Candidates : c \in plausible /\ c < last => c \in Elems(plausiblePatches)
        /\ binary # <<Schema>> => plausiblePatches = <<>>
        /\ ~cfg.generateAll => plausiblePatches = <<>>
        /\ pc # "search" => binary = <<Schema>> /\ last \in Candidates /\ last \in plausible
        /\ pc = "save" => cfg.generateAll
        /\ pc = "single" => ~cfg.generateAll

\* Patches that are or may be output.
Listed == Elems(plausiblePatches) \cup Elems(toValidate)

\* No acceptable patch before a listed one is left out, and none at all by a
\* run that looked at the whole search space.
List ==
    pc \in Listing =>
        /\ Increasing(plausiblePatches) /\ Increasing(toValidate)
        /\ \A x \in Elems(plausiblePatches) : \A y \in Elems(toValidate) : x < y
        /\ pc # "validate" => toValidate = <<>>
        /\ pc = "validate" => cfg.generateAll /\ cfg.validatePatches
        /\ Listed \subseteq plausible
        /\ \A x \in Listed : \A c \in 0 .. x - 1 : Acceptable(c) => c \in Listed
        /\ (cfg.generateAll /\ cfg.outputTop = 0 /\ Listed # {}) =>
             \A c \in Candidates : Acceptable(c) => c \in Listed
        /\ (pc # "batch" /\ cfg.generateAll /\ cfg.validatePatches /\ ~unreliable) =>
             Elems(plausiblePatches) \subseteq valid \cap compiles

\* Each patch the output loop has seen is output, or one of its location is.
Stands(p, q) == \/ q = p
                \/ cfg.outputOnePerLocation /\ q < p /\ LocationOf[q] = LocationOf[p]

Output ==
    /\ \A k \in 1 .. Len(outputs) :
         /\ \E n \in 1 .. written : outputs[k].patch = plausiblePatches[n]
         /\ \A c \in 0 .. outputs[k].patch - 1 : Acceptable(c) =>
              \E j \in 1 .. k - 1 : Stands(c, outputs[j].patch)
    /\ cfg.generateAll =>
         \A n \in 1 .. written : \E k \in 1 .. Len(outputs) :
             Stands(plausiblePatches[n], outputs[k].patch)
    /\ (Returned /\ cfg.generateAll) => written = Len(plausiblePatches)

IInv ==
    /\ Shapes /\ Restored /\ NothingYet /\ Found /\ List /\ Output
    /\ OutputsAreSinglePatches

---------------------------------------------------------------------------
\* What Append does to the elements of a list and their order.
LEMMA AppendElems ==
    ASSUME NEW S, NEW s \in Seq(S), NEW x \in S
    PROVE  /\ Append(s, x) \in Seq(S) /\ Len(Append(s, x)) = Len(s) + 1
           /\ \A k \in 1 .. Len(s) : Append(s, x)[k] = s[k]
           /\ Append(s, x)[Len(s) + 1] = x
           /\ Elems(Append(s, x)) = Elems(s) \cup {x}
<1>1. /\ Append(s, x) \in Seq(S) /\ Len(Append(s, x)) = Len(s) + 1 /\ Len(s) \in Nat
      /\ \A k \in 1 .. Len(s) : Append(s, x)[k] = s[k]
      /\ Append(s, x)[Len(s) + 1] = x
  OBVIOUS
<1>2. Elems(Append(s, x)) = Elems(s) \cup {x}
  BY <1>1 DEF Elems
<1> QED BY <1>1, <1>2

LEMMA AppendIncreasing ==
    ASSUME NEW s \in Seq(Candidates), NEW x \in Candidates, Increasing(s),
           \A y \in Elems(s) : y < x
    PROVE  Increasing(Append(s, x))
<1>1. SUFFICES ASSUME NEW j \in 1 .. Len(s) + 1, NEW k \in 1 .. Len(s) + 1, j < k
               PROVE  Append(s, x)[j] < Append(s, x)[k]
  BY AppendElems DEF Increasing
<1>2. Len(s) \in Nat /\ j \in 1 .. Len(s) /\ (k \in 1 .. Len(s) \/ k = Len(s) + 1)
  BY <1>1
<1>3. CASE k \in 1 .. Len(s) BY <1>1, <1>2, <1>3, AppendElems DEF Increasing
<1>4. CASE k = Len(s) + 1 BY <1>2, <1>4, AppendElems DEF Elems
<1> QED BY <1>2, <1>3, <1>4

\* What Head and Tail are of an increasing list.
LEMMA HeadTail ==
    ASSUME NEW s \in Seq(Candidates), s # <<>>, Increasing(s)
    PROVE  /\ Head(s) \in Candidates /\ Tail(s) \in Seq(Candidates)
           /\ Increasing(Tail(s))
           /\ Elems(s) = {Head(s)} \cup Elems(Tail(s))
           /\ \A y \in Elems(Tail(s)) : Head(s) < y
<1>1. /\ Head(s) = s[1] /\ Tail(s) \in Seq(Candidates) /\ Len(s) \in Nat \ {0}
      /\ Len(Tail(s)) = Len(s) - 1
      /\ \A k \in 1 .. Len(s) - 1 : Tail(s)[k] = s[k + 1]
  OBVIOUS
<1>2. s[1] \in Candidates BY <1>1
<1>3. \A k \in 1 .. Len(s) - 1 : k + 1 \in 1 .. Len(s) /\ 1 < k + 1 BY <1>1
<1>4. Increasing(Tail(s)) BY <1>1, <1>3 DEF Increasing
<1>5. \A y \in Elems(Tail(s)) : Head(s) < y BY <1>1, <1>3 DEF Increasing, Elems
<1>6. Elems(s) = {Head(s)} \cup Elems(Tail(s))
  <2>1. \A k \in 1 .. Len(s) : k = 1 \/ (k - 1 \in 1 .. Len(s) - 1 /\ (k - 1) + 1 = k) BY <1>1
  <2>2. \A k \in 1 .. Len(s) : s[k] = Head(s) \/ s[k] \in Elems(Tail(s))
    BY <1>1, <2>1 DEF Elems
  <2>3. Head(s) \in Elems(s) BY <1>1 DEF Elems
  <2>4. \A k \in 1 .. Len(s) - 1 : Tail(s)[k] \in Elems(s) BY <1>1, <1>3 DEF Elems
  <2>5. Elems(s) \subseteq {Head(s)} \cup Elems(Tail(s)) BY <2>2 DEF Elems
  <2>6. Elems(Tail(s)) \subseteq Elems(s) BY <1>1, <2>4 DEF Elems
  <2> QED BY <2>3, <2>5, <2>6
<1> QED BY <1>1, <1>2, <1>4, <1>5, <1>6

LEMMA EmptyList == Elems(<<>>) = {} /\ Increasing(<<>>) /\ Len(<<>>) = 0
BY DEF Elems, Increasing

LEMMA OneElement ==
    ASSUME NEW s \in Seq(Candidates), Len(s) = 0, NEW x \in Candidates
    PROVE  /\ Append(s, x) \in Seq(Candidates) /\ Len(Append(s, x)) = 1
           /\ Increasing(Append(s, x)) /\ Elems(Append(s, x)) = {x}
<1>1. /\ Append(s, x) \in Seq(Candidates) /\ Len(Append(s, x)) = 1 /\ Append(s, x)[1] = x
  OBVIOUS
<1>2. Elems(s) = {} /\ Increasing(s) /\ Elems(Append(s, x)) = {x} BY <1>1 DEF Elems, Increasing
<1>3. Increasing(Append(s, x)) BY <1>2, AppendIncreasing
<1> QED BY <1>1, <1>2, <1>3

---------------------------------------------------------------------------
\* A process of f1x that has just started, with any configuration.
Fresh ==
    /\ cfg.generateAll \in BOOLEAN /\ cfg.outputTop \in Nat
    /\ pc = "initialBuild" /\ status = "none"
    /\ tree = Pristine /\ original = IF cfg.filesGiven THEN Pristine ELSE None
    /\ last = 0 /\ plausiblePatches = <<>> /\ toValidate = <<>>
    /\ outputs = <<>> /\ written = 0
    /\ valid \in SUBSET Candidates
    /\ ~unreliable => compiles = Candidates /\ applies = Locations

LEMMA FreshInv == Fresh => IInv
<1> SUFFICES ASSUME Fresh PROVE IInv
  OBVIOUS
<1> USE DEF Fresh
<1>1. Shapes
  <2>1. <<>> \in Seq(Candidates) /\ <<>> \in Seq([patch : Candidates, diff : Seq(Candidates)])
    OBVIOUS
  <2>2. last \in 0 .. SpaceSize /\ written \in 0 .. Len(plausiblePatches)
    BY RepairAssumption, EmptyList
  <2>3. pc \in Early BY DEF Early
  <2> QED BY <2>1, <2>2, <2>3 DEF Shapes
<1>2. Restored BY DEF Restored, Early, Searching
<1>3. NothingYet BY DEF NothingYet
<1>4. Found /\ List BY DEF Found, List, Searching, Listing
<1>5. Output /\ OutputsAreSinglePatches
  BY EmptyList DEF Output, OutputsAreSinglePatches, Returned
<1> QED BY <1>1, <1>2, <1>3, <1>4, <1>5 DEF IInv

LEMMA InitInv == Init => IInv
<1>1. Init => Fresh BY RepairAssumption DEF Init, Fresh
<1> QED BY <1>1, FreshInv

\* Before the search there is nothing to output.
LEMMA EarlyKept ==
    ASSUME IInv, pc \in Early, UNCHANGED <<searchVars, outVars, oracleVars>>,
           pc' \in Early \cup {"search", "returned"}
    PROVE  Shapes' /\ NothingYet' /\ Found' /\ List' /\ Output' /\ OutputsAreSinglePatches'
<1> USE DEF IInv, searchVars, outVars, oracleVars
<1>1. /\ last = 0 /\ plausiblePatches = <<>> /\ toValidate = <<>>
      /\ outputs = <<>> /\ written = 0
  BY DEF NothingYet, Early, Writing
<1>2. Shapes'
  <2>1. pc' \in Early \cup Searching \cup Listing BY DEF Searching, Listing
  <2> QED BY <2>1 DEF Shapes
<1>3. NothingYet' BY <1>1 DEF NothingYet
<1>4. Found'
  <2>1. \A c \in Candidates : ~(c < 0) BY RepairAssumption DEF Candidates
  <2> QED BY <1>1, <2>1, EmptyList DEF Found, Searching, Early
<1>5. List'
  <2>1. Listed' = {} BY <1>1, EmptyList DEF Listed
  <2>2. pc' # "validate" BY DEF Early
  <2> QED BY <1>1, <2>1, <2>2, EmptyList DEF List
<1>6. Output' /\ OutputsAreSinglePatches'
  BY <1>1, EmptyList DEF Output, OutputsAreSinglePatches
<1> QED BY <1>2, <1>3, <1>4, <1>5, <1>6

\* restoreOriginalFiles leaves the original sources where the copies are saved.
LEMMA RestoreRestores ==
    ASSUME Restored, RestoreOriginalFiles, original = Pristine \/ tree = Pristine
    PROVE  tree' = Pristine
BY DEF Restored, RestoreOriginalFiles, Pristine, None

\* The steps before the search.
LEMMA EarlyStep ==
    ASSUME IInv,
           \/ InitialBuild \/ LocalizeFiles \/ InstrumentForProfile \/ BuildProfile
           \/ ProfileTests \/ InstrumentSchemas \/ Synthesize \/ Throw \/ BuildWithRuntime
    PROVE  IInv'
<1>1. /\ pc \in Early /\ UNCHANGED <<searchVars, outVars, oracleVars>>
      /\ pc' \in Early \cup {"search", "returned"}
  BY DEF InitialBuild, LocalizeFiles, InstrumentForProfile, BuildProfile, ProfileTests,
         InstrumentSchemas, Synthesize, Throw, BuildWithRuntime, Return, Early
<1>2. /\ Shapes' /\ NothingYet' /\ Found' /\ List' /\ Output' /\ OutputsAreSinglePatches'
  BY <1>1, EarlyKept
<1>3. Restored BY DEF IInv
<1>4. Restored'
  <2>1. CASE InitialBuild
    BY <1>3, <2>1 DEF Restored, InitialBuild, Return, oracleVars, Early, Searching
  <2>2. CASE LocalizeFiles
    BY <1>3, <2>2 DEF Restored, LocalizeFiles, SaveOriginalFiles, Return, Early, Searching
  <2>3. CASE InstrumentForProfile
    BY <1>3, <2>3 DEF Restored, InstrumentForProfile, Return, Early, Searching
  <2>4. CASE BuildProfile
    <3>1. tree' = Pristine BY <1>3, <2>4, RestoreRestores DEF BuildProfile, Restored
    <3>2. pc = "buildProfile" /\ pc' = "profile" /\ original' = original BY <2>4 DEF BuildProfile
    <3> QED BY <1>3, <3>1, <3>2 DEF Restored
  <2>5. CASE ProfileTests
    BY <1>3, <2>5 DEF Restored, ProfileTests, Return, Early, Searching
  <2>6. CASE InstrumentSchemas
    BY <1>3, <2>6 DEF Restored, InstrumentSchemas, Return, Early, Searching
  <2>7. CASE Synthesize
    BY <1>3, <2>7 DEF Restored, Synthesize, Return, Early, Searching
  <2>8. CASE Throw
    BY <1>3, <2>8 DEF Restored, Throw, Early, Searching
  <2>9. CASE BuildWithRuntime
    <3>1. tree' = Pristine BY <1>3, <2>9, RestoreRestores DEF BuildWithRuntime, Restored
    <3>2. pc = "buildRuntime" /\ pc' = "search" /\ original' = original
      BY <2>9 DEF BuildWithRuntime
    <3> QED BY <1>3, <3>1, <3>2 DEF Restored
  <2> QED BY <2>1, <2>2, <2>3, <2>4, <2>5, <2>6, <2>7, <2>8, <2>9
<1> QED BY <1>2, <1>4 DEF IInv

---------------------------------------------------------------------------
LEMMA FindPatchInv == ASSUME IInv, NEW c \in Candidates, FindPatch(c) PROVE IInv'
<1> USE DEF IInv, FindPatch, outVars, oracleVars
<1>1. /\ pc = "search" /\ pc' \in {"batch", "save", "single"} /\ last' = c
      /\ UNCHANGED <<tree, original, binary, plausiblePatches, toValidate, outputs, written>>
  OBVIOUS
<1>2. c \in Int /\ last \in Int /\ c \in 0 .. SpaceSize /\ \A d \in Candidates : d \in Int
  BY RepairAssumption DEF Candidates, Shapes
<1>3. /\ c >= last /\ binary = <<Schema>> /\ c \in plausible
      /\ \A d \in last .. c - 1 : d \notin plausible
  BY <1>2 DEF NextFindable, Findable
<1>4. Shapes'
  <2>1. pc' \in Searching \cup Listing BY <1>1 DEF Searching, Listing
  <2> QED BY <1>1, <1>2, <2>1 DEF Shapes
<1>5. Restored' BY <1>1 DEF Restored, Early, Searching
<1>6. NothingYet' BY <1>1 DEF NothingYet, Early, Writing
<1>7. /\ Increasing(plausiblePatches) /\ toValidate = <<>>
      /\ \A x \in Elems(plausiblePatches) : x \in plausible /\ x < last
      /\ ~cfg.generateAll => plausiblePatches = <<>>
      /\ \A d \in Candidates : d \in plausible /\ d < last => d \in Elems(plausiblePatches)
  BY <1>1, <1>3 DEF Found, Searching
<1>8. Elems(plausiblePatches) \subseteq Candidates BY DEF Elems, Shapes
<1>9. \A x \in Elems(plausiblePatches) : x \in plausible /\ x < c
  <2> TAKE x \in Elems(plausiblePatches)
  <2>1. x \in Int /\ x \in plausible /\ x < last BY <1>2, <1>7, <1>8
  <2> QED BY <1>2, <1>3, <2>1
<1>10. \A d \in Candidates : d \in plausible /\ d < c => d \in Elems(plausiblePatches)
  <2> TAKE d \in Candidates
  <2>1. CASE d < last BY <1>7, <2>1
  <2>2. CASE ~(d < last) /\ d < c
    <3>1. d \in last .. c - 1 BY <1>2, <2>2
    <3> QED BY <1>3, <3>1
  <2> QED BY <2>1, <2>2
<1>11. Found'
  <2>1. pc' = "save" => cfg.generateAll OBVIOUS
  <2>2. pc' = "single" => ~cfg.generateAll OBVIOUS
  <2> QED BY <1>1, <1>3, <1>7, <1>9, <1>10, <2>1, <2>2 DEF Found
<1>12. List'
  <2> SUFFICES ASSUME pc' = "batch" PROVE List'
    BY <1>1 DEF List, Listing
  <2>1. EnoughPatches BY <1>1
  <2>2. cfg.outputTop # 0 BY <2>1 DEF EnoughPatches, Shapes
  <2>3. Listed' = Elems(plausiblePatches) BY <1>1, <1>7, EmptyList DEF Listed
  <2>4. \A x \in Elems(plausiblePatches) : \A d \in 0 .. x - 1 :
           Acceptable(d) => d \in Elems(plausiblePatches)
    <3> SUFFICES ASSUME NEW x \in Elems(plausiblePatches), NEW d \in 0 .. x - 1, Acceptable(d)
                 PROVE  d \in Elems(plausiblePatches)
      OBVIOUS
    <3>1. x \in Candidates /\ x < c BY <1>8, <1>9
    <3>2. d \in Candidates /\ d < c BY <1>2, <3>1, RepairAssumption DEF Candidates
    <3> QED BY <1>10, <3>2 DEF Acceptable
  <2>5. \A d \in Candidates : Acceptable(d)' = Acceptable(d) BY DEF Acceptable
  <2> QED BY <1>1, <1>7, <2>2, <2>3, <2>4, EmptyList DEF List, Acceptable
<1>13. Output' /\ OutputsAreSinglePatches'
  <2>1. outputs' = <<>> /\ written' = 0 /\ ~Returned' BY <1>1 DEF NothingYet, Writing, Returned
  <2> QED BY <2>1, EmptyList DEF Output, OutputsAreSinglePatches
<1> QED BY <1>4, <1>5, <1>6, <1>11, <1>12, <1>13

LEMMA NoMorePatchesInv == ASSUME IInv, NoMorePatches PROVE IInv'
<1> USE DEF IInv, NoMorePatches, outVars, oracleVars
<1>1. /\ pc = "search" /\ pc' = "batch" /\ last' = SpaceSize
      /\ UNCHANGED <<tree, original, binary, plausiblePatches, toValidate, outputs, written>>
  OBVIOUS
<1>2. last \in Int /\ SpaceSize \in Nat /\ \A d \in Candidates : d \in 0 .. SpaceSize - 1
  BY RepairAssumption DEF Candidates, Shapes
<1>3. Shapes' BY <1>1, <1>2 DEF Shapes, Listing
<1>4. Restored' BY <1>1 DEF Restored, Early, Searching
<1>5. NothingYet' /\ Found' BY <1>1 DEF NothingYet, Found, Early, Writing, Searching
<1>6. /\ Increasing(plausiblePatches) /\ toValidate = <<>>
      /\ \A x \in Elems(plausiblePatches) : x \in plausible
      /\ binary = <<Schema>> =>
           \A d \in Candidates : d \in plausible /\ d < last => d \in Elems(plausiblePatches)
      /\ binary # <<Schema>> => plausiblePatches = <<>>
  BY <1>1 DEF Found, Searching
<1>7. plausiblePatches # <<>> =>
         \A d \in Candidates : d \in plausible => d \in Elems(plausiblePatches)
  <2> SUFFICES ASSUME plausiblePatches # <<>>, NEW d \in Candidates, d \in plausible
               PROVE  d \in Elems(plausiblePatches)
    OBVIOUS
  <2>1. binary = <<Schema>> BY <1>6
  <2>2. d \notin last .. SpaceSize - 1 BY <2>1 DEF Findable
  <2>3. d < last BY <1>2, <2>2
  <2> QED BY <1>6, <2>1, <2>3
<1>8. Elems(plausiblePatches) \subseteq Candidates BY DEF Elems, Shapes
<1>9. List'
  <2>1. Listed' = Elems(plausiblePatches) BY <1>1, <1>6, EmptyList DEF Listed
  <2>2. \A x \in Elems(plausiblePatches) : \A d \in 0 .. x - 1 : d \in Candidates
    BY <1>2, <1>8 DEF Candidates
  <2>3. Elems(plausiblePatches) # {} => plausiblePatches # <<>> BY EmptyList
  <2>4. \A d \in Candidates : Acceptable(d)' => d \in plausible BY DEF Acceptable
  <2>5. Elems(plausiblePatches) # {} =>
           \A d \in Candidates : Acceptable(d)' => d \in Elems(plausiblePatches)
    BY <1>7, <2>3, <2>4
  <2> QED BY <1>1, <1>6, <2>1, <2>2, <2>5, EmptyList DEF List
<1>10. Output' /\ OutputsAreSinglePatches'
  <2>1. outputs' = <<>> /\ written' = 0 /\ ~Returned' BY <1>1 DEF NothingYet, Writing, Returned
  <2> QED BY <2>1, EmptyList DEF Output, OutputsAreSinglePatches
<1> QED BY <1>3, <1>4, <1>5, <1>9, <1>10

LEMMA TakeSingleInv == ASSUME IInv, TakeSingle PROVE IInv'
<1> USE DEF IInv, TakeSingle, outVars, oracleVars
<1>1. /\ pc = "single" /\ pc' = "batch" /\ plausiblePatches' = Append(plausiblePatches, last)
      /\ UNCHANGED <<original, last, toValidate, outputs, written>>
  OBVIOUS
<1>2. /\ last \in Candidates /\ last \in plausible /\ toValidate = <<>> /\ ~cfg.generateAll
      /\ plausiblePatches = <<>> /\ binary = <<Schema>>
      /\ \A d \in Candidates : d \in plausible /\ d < last => d \in Elems(plausiblePatches)
  BY <1>1 DEF Found, Searching
<1>3. /\ plausiblePatches' \in Seq(Candidates) /\ Len(plausiblePatches') = 1
      /\ Increasing(plausiblePatches') /\ Elems(plausiblePatches') = {last}
  BY <1>1, <1>2, EmptyList, OneElement DEF Shapes
<1>4. outputs = <<>> /\ written = 0 BY <1>1 DEF NothingYet, Writing
<1>5. Shapes' BY <1>1, <1>3, <1>4 DEF Shapes, Listing
<1>6. Restored'
  <2>1. Restored /\ original = Pristine /\ tree = Pristine BY <1>1 DEF Restored, Searching
  <2>2. tree' = Pristine BY <2>1, RestoreRestores DEF ValidatePatch
  <2> QED BY <1>1, <2>1, <2>2 DEF Restored, Early, Searching
<1>7. NothingYet' /\ Found' BY <1>1, <1>4 DEF NothingYet, Found, Early, Writing, Searching
<1>8. List'
  <2>1. Listed' = {last} BY <1>1, <1>2, <1>3, EmptyList DEF Listed
  <2>2. \A d \in 0 .. last - 1 : ~Acceptable(d)'
    <3> SUFFICES ASSUME NEW d \in 0 .. last - 1, d \in plausible PROVE FALSE
      BY DEF Acceptable
    <3>1. d \in Candidates /\ d < last BY <1>2, RepairAssumption DEF Candidates
    <3> QED BY <1>2, <3>1, EmptyList
  <2> QED BY <1>1, <1>2, <1>3, <2>1, <2>2, EmptyList DEF List
<1>9. Output' /\ OutputsAreSinglePatches'
  BY <1>1, <1>4, EmptyList DEF Output, OutputsAreSinglePatches, Returned
<1> QED BY <1>5, <1>6, <1>7, <1>8, <1>9

LEMMA SavePatchInv == ASSUME IInv, SavePatch PROVE IInv'
<1> USE DEF IInv, SavePatch, outVars, oracleVars
<1>1. /\ pc = "save" /\ pc' = "search" /\ plausiblePatches' = Append(plausiblePatches, last)
      /\ last' = last + 1
      /\ UNCHANGED <<tree, original, binary, toValidate, outputs, written>>
  BY DEF Resume
<1>2. /\ last \in Candidates /\ last \in plausible /\ toValidate = <<>> /\ cfg.generateAll
      /\ Increasing(plausiblePatches) /\ binary = <<Schema>>
      /\ \A x \in Elems(plausiblePatches) : x \in plausible /\ x < last
      /\ \A d \in Candidates : d \in plausible /\ d < last => d \in Elems(plausiblePatches)
  BY <1>1 DEF Found, Searching
<1>3. /\ plausiblePatches' \in Seq(Candidates)
      /\ Len(plausiblePatches') = Len(plausiblePatches) + 1
      /\ Elems(plausiblePatches') = Elems(plausiblePatches) \cup {last}
  BY <1>1, <1>2, AppendElems DEF Shapes
<1>4. Increasing(plausiblePatches') BY <1>1, <1>2, AppendIncreasing DEF Shapes
<1>5. outputs = <<>> /\ written = 0 BY <1>1 DEF NothingYet, Writing
<1>6. last \in Int /\ last + 1 \in 0 .. SpaceSize /\ \A d \in Candidates : d \in Int
  BY <1>2, RepairAssumption DEF Candidates
<1>7. Shapes'
  <2>1. written' \in 0 .. Len(plausiblePatches') BY <1>1, <1>3, <1>5
  <2> QED BY <1>1, <1>3, <1>6, <2>1 DEF Shapes, Searching
<1>8. Restored' BY <1>1 DEF Restored, Early, Searching
<1>9. NothingYet' BY <1>1, <1>5 DEF NothingYet, Early, Writing
<1>10. \A x \in Elems(plausiblePatches) : x \in Candidates BY DEF Elems, Shapes
<1>11. Found'
  <2>1. \A x \in Elems(plausiblePatches') : x \in plausible /\ x < last + 1
    <3> TAKE x \in Elems(plausiblePatches')
    <3>1. CASE x = last BY <1>2, <1>6, <3>1
    <3>2. CASE x \in Elems(plausiblePatches)
      <4>1. x \in Int /\ x < last /\ x \in plausible BY <1>2, <1>6, <1>10, <3>2
      <4> QED BY <1>6, <4>1
    <3> QED BY <1>3, <3>1, <3>2
  <2>2. \A d \in Candidates : d \in plausible /\ d < last + 1 => d \in Elems(plausiblePatches')
    BY <1>2, <1>3, <1>6
  <2> QED BY <1>1, <1>2, <1>4, <2>1, <2>2 DEF Found
<1>12. List' BY <1>1 DEF List, Listing
<1>13. Output' /\ OutputsAreSinglePatches'
  BY <1>1, <1>5, EmptyList DEF Output, OutputsAreSinglePatches, Returned
<1> QED BY <1>7, <1>8, <1>9, <1>11, <1>12, <1>13

\* The same patches are listed, in another of the two lists perhaps.
LEMMA StartBatchInv == ASSUME IInv, StartBatch PROVE IInv'
<1> USE DEF IInv, StartBatch, outVars, oracleVars
<1>1. /\ pc = "batch" /\ toValidate = <<>> /\ outputs = <<>> /\ written = 0
      /\ UNCHANGED <<tree, original, last, outputs, written>>
  BY DEF List, NothingYet, Listing, Writing
<1>2. \/ /\ pc' = "validate" /\ plausiblePatches' = <<>> /\ toValidate' = plausiblePatches
      \/ /\ pc' = "output" /\ plausiblePatches' = plausiblePatches /\ toValidate' = <<>>
         /\ ~(cfg.validatePatches /\ cfg.generateAll /\ plausiblePatches # <<>>)
  BY <1>1
<1>3. <<>> \in Seq(Candidates) OBVIOUS
<1>4. Shapes'
  <2>1. written' \in 0 .. Len(plausiblePatches') BY <1>1, <1>2, EmptyList DEF Shapes
  <2>2. plausiblePatches' \in Seq(Candidates) /\ toValidate' \in Seq(Candidates)
    BY <1>2, <1>3 DEF Shapes
  <2> QED BY <1>1, <1>2, <2>1, <2>2 DEF Shapes, Listing
<1>5. Restored' BY <1>1, <1>2 DEF Restored, Early, Searching
<1>6. NothingYet' /\ Found' BY <1>1, <1>2 DEF NothingYet, Found, Early, Writing, Searching
<1>7. List'
  <2>1. Listed' = Listed BY <1>1, <1>2, EmptyList DEF Listed
  <2>2. /\ Increasing(plausiblePatches') /\ Increasing(toValidate')
        /\ \A x \in Elems(plausiblePatches') : \A y \in Elems(toValidate') : x < y
        /\ pc' # "validate" => toValidate' = <<>>
        /\ pc' = "validate" => cfg.generateAll /\ cfg.validatePatches
    BY <1>1, <1>2, EmptyList DEF List, Listing
  <2>3. (cfg.generateAll /\ cfg.validatePatches) => Elems(plausiblePatches') = {}
    BY <1>2, EmptyList
  <2>4. /\ Listed \subseteq plausible
        /\ \A x \in Listed : \A c \in 0 .. x - 1 : Acceptable(c) => c \in Listed
        /\ (cfg.generateAll /\ cfg.outputTop = 0 /\ Listed # {}) =>
             \A c \in Candidates : Acceptable(c) => c \in Listed
    BY <1>1 DEF List, Listing
  <2> QED BY <2>1, <2>2, <2>3, <2>4 DEF List, Acceptable
<1>8. Output' /\ OutputsAreSinglePatches'
  BY <1>1, <1>2, EmptyList DEF Output, OutputsAreSinglePatches, Returned
<1> QED BY <1>4, <1>5, <1>6, <1>7, <1>8

\* What passes the validation while commands succeed is valid; what is
\* acceptable passes it in any case.
LEMMA Validation ==
    ASSUME NEW p \in Candidates, ValidatePatch(p), tree = Pristine
    PROVE  /\ p \in valid \cap compiles /\ LocationOf[p] \in applies => PassesAllTests(binary')
           /\ (compiles = Candidates /\ applies = Locations /\ PassesAllTests(binary')) =>
                p \in valid \cap compiles
<1>1. LocationOf[p] \in Locations BY RepairAssumption
<1>2. p \in compiles /\ LocationOf[p] \in applies => binary' = <<p>>
  BY DEF ValidatePatch, Patched, Pristine
<1>3. p # Schema BY RepairAssumption DEF Candidates, Schema
<1>4. \A q : <<p>> = <<q>> => p = q OBVIOUS
<1>5. binary' = <<p>> => (PassesAllTests(binary') <=> p \in valid)
  BY <1>3, <1>4 DEF PassesAllTests
<1> QED BY <1>1, <1>2, <1>5

LEMMA ValidateNextInv == ASSUME IInv, ValidateNext PROVE IInv'
<1> DEFINE p == Head(toValidate)
<1> USE DEF IInv, outVars, oracleVars
<1>1. /\ pc = "validate" /\ pc' = "validate" /\ toValidate # <<>> /\ toValidate' = Tail(toValidate)
      /\ ValidatePatch(p)
      /\ plausiblePatches' = IF PassesAllTests(binary')
                               THEN Append(plausiblePatches, p) ELSE plausiblePatches
      /\ UNCHANGED <<original, last, outputs, written, cfg, plausible, valid, compiles, applies,
                     unreliable>>
  BY DEF ValidateNext
<1>2. /\ Restored /\ tree = Pristine /\ original = Pristine /\ outputs = <<>> /\ written = 0
  BY <1>1 DEF Restored, NothingYet, Writing
<1>3. /\ Increasing(plausiblePatches) /\ Increasing(toValidate)
      /\ \A x \in Elems(plausiblePatches) : \A y \in Elems(toValidate) : x < y
      /\ Listed \subseteq plausible
      /\ \A x \in Listed : \A c \in 0 .. x - 1 : Acceptable(c) => c \in Listed
      /\ (cfg.generateAll /\ cfg.outputTop = 0 /\ Listed # {}) =>
           \A c \in Candidates : Acceptable(c) => c \in Listed
      /\ (cfg.generateAll /\ cfg.validatePatches /\ ~unreliable) =>
           Elems(plausiblePatches) \subseteq valid \cap compiles
  BY <1>1 DEF List, Listing
<1>4. /\ p \in Candidates /\ toValidate' \in Seq(Candidates) /\ Increasing(toValidate')
      /\ Elems(toValidate) = {p} \cup Elems(toValidate')
      /\ \A y \in Elems(toValidate') : p < y
  BY <1>1, <1>3, HeadTail DEF Shapes
<1> HIDE DEF p
<1>5. /\ Append(plausiblePatches, p) \in Seq(Candidates)
      /\ Len(Append(plausiblePatches, p)) = Len(plausiblePatches) + 1
      /\ Elems(Append(plausiblePatches, p)) = Elems(plausiblePatches) \cup {p}
  BY <1>4, AppendElems DEF Shapes
<1>6. Increasing(Append(plausiblePatches, p))
  BY <1>3, <1>4, AppendIncreasing DEF Shapes
<1>7. /\ plausiblePatches' \in Seq(Candidates) /\ Increasing(plausiblePatches')
      /\ 0 \in 0 .. Len(plausiblePatches')
  BY <1>1, <1>3, <1>5, <1>6 DEF Shapes
<1>8. Elems(plausiblePatches') = IF PassesAllTests(binary')
                                   THEN Elems(plausiblePatches) \cup {p}
                                   ELSE Elems(plausiblePatches)
  BY <1>1, <1>5
<1>9. Shapes' BY <1>1, <1>2, <1>4, <1>7 DEF Shapes
<1>10. Restored'
  <2>1. tree' = Pristine BY <1>1, <1>2, RestoreRestores DEF ValidatePatch
  <2> QED BY <1>1, <1>2, <2>1 DEF Restored, Early, Searching
<1>11. NothingYet' /\ Found' BY <1>1, <1>2 DEF NothingYet, Found, Early, Writing, Searching
<1>12. p \in valid \cap compiles /\ LocationOf[p] \in applies => PassesAllTests(binary')
  BY <1>1, <1>2, <1>4, Validation
<1>13. List'
  <2>1. Listed' \subseteq Listed /\ Listed \subseteq Listed' \cup {p}
    BY <1>4, <1>8 DEF Listed
  <2>2. p \notin Listed' => ~PassesAllTests(binary') BY <1>8 DEF Listed
  <2>3. \A x \in Elems(plausiblePatches') : \A y \in Elems(toValidate') : x < y
    BY <1>3, <1>4, <1>8
  <2>4. ~PassesAllTests(binary') /\ cfg.generateAll /\ cfg.validatePatches => ~Acceptable(p)
    BY <1>12 DEF Acceptable
  <2>5. cfg.generateAll /\ cfg.validatePatches BY <1>1 DEF List, Listing
  <2>6. \A c : Acceptable(c) /\ c \in Listed => c \in Listed'
    BY <2>1, <2>2, <2>4, <2>5
  <2>7. \A x \in Listed' : \A c \in 0 .. x - 1 : Acceptable(c) => c \in Listed'
    BY <1>3, <2>1, <2>6
  <2>8. (cfg.outputTop = 0 /\ Listed' # {}) =>
           \A c \in Candidates : Acceptable(c) => c \in Listed'
    BY <1>3, <2>1, <2>5, <2>6
  <2>9. ~unreliable => Elems(plausiblePatches') \subseteq valid \cap compiles
    <3>1. ~unreliable /\ PassesAllTests(binary') => p \in valid \cap compiles
      BY <1>1, <1>2, <1>4, Validation DEF Shapes
    <3> QED BY <1>3, <1>8, <2>5, <3>1
  <2> QED BY <1>1, <1>3, <1>4, <1>7, <2>1, <2>3, <2>5, <2>7, <2>8, <2>9 DEF List, Acceptable
<1>14. Output' /\ OutputsAreSinglePatches'
  BY <1>1, <1>2, EmptyList DEF Output, OutputsAreSinglePatches, Returned
<1> QED BY <1>9, <1>10, <1>11, <1>13, <1>14

LEMMA BatchDoneInv == ASSUME IInv, BatchDone PROVE IInv'
<1> USE DEF IInv, BatchDone, searchVars, outVars, oracleVars
<1>1. /\ pc = "validate" /\ pc' = "output" /\ toValidate = <<>>
      /\ UNCHANGED <<tree, original, binary, envCandidate, last, plausiblePatches, toValidate,
                     outputs, written, cfg, plausible, valid, compiles, applies, unreliable>>
  OBVIOUS
<1>2. Shapes' BY <1>1 DEF Shapes, Listing
<1>3. Restored' BY <1>1 DEF Restored, Early, Searching
<1>4. NothingYet' /\ Found' BY <1>1 DEF NothingYet, Found, Early, Writing, Searching
<1>5. List' BY <1>1 DEF List, Listing, Listed, Acceptable
<1>6. Output' /\ OutputsAreSinglePatches'
  <2>1. outputs' = <<>> /\ written' = 0 BY <1>1 DEF NothingYet, Writing
  <2> QED BY <1>1, <2>1, EmptyList DEF Output, OutputsAreSinglePatches, Returned
<1> QED BY <1>2, <1>3, <1>4, <1>5, <1>6

\* The rest of the algorithm does not touch the list of patches.
LEMMA ListKept ==
    ASSUME List, pc \in Writing, pc' \in Writing,
           UNCHANGED <<plausiblePatches, toValidate, oracleVars>>
    PROVE  List'
<1>1. pc \in Listing /\ pc' \in Listing /\ pc # "validate" /\ pc' # "validate" /\ pc # "batch"
  BY DEF Writing, Listing
<1> QED BY <1>1 DEF List, Listed, Acceptable, oracleVars

\* An acceptable patch before the next one to write has been written, or one of
\* its location.
LEMMA SeenBefore ==
    ASSUME IInv, pc = "output", written < Len(plausiblePatches), cfg.generateAll \/ written = 0,
           NEW c \in 0 .. plausiblePatches[written + 1] - 1, Acceptable(c)
    PROVE  \E j \in 1 .. Len(outputs) : Stands(c, outputs[j].patch)
<1> USE DEF IInv
<1>1. /\ Increasing(plausiblePatches) /\ toValidate = <<>>
      /\ \A x \in Listed : \A d \in 0 .. x - 1 : Acceptable(d) => d \in Listed
  BY DEF List, Listing
<1>2. /\ written \in Nat /\ Len(plausiblePatches) \in Nat
      /\ written + 1 \in 1 .. Len(plausiblePatches)
  BY DEF Shapes
<1>3. Listed = Elems(plausiblePatches) BY <1>1, EmptyList DEF Listed
<1>4. plausiblePatches[written + 1] \in Listed BY <1>2, <1>3 DEF Elems
<1>5. PICK n \in 1 .. Len(plausiblePatches) : c = plausiblePatches[n]
  BY <1>1, <1>3, <1>4 DEF Elems
<1>6. \A k \in 1 .. Len(plausiblePatches) : plausiblePatches[k] \in Int
  BY RepairAssumption DEF Shapes, Candidates
<1>7. c < plausiblePatches[written + 1] BY <1>2, <1>6
<1>8. n < written + 1 BY <1>1, <1>2, <1>5, <1>6, <1>7 DEF Increasing
<1>9. n \in 1 .. written /\ cfg.generateAll BY <1>2, <1>8
<1> QED BY <1>5, <1>9 DEF Output

\* Against the original sources, the difference is all modifications.
LEMMA DiffToPristine ==
    ASSUME NEW t \in Seq(Candidates) PROVE computeDiff(Pristine, t) = t
<1>1. /\ Len(Pristine) = 0 /\ Len(t) \in Nat /\ Len(t) - 0 = Len(t)
      /\ \A k \in 1 .. Len(t) : 0 + k = k
  BY DEF Pristine
<1>2. computeDiff(Pristine, t) = [k \in 1 .. Len(t) |-> t[k]] BY <1>1 DEF computeDiff
<1>3. t = [k \in 1 .. Len(t) |-> t[k]] OBVIOUS
<1> QED BY <1>2, <1>3

LEMMA WriteDiffInv == ASSUME IInv, WriteDiff PROVE IInv'
<1> DEFINE p == plausiblePatches[written + 1]
           skips == cfg.generateAll /\ LocationSeen(p)
           row == [patch |-> p, diff |-> computeDiff(original, Patched(tree, p))]
<1> USE DEF IInv, searchVars, oracleVars
<1>1. /\ pc = "output" /\ pc' = "output" /\ written < Len(plausiblePatches) /\ written' = written + 1
      /\ cfg.generateAll \/ written = 0
      /\ skips => outputs' = outputs /\ tree' = tree
      /\ ~skips => outputs' = Append(outputs, row) /\ RestoreOriginalFiles
      /\ UNCHANGED <<original, binary, envCandidate, last, plausiblePatches, toValidate,
                     cfg, plausible, valid, compiles, applies, unreliable>>
  BY DEF WriteDiff
<1>2. Restored /\ tree = Pristine /\ original = Pristine BY <1>1 DEF Restored
<1>3. /\ written \in Nat /\ Len(plausiblePatches) \in Nat /\ Len(outputs) \in Nat
      /\ written + 1 \in 1 .. Len(plausiblePatches) /\ p \in Candidates
  BY <1>1 DEF Shapes
<1>4. Patched(tree, p) \in Seq(Candidates) BY <1>2, <1>3 DEF Patched, Pristine
<1>5. row.patch = p /\ row.diff = Patched(Pristine, p) BY <1>2, <1>4, DiffToPristine
<1> DEFINE R == [patch : Candidates, diff : Seq(Candidates)]
<1>6. outputs \in Seq(R) /\ row \in R BY <1>2, <1>3, <1>4, <1>5 DEF Shapes
<1> HIDE DEF p, row, R
<1>7. ~skips =>
        /\ outputs' \in Seq(R)
        /\ Len(outputs') = Len(outputs) + 1 /\ outputs'[Len(outputs) + 1] = row
        /\ \A k \in 1 .. Len(outputs) : outputs'[k] = outputs[k]
  BY <1>1, <1>6
<1>8. Shapes'
  <2>1. outputs' \in Seq([patch : Candidates, diff : Seq(Candidates)])
    BY <1>1, <1>6, <1>7 DEF R
  <2>2. written' \in 0 .. Len(plausiblePatches') BY <1>1, <1>3
  <2> QED BY <1>1, <2>1, <2>2 DEF Shapes
<1>9. Restored'
  <2>1. tree' = Pristine BY <1>1, <1>2, RestoreRestores
  <2> QED BY <1>1, <1>2, <2>1 DEF Restored
<1>10. NothingYet' /\ Found' BY <1>1 DEF NothingYet, Found, Early, Writing, Searching
<1>11. List' BY <1>1, ListKept DEF Writing
<1>12. OutputsAreSinglePatches'
  <2> SUFFICES ASSUME NEW k \in 1 .. Len(outputs')
               PROVE  outputs'[k].diff = Patched(Pristine, outputs'[k].patch)
    BY <1>1 DEF OutputsAreSinglePatches, Patched
  <2>1. CASE skips BY <1>1, <2>1 DEF OutputsAreSinglePatches
  <2>2. CASE ~skips
    <3>1. k \in 1 .. Len(outputs) \/ k = Len(outputs) + 1 BY <1>3, <1>7, <2>2
    <3> QED BY <1>5, <1>7, <2>2, <3>1 DEF OutputsAreSinglePatches
  <2> QED BY <2>1, <2>2
<1>13. \A k \in 1 .. Len(outputs') :
          \/ k \in 1 .. Len(outputs) /\ outputs'[k] = outputs[k]
          \/ ~skips /\ k = Len(outputs) + 1 /\ outputs'[k] = row
  BY <1>1, <1>3, <1>7
<1>14. \A k \in 1 .. Len(outputs) : k \in 1 .. Len(outputs') /\ outputs'[k] = outputs[k]
  BY <1>1, <1>3, <1>7
<1>15. \A n : n \in 1 .. written' <=> n \in 1 .. written \/ n = written + 1
  BY <1>1, <1>3
<1>16. \A k \in 1 .. Len(outputs') : \E n \in 1 .. written' : outputs'[k].patch = plausiblePatches[n]
  <2> TAKE k \in 1 .. Len(outputs')
  <2>1. CASE k \in 1 .. Len(outputs) /\ outputs'[k] = outputs[k]
    BY <1>15, <2>1 DEF Output
  <2>2. CASE outputs'[k] = row BY <1>5, <1>15, <2>2 DEF p
  <2> QED BY <1>13, <2>1, <2>2
<1>17. \A k \in 1 .. Len(outputs') : \A c \in 0 .. outputs'[k].patch - 1 : Acceptable(c) =>
          \E j \in 1 .. k - 1 : Stands(c, outputs'[j].patch)
  <2> SUFFICES ASSUME NEW k \in 1 .. Len(outputs'), NEW c \in 0 .. outputs'[k].patch - 1, Acceptable(c)
               PROVE  \E j \in 1 .. k - 1 : Stands(c, outputs'[j].patch)
    OBVIOUS
  <2>1. CASE k \in 1 .. Len(outputs) /\ outputs'[k] = outputs[k]
    <3>1. PICK j \in 1 .. k - 1 : Stands(c, outputs[j].patch) BY <2>1 DEF Output
    <3>2. j \in 1 .. Len(outputs) BY <1>3, <2>1
    <3> QED BY <1>14, <3>1, <3>2
  <2>2. CASE ~skips /\ k = Len(outputs) + 1 /\ outputs'[k] = row
    <3>1. c \in 0 .. plausiblePatches[written + 1] - 1 BY <1>5, <2>2 DEF p
    <3>2. PICK j \in 1 .. Len(outputs) : Stands(c, outputs[j].patch) BY <1>1, <3>1, SeenBefore
    <3>3. j \in 1 .. k - 1 BY <1>3, <2>2
    <3> QED BY <1>14, <3>2, <3>3
  <2> QED BY <1>13, <2>1, <2>2
<1>18. cfg.generateAll => \A n \in 1 .. written' : \E k \in 1 .. Len(outputs') :
          Stands(plausiblePatches[n], outputs'[k].patch)
  <2> SUFFICES ASSUME cfg.generateAll, NEW n \in 1 .. written'
               PROVE  \E k \in 1 .. Len(outputs') : Stands(plausiblePatches[n], outputs'[k].patch)
    OBVIOUS
  <2>1. CASE n \in 1 .. written
    <3>1. PICK k \in 1 .. Len(outputs) : Stands(plausiblePatches[n], outputs[k].patch)
      BY <2>1 DEF Output
    <3> QED BY <1>14, <3>1
  <2>2. CASE n = written + 1 /\ skips
    <3>1. PICK k \in 1 .. Len(outputs) : LocationOf[outputs[k].patch] = LocationOf[p]
      BY <2>2 DEF LocationSeen
    <3>2. PICK m \in 1 .. written : outputs[k].patch = plausiblePatches[m] BY <3>1 DEF Output
    <3>3. m \in 1 .. Len(plausiblePatches) /\ m < written + 1 BY <1>3, <3>2
    <3>4. Increasing(plausiblePatches) BY <1>1 DEF List, Listing
    <3>5. outputs[k].patch < plausiblePatches[n] BY <1>3, <2>2, <3>2, <3>3, <3>4 DEF Increasing
    <3>6. Stands(plausiblePatches[n], outputs[k].patch)
      BY <2>2, <3>1, <3>5 DEF Stands, LocationSeen, p
    <3> QED BY <1>14, <3>6
  <2>3. CASE n = written + 1 /\ ~skips
    <3>1. Len(outputs) + 1 \in 1 .. Len(outputs') BY <1>3, <1>7, <2>3
    <3>2. outputs'[Len(outputs) + 1].patch = plausiblePatches[n] BY <1>5, <1>7, <2>3 DEF p
    <3> QED BY <3>1, <3>2 DEF Stands
  <2> QED BY <1>15, <2>1, <2>2, <2>3
<1>19. Output'
  <2>1. ~Returned' BY <1>1 DEF Returned
  <2>2. UNCHANGED <<cfg, plausible, valid, compiles, applies, plausiblePatches>> BY <1>1
  <2> QED BY <1>16, <1>17, <1>18, <2>1, <2>2 DEF Output, Stands, Acceptable
<1> QED BY <1>8, <1>9, <1>10, <1>11, <1>12, <1>19

LEMMA FinishInv == ASSUME IInv, Finish PROVE IInv'
<1> USE DEF IInv, Finish, Return, searchVars, outVars, oracleVars
<1>1. /\ pc = "output" /\ pc' = "returned"
      /\ cfg.generateAll => written = Len(plausiblePatches)
      /\ UNCHANGED <<tree, original, binary, envCandidate, last, plausiblePatches, toValidate,
                     outputs, written, cfg, plausible, valid, compiles, applies, unreliable>>
  OBVIOUS
<1>2. Shapes' BY <1>1 DEF Shapes, Listing
<1>3. Restored' BY <1>1 DEF Restored, Early, Searching
<1>4. NothingYet' /\ Found' BY <1>1 DEF NothingYet, Found, Early, Writing, Searching
<1>5. List' BY <1>1, ListKept DEF Writing
<1>6. Output' /\ OutputsAreSinglePatches'
  BY <1>1 DEF Output, OutputsAreSinglePatches, Stands, Acceptable, Patched
<1> QED BY <1>2, <1>3, <1>4, <1>5, <1>6

LEMMA DestroyProjectInv == ASSUME IInv, DestroyProject PROVE IInv'
<1> USE DEF IInv, DestroyProject, searchVars, outVars, oracleVars
<1>1. /\ pc = "returned" /\ pc' = "exited"
      /\ UNCHANGED <<original, binary, envCandidate, last, plausiblePatches, toValidate,
                     outputs, written, cfg, plausible, valid, compiles, applies, unreliable>>
  OBVIOUS
<1>2. Shapes' BY <1>1 DEF Shapes, Listing
<1>3. Restored'
  <2>1. Restored /\ (tree = Pristine \/ original = Pristine) BY <1>1 DEF Restored
  <2>2. tree' = Pristine BY <2>1, RestoreRestores
  <2> QED BY <1>1, <2>1, <2>2 DEF Restored
<1>4. NothingYet' /\ Found' BY <1>1 DEF NothingYet, Found, Early, Writing, Searching
<1>5. List' BY <1>1, ListKept DEF Writing
<1>6. Output' /\ OutputsAreSinglePatches'
  BY <1>1 DEF Output, OutputsAreSinglePatches, Stands, Acceptable, Patched, Returned
<1> QED BY <1>2, <1>3, <1>4, <1>5, <1>6

LEMMA StepInv == IInv /\ [Next]_vars => IInv'
<1> SUFFICES ASSUME IInv, [Next]_vars PROVE IInv'
  OBVIOUS
<1>1. CASE \/ InitialBuild \/ LocalizeFiles \/ InstrumentForProfile \/ BuildProfile
           \/ ProfileTests \/ InstrumentSchemas \/ Synthesize \/ Throw \/ BuildWithRuntime
  BY <1>1, EarlyStep
<1>2. CASE \E c \in Candidates : FindPatch(c) BY <1>2, FindPatchInv
<1>3. CASE NoMorePatches BY <1>3, NoMorePatchesInv
<1>4. CASE TakeSingle BY <1>4, TakeSingleInv
<1>5. CASE SavePatch BY <1>5, SavePatchInv
<1>6. CASE StartBatch BY <1>6, StartBatchInv
<1>7. CASE ValidateNext BY <1>7, ValidateNextInv
<1>8. CASE BatchDone BY <1>8, BatchDoneInv
<1>9. CASE WriteDiff BY <1>9, WriteDiffInv
<1>10. CASE Finish BY <1>10, FinishInv
<1>11. CASE DestroyProject BY <1>11, DestroyProjectInv
<1>12. CASE UNCHANGED vars
  <2> USE <1>12 DEF vars, searchVars, outVars, oracleVars, IInv
  <2>1. Shapes' BY DEF Shapes
  <2>2. Restored' BY DEF Restored
  <2>3. NothingYet' BY DEF NothingYet
  <2>4. Found' BY DEF Found
  <2>5. List' BY DEF List, Listed, Acceptable
  <2>6. Output' BY DEF Output, Stands, Acceptable, Returned
  <2>7. OutputsAreSinglePatches' BY DEF OutputsAreSinglePatches, Patched
  <2> QED BY <2>1, <2>2, <2>3, <2>4, <2>5, <2>6, <2>7
<1> QED BY <1>1, <1>2, <1>3, <1>4, <1>5, <1>6, <1>7, <1>8, <1>9, <1>10, <1>11, <1>12 DEF Next

\* A run that succeeds has output something, and one that returns has a status.
StatusMeant ==
    /\ written > 0 \/ status = "SUCCESS" => outputs # <<>>
    /\ Returned => status \in {"SUCCESS", "FAILURE", "ERROR", "NO_NEGATIVE_TESTS"}

LEMMA StepStatus == IInv /\ StatusMeant /\ [Next]_vars => StatusMeant'
<1> SUFFICES ASSUME IInv, StatusMeant, [Next]_vars PROVE StatusMeant'
  OBVIOUS
<1> USE DEF StatusMeant, Returned
<1>1. CASE WriteDiff
  <2>1. status' = status /\ pc = "output" /\ pc' = pc BY <1>1 DEF WriteDiff
  <2>2. outputs' # <<>>
    <3>1. CASE outputs' = outputs /\ LocationSeen(plausiblePatches[written + 1])
      <4>1. Len(outputs) # 0 BY <3>1 DEF LocationSeen
      <4> QED BY <3>1, <4>1
    <3>2. ASSUME NEW x, outputs' = Append(outputs, x) PROVE outputs' # <<>>
      <4>1. outputs \in Seq([patch : Candidates, diff : Seq(Candidates)]) BY DEF IInv, Shapes
      <4> QED BY <3>2, <4>1
    <3> QED BY <1>1, <3>1, <3>2 DEF WriteDiff
  <2> QED BY <2>1, <2>2
<1>2. CASE Finish
  <2>1. plausiblePatches \in Seq(Candidates) BY DEF IInv, Shapes
  <2>2. plausiblePatches # <<>> => Len(plausiblePatches) > 0 BY <2>1
  <2>3. plausiblePatches # <<>> => written > 0 BY <1>2, <2>2 DEF Finish
  <2> QED BY <1>2, <2>3 DEF Finish, Return, FinalStatus, outVars
<1>3. CASE \/ InitialBuild \/ LocalizeFiles \/ InstrumentForProfile \/ BuildProfile
           \/ ProfileTests \/ InstrumentSchemas \/ Synthesize \/ Throw \/ BuildWithRuntime
  BY <1>3 DEF InitialBuild, LocalizeFiles, InstrumentForProfile, BuildProfile, ProfileTests,
         InstrumentSchemas, Synthesize, Throw, BuildWithRuntime, Return, outVars
<1>4. CASE \/ \E c \in Candidates : FindPatch(c)
           \/ NoMorePatches \/ TakeSingle \/ SavePatch \/ StartBatch \/ ValidateNext
           \/ BatchDone \/ DestroyProject
  BY <1>4 DEF FindPatch, NoMorePatches, TakeSingle, SavePatch, StartBatch, ValidateNext,
         BatchDone, DestroyProject, outVars
<1>5. CASE UNCHANGED vars BY <1>5 DEF vars, outVars
<1> QED BY <1>1, <1>2, <1>3, <1>4, <1>5 DEF Next

LEMMA Inductive == Spec => []IInv
BY InitInv, StepInv, PTL DEF Spec

---------------------------------------------------------------------------
\* What the invariant says of the outputs and the sources.
LEMMA InvRestores == IInv => OriginalsRestored
BY DEF IInv, Restored, OriginalsRestored

LEMMA InvSingle == IInv => OutputsAreSinglePatches
BY DEF IInv

LEMMA InvValidated == IInv => BatchOutputsValidated
<1> SUFFICES ASSUME IInv, cfg.generateAll, ~unreliable, cfg.validatePatches,
                    NEW k \in 1 .. Len(outputs)
             PROVE  outputs[k].patch \in valid \cap compiles
  BY DEF BatchOutputsValidated, OutputsValidated
<1>1. PICK n \in 1 .. written : outputs[k].patch = plausiblePatches[n] BY DEF IInv, Output
<1>2. outputs[k].patch \in Elems(plausiblePatches) BY <1>1 DEF IInv, Shapes, Elems
<1>3. pc \in Writing BY EmptyList DEF IInv, NothingYet
<1>4. Elems(plausiblePatches) \subseteq valid \cap compiles
  BY <1>3 DEF IInv, List, Writing, Listing
<1> QED BY <1>2, <1>4

LEMMA InvCheapest == IInv => CheapestFirst
<1> SUFFICES ASSUME IInv, Returned, NEW k \in 1 .. Len(outputs)
             PROVE  /\ outputs[k].patch \in plausible
                    /\ \A c \in 0 .. outputs[k].patch - 1 : Acceptable(c) =>
                         \E j \in 1 .. k - 1 : Stands(c, outputs[j].patch)
  BY DEF CheapestFirst, Stands
<1>1. PICK n \in 1 .. written : outputs[k].patch = plausiblePatches[n] BY DEF IInv, Output
<1>2. outputs[k].patch \in Elems(plausiblePatches) BY <1>1 DEF IInv, Shapes, Elems
<1>3. Listed \subseteq plausible BY DEF IInv, List, Listing, Returned
<1>4. outputs[k].patch \in plausible BY <1>2, <1>3 DEF Listed
<1> QED BY <1>4 DEF IInv, Output

LEMMA InvComplete == IInv => AllAcceptableOutput
<1> SUFFICES ASSUME IInv, Returned, cfg.generateAll, cfg.outputTop = 0, outputs # <<>>,
                    NEW c \in Candidates, Acceptable(c)
             PROVE  \E k \in 1 .. Len(outputs) : Stands(c, outputs[k].patch)
  BY DEF AllAcceptableOutput, Stands
<1>1. pc \in Listing /\ pc # "validate" /\ toValidate = <<>>
  BY DEF IInv, List, Listing, Returned
<1>2. 1 \in 1 .. Len(outputs) BY DEF IInv, Shapes
<1>3. PICK n \in 1 .. written : outputs[1].patch = plausiblePatches[n]
  BY <1>2 DEF IInv, Output
<1>4. Listed = Elems(plausiblePatches) BY <1>1, EmptyList DEF Listed
<1>5. n \in 1 .. Len(plausiblePatches) BY DEF IInv, Shapes
<1>6. plausiblePatches[n] \in Listed BY <1>4, <1>5 DEF Elems
<1>7. c \in Elems(plausiblePatches) BY <1>1, <1>4, <1>6 DEF IInv, List
<1>8. PICK m \in 1 .. written : c = plausiblePatches[m]
  BY <1>7 DEF Elems, IInv, Output
<1> QED BY <1>8 DEF IInv, Output

---------------------------------------------------------------------------
\* doc/Manual.md: f1x restores the source files.  Every path on which repair()
\* returns a status does, the errors in the middle of an instrumentation too.
THEOREM OriginalsAreRestored == Spec => []OriginalsRestored
BY InvRestores, Inductive, PTL

\* Project.h: every modification is undone before the next one.  So a diff that
\* is output is the difference of one patch to the original sources.
THEOREM DiffsAreSinglePatches == Spec => []OutputsAreSinglePatches
BY InvSingle, Inductive, PTL

\* The batch validation of --all: what it lets through has passed all tests as
\* a patch, in its own build.
THEOREM BatchIsValidated == Spec => []BatchOutputsValidated
BY InvValidated, Inductive, PTL

\* The cost order survives the search, the batch validation and the output: no
\* acceptable patch is passed over for a more expensive one.
THEOREM CheapestComesFirst == Spec => []CheapestFirst
BY InvCheapest, Inductive, PTL

\* --all without a limit leaves no acceptable patch out.
THEOREM AllAcceptableIsOutput == Spec => []AllAcceptableOutput
BY InvComplete, Inductive, PTL

---------------------------------------------------------------------------
(* f1x-bench around the runs of f1x.                                        *)

\* f1x is running, started by the user or by f1x-bench.
InRun == command = "f1x" \/ stage = "running"

\* The process of f1x is as module Repair leaves it; between runs there is none.
RunInv ==
    /\ command \in {"f1x", "f1x-bench"}
    /\ command = "f1x" => stage = "idle" /\ invocation = 0
    /\ command = "f1x-bench" => cfg = BenchConfig
    /\ InRun => IInv /\ StatusMeant
    /\ ~InRun => pc = "terminated" /\ outputs = <<>>

\* The defects still to do are different ones; the current one is there in
\* every stage.
Todo ==
    /\ defects \in Seq(DefectSet)
    /\ \A i, j \in 1 .. Len(defects) : defects[i] = defects[j] => i = j
    /\ stage = "idle" <=> defects = <<>>
    /\ DOMAIN patchFile = DefectSet /\ DOMAIN result = DefectSet
    /\ DOMAIN ranIn = DefectSet /\ DOMAIN sound = DefectSet

\* The directory of the outputs has what this invocation's run wrote: the diff of a
\* patch, empty if its application failed; unless the run is not one the count
\* vouches for.
WithPatch(d) ==
    /\ ranIn[d] = invocation
    /\ sound[d] =>
         /\ patchFile[d].writtenIn = invocation
         /\ IF patchFile[d].applied THEN \E c \in Candidates : patchFile[d].diff = <<c>>
                                    ELSE patchFile[d].diff = <<>>

\* While f1x runs, the patch file is its last output.
FileIsOutput ==
    stage = "running" =>
        /\ ranIn[defect] = invocation
        /\ outputs # <<>> => /\ patchFile[defect].writtenIn = invocation
                             /\ patchFile[defect].diff = outputs[Len(outputs)].diff
                             /\ patchFile[defect].applied =
                                  (LocationOf[outputs[Len(outputs)].patch] \in applies)

\* Behind the run, the status of the current defect.
StatusOfRun ==
    (stage \in {"tear-down", "remove", "report"} /\ Reports) =>
        /\ ranIn[defect] = invocation /\ result[defect] # "none"
        /\ result[defect] = "SUCCESS" => WithPatch(defect)

\* The defects that are done and have a patch.
Done == {d \in DefectSet \ Elems(defects) : WithPatch(d)}

CountOfDone == totals.repaired \in Nat /\ totals.repaired <= Cardinality(Done)

BenchInv == RunInv /\ Todo /\ FileIsOutput /\ StatusOfRun /\ CountOfDone

---------------------------------------------------------------------------
LEMMA DefectsFinite == IsFiniteSet(DefectSet)
<1>1. Len(Defects) \in Nat BY ExperimentAssumption
<1>2. IsFiniteSet(1 .. Len(Defects)) BY <1>1, FS_Interval
<1> DEFINE f == [i \in 1 .. Len(Defects) |-> Defects[i]]
<1>3. f \in Surjection(1 .. Len(Defects), DefectSet) BY DEF Surjection, DefectSet
<1> QED BY <1>2, <1>3, FS_Surjection

\* What remains behind the current defect.
LEMMA Rest ==
    ASSUME Todo, defects # <<>>
    PROVE  /\ defect \in DefectSet /\ Tail(defects) \in Seq(DefectSet)
           /\ Elems(Tail(defects)) = Elems(defects) \ {defect} /\ defect \in Elems(defects)
           /\ \A i, j \in 1 .. Len(Tail(defects)) :
                Tail(defects)[i] = Tail(defects)[j] => i = j
<1>1. /\ defect = defects[1] /\ Tail(defects) \in Seq(DefectSet) /\ Len(defects) \in Nat \ {0}
      /\ Len(Tail(defects)) = Len(defects) - 1
      /\ \A k \in 1 .. Len(defects) - 1 : Tail(defects)[k] = defects[k + 1]
  BY DEF Todo, defect
<1>2. /\ 1 \in 1 .. Len(defects) /\ \A i, j \in 1 .. Len(defects) : defects[i] = defects[j] => i = j
      /\ \A k \in 1 .. Len(defects) : defects[k] \in DefectSet
  BY <1>1 DEF Todo
<1>3. \A k \in 1 .. Len(defects) - 1 : k + 1 \in 1 .. Len(defects) /\ k + 1 # 1 BY <1>1
<1>4. \A i, j \in 1 .. Len(defects) - 1 : i + 1 = j + 1 => i = j BY <1>1
<1>5. \A k \in 1 .. Len(defects) : k = 1 \/ (k - 1 \in 1 .. Len(defects) - 1 /\ (k - 1) + 1 = k)
  BY <1>1
<1>6. Elems(Tail(defects)) \subseteq Elems(defects) \ {defect} BY <1>1, <1>2, <1>3 DEF Elems
<1>7. Elems(defects) \ {defect} \subseteq Elems(Tail(defects))
  <2> SUFFICES ASSUME NEW k \in 1 .. Len(defects), defects[k] # defect
               PROVE  defects[k] \in Elems(Tail(defects))
    BY DEF Elems
  <2>1. k - 1 \in 1 .. Len(Tail(defects)) /\ Tail(defects)[k - 1] = defects[k] BY <1>1, <1>5
  <2> QED BY <2>1 DEF Elems
<1>8. defect \in Elems(defects) /\ defect \in DefectSet BY <1>1, <1>2 DEF Elems
<1>9. \A i, j \in 1 .. Len(Tail(defects)) : Tail(defects)[i] = Tail(defects)[j] => i = j
  BY <1>1, <1>2, <1>3, <1>4
<1> QED BY <1>1, <1>6, <1>7, <1>8, <1>9

\* f1x does not change its configuration, nor what its commands will do.
LEMMA OraclesKept == Next => UNCHANGED oracleVars
BY DEF Next, InitialBuild, LocalizeFiles, InstrumentForProfile, BuildProfile, ProfileTests,
       InstrumentSchemas, Synthesize, Throw, BuildWithRuntime, FindPatch, NoMorePatches,
       TakeSingle, SavePatch, StartBatch, ValidateNext, BatchDone, WriteDiff, Finish,
       DestroyProject

\* A stage that touches only the current defect's entries leaves the count.
LEMMA CountKept ==
    ASSUME CountOfDone, Todo, UNCHANGED <<defects, totals, invocation>>,
           \A d \in DefectSet \ {defect} :
              /\ ranIn'[d] = ranIn[d] /\ sound'[d] = sound[d] /\ patchFile'[d] = patchFile[d],
           defects # <<>>
    PROVE  CountOfDone'
<1>1. defect \in Elems(defects) BY Rest
<1>2. \A d \in DefectSet \ Elems(defects) : WithPatch(d)' = WithPatch(d) BY <1>1 DEF WithPatch
<1>3. Done' = Done BY <1>2 DEF Done, Elems
<1> QED BY <1>3 DEF CountOfDone

LEMMA CountUnchanged ==
    ASSUME CountOfDone, UNCHANGED <<defects, totals, invocation, ranIn, sound, patchFile>>
    PROVE  CountOfDone'
BY DEF CountOfDone, Done, WithPatch, Elems

LEMMA OutputIsOnePatch ==
    ASSUME IInv, outputs # <<>>
    PROVE  IF LocationOf[outputs[Len(outputs)].patch] \in applies
           THEN \E c \in Candidates : outputs[Len(outputs)].diff = <<c>>
           ELSE outputs[Len(outputs)].diff = <<>>
<1> DEFINE p == outputs[Len(outputs)].patch
<1>1. outputs \in Seq([patch : Candidates, diff : Seq(Candidates)]) BY DEF IInv, Shapes
<1>2. Len(outputs) \in 1 .. Len(outputs) BY <1>1
<1>3. p \in Candidates
  <2> DEFINE R == [patch : Candidates, diff : Seq(Candidates)]
  <2> HIDE DEF R
  <2>1. outputs \in Seq(R) BY <1>1 DEF R
  <2>2. outputs[Len(outputs)] \in R BY <1>2, <2>1
  <2> QED BY <2>2 DEF R
<1>4. outputs[Len(outputs)].diff = IF LocationOf[p] \in applies THEN Append(<<>>, p) ELSE <<>>
  BY <1>2 DEF IInv, OutputsAreSinglePatches, Patched, Pristine
<1>5. Append(<<>>, p) = <<p>> OBVIOUS
<1> QED BY <1>3, <1>4, <1>5

---------------------------------------------------------------------------
LEMMA InitBench == ExperimentInit => BenchInv
<1> SUFFICES ASSUME ExperimentInit PROVE BenchInv
  OBVIOUS
<1> USE DEF ExperimentInit
<1>1. RunInv
  <2>1. command = "f1x" => IInv /\ StatusMeant
    BY InitInv DEF Init, StatusMeant, Returned
  <2> QED BY <2>1 DEF RunInv, InRun
<1>2. Todo BY EmptyList DEF Todo
<1>3. FileIsOutput /\ StatusOfRun BY DEF FileIsOutput, StatusOfRun
<1>4. CountOfDone
  <2>1. IsFiniteSet(Done) BY DefectsFinite, FS_Subset DEF Done
  <2>2. Cardinality(Done) \in Nat BY <2>1, FS_CardinalityType
  <2> QED BY <2>2 DEF CountOfDone
<1> QED BY <1>1, <1>2, <1>3, <1>4 DEF BenchInv

LEMMA InvokeInv == ASSUME BenchInv, Invoke PROVE BenchInv'
<1>1. /\ command = "f1x-bench" /\ stage = "idle" /\ totals'.repaired = 0
      /\ result' = [d \in DefectSet |-> "none"]
      /\ stage' = IF defects' = <<>> THEN "idle" ELSE "fetch"
      /\ UNCHANGED <<vars, command, patchFile, ranIn, sound>>
      /\ invocation' = invocation + 1
  BY DEF Invoke, Cleared
<1>2. RunInv'
  <2>1. UNCHANGED <<cfg, pc, outputs>>
    BY <1>1 DEF vars, oracleVars, outVars
  <2>2. ~InRun /\ ~InRun' BY <1>1 DEF InRun
  <2> QED BY <1>1, <2>1, <2>2 DEF BenchInv, RunInv
<1>3. Todo'
  <2>1. /\ defects' \in Seq(DefectSet)
        /\ \A i, j \in 1 .. Len(defects') : defects'[i] = defects'[j] => i = j
    <3>1. CASE defects' = Defects
      <4>1. Defects \in Seq(DefectSet) BY ExperimentAssumption DEF DefectSet
      <4> QED BY <3>1, <4>1, ExperimentAssumption
    <3>2. CASE \E d \in DefectSet : defects' = <<d>> BY <3>2
    <3> QED BY <3>1, <3>2 DEF Invoke
  <2> QED BY <1>1, <2>1 DEF Todo, BenchInv
<1>4. FileIsOutput' /\ StatusOfRun' BY <1>1 DEF FileIsOutput, StatusOfRun
<1>5. CountOfDone'
  <2>1. IsFiniteSet(Done') BY DefectsFinite, FS_Subset DEF Done
  <2>2. Cardinality(Done') \in Nat BY <2>1, FS_CardinalityType
  <2> QED BY <1>1, <2>2 DEF CountOfDone
<1> QED BY <1>2, <1>3, <1>4, <1>5 DEF BenchInv

\* The stages around the run.
LEMMA CommandInv ==
    ASSUME BenchInv, Fetch \/ SetUp \/ NoRun \/ TearDown \/ Remove
    PROVE  BenchInv'
<1>1. /\ stage \in {"fetch", "set-up", "run", "tear-down", "remove"}
      /\ stage' \in {"set-up", "run", "tear-down", "remove", "report"}
      /\ UNCHANGED <<vars, command, only, defects, patchFile, result, totals, invocation,
                     ranIn, sound>>
      /\ stage' \in {"tear-down", "remove", "report"} =>
            stage \in {"tear-down", "remove"} \/ ~Reports
  BY DEF Fetch, SetUp, NoRun, TearDown, Remove, Plan, Reports
<1>2. RunInv'
  <2>1. UNCHANGED <<cfg, pc, outputs>>
    BY <1>1 DEF vars, oracleVars, outVars
  <2>2. ~InRun /\ ~InRun' BY <1>1 DEF InRun, BenchInv, RunInv
  <2> QED BY <1>1, <2>1, <2>2 DEF BenchInv, RunInv, InRun
<1>3. Todo' BY <1>1 DEF Todo, BenchInv
<1>4. FileIsOutput' BY <1>1 DEF FileIsOutput
<1>5. StatusOfRun' BY <1>1 DEF BenchInv, StatusOfRun, WithPatch, Reports, defect
<1>6. CountOfDone' BY <1>1, CountUnchanged DEF BenchInv
<1> QED BY <1>2, <1>3, <1>4, <1>5, <1>6 DEF BenchInv

LEMMA RunOtherwiseInv == ASSUME BenchInv, RunOtherwise PROVE BenchInv'
<1>1. /\ stage = "run" /\ stage' = "tear-down"
      /\ ranIn' = [ranIn EXCEPT ![defect] = invocation]
      /\ sound' = [sound EXCEPT ![defect] = FALSE]
      /\ \E s : result' = [result EXCEPT ![defect] = ExperimentStatus(s)]
      /\ \E v : patchFile' = patchFile \/ patchFile' = [patchFile EXCEPT ![defect] = v]
      /\ UNCHANGED <<vars, command, only, defects, totals, invocation>>
  BY DEF RunOtherwise, CountRun, RunEnds
<1>2. Todo /\ defects # <<>> BY <1>1 DEF BenchInv, Todo
<1>3. defect \in DefectSet BY <1>2, Rest
<1>4. RunInv'
  <2>1. UNCHANGED <<cfg, pc, outputs>>
    BY <1>1 DEF vars, oracleVars, outVars
  <2>2. ~InRun /\ ~InRun' BY <1>1 DEF InRun, BenchInv, RunInv
  <2> QED BY <1>1, <2>1, <2>2 DEF BenchInv, RunInv, InRun
<1>5. Todo' BY <1>1, <1>2 DEF Todo
<1>6. FileIsOutput' BY <1>1 DEF FileIsOutput
<1>7. StatusOfRun'
  <2>1. ranIn'[defect] = invocation /\ sound'[defect] = FALSE BY <1>1, <1>2, <1>3 DEF Todo
  <2>2. \A s : ExperimentStatus(s) # "none" BY DEF ExperimentStatus
  <2>3. result'[defect] # "none" BY <1>1, <1>2, <1>3, <2>2 DEF Todo
  <2> QED BY <1>1, <2>1, <2>3 DEF StatusOfRun, WithPatch, defect
<1>8. CountOfDone' BY <1>1, <1>2, CountKept DEF BenchInv, Todo
<1> QED BY <1>4, <1>5, <1>6, <1>7, <1>8 DEF BenchInv

LEMMA StartRunInv == ASSUME BenchInv, StartRun PROVE BenchInv'
<1>1. /\ stage = "run" /\ stage' = "running" /\ outputs' = <<>>
      /\ ranIn' = [ranIn EXCEPT ![defect] = invocation]
      /\ sound' = [sound EXCEPT ![defect] = TRUE]
      /\ patchFile' = [patchFile EXCEPT ![defect] = NoPatch]
      /\ UNCHANGED <<cfg, command, only, defects, result, totals, invocation>>
  BY DEF StartRun, CountRun, RemoveOutput
<1>2. Todo /\ defects # <<>> BY <1>1 DEF BenchInv, Todo
<1>3. defect \in DefectSet BY <1>2, Rest
<1>4. command = "f1x-bench" /\ cfg = BenchConfig
  BY <1>1 DEF BenchInv, RunInv
<1>5. RunInv'
  <2>1. Fresh'
    <3>1. cfg.generateAll \in BOOLEAN /\ cfg.outputTop \in Nat /\ cfg.filesGiven
      BY <1>4, ExperimentAssumption
    <3>2. tree' = Pristine /\ original' = Pristine /\ valid' \in SUBSET Candidates
      BY DEF StartRun
    <3>3. /\ pc' = "initialBuild" /\ status' = "none" /\ last' = 0 /\ plausiblePatches' = <<>>
          /\ toValidate' = <<>> /\ written' = 0
          /\ ~unreliable' => compiles' = Candidates /\ applies' = Locations
      BY DEF StartRun
    <3> QED BY <1>1, <3>1, <3>2, <3>3 DEF Fresh
  <2>2. Fresh' => IInv' BY FreshInv, PTL
  <2>3. StatusMeant' BY <2>1 DEF Fresh, StatusMeant, Returned
  <2> QED BY <1>1, <1>4, <2>1, <2>2, <2>3 DEF RunInv, InRun
<1>6. Todo' BY <1>1, <1>2 DEF Todo
<1>7. FileIsOutput' BY <1>1, <1>2, <1>3 DEF FileIsOutput, Todo, defect
<1>8. StatusOfRun' BY <1>1 DEF StatusOfRun
<1>9. CountOfDone' BY <1>1, <1>2, CountKept DEF BenchInv, Todo
<1> QED BY <1>5, <1>6, <1>7, <1>8, <1>9 DEF BenchInv

\* Where f1x writes an output, f1x-bench finds it under the current invocation.
LEMMA F1XStepInv == ASSUME BenchInv, F1XStep PROVE BenchInv'
<1>1. /\ InRun /\ Next
      /\ UNCHANGED <<command, stage, only, defects, result, totals, invocation, ranIn, sound>>
      /\ patchFile' = IF command = "f1x" \/ outputs' = outputs THEN patchFile
                      ELSE [patchFile EXCEPT ![defect] =
                              LET o == outputs'[Len(outputs')]
                              IN  [writtenIn |-> invocation, diff |-> o.diff,
                                   applied |-> LocationOf[o.patch] \in applies]]
  BY DEF F1XStep, InRun
<1>2. IInv /\ StatusMeant BY <1>1 DEF BenchInv, RunInv
<1>3. RunInv'
  <2>1. IInv' /\ StatusMeant' BY <1>1, <1>2, StepInv, StepStatus
  <2>2. UNCHANGED cfg BY <1>1, OraclesKept DEF oracleVars
  <2> QED BY <1>1, <2>1, <2>2 DEF BenchInv, RunInv, InRun
<1>4. Todo' BY <1>1 DEF BenchInv, Todo
<1>5. FileIsOutput'
  <2> SUFFICES ASSUME stage = "running" PROVE FileIsOutput'
    BY <1>1 DEF FileIsOutput
  <2>1. command # "f1x" /\ defect \in DefectSet BY Rest DEF BenchInv, RunInv, Todo
  <2>2. FileIsOutput BY DEF BenchInv
  <2>3. applies' = applies BY <1>1, OraclesKept DEF oracleVars
  <2>4. CASE outputs' = outputs BY <1>1, <2>2, <2>3, <2>4 DEF FileIsOutput, defect
  <2>5. CASE outputs' # outputs
    BY <1>1, <2>1, <2>2, <2>3, <2>5 DEF FileIsOutput, defect, BenchInv, Todo
  <2> QED BY <2>4, <2>5
<1>6. StatusOfRun'
  <2>1. stage \notin {"tear-down", "remove", "report"} BY <1>1 DEF InRun, BenchInv, RunInv
  <2> QED BY <1>1, <2>1 DEF StatusOfRun
<1>7. CountOfDone'
  <2>1. CASE patchFile' = patchFile BY <1>1, <2>1, CountUnchanged DEF BenchInv
  <2>2. CASE patchFile' # patchFile
    <3>1. defects # <<>> BY <1>1, <2>2 DEF InRun, BenchInv, Todo
    <3>2. \A d \in DefectSet \ {defect} : patchFile'[d] = patchFile[d]
      BY <1>1 DEF BenchInv, Todo
    <3> QED BY <1>1, <3>1, <3>2, CountKept DEF BenchInv
  <2> QED BY <2>1, <2>2
<1> QED BY <1>3, <1>4, <1>5, <1>6, <1>7 DEF BenchInv

\* The run is over: its status, and what it says of the patch file.
LEMMA RunOverInv == ASSUME BenchInv, RunReturns \/ RunTimesOut PROVE BenchInv'
<1>1. /\ stage = "running" /\ stage' = "tear-down"
      /\ pc' = "terminated" /\ outputs' = <<>>
      /\ UNCHANGED <<cfg, command, only, defects, patchFile, totals, invocation, ranIn>>
      /\ sound' = sound \/ sound' = [sound EXCEPT ![defect] = FALSE]
  BY DEF RunReturns, RunTimesOut, RunEnds, LeaveTree
<1>2. Todo /\ defects # <<>> BY <1>1 DEF BenchInv, Todo
<1>3. defect \in DefectSet BY <1>2, Rest
<1>4. command = "f1x-bench" /\ IInv /\ StatusMeant
  BY <1>1 DEF BenchInv, RunInv, InRun
<1>5. RunInv' BY <1>1, <1>4 DEF BenchInv, RunInv, InRun
<1>6. Todo'
  <2>1. DOMAIN result' = DefectSet BY <1>2 DEF RunReturns, RunTimesOut, RunEnds, Todo
  <2> QED BY <1>1, <1>2, <2>1 DEF Todo
<1>7. FileIsOutput' BY <1>1 DEF FileIsOutput
<1>8. StatusOfRun'
  <2>1. \A s : ExperimentStatus(s) # "none" BY DEF ExperimentStatus
  <2>2. PICK s : result' = [result EXCEPT ![defect] = ExperimentStatus(s)]
    BY DEF RunReturns, RunTimesOut, RunEnds
  <2>3. result'[defect] = ExperimentStatus(s) BY <1>2, <1>3, <2>2 DEF Todo
  <2>4. ranIn'[defect] = invocation BY <1>1 DEF BenchInv, FileIsOutput
  <2>5. result'[defect] = "SUCCESS" => WithPatch(defect)'
    <3>1. CASE RunTimesOut
      <4>1. result'[defect] = ExperimentStatus(124)
        BY <1>2, <1>3, <3>1 DEF RunTimesOut, RunEnds, Todo
      <4> QED BY <4>1 DEF ExperimentStatus
    <3>2. CASE sound' = [sound EXCEPT ![defect] = FALSE]
      <4>1. sound'[defect] = FALSE BY <1>2, <1>3, <3>2 DEF Todo
      <4> QED BY <1>1, <2>4, <4>1 DEF WithPatch, defect
    <3>3. CASE RunReturns /\ pc = "exited" /\ RunEnds(ExitCode(status))
      <4>1. result'[defect] = ExperimentStatus(ExitCode(status))
        BY <1>2, <1>3, <3>3 DEF RunEnds, Todo
      <4>2. status \in {"SUCCESS", "FAILURE", "ERROR", "NO_NEGATIVE_TESTS"}
        BY <1>4, <3>3 DEF StatusMeant, Returned
      <4>3. result'[defect] = "SUCCESS" => status = "SUCCESS"
        BY <4>1, <4>2 DEF ExperimentStatus, ExitCode
      <4> SUFFICES ASSUME status = "SUCCESS" PROVE WithPatch(defect)'
        BY <4>3
      <4>4. outputs # <<>> BY <1>4 DEF StatusMeant
      <4>5. IF LocationOf[outputs[Len(outputs)].patch] \in applies
            THEN \E c \in Candidates : outputs[Len(outputs)].diff = <<c>>
            ELSE outputs[Len(outputs)].diff = <<>>
        BY <1>4, <4>4, OutputIsOnePatch
      <4>6. /\ patchFile[defect].writtenIn = invocation
            /\ patchFile[defect].diff = outputs[Len(outputs)].diff
            /\ patchFile[defect].applied = (LocationOf[outputs[Len(outputs)].patch] \in applies)
        BY <1>1, <4>4 DEF BenchInv, FileIsOutput
      <4> QED BY <1>1, <2>4, <4>5, <4>6 DEF WithPatch, defect
    <3> QED BY <3>1, <3>2, <3>3 DEF RunReturns
  <2> QED BY <1>1, <2>1, <2>3, <2>4, <2>5 DEF StatusOfRun, defect
<1>9. CountOfDone'
  <2>1. \A d \in DefectSet \ {defect} : sound'[d] = sound[d] BY <1>1, <1>2 DEF Todo
  <2> QED BY <1>1, <1>2, <2>1, CountKept DEF BenchInv
<1> QED BY <1>5, <1>6, <1>7, <1>8, <1>9 DEF BenchInv

\* Reporting a defect counts it once, and only with its patch.
LEMMA ReportInv == ASSUME BenchInv, Report PROVE BenchInv'
<1>1. /\ stage = "report" /\ defects' = Tail(defects)
      /\ stage' = IF Tail(defects) = <<>> THEN "idle" ELSE "fetch"
      /\ UNCHANGED <<vars, command, only, patchFile, result, invocation, ranIn, sound>>
  BY DEF Report
<1>2. Todo /\ defects # <<>> BY <1>1 DEF BenchInv, Todo
<1>3. /\ defect \in DefectSet /\ Tail(defects) \in Seq(DefectSet)
      /\ Elems(Tail(defects)) = Elems(defects) \ {defect} /\ defect \in Elems(defects)
      /\ \A i, j \in 1 .. Len(Tail(defects)) : Tail(defects)[i] = Tail(defects)[j] => i = j
  BY <1>2, Rest
<1>4. RunInv'
  <2>1. UNCHANGED <<cfg, pc, outputs>>
    BY <1>1 DEF vars, oracleVars, outVars
  <2>2. ~InRun /\ ~InRun' BY <1>1 DEF InRun, BenchInv, RunInv
  <2> QED BY <1>1, <2>1, <2>2 DEF BenchInv, RunInv, InRun
<1>5. Todo' BY <1>1, <1>2, <1>3 DEF Todo
<1>6. FileIsOutput' /\ StatusOfRun' BY <1>1 DEF FileIsOutput, StatusOfRun
<1>7. CountOfDone'
  <2>1. Done' = IF WithPatch(defect) THEN Done \cup {defect} ELSE Done
    <3>1. \A d : WithPatch(d)' = WithPatch(d) BY <1>1 DEF WithPatch
    <3>2. DefectSet \ Elems(defects') = (DefectSet \ Elems(defects)) \cup {defect}
      BY <1>1, <1>3
    <3>3. Done' = {d \in (DefectSet \ Elems(defects)) \cup {defect} : WithPatch(d)}
      BY <3>1, <3>2 DEF Done, Elems
    <3> QED BY <3>3 DEF Done
  <2>2. IsFiniteSet(Done) /\ defect \notin Done
    BY <1>3, DefectsFinite, FS_Subset DEF Done
  <2>3. Cardinality(Done) \in Nat /\ Cardinality(Done \cup {defect}) = Cardinality(Done) + 1
    BY <2>2, FS_CardinalityType, FS_AddElement
  <2>4. totals.repaired \in Nat /\ totals.repaired <= Cardinality(Done) BY DEF BenchInv, CountOfDone
  <2>5. \/ totals'.repaired = totals.repaired
        \/ totals'.repaired = totals.repaired + 1 /\ WithPatch(defect)
    <3>1. CASE ~Reports BY <3>1 DEF Report
    <3>2. CASE Reports
      <4>1. result[defect] # "none" /\ (result[defect] = "SUCCESS" => WithPatch(defect))
        BY <1>1, <3>2 DEF BenchInv, StatusOfRun
      <4>2. totals'.repaired = totals.repaired + One(result[defect] = "SUCCESS")
        BY <3>2, <4>1 DEF Report
      <4> QED BY <2>4, <4>1, <4>2 DEF One
    <3> QED BY <3>1, <3>2
  <2> QED BY <2>1, <2>3, <2>4, <2>5 DEF CountOfDone
<1> QED BY <1>4, <1>5, <1>6, <1>7 DEF BenchInv

LEMMA StutterBench == ASSUME BenchInv, UNCHANGED allVars PROVE BenchInv'
<1>1. /\ UNCHANGED <<vars, command, stage, only, defects, patchFile, result, totals, invocation,
                     ranIn, sound>>
  BY DEF allVars, benchVars
<1>2. UNCHANGED <<cfg, applies, pc, outputs, written, status>>
  BY <1>1 DEF vars, oracleVars, outVars
<1>3. RunInv'
  <2>1. IInv => IInv' BY <1>1, StepInv
  <2>2. StatusMeant => StatusMeant' BY <1>2 DEF StatusMeant, Returned
  <2> QED BY <1>1, <1>2, <2>1, <2>2 DEF BenchInv, RunInv, InRun
<1>4. Todo' BY <1>1 DEF BenchInv, Todo
<1>5. FileIsOutput' /\ StatusOfRun'
  BY <1>1, <1>2 DEF BenchInv, FileIsOutput, StatusOfRun, WithPatch, Reports, defect
<1>6. CountOfDone' BY <1>1, CountUnchanged DEF BenchInv
<1> QED BY <1>3, <1>4, <1>5, <1>6 DEF BenchInv

LEMMA StepBench == BenchInv /\ [ExperimentNext]_allVars => BenchInv'
BY InvokeInv, CommandInv, RunOtherwiseInv, StartRunInv, F1XStepInv, RunOverInv, ReportInv,
   StutterBench
DEF ExperimentNext, Step

---------------------------------------------------------------------------
\* Whoever starts f1x and however often, the invariant of the repair algorithm
\* holds while it runs.
THEOREM ExperimentInvariance == ExperimentSpec => []BenchInv
BY InitBench, StepBench, PTL DEF ExperimentSpec

\* f1x-bench counts as repaired no more defects than have a patch file which a run
\* of this invocation wrote, whatever flags, failures and timeouts there were: the
\* diff of one patch, or nothing where the application of the patch failed.
THEOREM RepairedHasPatch == ExperimentSpec => []RepairedMeansPatch
<1>1. BenchInv => RepairedMeansPatch
  <2> SUFFICES ASSUME BenchInv, stage = "idle"
               PROVE  totals.repaired <= Cardinality({d \in DefectSet : WithPatch(d)})
    BY DEF RepairedMeansPatch, WithPatch
  <2>1. defects = <<>> BY DEF BenchInv, Todo
  <2>2. Done = {d \in DefectSet : WithPatch(d)} BY <2>1, EmptyList DEF Done
  <2> QED BY <2>2 DEF BenchInv, CountOfDone
<1> QED BY <1>1, ExperimentInvariance, PTL

\* What is proved of one run of f1x holds of every run of f1x-bench: the sources
\* are restored, and outputs are single patches, by cost and validated.
THEOREM EveryRunIsARepair ==
    ExperimentSpec =>
        [](/\ OriginalsRestored /\ OutputsAreSinglePatches /\ BatchOutputsValidated
           /\ CheapestFirst /\ AllAcceptableOutput)
<1> DEFINE All == /\ OriginalsRestored /\ OutputsAreSinglePatches /\ BatchOutputsValidated
                  /\ CheapestFirst /\ AllAcceptableOutput
<1>1. BenchInv => All
  <2> SUFFICES ASSUME BenchInv PROVE All
    OBVIOUS
  <2>1. CASE InRun
    BY <2>1, InvRestores, InvSingle, InvValidated, InvCheapest, InvComplete DEF BenchInv, RunInv
  <2>2. CASE ~InRun
    <3>1. pc = "terminated" /\ outputs = <<>> BY <2>2 DEF BenchInv, RunInv
    <3> QED BY <3>1, EmptyList
            DEF OriginalsRestored, OutputsAreSinglePatches, BatchOutputsValidated,
                OutputsValidated, CheapestFirst, AllAcceptableOutput, Returned
  <2> QED BY <2>1, <2>2
<1> QED BY <1>1, ExperimentInvariance, PTL
============================================================================

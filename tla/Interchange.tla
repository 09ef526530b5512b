----------------------------- MODULE Interchange ----------------------------
(***************************************************************************)
(* What f1x exchanges with the programs around it: JSON documents, in       *)
(* memory and as text, and the XML of a coverage report.  A text is         *)
(* whatever another program wrote, in full or cut off: it grows by pieces   *)
(* of an alphabet, and is read at every length.                             *)
(***************************************************************************)
EXTENDS JsonStore, Xml

CONSTANTS Alphabets,  \* [kind of text -> set of pieces]
          Beginning,  \* [kind of text -> piece]
          XmlKinds,   \* the others are JSON
          PieceLimit  \* bound of the instance

ASSUME AlphabetAssumption == DOMAIN Beginning = DOMAIN Alphabets /\ XmlKinds \subseteq DOMAIN Alphabets

VARIABLES kind,   \* of the text; "none": a document in memory
          text, pieces

interchange == <<store, kind, text, pieces>>

Init ==
  /\ StoreInit
  /\ \/ kind = "none" /\ text = <<>>
     \/ use = "read" /\ kind \in DOMAIN Alphabets /\ text = Bytes(Beginning[kind])
  /\ pieces = 0

MoreText ==
  /\ kind # "none" /\ pieces < PieceLimit
  /\ \E piece \in Alphabets[kind] : text' = text \o Bytes(piece)
  /\ pieces' = pieces + 1
  /\ UNCHANGED <<store, kind>>

Next == (kind = "none" /\ StoreNext /\ UNCHANGED <<kind, text, pieces>>) \/ MoreText

Spec == Init /\ [][Next]_interchange

----------------------------------------------------------------------------
IsJson == kind \notin XmlKinds \cup {"none"}

\* The reader and the grammar agree: a text that means nothing is refused, and
\* the document of any other is its one meaning, each number with exactly the
\* getters that can represent it (GetUint of an appId or a line asserts
\* otherwise) and every surrogate pair joined.
JsonRead ==
  IsJson => Meanings(text) = IF Failed(Parse(text)) THEN {} ELSE {ParseStream(text)}

\* What a writer puts, the reader gives back: a document that was read and is
\* written again (the compilation database, when it is adjusted) or that was
\* built in memory (the applications) loses nothing, whatever its strings hold.
RECURSIVE HasDouble(_)
HasDouble(v) == CASE v.t = "number" -> "double" \in v.flags
                  [] v.t = "array" -> \E i \in DOMAIN v.e : HasDouble(v.e[i])
                  [] v.t = "object" -> \E i \in DOMAIN v.m : HasDouble(v.m[i][2])
                  [] OTHER -> FALSE
RoundTrip ==
  LET v == IF kind = "none" THEN Denoted(pool, vals[DocumentRoot])
           ELSE IF IsJson THEN ParseStream(text) ELSE Null
  IN  ~HasDouble(v) => ParseStream(Write(v)) = v /\ ~Failed(Parse(Write(v)))

Report(r) == IF Stopped(r) THEN {} ELSE {Tree(r, 1)}

\* Reading in place: no zero or expansion that the parser writes over the text
\* destroys a byte it has still to read or one that a name or value ends in, so
\* that the report that f1x walks is the one that gcovr wrote; a report cut off
\* in the middle is refused and not read in part.
XmlRead ==
  kind \in XmlKinds => XmlMeanings(text) = Report(parse(text))

=============================================================================

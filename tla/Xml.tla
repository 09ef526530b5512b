--------------------------------- MODULE Xml --------------------------------
(***************************************************************************)
(* The coverage report that gcovr writes and f1x reads: rapidxml's parser   *)
(* with no flags.  It works in the buffer that holds the text: references   *)
(* are expanded where they stand, names and values stay in the buffer and   *)
(* are ended by zeros written over what has been read, nodes only point     *)
(* into it.                                                                 *)
(***************************************************************************)
EXTENDS Characters

CONSTANT CodeBits   \* width of the code of a character reference (unsigned long)
ASSUME CodeAssumption == CodeBits \in Nat /\ 2^CodeBits > 1114112

Blanks == {32, 10, 13, 9}
Except(chars) == (1..255) \ {C[chars[i]] : i \in DOMAIN chars}
NodeName == Except(<<"/", ">", "?">>) \ Blanks
AttributeName == Except(<<"!", "/", "<", "=", ">", "?">>) \ Blanks
Text == Except(<<"<">>)
Quoted(quote) == (1..255) \ {quote}
Pure(set) == set \ {C["&"]}    \* what needs no expansion

----------------------------------------------------------------------------
(* The parser: the buffer, the position in it, the nodes made so far, the   *)
(* node that the last call returned (0: none), and an error.                *)

Byte(r, i) == IF r.pos + i > Len(r.buf) THEN 0 ELSE r.buf[r.pos + i]
Test(r, set) == Byte(r, 0) \in set
Looking(r, word) == WordAt(r.buf, r.pos, word)
Forward(r, n) == [r EXCEPT !.pos = @ + n]
Skip(r, set) == [r EXCEPT !.pos = RunEnd(r.buf, @, set)]
Stop(r, e) == [r EXCEPT !.err = e]
Stopped(r) == r.err # "none"
WriteAt(r, p, bytes) ==
  [r EXCEPT !.buf = [i \in DOMAIN @ |-> IF i - p + 1 \in DOMAIN bytes THEN bytes[i - p + 1] ELSE @[i]]]
Terminate(r, ref) == WriteAt(r, ref[1] + ref[2], <<0>>)

\* after the first occurrence of the word; a zero comes first if there is none
SkipPast(r, word) ==
  LET end == RunEnd(r.buf, r.pos, 1..255)
      found == {i \in r.pos..(end - 1) : WordAt(r.buf, i, word)}
      first == CHOOSE i \in found : \A j \in found : i <= j
  IN  IF found = {} THEN Stop(r, "unexpected end of data")
      ELSE [r EXCEPT !.pos = first + Len(word)]

\* a reference into the buffer: offset and length; NoText is the empty string
NoText == <<0, 0>>
Ref(from, to) == <<from, to - from>>
Node(kind) == [kind |-> kind, name |-> NoText, value |-> NoText,
               attributes |-> <<>>, first |-> 0, last |-> 0, next |-> 0]
NewNode(r, node) == [r EXCEPT !.nodes = Append(@, node), !.node = Len(r.nodes) + 1]
allocate_attribute(name, value) == [name |-> name, value |-> value]
append_attribute(r, n, attribute) == [r EXCEPT !.nodes[n].attributes = Append(@, attribute)]
\* the document itself is node 1
append_node(r, n, child) ==
  LET last == r.nodes[n].last
      linked == [r.nodes EXCEPT ![n].last = child, ![child].next = 0]
  IN  [r EXCEPT !.nodes = IF last = 0 THEN [linked EXCEPT ![n].first = child]
                          ELSE [linked EXCEPT ![last].next = child]]

Entities == (<<"&", "a", "m", "p", ";">> :> "&") @@ (<<"&", "a", "p", "o", "s", ";">> :> "'") @@
            (<<"&", "q", "u", "o", "t", ";">> :> "\"") @@ (<<"&", "g", "t", ";">> :> ">") @@
            (<<"&", "l", "t", ";">> :> "<")

Encoded(code) ==
  CASE code < 128 -> <<code>>
    [] code \in 128..2047 -> <<192 + (code \div 64), 128 + (code % 64)>>
    [] code \in 2048..65535 -> <<224 + (code \div 4096), 128 + ((code \div 64) % 64), 128 + (code % 64)>>
    [] code \in 65536..1114111 -> <<240 + (code \div 262144), 128 + ((code \div 4096) % 64),
                                    128 + ((code \div 64) % 64), 128 + (code % 64)>>
    [] OTHER -> <<>>
Inserted(r, dest, bytes) ==
  [r |-> IF bytes = <<>> THEN Stop(r, "invalid numeric character entity") ELSE WriteAt(r, dest, bytes),
   dest |-> dest + Len(bytes)]
insert_coded_character(r, dest, code) == Inserted(r, dest, Encoded(code))

\* decimal references take hexadecimal digits too
HexDigits == {b \in 1..255 : HexValue(b) >= 0}
CodeOf(base, digits) ==
  FoldLeft(LAMBDA code, b : (code * base + HexValue(b)) % 2^CodeBits, 0, digits)

\* from the position and to dest, up to a byte outside the set
RECURSIVE Expand(_, _, _), AfterCode(_, _)
AfterCode(i, set) ==
  IF Stopped(i.r) THEN i
  ELSE IF Byte(i.r, 0) = C[";"] THEN Expand(Forward(i.r, 1), i.dest, set)
  ELSE [i EXCEPT !.r = Stop(@, "expected ;")]
ExpandCode(base, r, dest, set) ==
  LET code == CodeOf(base, SubSeq(r.buf, r.pos, RunEnd(r.buf, r.pos, HexDigits) - 1))
  IN  AfterCode(insert_coded_character(Skip(r, HexDigits), dest, code), set)
Expand(r, dest, set) ==
  LET named == {e \in DOMAIN Entities : Looking(r, e)}
      one(length, bytes) == Expand(Forward(WriteAt(r, dest, bytes), length), dest + 1, set)
  IN  IF ~Test(r, set) THEN [r |-> r, dest |-> dest]
      ELSE IF named # {} THEN LET e == CHOOSE e \in named : TRUE IN one(Len(e), Bytes(<<Entities[e]>>))
      ELSE IF Looking(r, <<"&", "#", "x">>) THEN ExpandCode(16, Forward(r, 3), dest, set)
      ELSE IF Looking(r, <<"&", "#">>) THEN ExpandCode(10, Forward(r, 2), dest, set)
      ELSE one(1, <<Byte(r, 0)>>)
\* nothing moves before the first &
skip_and_expand_character_refs(r, set) ==
  LET pure == Skip(r, Pure(set)) IN Expand(pure, pure.pos, set)

\* the run of the set at the position
Here(r, set) == Ref(r.pos, RunEnd(r.buf, r.pos, set))

\* the value is ended by a zero after the closing quote is found
RECURSIVE parse_node_attributes(_, _), AttributeEnds(_, _, _, _, _)
WithAttribute(r, n, attribute) == append_attribute(Terminate(r, attribute.value), n, attribute)
AttributeEnds(value, from, quote, name, n) ==
  IF Stopped(value.r) THEN value.r
  ELSE IF Byte(value.r, 0) # quote THEN Stop(value.r, "expected ' or \"")
  ELSE parse_node_attributes(Skip(WithAttribute(Forward(value.r, 1), n,
         allocate_attribute(name, Ref(from, value.dest))), Blanks), n)
AttributeValue(r, name, n) ==
  IF ~Test(r, {C["'"], C["\""]}) THEN Stop(r, "expected ' or \"")
  ELSE AttributeEnds(skip_and_expand_character_refs(Forward(r, 1), Quoted(Byte(r, 0))),
                     r.pos + 1, Byte(r, 0), name, n)
AttributeNamed(r, name, n) ==
  IF Byte(r, 0) # C["="] THEN Stop(r, "expected =")
  ELSE AttributeValue(Skip(Terminate(Forward(r, 1), name), Blanks), name, n)
parse_node_attributes(r, n) ==
  IF ~Test(r, AttributeName) THEN r
  ELSE AttributeNamed(Skip(Skip(r, AttributeName), Blanks), Here(r, AttributeName), n)

\* the byte that ends the data, as it was before the zero was written
ByteAfterZero(before, after) == Byte(after, 0)
ByteAfter(before, after) == Byte(before, 0)
\* a data node; its zero may overwrite the byte that ended the data
DataNode(r, ref, n) == append_node(NewNode(r, [Node("data") EXCEPT !.value = ref]), n, Len(r.nodes) + 1)
FirstValue(r, ref, n) ==
  LET value == r.nodes[n].value
  IN  IF value = NoText \/ r.buf[value[1]] = 0 THEN [r EXCEPT !.nodes[n].value = ref] ELSE r
DataEnds(before, after) == [r |-> after, next |-> ByteAfter(before, after)]
AppendData(data, ref, n) ==
  IF Stopped(data.r) THEN [r |-> data.r, next |-> 0]
  ELSE DataEnds(data.r, Terminate(FirstValue(DataNode(data.r, ref, n), ref, n), ref))
DataFrom(from, data, n) == AppendData(data, Ref(from, data.dest), n)
parse_and_append_data(r, n) == DataFrom(r.pos, skip_and_expand_character_refs(r, Text), n)

parse_comment(r) == SkipPast([r EXCEPT !.node = 0], <<"-", "-", ">">>)
parse_pi(r) == SkipPast([r EXCEPT !.node = 0], <<"?", ">">>)
parse_xml_declaration(r) == parse_pi(r)
CdataNode(r, ref) == Terminate(NewNode(r, [Node("cdata") EXCEPT !.value = ref]), ref)
CdataEnds(from, past) ==
  IF Stopped(past) THEN past ELSE CdataNode(past, Ref(from, past.pos - 3))
parse_cdata(r) == CdataEnds(r.pos, SkipPast(r, <<"]", "]", ">">>))
\* to a > outside brackets
RECURSIVE parse_doctype(_, _)
parse_doctype(r, depth) ==
  LET b == Byte(r, 0)
  IN  CASE b = 0 -> Stop(r, "unexpected end of data")
        [] b = C[">"] /\ depth = 0 -> Forward([r EXCEPT !.node = 0], 1)
        [] b = C["["] -> parse_doctype(Forward(r, 1), depth + 1)
        [] b = C["]"] /\ depth > 0 -> parse_doctype(Forward(r, 1), depth - 1)
        [] OTHER -> parse_doctype(Forward(r, 1), depth)

RECURSIVE parse_node_contents(_, _), AfterData(_, _, _), parse_node(_)
ElementEnds(r, name, n) == IF Stopped(r) THEN r ELSE [Terminate(r, name) EXCEPT !.node = n]
StartTagEnds(r, name, n) ==
  IF Stopped(r) THEN r
  ELSE IF Byte(r, 0) = C[">"] THEN ElementEnds(parse_node_contents(Forward(r, 1), n), name, n)
  ELSE IF Looking(r, <<"/", ">">>) THEN ElementEnds(Forward(r, 2), name, n)
  ELSE Stop(r, "expected >")
ElementNamed(r, name, n) ==
  StartTagEnds(parse_node_attributes(
    Skip(NewNode(r, [Node("element") EXCEPT !.name = name]), Blanks), n), name, n)
parse_element(r) ==
  IF ~Test(r, NodeName) THEN Stop(r, "expected element name")
  ELSE ElementNamed(Skip(r, NodeName), Here(r, NodeName), Len(r.nodes) + 1)

parse_node(r) ==
  LET xml == /\ Byte(r, 1) \in {C["x"], C["X"]} /\ Byte(r, 2) \in {C["m"], C["M"]}
             /\ Byte(r, 3) \in {C["l"], C["L"]} /\ Byte(r, 4) \in Blanks
  IN  IF Looking(r, <<"?">>)
      THEN IF xml THEN parse_xml_declaration(Forward(r, 5)) ELSE parse_pi(Forward(r, 1))
      ELSE IF ~Looking(r, <<"!">>) THEN parse_element(r)
      ELSE IF Looking(r, <<"!", "-", "-">>) THEN parse_comment(Forward(r, 3))
      ELSE IF Looking(r, <<"!", "[", "C", "D", "A", "T", "A", "[">>) THEN parse_cdata(Forward(r, 8))
      ELSE IF Looking(r, <<"!", "D", "O", "C", "T", "Y", "P", "E">>) /\ Byte(r, 8) \in Blanks
      THEN parse_doctype(Forward(r, 9), 0)
      ELSE SkipPast([r EXCEPT !.node = 0], <<">">>)

Appended(r, n) == IF Stopped(r) \/ r.node = 0 THEN r ELSE append_node(r, n, r.node)

\* next: the byte at the position, which the zero of a data node may hide;
\* closing tags are skipped, their names are not compared
AfterChild(child, n) == IF Stopped(child) THEN child ELSE parse_node_contents(child, n)
ClosingTagEnds(r) == IF Byte(r, 0) = C[">"] THEN Forward(r, 1) ELSE Stop(r, "expected >")
AfterData(r, n, next) ==
  IF Stopped(r) THEN r
  ELSE IF next = 0 THEN Stop(r, "unexpected end of data")
  ELSE IF Byte(r, 1) = C["/"] THEN ClosingTagEnds(Skip(Skip(Forward(r, 2), NodeName), Blanks))
  ELSE AfterChild(Appended(parse_node(Forward(r, 1)), n), n)
AfterAppended(data, n) == AfterData(data.r, n, data.next)
parse_node_contents(r, n) ==
  IF Byte(Skip(r, Blanks), 0) \in {0, C["<"]}
  THEN AfterData(Skip(r, Blanks), n, Byte(Skip(r, Blanks), 0))
  ELSE AfterAppended(parse_and_append_data(r, n), n)

parse_bom(r) == IF Len(r.buf) >= 3 /\ SubSeq(r.buf, 1, 3) = <<239, 187, 191>> THEN Forward(r, 3) ELSE r
RECURSIVE TopLevel(_), AtTop(_)
AtTop(r) ==
  IF Byte(r, 0) = 0 THEN r
  ELSE IF Byte(r, 0) # C["<"] THEN Stop(r, "expected <")
  ELSE TopLevel(Appended(parse_node(Forward(r, 1)), 1))
TopLevel(r) == IF Stopped(r) THEN r ELSE AtTop(Skip(r, Blanks))
\* rapidxml::file puts a zero after the text
parse(text) ==
  TopLevel(parse_bom([buf |-> Append(text, 0), pos |-> 1, nodes |-> <<Node("document")>>, node |-> 0, err |-> "none"]))

\* name() and value(), as the zero-terminated strings that f1x takes them for
Chars(r, ref) == IF ref = NoText THEN <<>> ELSE SubSeq(r.buf, ref[1], RunEnd(r.buf, ref[1], 1..255) - 1)
first_node(r, n) == r.nodes[n].first
next_sibling(r, n) == r.nodes[n].next
RECURSIVE Siblings(_, _)
Tree(r, n) == [kind |-> r.nodes[n].kind, name |-> Chars(r, r.nodes[n].name),
               value |-> Chars(r, r.nodes[n].value),
               attributes |-> [i \in DOMAIN r.nodes[n].attributes |->
                 <<Chars(r, r.nodes[n].attributes[i].name), Chars(r, r.nodes[n].attributes[i].value)>>],
               nodes |-> Siblings(r, first_node(r, n))]
Siblings(r, n) == IF n = 0 THEN <<>> ELSE <<Tree(r, n)>> \o Siblings(r, next_sibling(r, n))

----------------------------------------------------------------------------
(* What a text means, by the grammar, from the text as it was written: a    *)
(* reference for the parser.  Each operator gives the ways to read a part   *)
(* of the text from a position on.                                          *)

Cut(s) == SubSeq(s, 1, RunEnd(s, 1, 1..255) - 1)
Element(kind, name, value, attributes, nodes) ==
  [kind |-> kind, name |-> Cut(name), value |-> Cut(value), attributes |-> attributes, nodes |-> nodes]
TextAt(t, i) == RunEnd(t, i, Text)

RECURSIVE Expansions(_)
Expansions(s) ==
  LET named == {e \in DOMAIN Entities : WordAt(s, 1, e)}
      hex == WordAt(s, 1, <<"&", "#", "x">>)
      from == IF hex THEN 4 ELSE 3
      to == RunEnd(s, from, HexDigits)
      code == CodeOf(IF hex THEN 16 ELSE 10, SubSeq(s, from, to - 1))
      rest(k) == Expansions(SubSeq(s, k, Len(s)))
  IN  IF s = <<>> THEN {<<>>}
      ELSE IF named # {} THEN UNION {{<<C[Entities[e]]>> \o x : x \in rest(Len(e) + 1)} : e \in named}
      ELSE IF WordAt(s, 1, <<"&", "#">>)
      THEN IF to <= Len(s) /\ s[to] = C[";"] /\ code < 1114112
           THEN {Utf8(code) \o x : x \in rest(to + 1)} ELSE {}
      ELSE {<<s[1]>> \o x : x \in rest(2)}

RECURSIVE AttributesAt(_, _), ContentAt(_, _), MarkupAt(_, _)
AttributesAt(t, i) ==
  LET e == RunEnd(t, i, AttributeName)
      equals == RunEnd(t, e, Blanks)
      quote == RunEnd(t, equals + 1, Blanks)
      close == RunEnd(t, quote + 1, Quoted(t[quote]))
  IN  IF e = i THEN {[next |-> i, list |-> <<>>]}
      ELSE IF equals > Len(t) \/ t[equals] # C["="] THEN {}
      ELSE IF quote > Len(t) \/ t[quote] \notin {C["'"], C["\""]} \/ close > Len(t) THEN {}
      ELSE UNION {{[a EXCEPT !.list = <<<<SubSeq(t, i, e - 1), Cut(v)>>>> \o @] :
                     v \in Expansions(SubSeq(t, quote + 1, close - 1))} :
                  a \in AttributesAt(t, RunEnd(t, close + 1, Blanks))}

\* text up to the next markup, and so on to the closing tag
ContentAt(t, i) ==
  LET j == TextAt(t, i)
      run == SubSeq(t, i, j - 1)
      data == IF Range(run) \subseteq Blanks THEN {<<>>}
              ELSE {<<Element("data", <<>>, v, <<>>, <<>>)>> : v \in Expansions(run)}
      name == RunEnd(t, j + 2, NodeName)
      close == RunEnd(t, name, Blanks)
      after == IF ~WordAt(t, j, <<"<", "/">>)
               THEN UNION {{[c EXCEPT !.nodes = m.nodes \o @] : c \in ContentAt(t, m.next)} : m \in MarkupAt(t, j)}
               ELSE IF WordAt(t, close, <<">">>) THEN {[next |-> close + 1, nodes |-> <<>>]} ELSE {}
  IN  IF j > Len(t) THEN {} ELSE {[a EXCEPT !.nodes = d \o @] : a \in after, d \in data}

ElementAt(t, i) ==
  LET e == RunEnd(t, i + 1, NodeName)
      made(a, c) == [next |-> c.next, nodes |->
        LET said == SelectSeq(c.nodes, LAMBDA n : n.kind = "data" /\ n.value # <<>>)
        IN  <<Element("element", SubSeq(t, i + 1, e - 1), IF said = <<>> THEN <<>> ELSE Head(said).value,
                      a.list, c.nodes)>>]
  IN  IF e = i + 1 THEN {}
      ELSE UNION {IF WordAt(t, a.next, <<"/", ">">>) THEN {made(a, [next |-> a.next + 2, nodes |-> <<>>])}
                  ELSE IF WordAt(t, a.next, <<">">>) THEN {made(a, c) : c \in ContentAt(t, a.next + 1)}
                  ELSE {} : a \in AttributesAt(t, RunEnd(t, e, Blanks))}

\* the shortest text from i that the word ends
Until(t, i, word) ==
  LET ends == {j \in i..Len(t) : WordAt(t, j, word)} IN {j \in ends : \A k \in ends : j <= k}
Silent(t, i, word) == {[next |-> j + Len(word), nodes |-> <<>>] : j \in Until(t, i, word)}
\* some bracket from i to j is still open at j
Bracketed(t, i, j) ==
  LET many(c, k, m) == Cardinality({x \in k..m : t[x] = C[c]})
  IN  \E k \in i..j : \A m \in k..j : many("[", k, m) > many("]", k, m)
Doctypes(t, i) ==
  LET ends == {j \in i..Len(t) : t[j] = C[">"] /\ ~Bracketed(t, i, j)}
  IN  {[next |-> j + 1, nodes |-> <<>>] : j \in {e \in ends : \A k \in ends : e <= k}}
MarkupAt(t, i) ==
  IF WordAt(t, i, <<"<", "!", "-", "-">>) THEN Silent(t, i + 4, <<"-", "-", ">">>)
  ELSE IF WordAt(t, i, <<"<", "?">>) THEN Silent(t, i + 2, <<"?", ">">>)
  ELSE IF WordAt(t, i, <<"<", "!", "[", "C", "D", "A", "T", "A", "[">>)
  THEN {[next |-> j + 3, nodes |-> <<Element("cdata", <<>>, SubSeq(t, i + 9, j - 1), <<>>, <<>>)>>] :
          j \in Until(t, i + 9, <<"]", "]", ">">>)}
  ELSE IF WordAt(t, i, <<"<", "!", "D", "O", "C", "T", "Y", "P", "E">>) /\ RunEnd(t, i + 9, Blanks) > i + 9
  THEN Doctypes(t, i + 10)
  ELSE IF WordAt(t, i, <<"<", "!">>) THEN Silent(t, i + 2, <<">">>)
  ELSE ElementAt(t, i)

RECURSIVE ForestAt(_, _)
ForestAt(t, i) ==
  LET j == RunEnd(t, i, Blanks)
  IN  IF j > Len(t) THEN {<<>>}
      ELSE IF t[j] # C["<"] THEN {}
      ELSE UNION {{m.nodes \o f : f \in ForestAt(t, m.next)} : m \in MarkupAt(t, j)}
XmlMeanings(t) ==
  {[Element("document", <<>>, <<>>, <<>>, f) EXCEPT !.kind = "document"] :
     f \in ForestAt(t, IF Len(t) >= 3 /\ SubSeq(t, 1, 3) = <<239, 187, 191>> THEN 4 ELSE 1)}

=============================================================================

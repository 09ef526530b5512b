------------------------------ MODULE JsonText ------------------------------
(***************************************************************************)
(* The JSON text that f1x-transform writes and f1x reads (applications),    *)
(* and that bear writes and f1x reads and rewrites (compilation database):  *)
(* rapidjson's reader with default flags over an istream, its document      *)
(* handler, and its writer over an ostream.  Texts are sequences of bytes.  *)
(* The widths of the integer types are parameters: the thresholds in the    *)
(* source are those of 32 and 64 bits.  A double is not given its value:    *)
(* f1x reads none.                                                          *)
(***************************************************************************)
EXTENDS Characters

CONSTANTS IntBits,     \* width of int and unsigned
          LongBits,    \* width of int64_t and uint64_t
          DoubleTenth, \* a tenth of the greatest double
          MaxExponent  \* decimal exponent of the greatest double

ASSUME JsonAssumption ==
  /\ IntBits \in Nat /\ LongBits \in Nat /\ IntBits < LongBits
  /\ DoubleTenth \in Nat /\ 2^LongBits < DoubleTenth /\ MaxExponent \in Nat \ 0..8

----------------------------------------------------------------------------
(* Values: the flags tell which getters a number admits. *)

Number(n, flags) == [t |-> "number", n |-> n, flags |-> flags]
IntValue(i) == Number(i, {"int", "int64"} \cup (IF i >= 0 THEN {"uint", "uint64"} ELSE {}))
UintValue(u) == Number(u, {"uint", "uint64", "int64"} \cup
                          (IF u >= 2^(IntBits - 1) THEN {} ELSE {"int"}))
Int64Value(i) ==
  Number(i, {"int64"} \cup
    IF i >= 0 THEN {"uint64"} \cup (IF i < 2^IntBits THEN {"uint"} ELSE {})
                              \cup (IF i < 2^(IntBits - 1) THEN {"int"} ELSE {})
    ELSE IF i >= -(2^(IntBits - 1)) THEN {"int"} ELSE {})
Uint64Value(u) ==
  Number(u, {"uint64"} \cup (IF u < 2^(LongBits - 1) THEN {"int64"} ELSE {})
                       \cup (IF u < 2^IntBits THEN {"uint"} ELSE {})
                       \cup (IF u < 2^(IntBits - 1) THEN {"int"} ELSE {}))
DoubleValue == Number(0, {"double"})
StringValue(s) == [t |-> "string", s |-> s]
ArrayValue(e) == [t |-> "array", e |-> e]
ObjectValue(m) == [t |-> "object", m |-> m]
Null == [t |-> "null"]
Bool(b) == [t |-> IF b THEN "true" ELSE "false"]

\* SetInt of an unsigned: the conversion to int wraps
SetInt(u) == LET w == u % 2^IntBits
             IN  IntValue(IF w >= 2^(IntBits - 1) THEN w - 2^IntBits ELSE w)

----------------------------------------------------------------------------
(* The reader.  Its state: the text, the position of the next byte, the     *)
(* document's stack of values, and an error.                                *)

\* a byte 0 and the end of the stream look alike
Peek(r) == IF r.pos > Len(r.text) THEN 0 ELSE r.text[r.pos]
Take(r) == [r EXCEPT !.pos = IF @ > Len(r.text) THEN @ ELSE @ + 1]
Fail(r, e) == [r EXCEPT !.err = e]
Failed(r) == r.err # "none"
At(r, c) == Peek(r) = C[c]
RECURSIVE ConsumeAll(_, _)
ConsumeAll(r, word) ==
  IF word = <<>> THEN r
  ELSE IF At(r, Head(word)) THEN ConsumeAll(Take(r), Tail(word)) ELSE Fail(r, "ValueInvalid")

RECURSIVE SkipWhitespace(_)
SkipWhitespace(r) == IF Peek(r) \in {32, 10, 13, 9} THEN SkipWhitespace(Take(r)) ELSE r

\* the document handler
Push(r, v) == [r EXCEPT !.stack = Append(@, v)]
Top(r, n) == SubSeq(r.stack, Len(r.stack) - n + 1, Len(r.stack))
\* the popped values become the content of the value below them
EndArray(r, n) ==
  [r EXCEPT !.stack = Append(SubSeq(@, 1, Len(@) - n - 1), ArrayValue(Top(r, n)))]
EndObject(r, n) ==
  LET popped == Top(r, 2 * n)
  IN  [r EXCEPT !.stack = Append(SubSeq(@, 1, Len(@) - 2 * n - 1),
         ObjectValue([i \in 1..n |-> <<popped[2 * i - 1].s, popped[2 * i]>>]))]

PushUnlessFailed(r, v) == IF Failed(r) THEN r ELSE Push(r, v)
Literal(r, word, v) == PushUnlessFailed(ConsumeAll(r, word), v)

\* UTF8<>::Encode
Encode(cp) ==
  IF cp <= 127 THEN <<cp>>
  ELSE IF cp <= 2047 THEN <<192 + (cp \div 64), 128 + (cp % 64)>>
  ELSE IF cp <= 65535 THEN <<224 + (cp \div 4096), 128 + ((cp \div 64) % 64), 128 + (cp % 64)>>
  ELSE <<240 + (cp \div 262144), 128 + ((cp \div 4096) % 64),
         128 + ((cp \div 64) % 64), 128 + (cp % 64)>>

\* four hexadecimal digits; the result of a failure carries the error
HexDigitsAt(r) == IF r.pos + 3 <= Len(r.text)
                  THEN [i \in 1..4 |-> HexValue(r.text[r.pos + i - 1])] ELSE <<-1>>
Hex4(r, digits) ==
  IF -1 \in Range(digits) THEN [r |-> Fail(r, "StringUnicodeEscapeInvalidHex"), code |-> 0]
  ELSE [r |-> [r EXCEPT !.pos = @ + 4], code |-> FoldLeft(LAMBDA n, d : n * 16 + d, 0, digits)]
ParseHex4(r) == Hex4(r, HexDigitsAt(r))

\* a code unit of the high range must be followed by an escape of the low range
Joined(first, second) ==
  IF Failed(second.r) THEN second
  ELSE IF second.code \notin 56320..57343
  THEN [first EXCEPT !.r = Fail(@, "StringUnicodeSurrogateInvalid")]
  ELSE [second EXCEPT !.code = (first.code - 55296) * 1024 + (@ - 56320) + 65536]
SecondUnit(first, r) ==
  IF Failed(r) THEN [first EXCEPT !.r = Fail(@, "StringUnicodeSurrogateInvalid")]
  ELSE Joined(first, ParseHex4(r))
CodePoint(first) ==
  IF Failed(first.r) \/ first.code \notin 55296..56319 THEN first
  ELSE SecondUnit(first, ConsumeAll(first.r, <<"\\", "u">>))
ParseUnicode(r) == CodePoint(ParseHex4(r))

EscapeOf == (C["\""] :> C["\""]) @@ (C["/"] :> C["/"]) @@ (C["\\"] :> C["\\"]) @@
            (C["b"] :> 8) @@ (C["f"] :> 12) @@ (C["n"] :> 10) @@ (C["r"] :> 13) @@ (C["t"] :> 9)

\* from after the opening quote; out is the reader's own stack
RECURSIVE ParseStringToStream(_, _), AfterUnicode(_, _)
AfterUnicode(u, out) == IF Failed(u.r) THEN u.r ELSE ParseStringToStream(u.r, out \o Encode(u.code))
ParseStringToStream(r, out) ==
  LET c == Peek(r)
      e == Peek(Take(r))
  IN  IF c = C["\\"]
      THEN IF e \in DOMAIN EscapeOf THEN ParseStringToStream(Take(Take(r)), Append(out, EscapeOf[e]))
           ELSE IF e # C["u"] THEN Fail(r, "StringEscapeInvalid")
           ELSE AfterUnicode(ParseUnicode(Take(Take(r))), out)
      ELSE IF c = C["\""] THEN Push(Take(r), StringValue(out))
      ELSE IF c = 0 THEN Fail(r, "StringMissQuotationMark")
      ELSE IF c < 32 THEN Fail(r, "StringEscapeInvalid")
      ELSE ParseStringToStream(Take(r), Append(out, c))
ParseString(r) == ParseStringToStream(Take(r), <<>>)

\* one digit of the integer part: it is taken in the narrowest type that holds
\* it; a number that overflows both types goes on as a double
FitsBelow(n, d, max) == n < max \div 10 \/ (n = max \div 10 /\ d < max % 10)
Fits(n, d, max) == n < max \div 10 \/ (n = max \div 10 /\ d <= max % 10)
NextDigit(minus, acc, d) ==
  LET limit(bits) == IF minus THEN 2^(bits - 1) ELSE 2^bits - 1
      widths == [int |-> IntBits, int64 |-> LongBits]
  IN  IF acc.kind = "toobig" THEN acc
      ELSE IF acc.kind = "double"
      THEN IF acc.n >= DoubleTenth THEN [acc EXCEPT !.kind = "toobig"] ELSE [acc EXCEPT !.n = @ * 10 + d]
      ELSE IF acc.kind = "int" /\ Fits(acc.n, d, limit(widths.int)) THEN [acc EXCEPT !.n = @ * 10 + d]
      ELSE [kind |-> IF Fits(acc.n, d, limit(widths.int64)) THEN "int64" ELSE "double",
            n |-> acc.n * 10 + d]

TakeDigits(r) == [r EXCEPT !.pos = RunEnd(r.text, @, Digits)]
DigitsBetween(r, q) == [i \in 1..(q.pos - r.pos) |-> r.text[r.pos + i - 1] - C["0"]]
Required(r, q, error) == IF q.pos = r.pos THEN Fail(r, error) ELSE q
SomeDigits(r, error) == Required(r, TakeDigits(r), error)

\* n: what was read of a number so far
IntegerPart(minus, start, after) ==
  LET n == FoldLeft(LAMBDA acc, d : NextDigit(minus, acc, d), [kind |-> "int", n |-> 0],
                    DigitsBetween(start, after))
  IN  [r |-> after, minus |-> minus, int |-> n, real |-> FALSE, fraction |-> 0]
ParseInteger(minus, start) ==
  IntegerPart(minus, start, IF At(start, "0") THEN Take(start) ELSE SomeDigits(start, "ValueInvalid"))
Checked(n) == IF n.int.kind = "toobig" THEN [n EXCEPT !.r = Fail(@, "NumberTooBig")] ELSE n
FractionPart(n, point, after) == [n EXCEPT !.r = after, !.real = TRUE, !.fraction = after.pos - point.pos]
ParseFraction(n) ==
  IF Failed(n.r) \/ ~At(n.r, ".") THEN n
  ELSE FractionPart(n, Take(n.r), SomeDigits(Take(n.r), "NumberMissFraction"))

\* the exponent may not exceed what the fraction digits leave; every fraction
\* digit counts (the source stops counting at 17 significant ones)
ExponentTooBig(digits, fraction) ==
  \E k \in 2..Len(digits) : FoldLeft(LAMBDA e, d : e * 10 + d, 0, SubSeq(digits, 1, k)) > MaxExponent + fraction
ExponentPart(n, negative, start, after) ==
  [n EXCEPT !.real = TRUE,
            !.r = IF ~negative /\ ExponentTooBig(DigitsBetween(start, after), n.fraction)
                  THEN Fail(after, "NumberTooBig") ELSE after]
ExponentDigits(n, negative, start) ==
  ExponentPart(n, negative, start, SomeDigits(start, "NumberMissExponent"))
ParseExponent(n) ==
  IF Failed(n.r) \/ ~(At(n.r, "e") \/ At(n.r, "E")) THEN n
  ELSE LET sign == Take(n.r)
       IN  ExponentDigits(n, At(sign, "-"), IF At(sign, "+") \/ At(sign, "-") THEN Take(sign) ELSE sign)

NumberOfKind(n) ==
  IF n.real \/ n.int.kind = "double" THEN DoubleValue
  ELSE IF n.int.kind = "int" THEN IF n.minus THEN IntValue(-n.int.n) ELSE UintValue(n.int.n)
  ELSE IF n.minus THEN Int64Value(-n.int.n) ELSE Uint64Value(n.int.n)
PushNumber(n) == PushUnlessFailed(n.r, NumberOfKind(n))
ParseNumber(r) ==
  LET minus == At(r, "-")
  IN  PushNumber(ParseExponent(ParseFraction(Checked(ParseInteger(minus, IF minus THEN Take(r) ELSE r)))))

\* after a value comes a separator or the end of what it belongs to
RECURSIVE ParseValue(_), ParseElements(_, _), NextElement(_, _),
          ParseMembers(_, _), ParseMember(_, _), NextMember(_, _)
NextElement(r, count) ==
  IF Failed(r) THEN r
  ELSE IF At(r, ",") THEN ParseElements(SkipWhitespace(Take(r)), count)
  ELSE IF At(r, "]") THEN EndArray(Take(r), count)
  ELSE Fail(r, "ArrayMissCommaOrSquareBracket")
ParseElements(r, count) == NextElement(SkipWhitespace(ParseValue(r)), count + 1)
FirstElement(r) == IF At(r, "]") THEN EndArray(Take(r), 0) ELSE ParseElements(r, 0)
ParseArray(r) == FirstElement(SkipWhitespace(Take(Push(r, ArrayValue(<<>>)))))

NextMember(r, count) ==
  IF Failed(r) THEN r
  ELSE IF At(r, ",") THEN ParseMembers(SkipWhitespace(Take(r)), count)
  ELSE IF At(r, "}") THEN EndObject(Take(r), count)
  ELSE Fail(r, "ObjectMissCommaOrCurlyBracket")
ParseMember(r, count) ==
  IF Failed(r) THEN r
  ELSE IF ~At(r, ":") THEN Fail(r, "ObjectMissColon")
  ELSE NextMember(SkipWhitespace(ParseValue(SkipWhitespace(Take(r)))), count + 1)
ParseMembers(r, count) ==
  IF ~At(r, "\"") THEN Fail(r, "ObjectMissName")
  ELSE ParseMember(SkipWhitespace(ParseString(r)), count)
FirstMember(r) == IF At(r, "}") THEN EndObject(Take(r), 0) ELSE ParseMembers(r, 0)
ParseObject(r) == FirstMember(SkipWhitespace(Take(Push(r, ObjectValue(<<>>)))))

ParseValue(r) ==
  CASE At(r, "n") -> Literal(r, <<"n", "u", "l", "l">>, Null)
    [] At(r, "t") -> Literal(r, <<"t", "r", "u", "e">>, Bool(TRUE))
    [] At(r, "f") -> Literal(r, <<"f", "a", "l", "s", "e">>, Bool(FALSE))
    [] At(r, "\"") -> ParseString(r)
    [] At(r, "{") -> ParseObject(r)
    [] At(r, "[") -> ParseArray(r)
    [] OTHER -> ParseNumber(r)

Single(r) == IF ~Failed(r) /\ Peek(r) # 0 THEN Fail(r, "DocumentRootNotSingular") ELSE r
ParseRoot(r) == IF Peek(r) = 0 THEN Fail(r, "DocumentEmpty") ELSE Single(SkipWhitespace(ParseValue(r)))
Parse(text) ==
  ParseRoot(SkipWhitespace([text |-> text, pos |-> 1, stack |-> <<>>, err |-> "none"]))

\* what the document is after ParseStream: a failure leaves it null
Document(r) == IF Failed(r) THEN Null ELSE r.stack[1]
ParseStream(text) == Document(Parse(text))

----------------------------------------------------------------------------
(* The writer: what was put, and for every open array or object how many    *)
(* values (names count) it has.                                             *)

Put(w, s) == [w EXCEPT !.out = @ \o s]

RECURSIVE Decimal(_)
Decimal(n) == IF n < 0 THEN <<C["-"]>> \o Decimal(-n)
              ELSE IF n < 10 THEN <<C["0"] + n>> ELSE Decimal(n \div 10) \o <<C["0"] + (n % 10)>>

HexDigit(d) == IF d < 10 THEN C["0"] + d ELSE C["A"] + d - 10
ShortEscapes == (8 :> C["b"]) @@ (9 :> C["t"]) @@ (10 :> C["n"]) @@ (12 :> C["f"]) @@ (13 :> C["r"])
                @@ (C["\""] :> C["\""]) @@ (C["\\"] :> C["\\"])
WriteControl(b) ==
  IF b < 32 THEN Bytes(<<"\\", "u", "0", "0">>) \o <<HexDigit(b \div 16), HexDigit(b % 16)>> ELSE <<b>>
WriteByte(b) ==
  IF b \in DOMAIN ShortEscapes THEN <<C["\\"], ShortEscapes[b]>>
  ELSE WriteControl(b)
WriteString(s) == <<C["\""]>> \o FlattenSeq([i \in DOMAIN s |-> WriteByte(s[i])]) \o <<C["\""]>>

Prefix(w) ==
  IF w.levels = <<>> THEN w
  ELSE LET top == Last(w.levels)
           counted == [w EXCEPT !.levels[Len(w.levels)].count = @ + 1]
       IN  IF top.count = 0 THEN counted
           ELSE Put(counted, IF top.inArray \/ top.count % 2 = 0 THEN <<C[","]>> ELSE <<C[":"]>>)
Start(w, inArray) == [Put(Prefix(w), <<IF inArray THEN C["["] ELSE C["{"]>>)
                        EXCEPT !.levels = Append(@, [count |-> 0, inArray |-> inArray])]
End(w) == Put([w EXCEPT !.levels = Front(@)], <<IF Last(w.levels).inArray THEN C["]"] ELSE C["}"]>>)

\* GenericValue::Accept with the writer as its handler
RECURSIVE Accept(_, _)
Accept(w, v) ==
  CASE v.t = "object" ->
         End(FoldLeft(LAMBDA x, m : Accept(Put(Prefix(x), WriteString(m[1])), m[2]), Start(w, FALSE), v.m))
    [] v.t = "array" -> End(FoldLeft(Accept, Start(w, TRUE), v.e))
    [] v.t = "string" -> Put(Prefix(w), WriteString(v.s))
    [] v.t = "number" -> Put(Prefix(w), Decimal(v.n))
    [] OTHER -> Put(Prefix(w), CASE v.t = "null" -> Bytes(<<"n", "u", "l", "l">>)
                                 [] v.t = "true" -> Bytes(<<"t", "r", "u", "e">>)
                                 [] v.t = "false" -> Bytes(<<"f", "a", "l", "s", "e">>))
Write(v) == Accept([out |-> <<>>, levels |-> <<>>], v).out

----------------------------------------------------------------------------
(* What a text means, by the grammar: how it can be split, not how it is    *)
(* read.  A reference for the reader.                                       *)

Part(t, i, j) == SubSeq(t, i, j)
White(t) == Range(t) \subseteq {32, 10, 13, 9}
Trimmed(t) ==
  LET black == {i \in DOMAIN t : t[i] \notin {32, 10, 13, 9}}
  IN  IF black = {} THEN <<>>
      ELSE Part(t, CHOOSE i \in black : \A j \in black : i <= j, CHOOSE i \in black : \A j \in black : i >= j)
Enclosed(t, open, close) == Len(t) >= 2 /\ t[1] = C[open] /\ t[Len(t)] = C[close]
Inside(t) == Part(t, 2, Len(t) - 1)

AllDigits(t) == t # <<>> /\ Range(t) \subseteq Digits
\* (beyond ten times DoubleTenth the number does not matter any more)
NumberOf(t) == FoldLeft(LAMBDA n, b : IF n > 10 * DoubleTenth THEN n ELSE n * 10 + b - C["0"], 0, t)
NumeralMeaning(minus, int, frac, exp) ==
  LET n == IF minus THEN -NumberOf(int) ELSE NumberOf(int)
      within(flag, low, high) == IF low <= n /\ n < high THEN {flag} ELSE {}
      flags == within("int", -(2^(IntBits - 1)), 2^(IntBits - 1)) \cup within("uint", 0, 2^IntBits)
               \cup within("int64", -(2^(LongBits - 1)), 2^(LongBits - 1))
               \cup within("uint64", 0, 2^LongBits)
  IN  IF frac = <<>> /\ exp = <<>> /\ flags # {} THEN {Number(n, flags)} ELSE {DoubleValue}
NumeralOf(minus, t) ==
  UNION {LET int == Part(t, 1, i)  frac == Part(t, i + 1, j)  exp == Part(t, j + 1, Len(t))
             plus == Len(exp) >= 2 /\ exp[2] \in {C["+"], C["-"]}
             size == NumberOf(Part(exp, IF plus THEN 3 ELSE 2, Len(exp)))
         IN  IF /\ AllDigits(int) /\ (int[1] = C["0"] => i = 1)
                /\ frac # <<>> => frac[1] = C["."] /\ AllDigits(Tail(frac))
                /\ exp # <<>> => /\ exp[1] \in {C["e"], C["E"]}
                                 /\ AllDigits(Part(exp, IF plus THEN 3 ELSE 2, Len(exp)))
                                 /\ exp[2] = C["-"] \/ size <= MaxExponent + (IF j > i THEN j - i - 1 ELSE 0)
                /\ NumberOf(int) \div 10 < DoubleTenth
             THEN NumeralMeaning(minus, int, frac, exp) ELSE {} : <<i, j>> \in
         {ij \in (1..Len(t)) \X (1..Len(t)) : ij[1] <= ij[2]}}

\* a string as bytes and UTF-16 units (offset to tell them from bytes)
Unit == 1000
RECURSIVE Units(_)
Units(b) ==
  IF b = <<>> THEN {<<>>}
  ELSE IF b[1] = C["\\"]
  THEN IF Len(b) >= 2 /\ b[2] \in DOMAIN EscapeOf THEN {<<EscapeOf[b[2]]>> \o u : u \in Units(Part(b, 3, Len(b)))}
       ELSE IF Len(b) >= 6 /\ b[2] = C["u"] /\ \A i \in 3..6 : HexValue(b[i]) >= 0
       THEN {<<Unit + FoldLeft(LAMBDA n, d : n * 16 + HexValue(d), 0, Part(b, 3, 6))>> \o u :
               u \in Units(Part(b, 7, Len(b)))}
       ELSE {}
  ELSE IF b[1] \in 0..31 \/ b[1] = C["\""] THEN {}
  ELSE {<<b[1]>> \o u : u \in Units(Tail(b))}
High(u) == u - Unit \in 55296..56319
Low(u) == u - Unit \in 56320..57343
StringMeaning(body) ==
  {FlattenSeq([i \in DOMAIN u |->
     IF u[i] < Unit THEN <<u[i]>>
     ELSE IF High(u[i]) THEN Utf8(65536 + (u[i] - Unit - 55296) * 1024 + (u[i + 1] - Unit - 56320))
     ELSE IF Low(u[i]) /\ i > 1 /\ High(u[i - 1]) THEN <<>>
     ELSE Utf8(u[i] - Unit)]) :
   u \in {v \in Units(body) : \A i \in DOMAIN v : High(v[i]) => i < Len(v) /\ Low(v[i + 1])}}

RECURSIVE Meanings(_), MeaningsOf(_), Lists(_), MemberLists(_)
Strings(t) == IF Enclosed(t, "\"", "\"") THEN StringMeaning(Inside(t)) ELSE {}
Lists(t) ==
  {<<v>> : v \in Meanings(t)} \cup
  UNION {{<<v>> \o l : v \in Meanings(Part(t, 1, k - 1)), l \in Lists(Part(t, k + 1, Len(t)))} :
         k \in {i \in DOMAIN t : t[i] = C[","]}}
Entries(t) ==
  UNION {{<<n, v>> : n \in Strings(Trimmed(Part(t, 1, k - 1))), v \in Meanings(Part(t, k + 1, Len(t)))} :
         k \in {i \in DOMAIN t : t[i] = C[":"]}}
MemberLists(t) ==
  {<<m>> : m \in Entries(t)} \cup
  UNION {{<<m>> \o l : m \in Entries(Part(t, 1, k - 1)), l \in MemberLists(Part(t, k + 1, Len(t)))} :
         k \in {i \in DOMAIN t : t[i] = C[","]}}
MeaningsOf(t) ==
  LET word(w, v) == IF t = Bytes(w) THEN {v} ELSE {}
  IN  word(<<"n", "u", "l", "l">>, Null) \cup word(<<"t", "r", "u", "e">>, Bool(TRUE))
      \cup word(<<"f", "a", "l", "s", "e">>, Bool(FALSE))
      \cup (IF t # <<>> /\ t[1] = C["-"] THEN NumeralOf(TRUE, Tail(t)) ELSE NumeralOf(FALSE, t))
      \cup {StringValue(s) : s \in Strings(t)}
      \cup (IF ~Enclosed(t, "[", "]") THEN {}
            ELSE {ArrayValue(<<>>) : x \in IF White(Inside(t)) THEN {1} ELSE {}}
                 \cup {ArrayValue(l) : l \in Lists(Inside(t))})
      \cup (IF ~Enclosed(t, "{", "}") THEN {}
            ELSE {ObjectValue(<<>>) : x \in IF White(Inside(t)) THEN {1} ELSE {}}
                 \cup {ObjectValue(l) : l \in MemberLists(Inside(t))})
Meanings(text) == MeaningsOf(Trimmed(text))

=============================================================================

----------------------------- MODULE Characters -----------------------------
(***************************************************************************)
(* Texts as sequences of bytes, written in the modules as sequences of      *)
(* characters.                                                              *)
(***************************************************************************)
EXTENDS Integers, SequencesExt, Functions

Ascii == << " ", "!", "\"", "#", "$", "%", "&", "'", "(", ")", "*", "+", ",", "-", ".", "/",
            "0", "1", "2", "3", "4", "5", "6", "7", "8", "9", ":", ";", "<", "=", ">", "?", "@",
            "A", "B", "C", "D", "E", "F", "G", "H", "I", "J", "K", "L", "M", "N", "O", "P", "Q",
            "R", "S", "T", "U", "V", "W", "X", "Y", "Z", "[", "\\", "]", "^", "_", "backquote",
            "a", "b", "c", "d", "e", "f", "g", "h", "i", "j", "k", "l", "m", "n", "o", "p", "q",
            "r", "s", "t", "u", "v", "w", "x", "y", "z", "{", "|", "}" >>
C == [c \in Range(Ascii) |-> 31 + CHOOSE i \in DOMAIN Ascii : Ascii[i] = c]
Bytes(chars) == [i \in DOMAIN chars |-> C[chars[i]]]
Digits == C["0"]..C["9"]
HexValue(b) == IF b \in Digits THEN b - C["0"]
               ELSE IF b \in C["A"]..C["F"] THEN b - C["A"] + 10
               ELSE IF b \in C["a"]..C["f"] THEN b - C["a"] + 10 ELSE -1

\* the bytes from i to before the first that is not of the set
RunEnd(t, i, set) == CHOOSE j \in i..(Len(t) + 1) :
  (j = Len(t) + 1 \/ t[j] \notin set) /\ \A k \in i..(j - 1) : t[k] \in set
\* does the word begin at i
WordAt(t, i, word) == i + Len(word) - 1 <= Len(t) /\ \A k \in DOMAIN word : t[i + k - 1] = C[word[k]]

\* UTF-8, for reference: n bytes carry 7, 11, 16 or 21 bits
Utf8(cp) ==
  LET n == CHOOSE k \in 1..4 : cp < <<128, 2048, 65536, 1114112>>[k] /\ (k > 1 => cp >= <<128, 2048, 65536>>[k - 1])
  IN  IF n = 1 THEN <<cp>>
      ELSE [i \in 1..n |-> IF i = 1 THEN 256 - 2^(8 - n) + (cp \div 64^(n - 1))
                           ELSE 128 + ((cp \div 64^(n - i)) % 64)]

=============================================================================

----------------------------- MODULE MCSigarText -----------------------------
(***************************************************************************)
(* SigarText on every pair of strings up to MaxHay and MaxNeedle           *)
(* characters, each helper against what it is for.                         *)
(***************************************************************************)
EXTENDS SigarText, FiniteSets

CONSTANTS MaxHay, MaxNeedle

ASSUME MaxAssumption == MaxHay \in Nat /\ MaxNeedle \in Nat

VARIABLES hay, needle

Char == Lowercase \cup {c + Shift : c \in Lowercase} \cup {Space}

Init == hay = << >> /\ needle = << >>

Next ==
  \E c \in Char :
    \/ Len(hay) < MaxHay /\ hay' = Append(hay, c) /\ UNCHANGED needle
    \/ Len(needle) < MaxNeedle /\ needle' = Append(needle, c) /\ UNCHANGED hay

Spec == Init /\ [][Next]_<<hay, needle>>

\* Prefix, suffix and concatenation, written here and not taken from
\* SequencesExt: every obligation of the proofs about this module would carry
\* the definitions of that module and of the five it extends.
IsPrefix(s, t) == Len(s) <= Len(t) /\ SubSeq(t, 1, Len(s)) = s
IsSuffix(s, t) == Len(s) <= Len(t) /\ SubSeq(t, Len(t) - Len(s) + 1, Len(t)) = s
Joined(ws) ==
  LET join[i \in 0..Len(ws)] == IF i = 0 THEN << >> ELSE join[i - 1] \o ws[i]
  IN  join[Len(ws)]

Fold(icase, s) == IF icase THEN Lower(s) ELSE s

\* sigar_strcasestr returns the first place where the needle occurs, letters
\* of both cases being the same, and NULL only if there is none: the inner
\* loop that gave up inside an occurrence must not skip one that overlaps it.
FirstOccurrence ==
  LET occ == {i \in 1..Len(hay) + 1 : IsPrefix(Lower(needle), SubSeq(Lower(hay), i, Len(hay)))}
      r == sigar_strcasestr(hay, needle)
  IN  IF occ = {} THEN r = NULL ELSE r \in occ /\ \A i \in occ : r <= i

\* The operators ew, sw and ct of PTQL, with and without the I modifier, are
\* suffix, prefix and substring, also of a needle longer than the string.
StringOps ==
  \A icase \in BOOLEAN :
    LET h == Fold(icase, hay)
        n == Fold(icase, needle)
    IN  /\ ptql_op_str("EW", icase, hay, needle) = IsSuffix(n, h)
        /\ ptql_op_str("SW", icase, hay, needle) = IsPrefix(n, h)
        /\ ptql_op_str("CT", icase, hay, needle) = \E i \in 1..Len(h) + 1 : IsPrefix(n, SubSeq(h, i, Len(h)))
        /\ ptql_op_str("EQ", icase, hay, needle) = (h = n)
        /\ ptql_op_str("LT", icase, hay, needle) # ptql_op_str("GE", icase, hay, needle)
        /\ ptql_op_str("GT", icase, hay, needle) = ptql_op_str("LT", icase, needle, hay)

NotSpace(c) == c # Space
NoSpaces(s) ==
  LET strip[i \in 0..Len(s)] ==
        IF i = 0 THEN << >>
        ELSE IF NotSpace(s[i]) THEN Append(strip[i - 1], s[i]) ELSE strip[i - 1]
  IN  strip[Len(s)]

\* Taking words off a line until it is used up, as the readers of process
\* arguments do, loses nothing but separators and makes no empty word, except
\* one in front of a line that begins with a separator.
WordsOfLine ==
  LET ws == Words(hay) IN
  /\ Joined(ws) = NoSpaces(hay)
  /\ \A k \in 1..Len(ws) : ws[k] = << >> <=> k = 1 /\ At(hay, 1) = Space
  /\ Len(ws) = Cardinality({i \in 1..Len(hay) : NotSpace(hay[i]) /\ (i = 1 \/ hay[i - 1] = Space)})
                 + (IF At(hay, 1) = Space THEN 1 ELSE 0)

\* Skipping count tokens ends just behind the count-th token of the line, or
\* at its end when there are fewer, and never passes the terminator.
SkipsTokens ==
  LET ends == {i \in 2..Len(hay) + 1 : NotSpace(hay[i - 1]) /\ At(hay, i) \in {Nul, Space}} IN
  \A count \in 1..MaxHay :
    sigar_skip_multiple_token(hay, 1, count) =
      IF Cardinality(ends) < count THEN Len(hay) + 1
      ELSE CHOOSE e \in ends : Cardinality({i \in ends : i <= e}) = count
=============================================================================

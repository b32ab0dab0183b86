------------------------------ MODULE SigarText ------------------------------
(***************************************************************************)
(* The string helpers that the /proc parsers and the PTQL operators are    *)
(* made of.  A C string is a sequence of characters, a pointer into it an  *)
(* index, and reading one past the last character reads the terminator.    *)
(***************************************************************************)
EXTENDS Integers, Sequences

CONSTANTS
  Lowercase,   \* letters, a set of positive integers
  Shift,       \* c + Shift is the upper-case form of the letter c
  Space        \* the only white-space character

ASSUME TextAssumption ==
  /\ Lowercase \subseteq Nat \ {0} /\ Shift \in Nat /\ Space \in Nat \ {0}
  /\ \A c, d \in Lowercase : c + Shift # d /\ c # Space /\ c + Shift # Space

Nul == 0
NULL == 0

\* *(s + i - 1)
At(s, i) == IF i <= Len(s) THEN s[i] ELSE Nul

sigar_tolower(c) == IF c - Shift \in Lowercase THEN c - Shift ELSE c

Lower(s) == [i \in 1..Len(s) |-> sigar_tolower(s[i])]

\* strcmp: the sign of the first difference, the terminator being smallest.
strcmp(s, t) ==
  LET cmp[i \in 1..Len(s) + 1] ==
        IF At(s, i) # At(t, i) THEN At(s, i) - At(t, i)
        ELSE IF i > Len(s) THEN 0 ELSE cmp[i + 1]
  IN  cmp[1]

strncmpEQ(s, t, n) == strcmp(SubSeq(s, 1, IF n < Len(s) THEN n ELSE Len(s)),
                             SubSeq(t, 1, IF n < Len(t) THEN n ELSE Len(t))) = 0

strstr(s, t) ==
  LET occ == {i \in 1..Len(s) + 1 : strncmpEQ(SubSeq(s, i, Len(s)), t, Len(t))}
  IN  IF occ = {} THEN NULL ELSE CHOOSE i \in occ : \A j \in occ : i <= j

\* The inner loop of sigar_strcasestr, where b begins as a does at i.
RestMatches(a, b, i) ==
  LET same[k \in 1..Len(b)] ==
        IF At(a, i + k) = At(b, 1 + k) THEN At(a, i + k) = Nul \/ same[k + 1]
        ELSE At(b, 1 + k) = Nul
  IN  same[1]

\* Mutant: a mismatch later in the word gives up the search.
strcasestrOnce(s1, s2) ==
  LET a == Lower(s1)
      b == Lower(s2)
      scan[i \in 1..Len(a) + 1] ==
        IF i > Len(a) THEN NULL
        ELSE IF a[i] = b[1] THEN (IF RestMatches(a, b, i) THEN i ELSE NULL) ELSE scan[i + 1]
  IN  IF b = << >> THEN 1 ELSE scan[1]

\* scan is the outer loop.
sigar_strcasestr(s1, s2) ==
  LET a == Lower(s1)
      b == Lower(s2)
      scan[i \in 1..Len(a) + 1] ==
        IF i > Len(a) THEN NULL
        ELSE IF a[i] = b[1] /\ RestMatches(a, b, i) THEN i ELSE scan[i + 1]
  IN  IF b = << >> THEN 1 ELSE scan[1]

-----------------------------------------------------------------------------
(* The string operators of a PTQL clause; icase is its I modifier.         *)

branch_strcmp(icase, s, t) == IF icase THEN strcmp(Lower(s), Lower(t)) ELSE strcmp(s, t)

branch_strnEQ(icase, s, t, n) ==
  IF icase THEN strncmpEQ(Lower(s), Lower(t), n) ELSE strncmpEQ(s, t, n)

\* Mutant: a needle longer than the string is not caught.
ptql_op_str_ewAny(icase, h, n) ==
  LET diff == IF Len(h) >= Len(n) THEN Len(h) - Len(n) ELSE 0 IN
  branch_strnEQ(icase, SubSeq(h, diff + 1, Len(h)), n, Len(h) - diff)

ptql_op_str_ew(icase, h, n) ==
  LET diff == Len(h) - Len(n) IN
  diff >= 0 /\ branch_strnEQ(icase, SubSeq(h, diff + 1, Len(h)), n, Len(n))

ptql_op_str_sw(icase, h, n) == branch_strnEQ(icase, h, n, Len(n))

ptql_op_str_ct(icase, h, n) ==
  (IF icase THEN sigar_strcasestr(h, n) ELSE strstr(h, n)) # NULL

\* ptql_op_str[op], the regular expressions apart.
ptql_op_str(op, icase, h, n) ==
  LET c == branch_strcmp(icase, h, n) IN
  CASE op = "EQ" -> c = 0  [] op = "NE" -> c # 0
    [] op = "GT" -> c > 0  [] op = "GE" -> c >= 0
    [] op = "LT" -> c < 0  [] op = "LE" -> c <= 0
    [] op = "EW" -> ptql_op_str_ew(icase, h, n)
    [] op = "SW" -> ptql_op_str_sw(icase, h, n)
    [] op = "CT" -> ptql_op_str_ct(icase, h, n)

-----------------------------------------------------------------------------
(* The /proc parsers' helpers.                                             *)

\* while (*p is not in C) p++, and while (*p == c) p++.
Until(s, p, C) ==
  LET at[i \in 1..Len(s) + 1] == IF At(s, i) \in C THEN i ELSE at[i + 1] IN at[p]
Beyond(s, p, c) ==
  LET at[i \in 1..Len(s) + 1] == IF At(s, i) = c THEN at[i + 1] ELSE i IN at[p]

\* Mutant: only one separator is skipped.
sigar_getwordOne(s, p, stop) ==
  LET pos == Until(s, p, {stop, Nul}) IN
  [word |-> SubSeq(s, p, pos - 1), line |-> IF At(s, pos) = stop THEN pos + 1 ELSE pos]

\* sigar_getword(&line, stop), line being the index p: the word, and line after.
sigar_getword(s, p, stop) ==
  LET pos == Until(s, p, {stop, Nul}) IN
  [word |-> SubSeq(s, p, pos - 1), line |-> IF stop # Nul THEN Beyond(s, pos, stop) ELSE pos]

\* Mutant: an extra separator before the token is not skipped.
sigar_skip_tokenOne(s, p) ==
  Until(s, IF At(s, p) = Space THEN p + 1 ELSE p, {Nul, Space})

sigar_skip_token(s, p) == Until(s, Beyond(s, p, Space), {Nul, Space})

sigar_skip_multiple_token(s, p, count) ==
  LET skip[i \in 0..count] == IF i = 0 THEN p ELSE sigar_skip_token(s, skip[i - 1])
  IN  skip[count]

\* The loop of the callers: while (*args && (arg = sigar_getword(&args, ' ')))
Words(s) ==
  LET from[p \in 1..Len(s) + 1] ==
        IF p > Len(s) THEN << >>
        ELSE LET r == sigar_getword(s, p, Space) IN <<r.word>> \o from[r.line]
  IN  from[1]
=============================================================================

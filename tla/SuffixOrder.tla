---------------------------- MODULE SuffixOrder ----------------------------
(***************************************************************************)
(* What every suffix array of the program is measured against: the order   *)
(* of the suffixes of a text, a function from 0 .. n - 1 to letters.       *)
(***************************************************************************)
LOCAL INSTANCE Integers
LOCAL INSTANCE Sequences
LOCAL INSTANCE FiniteSets

Size(text) == Cardinality(DOMAIN text)

\* Suffix p of a text of n letters sorts before suffix q: at the first letter
\* that differs, or because p is the shorter and ends first.
SuffixLessIn(text, n, p, q) ==
  \E k \in 0 .. n - 1 :
    /\ p + k <= n /\ q + k < n
    /\ \A i \in 0 .. k - 1 : text[p + i] = text[q + i]
    /\ p + k = n \/ text[p + k] < text[q + k]

SuffixLess(text, p, q) == SuffixLessIn(text, Size(text), p, q)

\* The positions ps are in suffix order.
InSuffixOrder(text, n, ps) == \A i \in 1 .. Len(ps) - 1 : SuffixLessIn(text, n, ps[i], ps[i + 1])
=============================================================================

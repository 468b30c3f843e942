-------------------------------- MODULE Sais --------------------------------
(***************************************************************************)
(* The SA-IS suffix array of internal/astrobwt/sais.go (sais_8_32 and its  *)
(* passes, and sais2.go's sais_32 for the recursion), pass by pass, in     *)
(* place.  One array holds the suffix array, the LMS positions, the names, *)
(* the reduced text and often the recursion's scratch, at different times; *)
(* frequency counts are cached in a scratch that the recursion reuses.     *)
(* Each pass is one action; a recursive call pushes a frame.  The alphabet *)
(* has K letters (256) and a machine word holds CodeBytes letters (4).     *)
(***************************************************************************)
EXTENDS SuffixOrder, Integers, Sequences, SequencesExt, FiniteSets, TLC

CONSTANTS
  K,          \* letters: the texts are over 0 .. K - 1 (256)
  CodeBytes,  \* letters packed into one code by length_8_32 (32 / 8)
  Texts       \* the texts, as functions from 0 .. n - 1

ASSUME LettersAssumption == K \in Nat \ {0} /\ CodeBytes \in Nat \ {0}

VARIABLES
  mem,    \* the arrays: "text", "sa", "tmp", and one allocated per level
  stack   \* the frames, the running call last

vars == <<mem, stack>>

-----------------------------------------------------------------------------
(* Slices of arrays: text[a:b] and its elements.  An index outside its     *)
(* slice is outside every definition below, and TLC stops there.           *)

Slice(arr, off, len) == [arr |-> arr, off |-> off, len |-> len]
Sub(s, from, to) == Slice(s.arr, s.off + from, to - from)
Nil == Slice("tmp", 0, 0)

In(s, i) == i \in 0 .. s.len - 1
Rd(m, s, i) == CASE In(s, i) -> m[s.arr][s.off + i]
Wr(m, s, i, v) == CASE In(s, i) -> [m EXCEPT ![s.arr][s.off + i] = v]
View(m, s) == [i \in 0 .. s.len - 1 |-> m[s.arr][s.off + i]]
Zero(m, s) == FoldLeft(LAMBDA t, i : Wr(t, s, i, 0), m, [k \in 1 .. s.len |-> k - 1])

Upward(n) == [k \in 1 .. n |-> k - 1]
Downward(n) == [k \in 1 .. n |-> n - k]

-----------------------------------------------------------------------------
(* A frame: its slices, its largest letter and where its call stands.      *)

\* The first lines of sais_8_32: with scratch for both, the frequencies are kept
\* next to the buckets, marked as not computed; otherwise they share the buckets.
Frame(text, sa, tmp, max) ==
  [text |-> text, sa |-> sa, tmp |-> tmp, max |-> max,
   freq |-> IF tmp.len >= 2 * max THEN Sub(tmp, 0, max) ELSE Nil,
   bucket |-> IF tmp.len >= 2 * max THEN Sub(tmp, max, 2 * max) ELSE Sub(tmp, 0, max),
   numLMS |-> 0, maxID |-> 0,
   pc |-> IF text.len = 0 THEN "end" ELSE IF text.len = 1 THEN "one" ELSE "place"]

Called(m, f) == IF f.pc = "place" /\ f.freq.len > 0 THEN Wr(m, f.freq, 0, -1) ELSE m

Top == stack[Len(stack)]
T == View(mem, Top.text)

-----------------------------------------------------------------------------
(* freq_8_32, bucketMin_8_32, bucketMax_8_32.                              *)

\* The counts and where they are: cached, or counted afresh.
Freq(m, f) ==
  IF f.freq.len > 0 /\ Rd(m, f.freq, 0) >= 0 THEN [m |-> m, at |-> f.freq]
  ELSE LET at == IF f.freq.len > 0 THEN f.freq ELSE f.bucket
           Count(t, i) == LET c == Rd(t, f.text, i) IN Wr(t, at, c, Rd(t, at, c) + 1)
       IN [m |-> FoldLeft(Count, Zero(m, at), Upward(f.text.len)), at |-> at]

BucketMin(m, f) ==
  LET fr == Freq(m, f)
      Step(t, c) == LET n == Rd(t.m, fr.at, c)
                    IN [m |-> Wr(t.m, f.bucket, c, t.total), total |-> t.total + n]
  IN FoldLeft(Step, [m |-> fr.m, total |-> 0], Upward(f.max)).m

BucketMax(m, f) ==
  LET fr == Freq(m, f)
      Step(t, c) == LET sum == t.total + Rd(t.m, fr.at, c)
                    IN [m |-> Wr(t.m, f.bucket, c, sum), total |-> sum]
  IN FoldLeft(Step, [m |-> fr.m, total |-> 0], Upward(f.max)).m

-----------------------------------------------------------------------------
(* The passes.                                                             *)

\* The LMS positions of a text from right to left: the scan every pass repeats
\* (c0, c1, isTypeS), with letter 0 past the end.
LMSDown(text) ==
  LET n == Size(text)
      Step(t, i) ==
        CASE text[i] < t.c -> [c |-> text[i], s |-> TRUE, out |-> t.out]
          [] text[i] > t.c /\ t.s -> [c |-> text[i], s |-> FALSE, out |-> Append(t.out, i + 1)]
          [] OTHER -> [t EXCEPT !.c = text[i]]
  IN FoldLeft(Step, [c |-> 0, s |-> FALSE, out |-> <<>>], Downward(n)).out

\* placeLMS_8_32: each LMS position at the end of its bucket; the last one
\* placed is taken out again when there are several.
PlaceLMS(m, f) ==
  LET text == View(m, f.text)
      Place(t, j) == LET b == Rd(t.m, f.bucket, text[j]) - 1
                     IN [m |-> Wr(Wr(t.m, f.bucket, text[j], b), f.sa, b, j), last |-> b]
      placed == FoldLeft(Place, [m |-> BucketMax(m, f), last |-> -1], LMSDown(text))
  IN IF Len(LMSDown(text)) > 1 THEN Wr(placed.m, f.sa, placed.last, 0) ELSE placed.m

\* The four induction passes write through one cached bucket (cB, b), spilled
\* when the letter changes.
Bucket(m, f, c) == [m |-> m, cB |-> c, b |-> Rd(m, f.bucket, c)]
Switched(t, f, c) ==
  IF t.cB = c THEN t
  ELSE LET m1 == Wr(t.m, f.bucket, t.cB, t.b)
       IN [t EXCEPT !.m = m1, !.cB = c, !.b = Rd(m1, f.bucket, c)]
PutUp(t, f, c, v) ==
  LET u == Switched(t, f, c) IN [u EXCEPT !.m = Wr(u.m, f.sa, u.b, v), !.b = u.b + 1]
PutDown(t, f, c, v) ==
  LET u == Switched(t, f, c) IN [u EXCEPT !.m = Wr(u.m, f.sa, u.b - 1, v), !.b = u.b - 1]

\* The letter before k, and whether induction goes on from k in the other
\* direction: negated entries wait for the next pass.
NegIf(cond, k) == IF cond THEN -k ELSE k

LastSuffix(m, f, text) ==
  LET k == f.text.len - 1
      m1 == BucketMin(m, f)
  IN PutUp(Bucket(m1, f, text[k]), f, text[k], NegIf(text[k - 1] < text[k], k))

InduceSubL(m, f) ==
  LET text == View(m, f.text)
      Step(t, i) ==
        LET j == Rd(t.m, f.sa, i)
            k == j - 1
        IN CASE j = 0 -> t
             [] j < 0 -> [t EXCEPT !.m = Wr(@, f.sa, i, -j)]
             [] j > 0 -> PutUp([t EXCEPT !.m = Wr(@, f.sa, i, 0)], f, text[k],
                               NegIf(text[k - 1] < text[k], k))
  IN FoldLeft(Step, LastSuffix(m, f, text), Upward(f.sa.len)).m

InduceSubS(m, f) ==
  LET text == View(m, f.text)
      Step(t, i) ==
        LET j == Rd(t.m, f.sa, i)
            k == j - 1
            u == [t EXCEPT !.m = Wr(@, f.sa, i, 0)]
        IN CASE j = 0 -> t
             [] j < 0 -> [u EXCEPT !.top = @ - 1, !.m = Wr(@, f.sa, t.top - 1, -j)]
             [] j > 0 -> PutDown(u, f, text[k], NegIf(text[k - 1] > text[k], k))
      start == [top |-> f.sa.len] @@ Bucket(BucketMax(m, f), f, 0)
  IN FoldLeft(Step, start, Downward(f.sa.len)).m

Word == K ^ CodeBytes

\* cx for text[j..e], e - j < CodeBytes: the letters plus one, in one word.
Packed(text, j, e) ==
  FoldLeft(LAMBDA cx, k : cx * K + ((text[e - k] + 1) % K), 0, Upward(e - j + 1))

\* length_8_32: each LMS-substring's length, or, packed into one word and
\* negated, a short one's letters if that cannot be taken for a length.
\* (sais2.go's length_32 stores lengths only: its letters are not bytes.)
Code(text, bytes, j, e) ==
  LET len  == e - j + 1
      code == Word - 1 - Packed(text, j, e)
      n    == Size(text)
  IN IF bytes /\ len <= CodeBytes /\ code >= n THEN code ELSE len

Lengths(m, f) ==
  LET text  == View(m, f.text)
      down  == LMSDown(text)
      bytes == f.text.arr = "text"
      Store(t, i) == Wr(t, f.sa, down[i] \div 2,
                        IF i = 1 THEN 0 ELSE Code(text, bytes, down[i], down[i - 1]))
  IN FoldLeft(Store, m, [i \in DOMAIN down |-> i])

\* assignID_8_32: names in sorted order, a new one when code, length or letters
\* differ from the LMS-substring before.
SameSubstring(text, n, lastLen, j, lastPos) ==
  n = lastLen /\ (n >= Size(text)
                    \/ \A i \in 0 .. n - 1 : text[j + i] = text[lastPos + i])

\* maxID < numLMS: some LMS-substrings share a name.
NeedsRecursion(f, id) == id < f.numLMS

AssignIDs(m, f) ==
  LET text == View(m, f.text)
      Step(t, i) ==
        LET j == Rd(t.m, f.sa, i)
            n == Rd(t.m, f.sa, j \div 2)
            u == IF SameSubstring(text, n, t.lastLen, j, t.lastPos) THEN t
                 ELSE [t EXCEPT !.id = @ + 1, !.lastPos = j, !.lastLen = n]
        IN [u EXCEPT !.m = Wr(@, f.sa, j \div 2, u.id)]
      start == [m |-> m, id |-> 0, lastPos |-> 0, lastLen |-> Word - 1]
  IN FoldLeft(Step, start, [k \in 1 .. f.numLMS |-> f.sa.len - f.numLMS + k - 1])

\* map_32: the names, in text order, packed at the end of sa, counted from 0.
MapIDs(m, f) ==
  LET Step(t, i) == LET j == Rd(t.m, f.sa, i)
                    IN IF j > 0 THEN [m |-> Wr(t.m, f.sa, t.w - 1, j - 1), w |-> t.w - 1] ELSE t
  IN FoldLeft(Step, [m |-> m, w |-> f.sa.len], Downward(f.sa.len \div 2 + 1)).m

\* unmap_8_32: indices into the reduced text become LMS positions.
Unmap(m, f) ==
  LET down == LMSDown(View(m, f.text))
      back == Sub(f.sa, f.sa.len - f.numLMS, f.sa.len)
      m1 == FoldLeft(LAMBDA t, k : Wr(t, back, f.numLMS - k, down[k]), m, [k \in DOMAIN down |-> k])
  IN FoldLeft(LAMBDA t, i : Wr(t, f.sa, i, Rd(t, back, Rd(t, f.sa, i))), m1, Upward(f.numLMS))

\* All names differ: the sorted LMS positions are moved to the front.
CopyLMS(m, f) ==
  LET back == View(m, Sub(f.sa, f.sa.len - f.numLMS, f.sa.len))
  IN FoldLeft(LAMBDA t, i : Wr(t, f.sa, i, back[i]), m, Upward(f.numLMS))

\* expand_8_32: the sorted LMS positions spread to the ends of their buckets,
\* from the last, everything else cleared.
Expand(m, f) ==
  LET Next1(m1, x) == LET pos == Rd(m1, f.sa, x)
                          c == Rd(m1, f.text, pos)
                          b == Rd(m1, f.bucket, c) - 1
                      IN [m |-> Wr(m1, f.bucket, c, b), x |-> x, pos |-> pos, b |-> b]
      Step(t, i) == CASE i # t.b -> [t EXCEPT !.m = Wr(@, f.sa, i, 0)]
                      [] i = t.b /\ t.x > 0 -> Next1(Wr(t.m, f.sa, i, t.pos), t.x - 1)
                      [] i = t.b /\ t.x = 0 -> [t EXCEPT !.m = Wr(@, f.sa, i, t.pos)]
  IN FoldLeft(Step, Next1(BucketMax(m, f), f.numLMS - 1), Downward(f.sa.len)).m

InduceL(m, f) ==
  LET text == View(m, f.text)
      Step(t, i) ==
        LET j == Rd(t.m, f.sa, i)
            k == j - 1
        IN IF j <= 0 THEN t
           ELSE PutUp(t, f, text[k], NegIf(k > 0 /\ text[k - 1] < text[k], k))
  IN FoldLeft(Step, LastSuffix(m, f, text), Upward(f.sa.len)).m

SEqual(text, k) == k > 0 /\ text[k - 1] <= text[k]

InduceS(m, f) ==
  LET text == View(m, f.text)
      Step(t, i) ==
        LET j == Rd(t.m, f.sa, i)
            k == -j - 1
        IN IF j >= 0 THEN t
           ELSE PutDown([t EXCEPT !.m = Wr(@, f.sa, i, -j)], f, text[k],
                        NegIf(SEqual(text, k), k))
  IN FoldLeft(Step, Bucket(BucketMax(m, f), f, 0), Downward(f.sa.len)).m

-----------------------------------------------------------------------------
(* The calls.                                                              *)

\* recurse_32: the reduced text, its suffix array and its scratch are the three
\* parts of sa; a larger scratch is the caller's own or, failing both, new.
Reduced(f) == Sub(f.sa, f.sa.len - f.numLMS, f.sa.len)
NewTmp(f) == Slice(<<"new1", "new2", "new3">>[Len(stack)], 0,
                   IF f.maxID < f.numLMS \div 2 THEN f.numLMS \div 2 ELSE f.maxID)
RecurseTmp(f) ==
  LET saTmp == Sub(f.sa, f.numLMS, f.sa.len - f.numLMS)
      tmp   == IF f.tmp.len < saTmp.len THEN saTmp ELSE f.tmp
  IN IF tmp.len < f.numLMS THEN NewTmp(f) ELSE tmp

Made(m, s) == IF s.arr \in DOMAIN m THEN m ELSE (s.arr :> [i \in 0 .. s.len - 1 |-> 0]) @@ m

\* sais_8_32 tells its caller that it wrote tmp, where the caller may have kept
\* its frequencies.
MarkTmp_Forgotten(m, f) == m  \* (mutant) the caller is not told
MarkTmp(m, f) == IF f.pc = "return" THEN Wr(m, f.tmp, 0, -1) ELSE m

\* The scratch is reused: sa still holds a suffix array of the hash before.
Init ==
  /\ \E t \in Texts :
       mem = [arr \in {"text", "sa", "tmp"} |->
                CASE arr = "text" -> t
                  [] arr = "sa"   -> [i \in DOMAIN t |-> Size(t) - 1 - i]
                  [] arr = "tmp"  -> [i \in 0 .. 2 * K - 1 |-> 0]]
  /\ stack = <<>>

Go(m, f) == mem' = m /\ stack' = [stack EXCEPT ![Len(stack)] = f]

\* A pass of the running call: what it does to memory, and which pass is next.
Pass(from, Op(_, _), to) ==
  stack # <<>> /\ Top.pc = from /\ Go(Op(mem, Top), [Top EXCEPT !.pc = to])

\* text_32_0alloc clears sa and calls sais_8_32.
Text320alloc ==
  LET n == Size(mem["text"])
      f == Frame(Slice("text", 0, n), Slice("sa", 0, n), Slice("tmp", 0, 2 * K), K)
  IN /\ stack = <<>>
     /\ mem' = Called(Zero(mem, f.sa), f)
     /\ stack' = <<f>>

OneLetter == Pass("one", LAMBDA m, f : Wr(m, f.sa, 0, 0), "end")

Place ==
  /\ stack # <<>> /\ Top.pc = "place"
  /\ LET num == Len(LMSDown(T))
     IN Go(PlaceLMS(mem, Top),
           [Top EXCEPT !.numLMS = num, !.pc = IF num <= 1 THEN "induceL" ELSE "subL"])

SubL == Pass("subL", InduceSubL, "subS")
SubS == Pass("subS", InduceSubS, "length")
Length == Pass("length", Lengths, "assign")

Assign ==
  /\ stack # <<>> /\ Top.pc = "assign"
  /\ LET r == AssignIDs(mem, Top)
     IN Go(r.m, [Top EXCEPT !.maxID = r.id, !.pc = IF NeedsRecursion(Top, r.id) THEN "map" ELSE "copy"])

Map == Pass("map", MapIDs, "recurse")

Recurse ==
  /\ stack # <<>> /\ Top.pc = "recurse"
  /\ LET tmp == RecurseTmp(Top)
         dst == Sub(Top.sa, 0, Top.numLMS)
         f   == Frame(Reduced(Top), dst, tmp, Top.maxID)
     IN /\ mem' = Called(Zero(Made(mem, tmp), dst), f)
        /\ stack' = Append([stack EXCEPT ![Len(stack)].pc = "unmap"], f)

UnmapLMS == Pass("unmap", Unmap, "expand")
Copy == Pass("copy", CopyLMS, "expand")
ExpandLMS == Pass("expand", Expand, "induceL")
InduceLs == Pass("induceL", InduceL, "induceS")
InduceSs == Pass("induceS", InduceS, "return")

Return ==
  /\ stack # <<>> /\ Top.pc \in {"return", "end"} /\ Len(stack) > 1
  /\ mem' = MarkTmp(mem, Top)
  /\ stack' = Front(stack)

Next ==
  \/ Text320alloc \/ OneLetter \/ Place \/ SubL \/ SubS \/ Length \/ Assign \/ Map
  \/ Recurse \/ UnmapLMS \/ Copy \/ ExpandLMS \/ InduceLs \/ InduceSs \/ Return

Spec == Init /\ [][Next]_vars

-----------------------------------------------------------------------------
(* Properties.                                                             *)

Entries(s, from, to) == [k \in 1 .. to - from |-> Rd(mem, s, from + k - 1)]

\* The position after the LMS-substring of p: the end of the next LMS letter, or
\* of the text.
SubstringEnd(text, p) ==
  LET n == Size(text)
      after == {q \in Range(LMSDown(text)) : q > p}
  IN IF after = {} THEN n ELSE 1 + CHOOSE q \in after : \A r \in after : q <= r
SameLetters(text, p, q) ==
  LET d == SubstringEnd(text, p) - p
  IN /\ SubstringEnd(text, q) - q = d
     /\ \A i \in 0 .. d - 1 : text[p + i] = text[q + i]
     /\ (p = q \/ {SubstringEnd(text, p), SubstringEnd(text, q)} \cap {Size(text)} = {})

\* The call's panics and out-of-range slices never happen: every call has an
\* array as long as its text and scratch for all its letters, its text, array
\* and scratch do not overlap, and its letters are below its bound.
Apart(s, t) == s.arr # t.arr \/ s.off + s.len <= t.off \/ t.off + t.len <= s.off
NoMisuse ==
  \A l \in DOMAIN stack :
    LET f == stack[l]
    IN /\ f.sa.len = f.text.len /\ f.tmp.len >= f.max
       /\ Apart(f.sa, f.text) /\ Apart(f.sa, f.tmp) /\ Apart(f.text, f.tmp)

\* Frequencies a call believes to be cached are those of its own text, also
\* after a recursive call that used the same scratch.
CacheIsCurrent ==
  stack # <<>> /\ Top.freq.len > 0 /\ Top.pc \notin {"one", "return", "end"} =>
    \/ Rd(mem, Top.freq, 0) < 0
    \/ \A c \in 0 .. Top.max - 1 :
         Rd(mem, Top.freq, c) = Cardinality({i \in DOMAIN T : T[i] = c})

\* After the sub-induction the end of sa holds every LMS position once, sorted
\* by LMS-substring: where two substrings differ, in the order of their
\* suffixes.
SubstringsSorted ==
  stack # <<>> /\ Top.pc = "length" =>
    LET ps == Entries(Top.sa, Top.sa.len - Top.numLMS, Top.sa.len)
    IN /\ Range(ps) = Range(LMSDown(T))
       /\ \A i, j \in DOMAIN ps :
            i < j /\ ~SameLetters(T, ps[i], ps[j]) => SuffixLess(T, ps[i], ps[j])

\* The names order the LMS-substrings: the same name for the same letters only,
\* although lengths, packed letters and names share one array.
NamesOrdered ==
  stack # <<>> /\ Top.pc \in {"map", "copy"} =>
    \A p, q \in Range(LMSDown(T)) :
      LET a == Rd(mem, Top.sa, p \div 2)
          b == Rd(mem, Top.sa, q \div 2)
      IN /\ (a = b) = SameLetters(T, p, q)
         /\ a < b => SuffixLess(T, p, q)

\* The recursion, or distinct names, leave the LMS suffixes in order.
LMSSuffixesSorted ==
  stack # <<>> /\ Top.pc = "expand" =>
    LET ps == Entries(Top.sa, 0, Top.numLMS)
    IN Range(ps) = Range(LMSDown(T)) /\ InSuffixOrder(T, Size(T), ps)

\* Every call, at whatever depth, leaves the suffix array of its text.
SuffixArrayBuilt ==
  stack # <<>> /\ Top.pc \in {"return", "end"} =>
    LET ps == Entries(Top.sa, 0, Top.sa.len)
    IN Range(ps) = DOMAIN T /\ InSuffixOrder(T, Size(T), ps)
=============================================================================

---------------------------- MODULE DescriptorSA ----------------------------
(***************************************************************************)
(* The "v1.14 descriptor" suffix array: buildSAv114 of                     *)
(* internal/astrobwt/sa_v114.go, its emit stage (sa_v114_emit.go) and its  *)
(* merge stage (sa_v114_merge.go).  For every run of chunks between two    *)
(* flags the suffixes at the last column are sorted outright and those of  *)
(* the columns before are induced from them; each group of equal keys      *)
(* becomes a record; the records are radix sorted by key and the records   *)
(* of one key merged into the array.  Chunks have Group bytes (256), keys  *)
(* KeyLen (3), letters are 0 .. K - 1.                                     *)
(***************************************************************************)
EXTENDS SuffixOrder, Integers, Sequences, SequencesExt, FiniteSets, FiniteSetsExt

CONSTANTS
  K, Group, KeyLen,
  ShortRunMax,  \* chunks sorted by insertion, not on a heap (25)
  LiteralMax,   \* literals of one key sorted on the stack (32)
  Inputs        \* records of the data, its length, the flags and the arena's size

SizeAssumption == {K, Group, KeyLen, ShortRunMax, LiteralMax} \subseteq Nat \ {0}

VARIABLES
  pc,          \* "start", "emit", "tail", "radix", "write", "done", "declined", "fallback"
  data,        \* scratch.data: the stream and what the hash before left after it
  logicalLen,
  flags,       \* the groups that start a template, from buildStage5Flags
  arenaCap,    \* arenaIndexCount (0x20000)
  runStart,    \* the first group not emitted
  arena, runs,
  out          \* the positions written to sa

vars == <<pc, data, logicalLen, flags, arenaCap, runStart, arena, runs, out>>

FullGroups == logicalLen \div Group
Less(p, q) == SuffixLessIn(data, logicalLen, p, q)

-----------------------------------------------------------------------------
(* Keys and records.                                                       *)

\* The unaligned load: KeyLen letters from pos, the first the least significant.
KeyAt(pos) == MapThenSumSet(LAMBDA i : data[pos + i] * K ^ i, 0 .. KeyLen - 1)

\* The key at pos - 1 from the key at pos and one new letter.
KeyBefore_Lost(b, key) == b  \* (mutant) the letters known so far are dropped
KeyBefore(b, key) == b + ((key * K) % K ^ KeyLen)

Digit(key, i) == (key \div K ^ i) % K
radixOrderKey(key) == MapThenSumSet(LAMBDA i : Digit(key, i) * K ^ (KeyLen - 1 - i), 0 .. KeyLen - 1)

\* A record is a literal position (count 0), or count positions of the arena.
Literal(key, pos) == [key |-> radixOrderKey(key), count |-> 0, begin |-> pos]
Count(r) == IF r.count = 0 THEN 1 ELSE r.count
Positions(r) == IF r.count = 0 THEN <<r.begin>> ELSE SubSeq(arena, r.begin + 1, r.begin + r.count)

\* What an emit step carries: the arena, the records, and whether it declined.
ArenaFull(ar, n) == Len(ar) + n > arenaCap

\* appendOrderGroup: one record for positions of equal key, in suffix order.
AppendGroup(e, key, ps) ==
  IF Len(ps) = 1 THEN [e EXCEPT !.runs = Append(@, Literal(key, ps[1]))]
  ELSE IF ~e.ok \/ ArenaFull(e.arena, Len(ps)) THEN [e EXCEPT !.ok = FALSE]
  ELSE [e EXCEPT !.arena = @ \o ps,
                 !.runs = Append(@, [key |-> radixOrderKey(key), count |-> Len(ps),
                                     begin |-> Len(e.arena)])]

-----------------------------------------------------------------------------
(* Sorting.                                                                *)

\* Insertion from the right: past every element that is not to stay before x.
InsertSorted(Before(_, _), s, x) ==
  LET j == Max({0} \cup {i \in DOMAIN s : ~Before(x, s[i])})
  IN SubSeq(s, 1, j) \o <<x>> \o SubSeq(s, j + 1, Len(s))

sortSuffixOrderSmall(order) == FoldLeft(LAMBDA s, p : InsertSorted(Less, s, p), <<>>, order)

RECURSIVE siftDownSuffix(_, _, _)
siftDownSuffix(order, root, n) ==
  LET left  == 2 * root
      child == IF left + 1 <= n /\ Less(order[left], order[left + 1]) THEN left + 1 ELSE left
  IN IF left > n \/ ~Less(order[root], order[child]) THEN order
     ELSE siftDownSuffix([order EXCEPT ![root] = order[child], ![child] = order[root]], child, n)

heapSortSuffixOrder(order) ==
  LET n == Len(order)
      heap == FoldLeft(LAMBDA h, i : siftDownSuffix(h, i, n), order,
                       [i \in 1 .. n \div 2 |-> n \div 2 + 1 - i])
      Take(h, i) == siftDownSuffix([h EXCEPT ![1] = h[i], ![i] = h[1]], 1, i - 1)
  IN FoldLeft(Take, heap, [i \in 1 .. n - 1 |-> n + 1 - i])

-----------------------------------------------------------------------------
(* Emit.                                                                   *)

\* emitLiteralRecords: a record per position.
Literals(e, start, n) ==
  FoldLeft(LAMBDA t, i : [t EXCEPT !.runs = Append(@, Literal(KeyAt(start + i - 1), start + i - 1))],
           e, [i \in 1 .. n |-> i])

Columns == [i \in 1 .. Group |-> Group - i]

\* emitFullGroupRunTwo: two chunks; the pair is turned when the letter before
\* says so.
EmitTwo(e, base) ==
  LET a == base + Group - 1
      b == a + Group
      Turn(p, q) == IF data[p] > data[q] THEN <<q, p>> ELSE <<p, q>>
      Column(t, rel) ==
        LET k0 == KeyAt(t.order[1])
            k1 == KeyAt(t.order[2])
            e1 == IF k0 = k1 THEN AppendGroup(t.e, k0, t.order)
                  ELSE [t.e EXCEPT !.runs = @ \o <<Literal(k0, t.order[1]), Literal(k1, t.order[2])>>]
        IN [e |-> e1, order |-> IF rel > 0 THEN Turn(t.order[1] - 1, t.order[2] - 1) ELSE t.order]
  IN FoldLeft(Column, [e |-> e, order |-> IF Less(b, a) THEN <<b, a>> ELSE <<a, b>>], Columns).e

\* The induction of a column from the next: every position one to the left, its
\* key from the key before, stably re-sorted by the new first letter.
Induced(pairs) ==
  LET Before(x, y) == x.key % K < y.key % K
  IN FoldLeft(LAMBDA s, x : InsertSorted(Before, s, x), <<>>,
              [i \in DOMAIN pairs |->
                 LET p == pairs[i].pos - 1
                 IN [pos |-> p, key |-> KeyBefore(data[p], pairs[i].key)]])

\* The maximal stretches of equal keys of a column, as records.
EmitColumn(e, pairs) ==
  LET Starts == {i \in DOMAIN pairs : i = 1 \/ pairs[i - 1].key # pairs[i].key}
      End(i) == Min({j - 1 : j \in {s \in Starts : s > i}} \cup {Len(pairs)})
      Emit(t, i) == AppendGroup(t, pairs[i].key, [k \in 1 .. End(i) - i + 1 |-> pairs[i + k - 1].pos])
  IN FoldLeft(Emit, e, SetToSortSeq(Starts, LAMBDA i, j : i < j))

\* emitFullGroupRunGeneric.
EmitGeneric(e, base, n) ==
  LET last   == [c \in 1 .. n |-> base + c * Group - 1]
      order  == IF n <= ShortRunMax THEN sortSuffixOrderSmall(last) ELSE heapSortSuffixOrder(last)
      Column(t, rel) == [e |-> EmitColumn(t.e, t.pairs),
                         pairs |-> IF rel > 0 THEN Induced(t.pairs) ELSE t.pairs]
  IN FoldLeft(Column, [e |-> e, pairs |-> [i \in 1 .. n |-> [pos |-> order[i], key |-> KeyAt(order[i])]]],
              Columns).e

\* emitFullGroupRun: the run of groups from first to beyond - 1.
EmitRun(e, first, beyond) ==
  LET n == beyond - first
  IN CASE n > arenaCap \div Group -> [e EXCEPT !.ok = FALSE]
       [] n = 1 -> Literals(e, first * Group, Group)
       [] n = 2 -> EmitTwo(e, first * Group)
       [] OTHER -> EmitGeneric(e, first * Group, n)

-----------------------------------------------------------------------------
(* Merge.                                                                  *)

\* suffixLessAfterKey: the first KeyLen letters, padding included, are equal.
LessAfterKey_NoLength(a, b) ==  \* (mutant) short suffixes not told apart by length
  LET common == Min({logicalLen - a, logicalLen - b})
      diff == {i \in KeyLen .. common - 1 : data[a + i] # data[b + i]}
  IN IF diff = {} THEN a < b ELSE data[a + Min(diff)] < data[b + Min(diff)]
LessAfterKey(a, b) ==
  LET common == Min({logicalLen - a, logicalLen - b})
      diff == {i \in KeyLen .. common - 1 : data[a + i] # data[b + i]}
  IN IF diff = {} THEN logicalLen - a < logicalLen - b
     ELSE data[a + Min(diff)] < data[b + Min(diff)]

RECURSIVE Merged(_, _)
Merged(l, r) ==
  IF l = <<>> THEN r
  ELSE IF r = <<>> THEN l
  ELSE IF LessAfterKey(Head(l), Head(r)) THEN <<Head(l)>> \o Merged(Tail(l), r)
  ELSE <<Head(r)>> \o Merged(l, Tail(r))

\* mergeEqualKeyRuns: neighbours are merged until one list is left.
RECURSIVE MergedAll(_)
MergedAll(lists) ==
  IF Len(lists) <= 1 THEN lists[1]
  ELSE MergedAll([i \in 1 .. (Len(lists) + 1) \div 2 |->
                    IF 2 * i > Len(lists) THEN lists[2 * i - 1]
                    ELSE Merged(lists[2 * i - 1], lists[2 * i])])

\* radixSortRunsByStoredKey: one stable pass per letter of the key, the least
\* significant first.
RadixPass(rs, i) ==
  FlattenSeq([c \in 1 .. K |-> SelectSeq(rs, LAMBDA r : Digit(r.key, i) = c - 1)])
RadixSorted(rs) ==
  IF Len(rs) <= 1 THEN rs ELSE FoldLeft(RadixPass, rs, [i \in 1 .. KeyLen |-> i - 1])

\* The records of one key, as positions in suffix order: one record as it is;
\* a few literals by insertion; two records merged; otherwise all of them.
GroupPositions(g) ==
  LET literals == \A i \in DOMAIN g : g[i].count = 0
  IN CASE Len(g) = 1 -> Positions(g[1])
       [] Len(g) > 1 /\ Len(g) <= LiteralMax /\ literals ->
            FoldLeft(LAMBDA s, r : InsertSorted(LessAfterKey, s, r.begin), <<>>, g)
       [] Len(g) = 2 /\ ~literals -> Merged(Positions(g[1]), Positions(g[2]))
       [] OTHER -> MergedAll([i \in DOMAIN g |-> Positions(g[i])])

-----------------------------------------------------------------------------
Init ==
  /\ pc = "start"
  /\ \E in \in Inputs :
       data = in.data /\ logicalLen = in.len /\ flags = in.flags /\ arenaCap = in.arena
  /\ runStart = 0 /\ arena = <<>> /\ runs = <<>> /\ out = <<>>

Carried == [arena |-> arena, runs |-> runs, ok |-> TRUE]
Keep(e, next) ==
  /\ arena' = e.arena /\ runs' = e.runs
  /\ pc' = IF e.ok THEN next ELSE "declined"

\* The guard of buildSAv114, and the padding for the key loads cleared of what
\* the hash before left there.
Padded == [i \in DOMAIN data |-> IF i \in logicalLen .. logicalLen + KeyLen THEN 0 ELSE data[i]]

Start ==
  /\ pc = "start"
  /\ IF logicalLen = 0 \/ logicalLen > arenaCap
     THEN pc' = "declined" /\ UNCHANGED data
     ELSE /\ data' = Padded
          /\ pc' = IF FullGroups = 0 THEN "tail" ELSE "emit"
  /\ UNCHANGED <<logicalLen, flags, arenaCap, runStart, arena, runs, out>>

\* One turn of the loop over the groups: up to the next flag.
Emit ==
  LET beyond == Min({g \in runStart + 1 .. FullGroups : g \in flags \/ g = FullGroups})
  IN /\ pc = "emit"
     /\ Keep(EmitRun(Carried, runStart, beyond), IF beyond = FullGroups THEN "tail" ELSE "emit")
     /\ runStart' = beyond
     /\ UNCHANGED <<data, logicalLen, flags, arenaCap, out>>

EmitTail ==
  /\ pc = "tail"
  /\ Keep(Literals(Carried, FullGroups * Group, logicalLen % Group), "radix")
  /\ UNCHANGED <<data, logicalLen, flags, arenaCap, runStart, out>>

RadixSort ==
  /\ pc = "radix"
  /\ runs' = RadixSorted(runs)
  /\ pc' = "write"
  /\ UNCHANGED <<data, logicalLen, flags, arenaCap, runStart, arena, out>>

\* One turn of writeFusedRunsToSA: the records of the smallest key left.
WriteGroup ==
  LET n == Min({i \in DOMAIN runs : i = Len(runs) \/ runs[i + 1].key # runs[i].key})
  IN /\ pc = "write" /\ runs # <<>>
     /\ out' = out \o GroupPositions(SubSeq(runs, 1, n))
     /\ runs' = SubSeq(runs, n + 1, Len(runs))
     /\ UNCHANGED <<pc, data, logicalLen, flags, arenaCap, runStart, arena>>

Finish ==
  /\ pc = "write" /\ runs = <<>>
  /\ pc' = IF Len(out) = logicalLen THEN "done" ELSE "declined"
  /\ UNCHANGED <<data, logicalLen, flags, arenaCap, runStart, arena, runs, out>>

\* astroBWTv3Stream falls back to SA-IS, which Sais models.
Fallback ==
  /\ pc = "declined"
  /\ pc' = "fallback"
  /\ out' = SetToSortSeq(0 .. logicalLen - 1, Less)
  /\ UNCHANGED <<data, logicalLen, flags, arenaCap, runStart, arena, runs>>

Next == Start \/ Emit \/ EmitTail \/ RadixSort \/ WriteGroup \/ Finish \/ Fallback

Spec == Init /\ [][Next]_vars

-----------------------------------------------------------------------------
(* Properties.                                                             *)

\* What the records hold, record by record.
Recorded == [i \in DOMAIN runs |-> Positions(runs[i])]

\* Between emit and merge every position emitted so far is in one record, once.
RecordsTile ==
  pc \in {"emit", "tail", "radix"} =>
    LET all == FlattenSeq(Recorded)
    IN Range(all) = 0 .. (IF pc = "radix" THEN logicalLen ELSE runStart * Group) - 1
       /\ Len(all) = Cardinality(Range(all))

\* The induction is exact whatever the flags: the positions of a record are in
\* suffix order, and its key is what their first letters and the padding say,
\* although the emit loop derives keys and orders without looking at them again.
RecordsSorted ==
  pc \in {"emit", "tail", "radix", "write"} =>
    \A i \in DOMAIN runs :
      /\ InSuffixOrder(data, logicalLen, Recorded[i])
      /\ \A p \in Range(Recorded[i]) :
           \A k \in 0 .. KeyLen - 1 :
             Digit(runs[i].key, KeyLen - 1 - k) = IF p + k < logicalLen THEN data[p + k] ELSE 0

\* What has been written is the beginning of the suffix array, and in the end
\* all of it: for every input and every placement of the flags, by the
\* descriptors or by the fallback.
WrittenIsSuffixArray ==
  /\ InSuffixOrder(data, logicalLen, out)
  /\ pc \in {"write", "done"} =>
       \A p \in Range(out), i \in DOMAIN runs :
         \A q \in Range(Positions(runs[i])) : Less(p, q)
  /\ pc \in {"done", "fallback"} => Range(out) = 0 .. logicalLen - 1

\* Once the guard has passed nothing declines: the arena has room for every
\* position, and the array is full at the end.
OnlyTheGuardDeclines == pc \in {"declined", "fallback"} => logicalLen = 0 \/ logicalLen > arenaCap
=============================================================================

-------------------------------- MODULE SaGpu --------------------------------
(***************************************************************************)
(* The portable suffix-array kernel (wgsl/sa_gpu.wgsl): one workgroup      *)
(* builds one suffix array by prefix doubling, with two counting-radix     *)
(* sorts a round and a scan that rebuilds the ranks.  What a lane does     *)
(* between two barriers is one step, and the lanes of an interval run in   *)
(* any order: without a barrier where one is needed, some order goes       *)
(* wrong.  Every lane keeps its own position, for a barrier is only        *)
(* defined when all lanes of the workgroup come to the same one.           *)
(***************************************************************************)
EXTENDS SuffixOrder, Integers, Sequences, FiniteSets

CONSTANTS
  WG,      \* lanes, and also the digits of a radix pass (256)
  Texts    \* the texts tried, of bytes below WG

SaGpuAssumption ==
  /\ WG \in Nat \ {0, 1}
  /\ \A text \in Texts :
       \E len \in 1 .. WG * WG * WG - 2 :   \* three passes sort any rank
         text \in [0 .. len - 1 -> 0 .. WG - 1]

VARIABLES
  text,
  mem,    \* storage and workgroup memory
  reg,    \* lane -> the registers it keeps over a barrier
  at,     \* lane -> its position
  ran     \* the lanes that wait at a barrier

vars == <<text, mem, reg, at, ran>>

Lanes == 0 .. WG - 1
n == Cardinality(DOMAIN text)
Index == 0 .. n - 1
nTiles == (n + WG - 1) \div WG
NoDigit == WG   \* 0xffffffff

Init ==
  /\ text \in Texts
  /\ mem = [sa |-> [i \in Index |-> 0], sa2 |-> [i \in Index |-> 0],
            rank |-> [i \in Index |-> 0], rank2 |-> [i \in Index |-> 0],
            hist |-> [d \in Lanes |-> 0], base |-> [d \in Lanes |-> 0], run |-> [d \in Lanes |-> 0],
            tileDigit |-> [d \in Lanes |-> 0], tileHist |-> [d \in Lanes |-> 0],
            scan |-> [d \in Lanes |-> 0],
            h |-> 0, keySel |-> 0, done |-> FALSE, scanBase |-> 0, maxRank |-> 0, passes |-> 0]
  /\ reg = [t \in Lanes |-> [s |-> 0, d |-> 0, v |-> 0]]
  /\ at = [t \in Lanes |-> [pc |-> "init", h |-> 1, key |-> 0, pass |-> 0, tile |-> 0, d |-> 1]]
  /\ ran = {}

-----------------------------------------------------------------------------
(* The rank of the second half of a prefix, the sort's key, its digits and *)
(* the passes needed for keys up to maxRank + 1.                           *)

Second_Unshifted(m, s, h) == IF s + h < n THEN m.rank[s + h] ELSE 0  \* (mutant) the end ties with rank 0
Second(m, s, h) == IF s + h < n THEN m.rank[s + h] + 1 ELSE 0
Key(m, s) == IF m.keySel = 1 THEN m.rank[s] ELSE Second(m, s, m.h)

\* key >> 8 * pass; there are three passes at most.
Weight(pass) == <<1, WG, WG * WG>>[pass + 1]
Digit(key, pass) == (key \div Weight(pass)) % WG

Passes_OffByOne(max) == IF max >= WG * WG THEN 3 ELSE IF max >= WG THEN 2 ELSE 1  \* (mutant) of ranks, not keys
Passes(max) == IF max + 1 >= WG * WG THEN 3 ELSE IF max + 1 >= WG THEN 2 ELSE 1

\* Passes ping-pong between the two slot buffers.
Slots(m, pass) == IF pass % 2 = 0 THEN m.sa ELSE m.sa2

-----------------------------------------------------------------------------
(* A lane's interval, and the barrier at its end.                          *)

Lane(t, pc) == at[t].pc = pc /\ t \notin ran
Slot(t) == at[t].tile * WG + t
Own(t) == {i \in Index : i % WG = t}
Only(t, field, value, m) == IF t = 0 THEN [m EXCEPT ![field] = value] ELSE m

Goes(t, m, r, pos) ==
  /\ mem' = m /\ reg' = [reg EXCEPT ![t] = r] /\ at' = [at EXCEPT ![t] = pos]
  /\ UNCHANGED text
Wait(t, m, r, pos) ==
  /\ Goes(t, m, r, pos)
  /\ ran' = IF ran \cup {t} = Lanes THEN {} ELSE ran \cup {t}
Runs(t, m, r, pos) == Goes(t, m, r, pos) /\ UNCHANGED ran

To(t, pc) == [at[t] EXCEPT !.pc = pc]

Start(t) ==
  /\ Lane(t, "init")
  /\ Wait(t, [mem EXCEPT !.sa = [i \in Index |-> IF i \in Own(t) THEN i ELSE @[i]],
                         !.rank = [i \in Index |-> IF i \in Own(t) THEN text[i] ELSE @[i]],
                         !.maxRank = IF t = 0 THEN WG - 1 ELSE @],
          reg[t], To(t, "head"))

\* The head of the doubling loop.
LoopHead(t) ==
  /\ Lane(t, "head")
  /\ IF at[t].h >= n THEN Runs(t, mem, reg[t], To(t, "end"))
     ELSE Wait(t, IF t = 0 THEN [mem EXCEPT !.h = at[t].h, !.passes = Passes(mem.maxRank), !.keySel = 0] ELSE mem,
               reg[t], [To(t, "clear") EXCEPT !.key = 0, !.pass = 0])

-----------------------------------------------------------------------------
(* sg_sort                                                                 *)

\* The head of the pass loop.  After an odd number of passes the order is in
\* sa2 and copied back, with a barrier; otherwise the lane runs on.
Clear(t) ==
  /\ Lane(t, "clear")
  /\ IF at[t].pass < mem.passes
     THEN Wait(t, [mem EXCEPT !.hist[t] = 0], reg[t], To(t, "count"))
     ELSE IF mem.passes % 2 = 1
     THEN Wait(t, [mem EXCEPT !.sa = [i \in Index |-> IF i \in Own(t) THEN mem.sa2[i] ELSE @[i]]],
               reg[t], To(t, "sorted"))
     ELSE Runs(t, mem, reg[t], To(t, "sorted"))

DigitAt(t, i) == Digit(Key(mem, Slots(mem, at[t].pass)[i]), at[t].pass)

Count(t) ==
  /\ Lane(t, "count")
  /\ Wait(t, [mem EXCEPT !.hist = [d \in Lanes |-> @[d] + Cardinality({i \in Own(t) : DigitAt(t, i) = d})]],
          reg[t], To(t, "base"))

Below(d) == LET sum[e \in 0 .. WG] == IF e = 0 THEN 0 ELSE sum[e - 1] + mem.hist[e - 1] IN sum[d]
Base(t) ==
  /\ Lane(t, "base")
  /\ Wait(t, IF t = 0 THEN [mem EXCEPT !.base = [d \in Lanes |-> Below(d)], !.run = [d \in Lanes |-> 0]] ELSE mem,
          reg[t], [To(t, "load") EXCEPT !.tile = 0])

Load(t) ==
  /\ Lane(t, "load")
  /\ Wait(t, [mem EXCEPT !.tileHist[t] = 0, !.tileDigit[t] = NoDigit], reg[t], To(t, "digit"))

TakeDigit(t) ==
  /\ Lane(t, "digit")
  /\ IF Slot(t) < n
     THEN LET d == DigitAt(t, Slot(t))
          IN Wait(t, [mem EXCEPT !.tileDigit[t] = d, !.tileHist[d] = @ + 1],
                  [reg[t] EXCEPT !.s = Slots(mem, at[t].pass)[Slot(t)], !.d = d], To(t, "place"))
     ELSE Wait(t, mem, reg[t], To(t, "place"))

\* Behind the lanes of the tile before it that have the same digit.
Place(t) ==
  LET d == reg[t].d
      dst == mem.base[d] + mem.run[d] + Cardinality({u \in 0 .. t - 1 : mem.tileDigit[u] = d})
  IN /\ Lane(t, "place")
     /\ Wait(t, IF Slot(t) >= n THEN mem
                ELSE IF at[t].pass % 2 = 0 THEN [mem EXCEPT !.sa2[dst] = reg[t].s]
                ELSE [mem EXCEPT !.sa[dst] = reg[t].s],
             reg[t], To(t, "advance"))

Advance(t) ==
  /\ Lane(t, "advance")
  /\ Wait(t, [mem EXCEPT !.run[t] = @ + mem.tileHist[t]], reg[t],
          IF at[t].tile + 1 < nTiles THEN [To(t, "load") EXCEPT !.tile = @ + 1]
          ELSE [To(t, "clear") EXCEPT !.pass = @ + 1])

\* First by rank2, then stably by rank1; then the scan.
Sorted(t) ==
  /\ Lane(t, "sorted")
  /\ IF at[t].key = 0
     THEN Wait(t, Only(t, "keySel", 1, mem), reg[t], [To(t, "clear") EXCEPT !.key = 1, !.pass = 0])
     ELSE Wait(t, Only(t, "scanBase", 0, mem), reg[t], [To(t, "flag") EXCEPT !.tile = 0])

-----------------------------------------------------------------------------
(* The ranks: a tile-serial inclusive scan of the places where the pair    *)
(* of ranks changes.                                                       *)

Changes(k, h) ==
  LET s == mem.sa[k]
      prev == mem.sa[k - 1]
  IN \/ k = 0
     \/ mem.rank[s] # mem.rank[prev]
     \/ Second(mem, s, h) # Second(mem, prev, h)

Flag(t) ==
  /\ Lane(t, "flag")
  /\ LET active == Slot(t) < n
     IN Wait(t, [mem EXCEPT !.scan[t] = IF active /\ Changes(Slot(t), at[t].h) THEN 1 ELSE 0],
             IF active THEN [reg[t] EXCEPT !.s = mem.sa[Slot(t)]] ELSE reg[t],
             [To(t, "read") EXCEPT !.d = 1])

\* Hillis-Steele: everyone has read before anyone writes.
Read(t) ==
  /\ Lane(t, "read")
  /\ LET d == at[t].d
     IN Wait(t, mem, [reg[t] EXCEPT !.v = mem.scan[t] + IF t >= d THEN mem.scan[t - d] ELSE 0], To(t, "write"))

WriteScan(t) ==
  /\ Lane(t, "write")
  /\ Wait(t, [mem EXCEPT !.scan[t] = reg[t].v], reg[t],
          IF at[t].d * 2 < WG THEN [To(t, "read") EXCEPT !.d = @ * 2] ELSE To(t, "rank"))

Rank(t) ==
  /\ Lane(t, "rank")
  /\ Wait(t, IF Slot(t) < n THEN [mem EXCEPT !.rank2[reg[t].s] = mem.scanBase + mem.scan[t]] ELSE mem,
          reg[t], To(t, "bump"))

Bump(t) ==
  /\ Lane(t, "bump")
  /\ Wait(t, Only(t, "scanBase", mem.scanBase + mem.scan[WG - 1], mem), reg[t],
          IF at[t].tile + 1 < nTiles THEN [To(t, "flag") EXCEPT !.tile = @ + 1] ELSE To(t, "finish"))

\* Every suffix has a rank of its own: done.
Finish(t) ==
  /\ Lane(t, "finish")
  /\ Wait(t, IF t = 0 THEN [mem EXCEPT !.done = mem.scanBase = n, !.maxRank = mem.scanBase] ELSE mem,
          reg[t], To(t, "copy"))

Copy(t) ==
  /\ Lane(t, "copy")
  /\ Wait(t, [mem EXCEPT !.rank = [i \in Index |-> IF i \in Own(t) THEN mem.rank2[i] ELSE @[i]]],
          reg[t], To(t, "check"))

\* workgroupUniformLoad waits before and after it has read.
Check(t) ==
  /\ Lane(t, "check")
  /\ Wait(t, mem, reg[t], IF mem.done THEN To(t, "end") ELSE [To(t, "head") EXCEPT !.h = @ * 2])

LaneStep(t) ==
  \/ Start(t) \/ LoopHead(t) \/ Clear(t) \/ Count(t) \/ Base(t) \/ Load(t) \/ TakeDigit(t) \/ Place(t)
  \/ Advance(t) \/ Sorted(t) \/ Flag(t) \/ Read(t) \/ WriteScan(t) \/ Rank(t) \/ Bump(t) \/ Finish(t)
  \/ Copy(t) \/ Check(t)
Next == \E t \in Lanes : LaneStep(t)

Spec == Init /\ [][Next]_vars

-----------------------------------------------------------------------------
(* Properties.                                                             *)

Together(pc) == \A t \in Lanes : at[t].pc = pc /\ t \notin ran

\* Whatever order the lanes take between barriers, the kernel ends with the
\* suffix array, the array that SAIS builds on the CPU.
SuffixArrayBuilt ==
  Together("end") =>
    /\ {mem.sa[k] : k \in Index} = Index
    /\ InSuffixOrder(text, n, [k \in 1 .. n |-> mem.sa[k - 1]])

\* Before every round the ranks are those of the first h letters: equal where
\* these are, in their order where they differ.
RanksArePrefixes ==
  Together("head") =>
    LET h == at[0].h
        Letter(p, k) == IF p + k < n THEN text[p + k] ELSE -1
        Before(p, q) == \E k \in 0 .. h - 1 :
                          /\ \A j \in 0 .. k - 1 : Letter(p, j) = Letter(q, j)
                          /\ Letter(p, k) < Letter(q, k)
    IN \A p, q \in Index : mem.rank[p] < mem.rank[q] <=> Before(p, q)

\* Lanes wait at the same barrier of the same round, pass and tile, and none
\* has left the kernel when others wait: the loops whose bounds are read from
\* shared memory run in step.
BarriersUniform ==
  \A t \in ran, u \in Lanes :
    /\ u \in ran => at[u] = at[t]
    /\ at[u].pc = "end" => at[t].pc = "end"
=============================================================================

------------------------------- MODULE OneShot -------------------------------
(***************************************************************************)
(* One batch after another through a persistent one-shot session: run of   *)
(* saSession (sa_session.go), run and runSPIRVData of fusedSession         *)
(* (fused.go).  The session's device buffers outlive the calls, so every   *)
(* call finds what the calls before left in rows, lengths and staging; the *)
(* suffix arrays come back packed, one row's after another's.  The kernels *)
(* are external: a kernel sorts row i's first lens[i] letters.  The native *)
(* kernels always sort all Slab rows and raise one flag for all of them    *)
(* when a run of equal keys is longer than they can break (2048).          *)
(***************************************************************************)
EXTENDS SuffixOrder, Integers, Sequences, SequencesExt, FiniteSetsExt

CONSTANTS
  Slab,      \* rows of the session
  Stride,    \* letters of a row (saStride)
  Word,      \* letters of a word of WriteBuffer (4)
  MaxTied,   \* the longest run of equal letters the native sort can break
  Texts,     \* the texts of a batch
  MaxCalls   \* bound on the calls

OneShotAssumption ==
  /\ {Slab, Stride, Word, MaxTied, MaxCalls} \subseteq Nat \ {0}
  /\ Texts \subseteq Seq(Nat) /\ \A t \in Texts : Len(t) <= Stride

VARIABLES
  kind,          \* "plain" for saSession, "fused", "native"
  call, batch,   \* "run" or "corpus" (runSPIRVData), and its texts
  pc,            \* "idle", "uploaded", "computed"
  text, lens,    \* rows and lengths on the device
  count,         \* the uniform: how many rows the kernels work on
  sa,            \* rows of suffix arrays on the device
  flag,          \* word 63 of the native sort's control buffer
  lensStaging, staging,  \* what is copied back
  result,        \* of the last call
  calls

device == <<text, lens, count, sa, flag>>
vars == <<kind, call, batch, pc, device, lensStaging, staging, result, calls>>

Rows == 1 .. Slab
N == Len(batch)
Letters(row, n) == [i \in 0 .. n - 1 |-> row[i + 1]]
\* The suffix with k - 1 smaller ones is the k-th.
Smaller(row, n, p) == {q \in 0 .. n - 1 : SuffixLessIn(Letters(row, n), n, q, p)}
SuffixArray(row, n) ==
  [k \in 1 .. n |-> CHOOSE p \in 0 .. n - 1 : Cardinality(Smaller(row, n, p)) = k - 1]
Overflows(row, n) ==
  \E c \in Range(SubSeq(row, 1, n)) : Quantify(1 .. n, LAMBDA i : row[i] = c) > MaxTied

\* A row of the packed host bytes: whole words, the last one padded with zeros,
\* over what the row held.
Words(n) == ((n + Word - 1) \div Word) * Word
Over(row, t) == [j \in 1 .. Stride |-> IF j <= Len(t) THEN t[j] ELSE IF j <= Words(Len(t)) THEN 0 ELSE row[j]]

-----------------------------------------------------------------------------
Init ==
  /\ kind \in {"plain", "fused", "native"}
  /\ call = "run" /\ batch = <<>> /\ pc = "idle"
  /\ text = [i \in Rows |-> [j \in 1 .. Stride |-> 0]]
  /\ lens = [i \in Rows |-> 0]
  /\ count = Slab
  /\ sa = text /\ flag = 0
  /\ lensStaging = [i \in 1 .. Slab + 1 |-> 0] /\ staging = <<>>
  /\ result = [err |-> FALSE, sas |-> <<>>] /\ calls = 0

Fails == pc' = "idle" /\ result' = [err |-> TRUE, sas |-> <<>>]

\* The lengths at the native kernels' start: run clears the unused ones, the
\* corpus writes all of them.
NativeLens_Kept == [i \in Rows |-> IF i <= N' THEN Len(batch'[i]) ELSE lens[i]]  \* (mutant) no ClearBuffer
NativeLens == [i \in Rows |-> IF i <= N' THEN Len(batch'[i]) ELSE 0]

\* WriteBuffer of rows, lengths and uniform.  The front half of a fused session
\* writes rows and lengths on the device instead, for the rows of the uniform.
Upload ==
  /\ pc = "idle" /\ calls < MaxCalls
  /\ calls' = calls + 1
  /\ batch' \in UNION {[1 .. n -> Texts] : n \in Rows}
  /\ call' \in IF kind = "native" THEN {"run", "corpus"} ELSE {"run"}
  /\ text' = [i \in Rows |->
       IF i <= N' THEN Over(IF call' = "corpus" THEN [j \in 1 .. Stride |-> 0] ELSE text[i], batch'[i])
       ELSE IF call' = "corpus" THEN [j \in 1 .. Stride |-> 0] ELSE text[i]]
  /\ lens' = IF kind = "native" THEN NativeLens
             ELSE [i \in Rows |-> IF i <= N' THEN Len(batch'[i]) ELSE lens[i]]
  /\ count' = IF call' = "corpus" THEN count ELSE N'
  /\ pc' = "uploaded"
  /\ UNCHANGED <<kind, sa, flag, lensStaging, staging, result>>

\* The submission: the native sort clears its control buffer first and takes
\* every row.  What a row of sa holds past its length is left from before.
Sorted(i) == IF kind = "native" THEN TRUE ELSE i <= count
Compute ==
  /\ pc = "uploaded"
  /\ sa' = [i \in Rows |->
       IF Sorted(i)
       THEN [j \in 1 .. Stride |-> IF j <= lens[i] THEN SuffixArray(text[i], lens[i])[j] ELSE sa[i][j]]
       ELSE sa[i]]
  /\ flag' = IF kind = "native" /\ \E i \in Rows : Overflows(text[i], lens[i]) THEN 1 ELSE 0
  /\ lensStaging' =
       CASE kind = "plain" -> lensStaging
         [] call = "corpus" -> [lensStaging EXCEPT ![1] = flag']
         [] OTHER -> [i \in 1 .. Slab + 1 |->
              IF i <= N THEN lens[i] ELSE IF kind = "native" /\ i = Slab + 1 THEN flag' ELSE lensStaging[i]]
  /\ pc' = "computed"
  /\ UNCHANGED <<kind, call, batch, text, lens, count, staging, result, calls>>

\* How many letters of row i the host asks for: what it uploaded, or what the
\* front half reported.
HostLen(i) == IF kind = "plain" \/ call = "corpus" THEN Len(batch[i]) ELSE lensStaging[i]

\* Where row i + 1 begins in the packed readback: total, and base in decodeSA,
\* after i rows.
base[i \in 0 .. N] == IF i = 0 THEN 0 ELSE base[i - 1] + HostLen(i)

\* The copies of the meaningful prefixes, back to back, over what the staging
\* buffer held.
Packed ==
  [k \in 1 .. Max({base[N], Len(staging)}) |->
     IF k > base[N] THEN staging[k]
     ELSE LET i == CHOOSE i \in 1 .. N : base[i - 1] < k /\ k <= base[i] IN sa[i][k - base[i - 1]]]

\* decodeSA and its copies in run and runSPIRVData: views that follow each other.
Decoded(raw) == [i \in 1 .. N |-> SubSeq(raw, base[i - 1] + 1, base[i])]

FlagSlot == IF call = "corpus" THEN 1 ELSE Slab + 1

ReadBack ==
  /\ pc = "computed"
  /\ IF kind = "native" /\ lensStaging[FlagSlot] # 0
     THEN Fails /\ UNCHANGED staging
     ELSE /\ staging' = Packed
          /\ result' = [err |-> FALSE, sas |-> Decoded(staging')]
          /\ pc' = "idle"
  /\ UNCHANGED <<kind, call, batch, device, lensStaging, calls>>

\* The device fails an upload, the submission or a map; what it did stays done.
Fault ==
  /\ pc \in {"uploaded", "computed"}
  /\ Fails
  /\ batch' = <<>>
  /\ UNCHANGED <<kind, call, device, lensStaging, staging, calls>>

Next == Upload \/ Compute \/ ReadBack \/ Fault

Spec == Init /\ [][Next]_vars

-----------------------------------------------------------------------------
(* Properties.                                                             *)

Answered == pc = "idle" /\ batch # <<>>

\* Every row of the answer is the suffix array of its own text, whatever larger
\* batch, longer text or failed call used the session's buffers before.
RowsAreOwn ==
  Answered /\ ~result.err =>
    \A i \in 1 .. N : result.sas[i] = SuffixArray(batch[i], Len(batch[i]))

\* A call fails for a text of its own only, and an unbreakable run of its own
\* is never passed over: unused rows keep the texts of an earlier batch, the
\* flag slots the flags of earlier calls.
OverflowIsOwn ==
  Answered /\ kind = "native" =>
    (result.err <=> \E i \in 1 .. N : Overflows(batch[i], Len(batch[i])))
=============================================================================

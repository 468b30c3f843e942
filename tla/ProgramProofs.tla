---------------------------- MODULE ProgramProofs -----------------------------
(***************************************************************************)
(* Theorems about the programs around the device: what main sets up before *)
(* it mines (Startup), the sweep over all backends with one child each     *)
(* (VerifyBackends), and the hash on the CPU that the device's is checked  *)
(* against (HashParts): the loop over its tries (WolfLoop), the digest of  *)
(* its suffix array (Hasher), and what a try does (WolfStream).  The       *)
(* variables of the sweep are declared here.                               *)
(***************************************************************************)
EXTENDS Startup, HashParts, FiniteSetTheorems, SequenceTheorems, WellFoundedInduction, TLAPS

CONSTANTS Combos
VARIABLES records, child, printed, pipe, scanner, found, waited, main, printedBy

Sweep == INSTANCE VerifyBackends WITH done <- waited

-----------------------------------------------------------------------------
(* Startup.  The probe's device is the first, the one that mines the       *)
(* second; from SelectPath on the path suits the lanes and the limits, from *)
(* Clamp on the batch suits the path.                                      *)

StartTypeOK ==
  /\ adapter \in Adapters
  /\ flags.batch.rows \in Nat /\ flags.n \in Nat
  /\ limits \in Granted \cup {Defaults}
  /\ lanes \in {0, adapter.lanes}
  /\ path \in {"portable", "fused", "spirv"}
  /\ batchSize \in Nat /\ done \in Int

\* Devices are numbered in the order they are opened.
Numbered ==
  /\ removed \subseteq {1} /\ ctx \in {0, 2}
  /\ stage = "start" => devices = 0 /\ ctx = 0
  /\ stage = "probed" => devices = 1 /\ ctx = 0
  /\ stage \notin {"start", "probed", "died"} => devices = 2

Suited ==
  stage \in Hashing \cup {"selected"} =>
    /\ path = "fused" => FusedRuns
    /\ path = "spirv" => NativeRuns

\* Where main got the limits it asked for, or only the defaults.
InFull == limits.binding # 0 /\ limits \in {Asked, Defaults}

Fitting ==
  stage \in Hashing =>
    /\ Accepted(batchSize)
    /\ path = "spirv" \/ InFull => Within(Allocated(batchSize), limits.size)

Counted ==
  /\ stage \notin {"benched", "died"} => done <= flags.n
  /\ stage \notin {"benched", "died", "bench"} => done = 0
  /\ stage = "benched" => done = flags.n

StartInv == StartTypeOK /\ Numbered /\ Suited /\ Fitting /\ Counted

\* More rows take more bytes.
LEMMA RowsMonotone == ASSUME NEW r \in Nat, NEW a \in Int, NEW b \in Int, a <= b PROVE a * r <= b * r
  OBVIOUS

\* The rows of a limit fit it, and a limit of a row or more has some.
LEMMA RowsFit == ASSUME NEW r \in Nat \ {0}, NEW x \in Nat
                 PROVE  /\ x \div r \in Nat /\ (x \div r) * r <= x /\ x < (x \div r) * r + r
                        /\ x >= r => x \div r > 0
  <1>1. x \div r \in Nat /\ (x \div r) * r <= x /\ x < (x \div r) * r + r
    OBVIOUS
  <1>2. ASSUME x >= r PROVE x \div r > 0
    BY <1>1, <1>2
  <1>. QED BY <1>1, <1>2

\* A remainder determines quotient and remainder.
LEMMA Division ==
  ASSUME NEW r \in Nat \ {0}, NEW q \in Nat, NEW x \in Nat, x < r
  PROVE  /\ q * r + x \in Nat
         /\ (q * r + x) \div r = q /\ (q * r + x) % r = x
  <1> DEFINE n == q * r + x
             d == n \div r
  <1>1. n \in Nat
    OBVIOUS
  <1>2. d \in Nat /\ d * r <= n /\ n < d * r + r
    BY <1>1, RowsFit
  <1>3. d * r \in Nat /\ q * r \in Nat
    BY <1>2
  <1>4. d = q
    <2>1. ASSUME d < q PROVE FALSE
      <3>1. (d + 1) * r <= q * r /\ (d + 1) * r = d * r + r
        BY <1>2, <2>1, RowsMonotone
      <3>. QED BY <1>2, <1>3, <3>1
    <2>2. ASSUME q < d PROVE FALSE
      <3>1. (q + 1) * r <= d * r /\ (q + 1) * r = q * r + r
        BY <1>2, <2>2, RowsMonotone
      <3>. QED BY <1>2, <1>3, <3>1
    <2>. QED BY <1>2, <2>1, <2>2
  <1>5. n % r = n - r * d
    BY <1>1
  <1>. QED BY <1>1, <1>3, <1>4, <1>5

\* What the assumptions say of the limits a device may have: a reported binding
\* holds a row, and what main asks for a buffer holds a binding.
LEMMA LimitsHold ==
  ASSUME StartTypeOK
  PROVE  /\ RowBytes \in Nat \ {0}
         /\ limits.binding \in Nat /\ limits.size \in Nat
         /\ limits.binding = 0 \/ limits.binding >= RowBytes
         /\ InFull => limits.binding <= limits.size
  <1>1. RowBytes \in Nat \ {0}
    BY StartupAssumption DEF RowBytes
  <1>2. CASE limits = Defaults
    BY <1>1, <1>2, StartupAssumption
  <1>3. CASE limits \in Granted
    <2>1. /\ adapter.binding \in Bindings /\ adapter.size \in Sizes
          /\ Asked.binding = adapter.binding
          /\ Asked.size = IF adapter.binding > adapter.size THEN adapter.binding ELSE adapter.size
      BY DEF StartTypeOK, Adapters, Asked
    <2>2. /\ limits.binding \in Bindings \cup {Asked.binding}
          /\ limits.size \in Sizes \cup {Asked.size}
      BY <1>3 DEF Granted, Fewer
    <2>3. /\ Bindings \subseteq Nat /\ Sizes \subseteq Nat
          /\ \A x \in Bindings : x = 0 \/ x >= RowBytes
          /\ Defaults.binding <= Defaults.size
      BY StartupAssumption
    <2>4. limits.binding \in Bindings /\ limits.size \in Nat
      BY <2>1, <2>2, <2>3
    <2>5. InFull => limits.binding <= limits.size
      <3>1. limits = Asked => limits.binding <= limits.size
        <4>1. adapter.binding \in Nat /\ adapter.size \in Nat
          BY <2>1, <2>3
        <4>. QED BY <2>1, <4>1
      <3>2. limits = Defaults => limits.binding <= limits.size
        BY <2>3
      <3>. QED BY <3>1, <3>2 DEF InFull
    <2>. QED BY <1>1, <2>3, <2>4, <2>5
  <1>. QED BY <1>2, <1>3 DEF StartTypeOK

\* A clamped batch is accepted, and allocated where the limits were granted in full.
LEMMA ClampFits ==
  ASSUME StartTypeOK,
         path = "fused" => FusedRuns, path = "spirv" => NativeRuns
  PROVE  /\ Clamped \in Nat /\ Accepted(Clamped)
         /\ path = "spirv" \/ InFull => Within(Allocated(Clamped), limits.size)
  <1> DEFINE r == RowBytes
             n == Clamped
             slab == limits.binding \div r
  <1>1. /\ r \in Nat \ {0} /\ limits.binding \in Nat /\ limits.size \in Nat
        /\ limits.binding = 0 \/ limits.binding >= r
        /\ InFull => limits.binding <= limits.size
    BY LimitsHold
  <1>2. batchSize \in Nat /\ SPIRVBatchSize \in Nat /\ SpirvRows \in Nat /\ SpirvRows <= SPIRVBatchSize /\ Descriptors \in Nat
    BY StartupAssumption DEF StartTypeOK
  <1>3. PathBatch \in Nat /\ (path = "spirv" => PathBatch <= SPIRVBatchSize)
    BY <1>2 DEF PathBatch, AtMost
  <1>4. slab \in Nat /\ slab * r <= limits.binding /\ (limits.binding >= r => slab > 0)
    BY <1>1, RowsFit
  <1>5. /\ n \in Nat /\ n <= PathBatch
        /\ slab > 0 => n <= slab
    BY <1>3, <1>4 DEF Clamped, AtMost, MaxSlab
  <1> HIDE DEF n, r, slab
  <1>6. n * r <= limits.binding \/ limits.binding = 0
    <2>1. CASE limits.binding = 0
      BY <2>1
    <2>2. CASE limits.binding >= r
      <3>1. n <= slab
        BY <1>4, <1>5, <2>2
      <3>2. n * r <= slab * r
        BY <1>1, <1>4, <1>5, <3>1, RowsMonotone
      <3>3. n * r \in Int /\ slab * r \in Int
        BY <1>1, <1>4, <1>5
      <3>. QED BY <1>1, <1>4, <3>2, <3>3
    <2>. QED BY <1>1, <2>1, <2>2
  <1>7. n * r \in Int /\ SpirvRows * r \in Nat /\ SPIRVBatchSize * r \in Nat
    BY <1>1, <1>2, <1>5
  <1>8. SpirvRows * r <= SPIRVBatchSize * r
    BY <1>1, <1>2, RowsMonotone
  <1>9. CASE path = "spirv"
    <2>1. CanSPIRV
      BY <1>9 DEF NativeRuns
    <2>2. /\ limits.binding = 0 \/ limits.binding >= SPIRVBatchSize * r
          /\ limits.binding = 0 \/ limits.binding >= Descriptors
          /\ limits.size = 0 \/ limits.size >= SPIRVBatchSize * r
      <3> DEFINE required == IF Descriptors > SPIRVBatchSize * r THEN Descriptors ELSE SPIRVBatchSize * r
      <3>1. /\ limits.binding = 0 \/ limits.binding >= required
            /\ limits.size = 0 \/ limits.size >= required
        BY <2>1 DEF CanSPIRV, r
      <3>2. required >= SPIRVBatchSize * r /\ required >= Descriptors /\ required \in Nat
        BY <1>2, <1>7
      <3> HIDE DEF required
      <3>. QED BY <1>1, <1>2, <1>7, <3>1, <3>2
    <2>3. n <= SPIRVBatchSize
      BY <1>2, <1>3, <1>5, <1>9
    <2>4. Accepted(n)
      BY <1>1, <1>2, <1>7, <1>8, <1>9, <2>1, <2>2, <2>3 DEF Accepted, Within, SessionRows, r
    <2>5. Within(Allocated(n), limits.size)
      BY <1>1, <1>7, <1>9, <2>2 DEF Within, Allocated, r
    <2>. QED BY <1>5, <2>4, <2>5 DEF n
  <1>10. CASE path # "spirv"
    <2>1. Accepted(n)
      BY <1>1, <1>6, <1>7, <1>10 DEF Accepted, Within, SessionRows, FusedRuns, r
    <2>2. ASSUME InFull PROVE Within(Allocated(n), limits.size)
      <3>1. limits.binding # 0
        BY <2>2 DEF InFull
      <3>. QED BY <1>1, <1>6, <1>7, <1>10, <2>2, <3>1 DEF Within, Allocated, r
    <2>. QED BY <1>5, <1>10, <2>1, <2>2 DEF n
  <1>. QED BY <1>9, <1>10

LEMMA StartBegins == ASSUME Init PROVE StartInv
  <1>1. adapter \in Adapters /\ flags.n \in Nat /\ flags.batch.rows \in Nat
    <2>1. adapter \in Adapters /\ flags.batch \in Batches /\ flags.n \in BenchSizes
      BY DEF Init
    <2>2. DefaultBatch \in Nat /\ BatchFlags \subseteq Nat /\ BenchSizes \subseteq Nat
      BY StartupAssumption
    <2>3. \A b \in Batches : b.rows = DefaultBatch \/ b.rows \in BatchFlags
      <3>1. \A b : b = [set |-> FALSE, rows |-> DefaultBatch] => b.rows = DefaultBatch
        OBVIOUS
      <3>2. \A b \in [set : {TRUE}, rows : BatchFlags] : b.rows \in BatchFlags
        OBVIOUS
      <3>. QED BY <3>1, <3>2, Zenon DEF Batches
    <2>. QED BY <2>1, <2>2, <2>3
  <1>2. StartTypeOK
    BY <1>1 DEF Init, StartTypeOK
  <1>. QED BY <1>1, <1>2 DEF Init, StartInv, Numbered, Suited, Fitting, Counted, Hashing

LEMMA StartSteps ==
  ASSUME StartInv, [Next]_vars
  PROVE  StartInv'
  <1> USE DEF StartInv
  <1>1. CASE ProbeSubgroupSize
    <2>1. StartTypeOK'
      BY <1>1 DEF ProbeSubgroupSize, Opened, NewCtxBackend, StartTypeOK, Asked, Granted
    <2>2. Numbered'
      <3>1. devices = 0 /\ ctx = 0 /\ stage' = "probed" /\ devices' = 1 /\ ctx' = 0
        BY <1>1 DEF ProbeSubgroupSize, Opened, ProbeDevice, Numbered
      <3>2. removed' \in {{}, {1}, removed}
        BY <1>1, <3>1 DEF ProbeSubgroupSize
      <3>. QED BY <3>1, <3>2 DEF Numbered
    <2>. QED BY <1>1, <2>1, <2>2 DEF ProbeSubgroupSize, Opened, Suited, Fitting, Counted, Hashing
  <1>2. CASE OpenCtx
    BY <1>2 DEF OpenCtx, Opened, MiningDevice, NewCtxBackend,
                StartTypeOK, Numbered, Suited, Fitting, Counted, Hashing, Asked, Granted
  <1>3. CASE SelectPath
    BY <1>3 DEF SelectPath, Keep, Selected, FusedRuns, NativeRuns, CanFuse, CanSPIRV,
                StartTypeOK, Numbered, Suited, Fitting, Counted, Hashing, Asked, Granted
  <1>4. CASE NoPath
    BY <1>4 DEF NoPath, Keep,
                StartTypeOK, Numbered, Suited, Fitting, Counted, Hashing, Asked, Granted
  <1>5. CASE Clamp
    <2>1. Suited' /\ (path = "fused" => FusedRuns) /\ (path = "spirv" => NativeRuns)
      BY <1>5 DEF Clamp, Keep, Suited, Hashing, FusedRuns, NativeRuns,
                  CanFuse, CanSPIRV
    <2>2. /\ batchSize' = Clamped /\ batchSize' \in Nat /\ Accepted(batchSize')
          /\ path = "spirv" \/ InFull => Within(Allocated(batchSize'), limits.size)
      BY <1>5, <2>1, ClampFits DEF Clamp
    <2>3. Fitting'
      BY <1>5, <2>2 DEF Clamp, Keep, Fitting, Accepted, Within, SessionRows,
                        Allocated, InFull, Granted, Asked, CanFuse, CanSPIRV
    <2>. QED BY <1>5, <2>1, <2>2, <2>3 DEF Clamp, Keep, StartTypeOK, Numbered, Counted, Asked, Granted
  <1>6. CASE SelfTest
    BY <1>6 DEF SelfTest, Keep, FusedRuns, NativeRuns, CanFuse, CanSPIRV,
                Accepted, Within, SessionRows, Allocated, InFull,
                StartTypeOK, Numbered, Suited, Fitting, Counted, Hashing, Asked, Granted
  <1>7. CASE RunBench
    <2>1. StartTypeOK' /\ Counted'
      BY <1>7 DEF RunBench, Chunk, Keep, StartTypeOK, Counted, Asked, Granted
    <2>. QED BY <1>7, <2>1 DEF RunBench, Keep, Asked, FusedRuns, NativeRuns, CanFuse, CanSPIRV,
                Accepted, Within, SessionRows, Allocated, InFull,
                Numbered, Suited, Fitting, Hashing
  <1>8. CASE RunBenchStream
    <2>1. ASSUME batchSize # 0 PROVE done' = flags.n
      <3> DEFINE x == flags.n + batchSize - 1
                 nb == x \div batchSize
      <3>1. batchSize \in Nat \ {0} /\ x \in Nat /\ flags.n \in Nat
        BY <2>1 DEF StartTypeOK
      <3>2. nb \in Nat /\ x < nb * batchSize + batchSize
        BY <3>1, RowsFit
      <3>3. nb * batchSize \in Nat /\ nb * batchSize >= flags.n
        BY <3>1, <3>2
      <3>. QED BY <1>8, <2>1, <3>1, <3>3 DEF RunBenchStream, AtMost
    <2>2. StartTypeOK' /\ Counted'
      BY <1>8, <2>1 DEF RunBenchStream, Keep, StartTypeOK, Counted, Asked, Granted
    <2>. QED BY <1>8, <2>2 DEF RunBenchStream, Keep, Asked, FusedRuns, NativeRuns, CanFuse, CanSPIRV,
                Accepted, Within, SessionRows, Allocated, InFull,
                Numbered, Suited, Fitting, Hashing
  <1>9. CASE BenchFails
    BY <1>9 DEF BenchFails, Keep,
                StartTypeOK, Numbered, Suited, Fitting, Counted, Hashing, Asked, Granted
  <1>10. CASE UNCHANGED vars
    BY <1>10 DEF vars, FusedRuns, NativeRuns, CanFuse, CanSPIRV,
                Accepted, Within, SessionRows, Allocated, InFull,
                StartTypeOK, Numbered, Suited, Fitting, Counted, Hashing, Asked, Granted
  <1>. QED
    BY <1>1, <1>2, <1>3, <1>4, <1>5, <1>6, <1>7, <1>8, <1>9, <1>10 DEF Next, Main

\* Whatever the adapter, the flags, and what RequestDevice hands back of the limits
\* asked for: the device that hashes is not the one the probe may have removed
\* (device.go:149), has the lanes its kernels need, and no batch the program
\* hashes is refused by a guard of a session's build (main.go:121); nor by the
\* allocator, on the native path, or where the raised request (device.go:236) or
\* the defaults were granted in full.
THEOREM MinerSuitsDevice == Spec => []DeviceSuitsMiner
  <1>1. Init => StartInv
    BY StartBegins
  <1>2. StartInv /\ [Next]_vars => StartInv'
    BY StartSteps
  <1>3. StartInv => DeviceSuitsMiner
    BY DEF StartInv, StartTypeOK, Numbered, Suited, Fitting, DeviceSuitsMiner, BatchIsAccepted,
           BatchIsAllocated, InFull, PathSuitsDevice, MiningDeviceLives, NativeRuns, FusedRuns, CanSPIRV, Hashing, Batching
  <1>. QED BY <1>1, <1>2, <1>3, PTL DEF Spec

\* "hash N inputs ... and report H/s" (main.go:41): a benchmark that ends has
\* hashed what it was asked for, with a batch size that divides it or not.
THEOREM BenchIsExact == Spec => []BenchCounts
  <1>1. Init => StartInv
    BY StartBegins
  <1>2. StartInv /\ [Next]_vars => StartInv'
    BY StartSteps
  <1>3. StartInv => BenchCounts
    BY DEF StartInv, Counted, BenchCounts
  <1>. QED BY <1>1, <1>2, <1>3, PTL DEF Spec

-----------------------------------------------------------------------------
(* The sweep.  What the pipe, the scanner and the channel hold is what this *)
(* child printed, because each combination has its own; a child that is     *)
(* killed or waited for has ended.                                          *)

Outcomes == Sweep!Results \cup {Sweep!None, Sweep!Missing, Sweep!TimedOut}

SweepTypeOK ==
  /\ records \in Seq(Outcomes) /\ printedBy \in Seq(Outcomes)
  /\ printed \in Sweep!Results \cup {Sweep!None}
  /\ found \in Sweep!Results \cup {Sweep!None}

OwnRecord ==
  /\ pipe \in Sweep!Results => pipe = printed
  /\ scanner \in Sweep!Results => scanner = printed
  /\ found \in Sweep!Results => found = printed

OwnRecords ==
  /\ Len(records) = Len(printedBy)
  /\ \A k \in 1 .. Len(records) : records[k] \in Sweep!Results => records[k] = printedBy[k]

Ended ==
  /\ waited \/ main \in {"killed", "late"} => child = "exited"
  /\ Sweep!OneChild

SweepInv == SweepTypeOK /\ OwnRecord /\ OwnRecords /\ Ended

\* A sequence with one more element.
LEMMA OneMore ==
  ASSUME NEW S, NEW a \in Seq(S), NEW x \in S
  PROVE  /\ Append(a, x) \in Seq(S) /\ Len(a) \in Nat /\ Len(Append(a, x)) = Len(a) + 1
         /\ Append(a, x)[Len(a) + 1] = x
         /\ \A k \in 1 .. Len(a) : Append(a, x)[k] = a[k]
  OBVIOUS

\* One more record, that is the child's own if it is a result.
LEMMA Recorded ==
  ASSUME SweepInv, NEW r \in Outcomes, NEW q \in Outcomes, r \in Sweep!Results => r = q,
         records' = Append(records, r), printedBy' = Append(printedBy, q)
  PROVE  records' \in Seq(Outcomes) /\ printedBy' \in Seq(Outcomes) /\ OwnRecords'
  <1>1. /\ records' \in Seq(Outcomes) /\ printedBy' \in Seq(Outcomes)
        /\ Len(records') = Len(records) + 1 /\ Len(printedBy') = Len(printedBy) + 1
        /\ Len(records) = Len(printedBy) /\ Len(records) \in Nat
    BY OneMore DEF SweepInv, SweepTypeOK, OwnRecords
  <1>2. ASSUME NEW k \in 1 .. Len(records'), records'[k] \in Sweep!Results
        PROVE  records'[k] = printedBy'[k]
    <2>1. CASE k = Len(records) + 1
      <3>1. records'[k] = r /\ printedBy'[k] = q
        BY <1>1, <2>1, OneMore DEF SweepInv, SweepTypeOK
      <3>. QED BY <1>2, <3>1
    <2>2. CASE k \in 1 .. Len(records)
      <3>1. records'[k] = records[k] /\ printedBy'[k] = printedBy[k]
        BY <1>1, <2>2, OneMore DEF SweepInv, SweepTypeOK
      <3>. QED BY <1>2, <2>2, <3>1 DEF SweepInv, OwnRecords
    <2>. QED BY <1>1, <2>1, <2>2
  <1>. QED BY <1>1, <1>2 DEF OwnRecords

LEMMA SweepBegins == Sweep!Init => SweepInv
  BY DEF Sweep!Init, SweepInv, SweepTypeOK, OwnRecord, OwnRecords, Ended, Sweep!Results, Sweep!None,
         Sweep!OneChild

\* The combination is over: what runCombo returns is a record, or no result.
LEMMA SweepReturns ==
  ASSUME SweepInv, Sweep!ChildOver \/ Sweep!Finished
  PROVE  SweepInv'
  <1>1. PICK r : Sweep!Return(r) /\ r \in {found, Sweep!Missing, Sweep!TimedOut}
    BY DEF Sweep!ChildOver, Sweep!Finished
  <1>2. waited /\ UNCHANGED <<child, printed, pipe, scanner, found, waited>>
    BY DEF Sweep!ChildOver, Sweep!Finished
  <1>3. records' = Append(records, r) /\ printedBy' = Append(printedBy, printed) /\ main' = "next"
    BY <1>1 DEF Sweep!Return
  <1>4. r \in Outcomes /\ printed \in Outcomes /\ (r \in Sweep!Results => r = printed)
    BY <1>1 DEF SweepInv, SweepTypeOK, OwnRecord, Outcomes, Sweep!Results,
                Sweep!None, Sweep!Missing, Sweep!TimedOut
  <1>5. records' \in Seq(Outcomes) /\ printedBy' \in Seq(Outcomes) /\ OwnRecords'
    BY <1>3, <1>4, Recorded
  <1>. QED BY <1>2, <1>3, <1>5 DEF SweepInv, SweepTypeOK, OwnRecord, Ended, Sweep!OneChild

\* Whatever leaves the records alone keeps what is said of them.
LEMMA RecordsStay ==
  ASSUME SweepInv, UNCHANGED <<records, printedBy>>
  PROVE  records' \in Seq(Outcomes) /\ printedBy' \in Seq(Outcomes) /\ OwnRecords'
  BY DEF SweepInv, SweepTypeOK, OwnRecords

LEMMA SweepSteps == ASSUME SweepInv, [Sweep!Next]_(Sweep!vars) PROVE SweepInv'
  <1> USE DEF Sweep!Results, Sweep!None
  <1>1. CASE Sweep!Start
    BY <1>1, RecordsStay DEF Sweep!Start, Sweep!NewFound, SweepInv, SweepTypeOK, OwnRecord, Ended, Sweep!OneChild
  <1>2. CASE Sweep!StartFails
    <2>1. records' \in Seq(Outcomes) /\ printedBy' \in Seq(Outcomes) /\ OwnRecords'
      <3>1. "fail" \in Outcomes /\ records' = Append(records, "fail") /\ printedBy' = Append(printedBy, "fail")
        BY <1>2 DEF Sweep!StartFails, Outcomes
      <3>. QED BY <3>1, Recorded
    <2>. QED BY <1>2, <2>1 DEF Sweep!StartFails, SweepInv, SweepTypeOK, OwnRecord, Ended, Sweep!OneChild
  <1>3. CASE Sweep!GotRecord \/ Sweep!Timeout \/ Sweep!GraceTimer
    <2>1. UNCHANGED <<records, printedBy, printed, pipe, scanner, found, waited>>
      BY <1>3 DEF Sweep!GotRecord, Sweep!Timeout, Sweep!GraceTimer, Sweep!GraceOver
    <2>2. Ended'
      BY <1>3 DEF Sweep!GotRecord, Sweep!Timeout, Sweep!GraceTimer, Sweep!GraceOver, Sweep!Killed,
                  SweepInv, Ended, Sweep!OneChild
    <2>. QED BY <2>1, <2>2, RecordsStay DEF SweepInv, SweepTypeOK, OwnRecord
  <1>4. CASE Sweep!ChildOver \/ Sweep!Finished
    BY <1>4, SweepReturns
  <1>5. CASE Sweep!Scan
    BY <1>5, RecordsStay DEF Sweep!Scan, SweepInv, SweepTypeOK, OwnRecord, Ended, Sweep!OneChild
  <1>6. CASE Sweep!Send
    BY <1>6, RecordsStay DEF Sweep!Send, SweepInv, SweepTypeOK, OwnRecord, Ended, Sweep!OneChild
  <1>7. CASE Sweep!Wait
    BY <1>7, RecordsStay DEF Sweep!Wait, SweepInv, SweepTypeOK, OwnRecord, Ended, Sweep!OneChild
  <1>8. CASE Sweep!PrintRecord
    BY <1>8, RecordsStay DEF Sweep!PrintRecord, SweepInv, SweepTypeOK, OwnRecord, Ended, Sweep!OneChild
  <1>9. CASE Sweep!Exit
    BY <1>9, RecordsStay DEF Sweep!Exit, SweepInv, SweepTypeOK, OwnRecord, Ended, Sweep!OneChild
  <1>10. CASE UNCHANGED Sweep!vars
    BY <1>10, RecordsStay DEF Sweep!vars, SweepInv, SweepTypeOK, OwnRecord, Ended, Sweep!OneChild
  <1>. QED BY <1>1, <1>2, <1>3, <1>4, <1>5, <1>6, <1>7, <1>8, <1>9, <1>10 DEF Sweep!Next, Sweep!RunCombo

\* For any number of combinations, whichever child crashes, hangs or is killed
\* late: a combination recorded with a result was given it by its own child, and
\* the next child starts only when the last was waited for (verifybackends
\* main.go:5).
THEOREM SweepIsOwn == Sweep!Spec => [](Sweep!RecordsAreOwn /\ Sweep!OneChild)
  <1>1. SweepInv => Sweep!RecordsAreOwn /\ Sweep!OneChild
    <2>1. SweepInv => DOMAIN records = 1 .. Len(records)
      BY DEF SweepInv, SweepTypeOK
    <2>. QED BY <2>1 DEF SweepInv, OwnRecords, Ended, Sweep!RecordsAreOwn
  <1>. QED BY <1>1, SweepBegins, SweepSteps, PTL DEF Sweep!Spec

-----------------------------------------------------------------------------
(* The loop over the tries.  A new template starts at most once per try,   *)
(* and not in the first.  The markers of the templates that have ended say  *)
(* where RC4 ran (Marked), and the open one reaches to the last try (Open). *)

TriesTypeOK ==
  /\ pc \in {"loop", "done"} /\ tries \in Nat /\ templateIdx \in Nat /\ nTemplates \in Nat
  /\ data_len \in Nat

Counting ==
  /\ tries <= IF pc = "loop" THEN MinTries + ExtraTries ELSE Tries!MaxTries
  /\ templateIdx = 0 \/ templateIdx < tries
  /\ nTemplates <= Tries!MaxTries
  /\ written = tries * Group

Cut == pc = "done" => data_len > 0 /\ data_len < written

TriesInv == TriesTypeOK /\ Counting /\ Cut

\* The chunks of any number of tries fit.
LEMMA TriesAreMore ==
  ASSUME Tries!LoopAssumption, NEW t \in Nat, t <= Tries!MaxTries
  PROVE  t * Group \in Nat /\ t * Group <= MAX_LENGTH
  <1>1. Group \in Nat /\ Tries!MaxTries \in Nat /\ MAX_LENGTH = Tries!MaxTries * Group
    BY DEF Tries!LoopAssumption, Tries!MaxTries
  <1>. QED BY <1>1, RowsMonotone

\* The cut takes four chunks and gives back less.
LEMMA CutIsShorter ==
  ASSUME Tries!LoopAssumption, NEW t \in Nat, t > MinTries, NEW tail \in 0 .. MaxTail
  PROVE  /\ Tries!StreamLen(t, tail) \in Nat
         /\ Tries!StreamLen(t, tail) > 0 /\ Tries!StreamLen(t, tail) < t * Group
  <1>1. Group \in Nat \ {0} /\ tail \in Nat /\ tail < 4 * Group /\ t - 4 \in Nat \ {0}
    BY DEF Tries!LoopAssumption
  <1>2. (t - 4) * Group = t * Group - 4 * Group /\ t * Group \in Nat
    BY <1>1
  <1>3. 1 * Group <= (t - 4) * Group
    BY <1>1, RowsMonotone
  <1>. QED BY <1>1, <1>2, <1>3 DEF Tries!StreamLen

\* The two kinds of step keep the counters in range.
LEMMA TryCounts ==
  ASSUME Tries!LoopAssumption, TriesInv, NEW rc4 \in BOOLEAN, NEW high \in BOOLEAN, Tries!Try(rc4, high)
  PROVE  TriesInv'
  <1>1. /\ MinTries \in Nat /\ ExtraTries \in Nat /\ Tries!MaxTries = MinTries + ExtraTries + 1
    BY DEF Tries!LoopAssumption, Tries!MaxTries
  <1>2. /\ pc = "loop" /\ tries' = tries + 1 /\ written' = (tries + 1) * Group
        /\ UNCHANGED <<pc, nTemplates, data_len>>
        /\ tries + 1 <= MinTries + ExtraTries
    BY <1>1 DEF Tries!Try, Tries!Stops, TriesInv, TriesTypeOK
  <1>3. templateIdx' \in Nat /\ (templateIdx' = 0 \/ templateIdx' < tries + 1)
    BY DEF Tries!Try, Tries!Bookkeeping, Tries!NewTemplate, TriesInv, TriesTypeOK, Counting
  <1>. QED BY <1>1, <1>2, <1>3 DEF TriesInv, TriesTypeOK, Counting, Cut

LEMMA LastTryCounts ==
  ASSUME Tries!LoopAssumption, TriesInv, NEW rc4 \in BOOLEAN, NEW high \in BOOLEAN,
         NEW tail \in 0 .. MaxTail, Tries!LastTry(rc4, high, tail)
  PROVE  TriesInv'
  <1>1. /\ MinTries \in Nat /\ ExtraTries \in Nat /\ Tries!MaxTries = MinTries + ExtraTries + 1
    BY DEF Tries!LoopAssumption, Tries!MaxTries
  <1>2. pc' = "done" /\ written' = (tries + 1) * Group /\ data_len' = Tries!StreamLen(tries + 1, tail)
    BY DEF Tries!LastTry
  <1>3. /\ pc = "loop" /\ tries' = tries + 1
        /\ tries + 1 > MinTries /\ tries \in Nat /\ tries <= MinTries + ExtraTries
    BY <1>1 DEF Tries!LastTry, Tries!Stops, TriesInv, TriesTypeOK, Counting
  <1>4. PICK idx \in Nat : templateIdx' = idx /\ nTemplates' = idx + 1
    BY DEF Tries!LastTry, Tries!NewTemplate, TriesInv, TriesTypeOK
  <1>5. idx = 0 \/ idx < tries + 1
    BY <1>4 DEF Tries!LastTry, Tries!NewTemplate, TriesInv, TriesTypeOK, Counting
  <1>6. data_len' \in Nat /\ data_len' > 0 /\ data_len' < written'
    BY <1>2, <1>3, CutIsShorter
  <1>7. nTemplates' \in Nat /\ nTemplates' <= tries + 1
    BY <1>3, <1>4, <1>5
  <1>8. tries' \in Nat /\ tries' <= Tries!MaxTries /\ tries + 1 <= Tries!MaxTries
    BY <1>1, <1>3
  <1>9. Counting'
    BY <1>1, <1>2, <1>3, <1>4, <1>5, <1>7, <1>8 DEF Counting, Tries!MaxTries
  <1>. QED BY <1>2, <1>3, <1>4, <1>6, <1>7, <1>8, <1>9 DEF TriesInv, TriesTypeOK, Cut

LEMMA TriesBegin == ASSUME Tries!LoopAssumption, Tries!Init PROVE TriesInv
  BY DEF Tries!LoopAssumption, Tries!MaxTries, Tries!Init, TriesInv, TriesTypeOK, Counting, Cut

\* A stream of fewer bytes than the tries have written has fewer groups than tries.
LEMMA FlagsHaveRoom ==
  ASSUME Tries!LoopAssumption, TriesInv, pc = "done"
  PROVE  /\ data_len > 0 /\ data_len # 0
         /\ Tries!FlagsLen(data_len) \in Nat \ {0} /\ Tries!FlagsLen(data_len) <= tries
         /\ Tries!FlagsLen(data_len) <= MarkerSlots /\ ~(MarkerSlots < Tries!FlagsLen(data_len))
  <1>1. /\ data_len \in Nat /\ data_len > 0 /\ data_len < tries * Group /\ Group \in Nat \ {0}
        /\ tries \in Nat /\ tries <= Tries!MaxTries /\ Tries!MaxTries \in Nat
        /\ MarkerSlots \in Nat /\ MarkerSlots > Tries!MaxTries
    BY DEF TriesInv, TriesTypeOK, Counting, Cut, Tries!LoopAssumption, Tries!MaxTries
  <1>2. PICK g \in Nat : g = data_len \div Group
    BY <1>1, RowsFit
  <1>3. g < tries
    <2>1. g * Group <= data_len /\ g * Group \in Nat
      BY <1>1, <1>2, RowsFit
    <2>2. SUFFICES ASSUME tries <= g PROVE FALSE
      BY <1>1
    <2>3. tries * Group <= g * Group /\ tries * Group \in Nat
      BY <1>1, <2>2, RowsMonotone
    <2>. QED BY <1>1, <2>1, <2>3
  <1>4. Tries!FlagsLen(data_len) = g + 1
    BY <1>2 DEF Tries!FlagsLen
  <1>. QED BY <1>1, <1>3, <1>4

\* What the invariant counts bounds every index of the hash's loop.
LEMMA TriesSound ==
  ASSUME Tries!LoopAssumption, TriesInv
  PROVE  Tries!InBounds /\ Tries!StreamIsFresh
  <1>1. /\ Tries!MaxTries \in Nat /\ MarkerSlots \in Nat /\ MarkerSlots > Tries!MaxTries
        /\ Padding >= 4 /\ Padding \in Nat /\ Group \in Nat \ {0} /\ Tries!MaxTries >= 1
        /\ MinTries + ExtraTries <= Tries!MaxTries /\ MinTries + ExtraTries \in Nat
    BY DEF Tries!LoopAssumption, Tries!MaxTries
  <1>2. tries \in Nat /\ tries <= Tries!MaxTries /\ templateIdx \in Nat /\ templateIdx <= Tries!MaxTries
    BY <1>1 DEF TriesInv, TriesTypeOK, Counting
  <1>3. written \in Nat /\ written <= MAX_LENGTH /\ MAX_LENGTH \in Nat
    BY <1>1, <1>2, TriesAreMore DEF TriesInv, Counting, Tries!LoopAssumption
  <1>4. ASSUME pc = "done"
        PROVE  Tries!FlagsLen(data_len) <= MarkerSlots
    BY <1>4, FlagsHaveRoom
  <1>. QED BY <1>1, <1>2, <1>3, <1>4
           DEF TriesInv, TriesTypeOK, Counting, Cut, Tries!InBounds, Tries!StreamIsFresh

\* However many tries a hash takes and wherever RC4 starts a template: every
\* marker, chunk, cleared byte and flag is inside its array (pow.go:2426), and
\* the stream is of this hash alone although the scratch is reused.
THEOREM TriesInBounds == Tries!Spec => [](Tries!InBounds /\ Tries!StreamIsFresh)
  <1> USE TriesAssumption
  <1>1. Tries!Init => TriesInv
    BY TriesBegin
  <1>2. TriesInv /\ [Tries!Next]_(Tries!vars) => TriesInv'
    <2>1. ASSUME TriesInv, UNCHANGED Tries!vars PROVE TriesInv'
      BY <2>1 DEF Tries!vars, TriesInv, TriesTypeOK, Counting, Cut
    <2>2. ASSUME TriesInv, Tries!Next PROVE TriesInv'
      <3>1. PICK rc4 \in BOOLEAN, high \in BOOLEAN :
              Tries!Try(rc4, high) \/ \E tail \in 0 .. MaxTail : Tries!LastTry(rc4, high, tail)
        BY <2>2, Zenon DEF Tries!Next
      <3>2. CASE Tries!Try(rc4, high)
        BY <2>2, <3>2, TryCounts
      <3>3. ASSUME NEW tail \in 0 .. MaxTail, Tries!LastTry(rc4, high, tail) PROVE TriesInv'
        BY <2>2, <3>3, LastTryCounts
      <3>. QED BY <3>1, <3>2, <3>3
    <2>. QED BY <2>1, <2>2
  <1>3. TriesInv => Tries!InBounds /\ Tries!StreamIsFresh
    BY TriesSound
  <1>. QED BY <1>1, <1>2, <1>3, PTL DEF Tries!Spec

\* Where a template ends once the tries in f have applied RC4: at the chunk of
\* each but the first of them, and for the first one chunk late, unless it was
\* try 1.
Ends(f, b) ==
  \/ b + 1 \in f /\ \E t \in f : t <= b
  \/ b \in f /\ b > 1 /\ \A t \in f : b <= t

\* The first n markers are those of the templates that have ended.
MarksEnd(f, ms, i) == \E b \in Nat : Tries!Boundary(ms[i]) = b /\ Tries!GroupCount(ms[i]) # 0 /\ Ends(f, b)
EndMarked(ms, n, b) == \E i \in 0 .. n - 1 : Tries!Boundary(ms[i]) = b
Marked(f, ms, n) ==
  /\ \A i \in 0 .. n - 1 : MarksEnd(f, ms, i)
  /\ \A b \in Nat : Ends(f, b) => EndMarked(ms, n, b)

\* The template that is open reaches to the try n.
Open(n, f, idx, first, count) ==
  /\ f \subseteq 1 .. n
  /\ idx \in Nat /\ first \in Nat /\ count \in Nat \ {0}
  /\ f = {} => idx = 0 /\ first = 0 /\ count = n + 1
  /\ f # {} => first + 1 \in f /\ (\A t \in f : t <= first + 1) /\ first + count = n
  /\ f # {} => \E m \in f : \A t \in f : m <= t

\* A marker whose count fits says where its template ends.
LEMMA MarkerIs ==
  ASSUME Tries!LoopAssumption, NEW first \in Nat, NEW count \in Nat \ {0}, count < CountCap
  PROVE  /\ Tries!Boundary(Tries!Marker(first, count)) = first + count
         /\ Tries!GroupCount(Tries!Marker(first, count)) # 0
  <1>1. CountCap \in Nat \ {0}
    BY DEF Tries!LoopAssumption
  <1>2. Tries!Marker(first, count) = first * CountCap + count
    BY DEF Tries!Marker
  <1>3. (first * CountCap + count) \div CountCap = first /\ (first * CountCap + count) % CountCap = count
    BY <1>1, Division
  <1>. QED BY <1>2, <1>3 DEF Tries!Boundary, Tries!StartGroup, Tries!GroupCount

\* The first try to apply RC4 ends the template of chunk 0 one chunk late.
LEMMA FirstEnd ==
  ASSUME NEW n \in Nat, NEW b \in Nat
  PROVE  Ends({n + 1}, b) <=> b = n + 1 /\ n > 0
  BY DEF Ends

\* Any later one ends the open template at its own chunk.
LEMMA NextEnd ==
  ASSUME NEW n \in Nat, NEW f \in SUBSET (1 .. n), f # {}, NEW b \in Nat
  PROVE  Ends(f \cup {n + 1}, b) <=> Ends(f, b) \/ b = n
  <1>1. PICK u \in f : u \in 1 .. n
    OBVIOUS
  <1>2. \A t \in f : t \in 1 .. n
    OBVIOUS
  <1>3. ASSUME Ends(f \cup {n + 1}, b) PROVE Ends(f, b) \/ b = n
    <2>1. CASE b + 1 \in f \cup {n + 1} /\ \E t \in f \cup {n + 1} : t <= b
      <3>1. CASE b + 1 = n + 1
        BY <3>1
      <3>2. CASE b + 1 \in f
        <4>1. b < n + 1 /\ \E t \in f : t <= b
          BY <1>2, <2>1, <3>2
        <4>. QED BY <3>2, <4>1 DEF Ends
      <3>. QED BY <2>1, <3>1, <3>2
    <2>2. CASE b \in f \cup {n + 1} /\ b > 1 /\ \A t \in f \cup {n + 1} : b <= t
      <3>1. b <= n
        BY <1>1, <2>2
      <3>. QED BY <2>2, <3>1 DEF Ends
    <2>. QED BY <1>3, <2>1, <2>2 DEF Ends
  <1>4. ASSUME Ends(f, b) PROVE Ends(f \cup {n + 1}, b)
    <2>1. CASE b + 1 \in f /\ \E t \in f : t <= b
      BY <2>1 DEF Ends
    <2>2. CASE b \in f /\ b > 1 /\ \A t \in f : b <= t
      BY <1>2, <2>2 DEF Ends
    <2>. QED BY <1>4, <2>1, <2>2 DEF Ends
  <1>5. ASSUME b = n PROVE Ends(f \cup {n + 1}, b)
    BY <1>1, <1>5 DEF Ends
  <1>. QED BY <1>3, <1>4, <1>5

\* Whatever else is written, the markers of ended templates stay.
LEMMA MarkedStays ==
  ASSUME NEW f, NEW ms, NEW m2, NEW idx \in Nat, Marked(f, ms, idx), \A i \in 0 .. idx - 1 : m2[i] = ms[i]
  PROVE  Marked(f, m2, idx)
  <1>1. ASSUME NEW i \in 0 .. idx - 1 PROVE MarksEnd(f, m2, i)
    BY <1>1 DEF Marked, MarksEnd
  <1>2. ASSUME NEW b \in Nat, Ends(f, b) PROVE EndMarked(m2, idx, b)
    <2>1. EndMarked(ms, idx, b)
      BY <1>2 DEF Marked
    <2>. QED BY <2>1 DEF EndMarked
  <1>. QED BY <1>1, <1>2 DEF Marked

\* The try n + 1 applies RC4 and ends the open template.
LEMMA MarkedGrows ==
  ASSUME Tries!LoopAssumption, NEW n \in Nat, n > 0, NEW f, NEW ms, NEW m2, NEW idx, NEW first, NEW count,
         Open(n, f, idx, first, count), count < CountCap, Marked(f, ms, idx),
         \A i \in 0 .. idx - 1 : m2[i] = ms[i], m2[idx] = Tries!Marker(first, count)
  PROVE  Marked(f \cup {n + 1}, m2, idx + 1)
  <1>1. idx \in Nat /\ first \in Nat /\ count \in Nat \ {0} /\ f \in SUBSET (1 .. n)
    BY DEF Open
  <1> DEFINE g == f \cup {n + 1}
             e == first + count
  <1>2. e \in Nat /\ Tries!Boundary(m2[idx]) = e /\ Tries!GroupCount(m2[idx]) # 0
    BY <1>1, MarkerIs
  <1>3. \A b \in Nat : Ends(g, b) <=> Ends(f, b) \/ b = e
    <2>1. CASE f = {}
      <3>1. g = {n + 1} /\ e = n + 1
        BY <2>1 DEF Open
      <3>2. \A b \in Nat : ~Ends(f, b)
        BY <2>1 DEF Ends
      <3>. QED BY <3>1, <3>2, FirstEnd
    <2>2. CASE f # {}
      <3>1. e = n
        BY <2>2 DEF Open
      <3>. QED BY <1>1, <2>2, <3>1, NextEnd
    <2>. QED BY <2>1, <2>2
  <1> HIDE DEF g, e
  <1>4. Marked(f, m2, idx)
    BY <1>1, MarkedStays
  <1>5. ASSUME NEW i \in 0 .. idx PROVE MarksEnd(g, m2, i)
    <2>1. CASE i = idx
      BY <1>2, <1>3, <2>1 DEF MarksEnd
    <2>2. CASE i # idx
      <3>1. i \in 0 .. idx - 1
        BY <1>1, <2>2
      <3>2. MarksEnd(f, m2, i)
        BY <1>4, <3>1 DEF Marked
      <3>. QED BY <1>3, <3>2 DEF MarksEnd
    <2>. QED BY <2>1, <2>2
  <1>6. ASSUME NEW b \in Nat, Ends(g, b) PROVE EndMarked(m2, idx + 1, b)
    <2>1. CASE b = e
      <3>1. idx \in 0 .. (idx + 1) - 1
        BY <1>1
      <3>. QED BY <1>2, <2>1, <3>1 DEF EndMarked
    <2>2. CASE b # e
      <3>1. EndMarked(m2, idx, b)
        BY <1>3, <1>4, <1>6, <2>2 DEF Marked
      <3>. QED BY <1>1, <3>1 DEF EndMarked
    <2>. QED BY <2>1, <2>2
  <1>7. (idx + 1) - 1 = idx
    BY <1>1
  <1>. QED BY <1>5, <1>6, <1>7 DEF Marked, g

\* RC4 comes often enough for the open template to fit its marker.
LEMMA CountFits ==
  ASSUME Tries!LoopAssumption, tries \in Nat, Open(tries, fired, templateIdx, firstChunk, chunkCount),
         Tries!NoLongTemplate
  PROVE  chunkCount < CountCap
  <1>1. CountCap \in Nat \ {0} /\ firstChunk \in Nat /\ chunkCount \in Nat
    BY DEF Tries!LoopAssumption, Open
  <1>2. SUFFICES ASSUME chunkCount >= CountCap PROVE FALSE
    BY <1>1
  <1>3. CASE fired = {}
    <2>1. 0 \in 0 .. tries - CountCap + 1
      BY <1>1, <1>2, <1>3 DEF Open
    <2>2. fired \cap 0 + 1 .. 0 + CountCap - 1 # {}
      BY <2>1 DEF Tries!NoLongTemplate
    <2>. QED BY <1>3, <2>2
  <1>4. CASE fired # {}
    <2>1. firstChunk + chunkCount = tries /\ \A t \in fired : t <= firstChunk + 1
      BY <1>4 DEF Open
    <2>2. firstChunk + 1 \in 0 .. tries - CountCap + 1
      BY <1>1, <1>2, <2>1
    <2>3. fired \cap (firstChunk + 1) + 1 .. (firstChunk + 1) + CountCap - 1 # {}
      BY <2>2 DEF Tries!NoLongTemplate
    <2>. QED BY <1>1, <2>1, <2>3
  <1>. QED BY <1>3, <1>4

\* A try opens a template, or goes on with the open one.
LEMMA OpenNew ==
  ASSUME NEW n \in Nat, NEW f, NEW idx, NEW first, NEW count, Open(n, f, idx, first, count)
  PROVE  Open(n + 1, f \cup {n + 1}, IF n + 1 > 1 THEN idx + 1 ELSE idx, n, 1)
  BY DEF Open

LEMMA OpenOn ==
  ASSUME NEW n \in Nat, NEW f, NEW idx, NEW first, NEW count, Open(n, f, idx, first, count)
  PROVE  Open(n + 1, f, idx, first, count + 1)
  BY DEF Open

\* What is long stays long.
LEMMA NoLongBefore ==
  ASSUME Tries!LoopAssumption, tries \in Nat, fired \subseteq 1 .. tries,
         tries' = tries + 1, fired' \subseteq fired \cup {tries + 1}, Tries!NoLongTemplate'
  PROVE  Tries!NoLongTemplate
  <1>1. CountCap \in Nat \ {0}
    BY DEF Tries!LoopAssumption
  <1>2. ASSUME NEW t \in 0 .. tries - CountCap + 1 PROVE fired \cap t + 1 .. t + CountCap - 1 # {}
    <2>1. PICK n, f : n = tries' /\ f = fired' /\ n = tries + 1 /\ f \subseteq fired \cup {tries + 1}
      OBVIOUS
    <2>2. \A u \in 0 .. n - CountCap + 1 : f \cap u + 1 .. u + CountCap - 1 # {}
      BY <2>1 DEF Tries!NoLongTemplate
    <2>3. t \in 0 .. n - CountCap + 1 /\ t + CountCap - 1 <= tries
      BY <1>1, <2>1
    <2>4. f \cap t + 1 .. t + CountCap - 1 # {}
      BY <2>2, <2>3
    <2>. QED BY <1>1, <2>1, <2>3, <2>4
  <1>. QED BY <1>2 DEF Tries!NoLongTemplate

\* Marked needs counts that fit.  When the loop is done the open template is
\* recorded, too, and the flags are made of the markers.
MarksInv ==
  /\ Open(tries, fired, templateIdx, firstChunk, chunkCount)
  /\ DOMAIN markers = 0 .. MarkerSlots - 1
  /\ Tries!NoLongTemplate => Marked(fired, markers, templateIdx)
  /\ pc = "done" =>
       /\ nTemplates = templateIdx + 1
       /\ markers[templateIdx] = Tries!Marker(firstChunk, chunkCount)
       /\ groupFlags = Tries!Stage5Flags(markers, nTemplates, data_len)

\* What a try does to the markers of ended templates, last or not.
LEMMA MarksStep ==
  ASSUME Tries!LoopAssumption, tries \in Nat, MarksInv, Tries!NoLongTemplate,
         NEW rc4 \in BOOLEAN, NEW m2, NEW idx2, idx2 = IF rc4 THEN Tries!NewTemplate(tries + 1) ELSE templateIdx,
         \A i \in 0 .. idx2 - 1 : m2[i] = IF rc4 /\ i = templateIdx THEN Tries!Marker(firstChunk, chunkCount)
                                          ELSE markers[i]
  PROVE  Marked(IF rc4 THEN fired \cup {tries + 1} ELSE fired, m2, idx2)
  <1>1. Open(tries, fired, templateIdx, firstChunk, chunkCount) /\ Marked(fired, markers, templateIdx)
    BY DEF MarksInv
  <1>2. chunkCount < CountCap /\ templateIdx \in Nat
    BY <1>1, CountFits DEF Open
  <1>3. CASE ~rc4
    <2>1. Marked(fired, m2, templateIdx)
      BY <1>1, <1>2, <1>3, MarkedStays
    <2>. QED BY <1>3, <2>1
  <1>4. CASE rc4 /\ tries > 0
    <2>1. idx2 = templateIdx + 1
      BY <1>4 DEF Tries!NewTemplate
    <2>2. m2[templateIdx] = Tries!Marker(firstChunk, chunkCount) /\ \A i \in 0 .. templateIdx - 1 : m2[i] = markers[i]
      BY <1>2, <1>4, <2>1
    <2>3. Marked(fired \cup {tries + 1}, m2, templateIdx + 1)
      BY <1>1, <1>2, <1>4, <2>2, MarkedGrows
    <2>. QED BY <1>4, <2>1, <2>3
  <1>5. CASE rc4 /\ tries = 0
    <2>1. fired = {} /\ idx2 = 0
      BY <1>1, <1>5 DEF Open, Tries!NewTemplate
    <2>2. Marked({tries + 1}, m2, 0)
      <3>1. \A b \in Nat : ~Ends({tries + 1}, b)
        <4>1. \A b \in Nat : Ends({tries + 1}, b) <=> b = tries + 1 /\ tries > 0
          BY FirstEnd
        <4>. QED BY <1>5, <4>1
      <3>. QED BY <3>1 DEF Marked
    <2>. QED BY <1>5, <2>1, <2>2
  <1>. QED BY <1>3, <1>4, <1>5

\* There is a slot for the open template and for one more.
LEMMA SlotsSuffice ==
  ASSUME Tries!LoopAssumption, TriesInv, pc = "loop"
  PROVE  MarkerSlots \in Nat /\ templateIdx \in 0 .. MarkerSlots - 1 /\ templateIdx + 1 \in 0 .. MarkerSlots - 1
  <1>1. /\ MinTries \in Nat /\ ExtraTries \in Nat /\ Tries!MaxTries = MinTries + ExtraTries + 1
        /\ MarkerSlots \in Nat /\ MarkerSlots > Tries!MaxTries
    BY DEF Tries!LoopAssumption, Tries!MaxTries
  <1>. QED BY <1>1 DEF TriesInv, TriesTypeOK, Counting

LEMMA TryMarks ==
  ASSUME Tries!LoopAssumption, TriesInv, MarksInv, NEW rc4 \in BOOLEAN, NEW high \in BOOLEAN, Tries!Try(rc4, high)
  PROVE  MarksInv'
  <1>1. /\ pc = "loop" /\ pc' = "loop" /\ tries' = tries + 1 /\ tries \in Nat /\ Tries!Bookkeeping(tries + 1, rc4)
    BY DEF Tries!Try, TriesInv, TriesTypeOK
  <1>2. Open(tries, fired, templateIdx, firstChunk, chunkCount) /\ fired \subseteq 1 .. tries
    BY DEF MarksInv, Open
  <1>3. PICK f2, idx2, first2, count2, m2 :
          /\ f2 = fired' /\ idx2 = templateIdx' /\ first2 = firstChunk' /\ count2 = chunkCount' /\ m2 = markers'
    OBVIOUS
  <1>4. /\ f2 = IF rc4 THEN fired \cup {tries + 1} ELSE fired
        /\ idx2 = IF rc4 THEN Tries!NewTemplate(tries + 1) ELSE templateIdx
        /\ first2 = IF rc4 THEN tries ELSE firstChunk
        /\ count2 = IF rc4 THEN 1 ELSE chunkCount + 1
        /\ m2 = IF rc4 THEN [markers EXCEPT ![templateIdx] = Tries!Marker(firstChunk, chunkCount)] ELSE markers
    BY <1>1, <1>3 DEF Tries!Bookkeeping
  <1>5. Open(tries + 1, f2, idx2, first2, count2)
    BY <1>1, <1>2, <1>4, OpenNew, OpenOn DEF Tries!NewTemplate
  <1>6. DOMAIN m2 = 0 .. MarkerSlots - 1
    BY <1>4 DEF MarksInv
  <1>7. MarkerSlots \in Nat /\ templateIdx \in 0 .. MarkerSlots - 1
    BY <1>1, SlotsSuffice
  <1>8. \A i \in 0 .. idx2 - 1 : m2[i] = IF rc4 /\ i = templateIdx THEN Tries!Marker(firstChunk, chunkCount)
                                        ELSE markers[i]
    <2>1. idx2 \in Nat /\ idx2 <= templateIdx + 1
      BY <1>4, <1>7 DEF Tries!NewTemplate
    <2>2. CASE ~rc4
      BY <1>4, <2>2
    <2>3. CASE rc4
      <3>1. m2 = [i \in 0 .. MarkerSlots - 1 |-> IF i = templateIdx THEN Tries!Marker(firstChunk, chunkCount) ELSE markers[i]]
        BY <1>4, <2>3 DEF MarksInv
      <3>. QED BY <1>7, <2>1, <2>3, <3>1
    <2>. QED BY <2>2, <2>3
  <1>9. ASSUME Tries!NoLongTemplate' PROVE Marked(f2, m2, idx2)
    <2>1. Tries!NoLongTemplate
      BY <1>1, <1>2, <1>3, <1>4, <1>9, NoLongBefore
    <2>. QED BY <1>1, <1>4, <1>8, <2>1, MarksStep
  <1>. QED BY <1>1, <1>3, <1>5, <1>6, <1>9 DEF MarksInv

LEMMA LastTryMarks ==
  ASSUME Tries!LoopAssumption, TriesInv, MarksInv, NEW rc4 \in BOOLEAN, NEW high \in BOOLEAN,
         NEW tail \in 0 .. MaxTail, Tries!LastTry(rc4, high, tail)
  PROVE  MarksInv'
  <1> DEFINE f2 == IF rc4 THEN fired \cup {tries + 1} ELSE fired
             idx2 == IF rc4 THEN Tries!NewTemplate(tries + 1) ELSE templateIdx
             first2 == IF rc4 THEN tries ELSE firstChunk
             count2 == IF rc4 THEN 1 ELSE chunkCount + 1
             recorded == IF rc4 THEN [markers EXCEPT ![templateIdx] = Tries!Marker(firstChunk, chunkCount)] ELSE markers
  <1>1. /\ pc = "loop" /\ tries' = tries + 1 /\ tries \in Nat
    BY DEF Tries!LastTry, TriesInv, TriesTypeOK
  <1>2. Open(tries, fired, templateIdx, firstChunk, chunkCount) /\ fired \subseteq 1 .. tries
    BY DEF MarksInv, Open
  <1>3. PICK f, idx, first, count, m2, ns, len, gf :
          /\ f = fired' /\ idx = templateIdx' /\ first = firstChunk' /\ count = chunkCount' /\ m2 = markers'
          /\ ns = nTemplates' /\ len = data_len' /\ gf = groupFlags'
    OBVIOUS
  <1>4. (tries + 1) - 1 = tries
    BY <1>1
  <1>5. /\ f = f2 /\ idx = idx2 /\ first = first2 /\ count = count2
        /\ m2 = [recorded EXCEPT ![idx] = Tries!Marker(first, count)]
        /\ ns = idx + 1 /\ gf = Tries!Stage5Flags(m2, ns, len)
    BY <1>3, <1>4 DEF Tries!LastTry
  <1>6. Open(tries + 1, f, idx, first, count)
    BY <1>1, <1>2, <1>5, OpenNew, OpenOn DEF Tries!NewTemplate
  <1>7. MarkerSlots \in Nat /\ templateIdx \in 0 .. MarkerSlots - 1 /\ templateIdx + 1 \in 0 .. MarkerSlots - 1
    BY <1>1, SlotsSuffice
  <1>8. MarkerSlots \in Nat /\ idx \in 0 .. MarkerSlots - 1 /\ idx <= templateIdx + 1
    BY <1>5, <1>7 DEF Tries!NewTemplate
  <1>9. DOMAIN recorded = 0 .. MarkerSlots - 1
    BY DEF MarksInv
  <1>10. m2 = [i \in 0 .. MarkerSlots - 1 |-> IF i = idx THEN Tries!Marker(first, count) ELSE recorded[i]]
    <2> HIDE DEF recorded
    <2>. QED BY <1>5, <1>9
  <1>11. DOMAIN m2 = 0 .. MarkerSlots - 1 /\ m2[idx] = Tries!Marker(first, count)
    BY <1>8, <1>10
  <1>12. \A i \in 0 .. idx - 1 : m2[i] = IF rc4 /\ i = templateIdx THEN Tries!Marker(firstChunk, chunkCount)
                                         ELSE markers[i]
    <2>1. \A i \in 0 .. idx - 1 : i \in 0 .. MarkerSlots - 1 /\ m2[i] = recorded[i]
      <3> HIDE DEF recorded
      <3>. QED BY <1>8, <1>10
    <2>2. CASE ~rc4
      BY <2>1, <2>2
    <2>3. CASE rc4
      <3>1. recorded = [i \in 0 .. MarkerSlots - 1 |-> IF i = templateIdx THEN Tries!Marker(firstChunk, chunkCount) ELSE markers[i]]
        BY <2>3 DEF MarksInv
      <3> HIDE DEF recorded
      <3>. QED BY <2>1, <2>3, <3>1
    <2>. QED BY <2>2, <2>3
  <1>13. ASSUME Tries!NoLongTemplate' PROVE Marked(f, m2, idx)
    <2>1. Tries!NoLongTemplate
      BY <1>1, <1>2, <1>3, <1>5, <1>13, NoLongBefore
    <2>. QED BY <1>1, <1>5, <1>12, <2>1, MarksStep
  <1> HIDE DEF f2, idx2, first2, count2, recorded
  <1>. QED BY <1>1, <1>3, <1>5, <1>6, <1>11, <1>13 DEF MarksInv

\* The flags, from the markers.
LEMMA FlagsAre ==
  ASSUME Tries!LoopAssumption, TriesInv, MarksInv, pc = "done", Tries!NoLongTemplate,
         NEW b \in 1 .. Tries!FlagsLen(data_len) - 1
  PROVE  b \in groupFlags <=> Ends(fired, b)
  <1>1. /\ Open(tries, fired, templateIdx, firstChunk, chunkCount) /\ Marked(fired, markers, templateIdx)
        /\ nTemplates = templateIdx + 1
        /\ markers[templateIdx] = Tries!Marker(firstChunk, chunkCount)
        /\ groupFlags = Tries!Stage5Flags(markers, nTemplates, data_len)
    BY DEF MarksInv
  <1>2. /\ tries \in Nat /\ templateIdx \in Nat /\ firstChunk \in Nat /\ chunkCount \in Nat \ {0}
        /\ chunkCount < CountCap
    BY <1>1, CountFits DEF TriesInv, TriesTypeOK, Open
  <1>3. /\ data_len \in Nat /\ data_len > 0 /\ data_len < tries * Group /\ Group \in Nat \ {0}
        /\ tries <= Tries!MaxTries /\ nTemplates <= Tries!MaxTries /\ Tries!MaxTries \in Nat
        /\ MarkerSlots \in Nat /\ MarkerSlots > Tries!MaxTries
    BY DEF TriesInv, TriesTypeOK, Counting, Cut, Tries!LoopAssumption, Tries!MaxTries
  <1>4. /\ data_len # 0 /\ ~(MarkerSlots < Tries!FlagsLen(data_len))
        /\ Tries!FlagsLen(data_len) \in Nat /\ Tries!FlagsLen(data_len) <= tries
    BY FlagsHaveRoom
  <1>5. b \in Nat /\ b < tries
    BY <1>2, <1>4
  <1>7. /\ Tries!Boundary(markers[templateIdx]) = firstChunk + chunkCount
        /\ Tries!GroupCount(markers[templateIdx]) # 0
    BY <1>1, <1>2, MarkerIs
  <1>8. firstChunk + chunkCount >= tries
    BY <1>1, <1>2 DEF Open
  <1>9. \A i \in 0 .. templateIdx - 1 : MarksEnd(fired, markers, i)
    BY <1>1 DEF Marked
  <1> DEFINE counted == {i \in 0 .. Tries!FlagLimit(nTemplates) - 1 : Tries!GroupCount(markers[i]) # 0}
  <1>10. counted = 0 .. templateIdx
    <2>1. Tries!FlagLimit(nTemplates) - 1 = templateIdx
      BY <1>1, <1>2, <1>3 DEF Tries!FlagLimit
    <2>2. ASSUME NEW i \in 0 .. templateIdx PROVE Tries!GroupCount(markers[i]) # 0
      <3>1. CASE i = templateIdx
        BY <1>7, <3>1
      <3>2. CASE i # templateIdx
        <4>1. i \in 0 .. templateIdx - 1
          BY <1>2, <3>2
        <4>. QED BY <1>9, <4>1 DEF MarksEnd
      <3>. QED BY <3>1, <3>2
    <2>. QED BY <2>1, <2>2
  <1>11. groupFlags = {0} \cup ({Tries!Boundary(markers[i]) : i \in counted} \cap 1 .. Tries!FlagsLen(data_len) - 1)
    BY <1>1, <1>4 DEF Tries!Stage5Flags
  <1> HIDE DEF counted
  <1>12. b \in groupFlags <=> \E i \in 0 .. templateIdx : Tries!Boundary(markers[i]) = b
    <2>1. b # 0 /\ b \in 1 .. Tries!FlagsLen(data_len) - 1
      BY <1>4
    <2>. QED BY <1>10, <1>11, <2>1
  <1>13. ASSUME NEW i \in 0 .. templateIdx, Tries!Boundary(markers[i]) = b PROVE Ends(fired, b)
    <2>1. CASE i = templateIdx
      BY <1>2, <1>5, <1>7, <1>8, <1>13, <2>1
    <2>2. CASE i # templateIdx
      <3>1. i \in 0 .. templateIdx - 1
        BY <1>2, <2>2
      <3>. QED BY <1>9, <1>13, <3>1 DEF MarksEnd
    <2>. QED BY <2>1, <2>2
  <1>14. ASSUME Ends(fired, b) PROVE \E i \in 0 .. templateIdx : Tries!Boundary(markers[i]) = b
    <2>1. EndMarked(markers, templateIdx, b)
      BY <1>1, <1>5, <1>14 DEF Marked
    <2>. QED BY <1>2, <2>1 DEF EndMarked
  <1>. QED BY <1>12, <1>13, <1>14

\* The chunks at which RC4 ran, the first of them late, are where templates end.
Cuts(f) == {t - 1 : t \in f}
LateCuts(f) ==
  LET first == Tries!Min(Cuts(f))
  IN IF Cuts(f) # {} /\ first > 0 THEN (Cuts(f) \ {first}) \cup {first + 1} ELSE Cuts(f)

LEMMA CutsAreEnds ==
  ASSUME NEW n \in Nat, NEW f \in SUBSET (1 .. n), NEW b \in Nat \ {0},
         f # {} => \E m \in f : \A t \in f : m <= t
  PROVE  b \in LateCuts(f) <=> Ends(f, b)
  <1>1. \A t \in f : t \in 1 .. n
    OBVIOUS
  <1>2. CASE f = {}
    BY <1>2 DEF Ends, LateCuts, Cuts
  <1>3. CASE f # {}
    <2>1. PICK m \in f : \A t \in f : m <= t
      BY <1>3
    <2>2. m - 1 \in Cuts(f) /\ Cuts(f) \subseteq Int /\ \A y \in Cuts(f) : m - 1 <= y
      BY <1>1, <2>1 DEF Cuts
    <2>3. Tries!Min(Cuts(f)) \in Cuts(f) /\ \A y \in Cuts(f) : Tries!Min(Cuts(f)) <= y
      BY <2>2 DEF Tries!Min
    <2>4. Tries!Min(Cuts(f)) = m - 1
      <3> DEFINE c == Tries!Min(Cuts(f))
      <3> HIDE DEF c
      <3>1. c \in Int /\ c <= m - 1 /\ m - 1 <= c
        BY <2>2, <2>3 DEF c
      <3>2. m \in Int
        BY <1>1, <2>1
      <3>3. c = m - 1
        BY <3>1, <3>2
      <3>. QED BY <3>3 DEF c
    <2>5. LateCuts(f) = IF m - 1 > 0 THEN (Cuts(f) \ {m - 1}) \cup {m - 1 + 1} ELSE Cuts(f)
      BY <2>2, <2>4, Zenon DEF LateCuts
    <2>6. b \in Cuts(f) <=> b + 1 \in f
      BY <1>1 DEF Cuts
    <2>7. CASE m > 1
      <3>1. b \in (Cuts(f) \ {m - 1}) \cup {m - 1 + 1} <=> Ends(f, b)
        BY <1>1, <2>1, <2>6, <2>7 DEF Ends
      <3>2. m - 1 > 0
        BY <1>1, <2>1, <2>7
      <3>. QED BY <2>5, <3>1, <3>2
    <2>8. CASE m = 1
      <3>1. b \in Cuts(f) <=> Ends(f, b)
        BY <1>1, <2>1, <2>6, <2>8 DEF Ends
      <3>. QED BY <2>5, <2>8, <3>1
    <2>. QED BY <1>1, <2>1, <2>7, <2>8
  <1>. QED BY <1>2, <1>3

\* However many tries a hash takes, whichever of them apply RC4 and whatever the
\* hash before left in the markers: the group flags cut the stream where RC4 ran
\* and nowhere else, the first cut late but for a first try that applied it
\* (sa_v114.go:79, pow.go:2426).
THEOREM FlagsAreExact == Tries!Spec => []TemplatesFollowRC4
  <1> USE TriesAssumption
  <1>1. Tries!Init => TriesInv /\ MarksInv
    <2>1. Tries!Init => TriesInv
      BY TriesBegin
    <2>2. ASSUME Tries!Init PROVE MarksInv
      <3>1. Open(tries, fired, templateIdx, firstChunk, chunkCount)
        BY <2>2 DEF Tries!Init, Open
      <3>2. DOMAIN markers = 0 .. MarkerSlots - 1
        BY <2>2 DEF Tries!Init
      <3>3. Marked(fired, markers, templateIdx)
        BY <2>2 DEF Tries!Init, Marked, Ends
      <3>. QED BY <2>2, <3>1, <3>2, <3>3 DEF Tries!Init, MarksInv
    <2>. QED BY <2>1, <2>2
  <1>2. TriesInv /\ MarksInv /\ [Tries!Next]_(Tries!vars) => TriesInv' /\ MarksInv'
    <2>1. ASSUME TriesInv, MarksInv, UNCHANGED Tries!vars PROVE TriesInv' /\ MarksInv'
      <3>1. TriesInv'
        BY <2>1 DEF Tries!vars, TriesInv, TriesTypeOK, Counting, Cut
      <3>2. MarksInv'
        BY <2>1 DEF Tries!vars, MarksInv, Tries!NoLongTemplate
      <3>. QED BY <3>1, <3>2
    <2>2. ASSUME TriesInv, MarksInv, Tries!Next PROVE TriesInv' /\ MarksInv'
      <3>1. PICK rc4 \in BOOLEAN, high \in BOOLEAN :
              Tries!Try(rc4, high) \/ \E tail \in 0 .. MaxTail : Tries!LastTry(rc4, high, tail)
        BY <2>2, Zenon DEF Tries!Next
      <3>2. CASE Tries!Try(rc4, high)
        BY <2>2, <3>2, TryCounts, TryMarks
      <3>3. ASSUME NEW tail \in 0 .. MaxTail, Tries!LastTry(rc4, high, tail) PROVE TriesInv' /\ MarksInv'
        BY <2>2, <3>3, LastTryCounts, LastTryMarks
      <3>. QED BY <3>1, <3>2, <3>3
    <2>. QED BY <2>1, <2>2
  <1>4. ASSUME TriesInv, MarksInv PROVE Tries!InBounds /\ Tries!StreamIsFresh
    BY <1>4, TriesSound
  <1>3. ASSUME TriesInv, MarksInv PROVE Tries!FlagsFollowRC4
    <2> SUFFICES ASSUME pc = "done", Tries!NoLongTemplate PROVE Tries!FlagsFollowRC4
      BY DEF Tries!FlagsFollowRC4
    <2>1. /\ tries \in Nat /\ fired \in SUBSET (1 .. tries)
          /\ fired # {} => \E m \in fired : \A t \in fired : m <= t
      BY <1>3 DEF TriesInv, TriesTypeOK, MarksInv, Open
    <2>2. \A b \in Nat \ {0} : b \in LateCuts(fired) <=> Ends(fired, b)
      BY <2>1, CutsAreEnds
    <2>3. \A b \in 1 .. Tries!FlagsLen(data_len) - 1 : b \in groupFlags <=> b \in LateCuts(fired)
      BY <1>3, <2>2, FlagsAre
    <2>4. 0 \in groupFlags /\ groupFlags \subseteq {0} \cup 1 .. Tries!FlagsLen(data_len) - 1
      BY <1>3, FlagsHaveRoom DEF MarksInv, Tries!Stage5Flags
    <2>5. groupFlags = {0} \cup (LateCuts(fired) \cap 1 .. Tries!FlagsLen(data_len) - 1)
      BY <2>3, <2>4
    <2>. QED BY <2>5 DEF Tries!FlagsFollowRC4, LateCuts, Cuts
  <1>5. TriesInv /\ MarksInv => TemplatesFollowRC4
    BY <1>3, <1>4 DEF TemplatesFollowRC4
  <1>. QED BY <1>1, <1>2, <1>5, PTL DEF Tries!Spec

-----------------------------------------------------------------------------
(* The digest.  Of the scratch buffers only the bytes that the stream has   *)
(* just written are hashed; and blocks taken two at a time, then alone,     *)
(* then from a tail of zeros with the end mark and the length written over  *)
(* them, are the blocks of one padded message.                              *)

\* The same letters make the same subsequence.
LEMMA SameSlice ==
  ASSUME NEW S, NEW u, NEW v, NEW m \in Int, NEW n \in Int, NEW k \in Int, NEW l \in Int, n - m = l - k,
         \A i \in m .. n : u[i] \in S /\ v[i - m + k] = u[i]
  PROVE  SubSeq(u, m, n) = SubSeq(v, k, l)
  <1>1. \A i \in k .. l : v[i] \in S
    <2> SUFFICES ASSUME NEW i \in k .. l PROVE v[i] \in S
      OBVIOUS
    <2>1. i - k + m \in m .. n /\ (i - k + m) - m + k = i
      OBVIOUS
    <2>. QED BY <2>1
  <1>2. /\ SubSeq(u, m, n) \in Seq(S)
        /\ Len(SubSeq(u, m, n)) = IF m <= n THEN n - m + 1 ELSE 0
        /\ \A i \in 1 .. n - m + 1 : SubSeq(u, m, n)[i] = u[m + i - 1]
    BY SubSeqProperties
  <1>3. /\ SubSeq(v, k, l) \in Seq(S)
        /\ Len(SubSeq(v, k, l)) = IF k <= l THEN l - k + 1 ELSE 0
        /\ \A i \in 1 .. l - k + 1 : SubSeq(v, k, l)[i] = v[k + i - 1]
    BY <1>1, SubSeqProperties
  <1> DEFINE a == SubSeq(u, m, n)
             b == SubSeq(v, k, l)
  <1>4. ASSUME NEW i \in 1 .. Len(a) PROVE a[i] = b[i]
    <2>1. m <= n /\ i \in 1 .. n - m + 1 /\ i \in 1 .. l - k + 1
      BY <1>2, <1>4
    <2>2. m + i - 1 \in m .. n /\ (m + i - 1) - m + k = k + i - 1
      BY <2>1
    <2>3. a[i] = u[m + i - 1] /\ b[i] = v[k + i - 1]
      BY <1>2, <1>3, <2>1
    <2>. QED BY <2>2, <2>3
  <1>5. Len(a) = Len(b)
    BY <1>2, <1>3
  <1> HIDE DEF a, b
  <1>6. a \in Seq(S) /\ b \in Seq(S)
    BY <1>2, <1>3 DEF a, b
  <1>7. a = b
    BY <1>4, <1>5, <1>6, SeqEqual
  <1>. QED BY <1>7 DEF a, b

\* Two sequences of known lengths, one after the other.
Joins(S, w, u, m, v, k) ==
  /\ w \in Seq(S) /\ Len(w) = m + k
  /\ \A i \in 1 .. m + k : w[i] = IF i <= m THEN u[i] ELSE v[i - m]

LEMMA Joined ==
  ASSUME NEW S, NEW u \in Seq(S), NEW v \in Seq(S)
  PROVE  Joins(S, u \o v, u, Len(u), v, Len(v))
  BY ConcatProperties DEF Joins

\* The letters of a padded message.
Letters(S, n) == S \cup {Sha!Zero, Sha!End} \cup {<<n, i>> : i \in 1 .. LengthBytes}

\* Padding fills up the last block, and adds one when the length does not fit.
LEMMA Fill ==
  ASSUME Sha!HasherAssumption, NEW q \in Nat, NEW r \in Nat, r < Block
  PROVE  LET rem == (q * Block + r + 1 + LengthBytes) % Block
             fill == IF rem = 0 THEN 0 ELSE Block - rem
         IN /\ fill \in Nat
            /\ r + 1 + fill + LengthBytes = Sha!TailLength(r)
  <1> DEFINE rem == (q * Block + r + 1 + LengthBytes) % Block
  <1>1. Block \in Nat \ {0} /\ LengthBytes \in Nat /\ LengthBytes < Block
    BY DEF Sha!HasherAssumption
  <1>2. CASE r + 1 + LengthBytes < Block
    <2>1. (q * Block + (r + 1 + LengthBytes)) % Block = r + 1 + LengthBytes
      BY <1>1, <1>2, Division
    <2>2. q * Block + (r + 1 + LengthBytes) = q * Block + r + 1 + LengthBytes
      BY <1>1
    <2>3. rem = r + 1 + LengthBytes
      BY <2>1, <2>2
    <2> HIDE DEF rem
    <2>4. rem # 0 /\ ~(r >= Block - LengthBytes)
      BY <1>1, <1>2, <2>3
    <2>. QED BY <1>1, <1>2, <2>3, <2>4 DEF Sha!TailLength, rem
  <1>3. CASE ~(r + 1 + LengthBytes < Block)
    <2> DEFINE x == r + 1 + LengthBytes - Block
    <2>1. x \in Nat /\ x < Block
      BY <1>1, <1>3
    <2>2. ((q + 1) * Block + x) % Block = x
      <3>1. q + 1 \in Nat
        OBVIOUS
      <3> HIDE DEF x
      <3>. QED BY <1>1, <2>1, <3>1, Division
    <2>3. (q + 1) * Block + x = q * Block + r + 1 + LengthBytes
      BY <1>1
    <2>4. rem = x
      BY <2>2, <2>3
    <2> HIDE DEF rem
    <2>5. rem = 0 <=> ~(r >= Block - LengthBytes)
      BY <1>1, <1>3, <2>4
    <2>. QED BY <1>1, <2>1, <2>4, <2>5 DEF Sha!TailLength, rem
  <1>. QED BY <1>2, <1>3

\* P is the message, the end mark, zeros and the length, up to position end.
Pads(P, S, msg, n, end) ==
  /\ P \in Seq(Letters(S, n)) /\ Len(P) = end
  /\ \A i \in 1 .. n : P[i] = msg[i]
  /\ P[n + 1] = Sha!End
  /\ \A i \in n + 2 .. end - LengthBytes : P[i] = Sha!Zero
  /\ \A i \in end - LengthBytes + 1 .. end : P[i] = <<n, i - (end - LengthBytes)>>

LEMMA PaddedIs ==
  ASSUME Sha!HasherAssumption, NEW S, NEW msg \in Seq(S), NEW q \in Nat, NEW r \in Nat, r < Block,
         NEW n \in Nat, n = q * Block + r, Len(msg) = n
  PROVE  Pads(Sha!Padded(msg), S, msg, n, q * Block + Sha!TailLength(r))
  <1> DEFINE L == Letters(S, n)
             rem == (n + 1 + LengthBytes) % Block
             fill == IF rem = 0 THEN 0 ELSE Block - rem
             tail == [i \in 1 .. LengthBytes |-> <<n, i>>]
             zeros == [i \in 1 .. fill |-> Sha!Zero]
             end == q * Block + Sha!TailLength(r)
             one == <<Sha!End>>
  <1>1. Block \in Nat \ {0} /\ LengthBytes \in Nat /\ LengthBytes < Block
    BY DEF Sha!HasherAssumption
  <1>3. fill \in Nat /\ n + 1 + fill + LengthBytes = end
    <2>1. rem = (q * Block + r + 1 + LengthBytes) % Block
      OBVIOUS
    <2> HIDE DEF rem, end
    <2>2. fill \in Nat /\ r + 1 + fill + LengthBytes = Sha!TailLength(r)
      BY <2>1, Fill
    <2> HIDE DEF fill
    <2>. QED BY <1>1, <2>2 DEF end
  <1> HIDE DEF rem, fill, end
  <1>4. /\ tail \in Seq(L) /\ Len(tail) = LengthBytes
        /\ zeros \in Seq(L) /\ Len(zeros) = fill
        /\ one \in Seq(L) /\ Len(one) = 1
    BY <1>1, <1>3 DEF Letters
  <1>5. msg \in Seq(L) /\ Len(msg) = n
    <2>1. S \subseteq L
      BY DEF Letters
    <2>. QED BY <2>1, SeqMonotonic
  <1>6. Sha!Padded(msg) = msg \o one \o zeros \o tail
    BY DEF Sha!Padded, Sha!Zeros, fill, rem
  <1> DEFINE a == msg \o one
             b == a \o zeros
             P == b \o tail
  <1> HIDE DEF L, one, zeros, tail
  <1>7. /\ a \in Seq(L) /\ Len(a) = n + 1
        /\ \A i \in 1 .. n + 1 : a[i] = IF i <= n THEN msg[i] ELSE one[i - n]
    <2>1. Joins(L, msg \o one, msg, Len(msg), one, Len(one))
      BY <1>4, <1>5, Joined
    <2>2. Joins(L, a, msg, n, one, 1)
      BY <1>4, <1>5, <2>1, Zenon
    <2>. QED BY <2>2 DEF Joins
  <1> HIDE DEF a
  <1>8. /\ b \in Seq(L) /\ Len(b) = n + 1 + fill
        /\ \A i \in 1 .. n + 1 + fill : b[i] = IF i <= n + 1 THEN a[i] ELSE zeros[i - (n + 1)]
    <2>1. Joins(L, b, a, Len(a), zeros, Len(zeros))
      BY <1>4, <1>7, Joined DEF b
    <2>2. Joins(L, b, a, n + 1, zeros, fill)
      BY <1>4, <1>7, <2>1, Zenon
    <2>. QED BY <2>2 DEF Joins
  <1> HIDE DEF b
  <1>9. /\ P \in Seq(L) /\ Len(P) = n + 1 + fill + LengthBytes
        /\ \A i \in 1 .. n + 1 + fill + LengthBytes :
             P[i] = IF i <= n + 1 + fill THEN b[i] ELSE tail[i - (n + 1 + fill)]
    <2>1. Joins(L, P, b, Len(b), tail, Len(tail))
      BY <1>4, <1>8, Joined DEF P
    <2>2. Joins(L, P, b, n + 1 + fill, tail, LengthBytes)
      BY <1>4, <1>8, <2>1, Zenon
    <2>. QED BY <2>2 DEF Joins
  <1> HIDE DEF P
  <1>10. \A i \in 1 .. n : P[i] = msg[i]
    BY <1>1, <1>3, <1>7, <1>8, <1>9
  <1>11. P[n + 1] = Sha!End
    <2>1. n + 1 \in 1 .. n + 1 /\ one[1] = Sha!End /\ (n + 1) - n = 1 /\ ~(n + 1 <= n)
      BY DEF one
    <2>2. a[n + 1] = Sha!End
      BY <1>7, <2>1
    <2>3. P[n + 1] = b[n + 1] /\ b[n + 1] = a[n + 1]
      BY <1>1, <1>3, <1>8, <1>9
    <2>. QED BY <2>2, <2>3
  <1>12. ASSUME NEW i \in n + 2 .. end - LengthBytes PROVE P[i] = Sha!Zero
    <2>1. i - (n + 1) \in 1 .. fill /\ i \in 1 .. n + 1 + fill /\ ~(i <= n + 1)
          /\ i \in 1 .. n + 1 + fill + LengthBytes /\ i <= n + 1 + fill
      BY <1>1, <1>3
    <2>2. P[i] = zeros[i - (n + 1)]
      BY <1>8, <1>9, <2>1
    <2>. QED BY <2>1, <2>2 DEF zeros
  <1>13. ASSUME NEW i \in end - LengthBytes + 1 .. end PROVE P[i] = <<n, i - (end - LengthBytes)>>
    <2>1. i - (n + 1 + fill) \in 1 .. LengthBytes /\ ~(i <= n + 1 + fill)
          /\ i \in 1 .. n + 1 + fill + LengthBytes /\ n + 1 + fill = end - LengthBytes
      BY <1>1, <1>3
    <2>2. P[i] = tail[i - (n + 1 + fill)]
      BY <1>9, <2>1
    <2>. QED BY <2>1, <2>2 DEF tail
  <1>14. Sha!Padded(msg) = P
    BY <1>6 DEF P, b, a
  <1>15. Pads(P, S, msg, n, end)
    BY <1>3, <1>9, <1>10, <1>11, <1>12, <1>13 DEF Pads, L
  <1>. QED BY <1>14, <1>15 DEF end

\* The b-th block of a message.
BlockOf(m, b) == SubSeq(m, (b - 1) * Block + 1, b * Block)

\* The k blocks of m from position from on.
BlocksOf(m, from, k) == [b \in 1 .. k |-> SubSeq(m, from + (b - 1) * Block + 1, from + b * Block)]

\* The letters of those blocks are in S; x is k sequences over S.
Covers(S, m, from, k) == \A i \in from + 1 .. from + k * Block : m[i] \in S
IsBlocks(S, x, k) == x \in Seq(Seq(S)) /\ Len(x) = k

LEMMA BlocksAre ==
  ASSUME Sha!HasherAssumption, NEW S, NEW m, NEW from \in Nat, NEW k \in Nat, Covers(S, m, from, k)
  PROVE  IsBlocks(S, BlocksOf(m, from, k), k)
  <1>1. Block \in Nat \ {0}
    BY DEF Sha!HasherAssumption
  <1>2. ASSUME NEW b \in 1 .. k
        PROVE  SubSeq(m, from + (b - 1) * Block + 1, from + b * Block) \in Seq(S)
    <2> DEFINE x == (b - 1) * Block
               y == b * Block
    <2>1. x \in Nat /\ y \in Nat
      BY <1>1
    <2>2. y <= k * Block
      BY <1>1, RowsMonotone
    <2>3. k * Block \in Nat
      BY <1>1
    <2> HIDE DEF x, y
    <2>4. \A i \in from + x + 1 .. from + y : m[i] \in S
      BY <2>1, <2>2, <2>3 DEF Covers
    <2>5. from + x + 1 \in Int /\ from + y \in Int
      BY <2>1
    <2>6. SubSeq(m, from + x + 1, from + y) \in Seq(S)
      BY <2>4, <2>5, SubSeqProperties
    <2>. QED BY <2>6 DEF x, y
  <1>. QED BY <1>2 DEF BlocksOf, IsBlocks

\* The whole blocks of a message, in two runs.
LEMMA WholeBlocks ==
  ASSUME Sha!HasherAssumption, NEW S, NEW msg \in Seq(S), NEW n \in Nat, Len(msg) = n,
         NEW q \in Nat, NEW s \in 0 .. q, q * Block <= n
  PROVE  LET w == Sha!Blocks(Sha!Blocks(<<>>, msg, 0, s), msg, s * Block, q - s)
         IN /\ w \in Seq(Seq(S)) /\ Len(w) = q
            /\ \A b \in 1 .. q : w[b] = BlockOf(msg, b)
  <1> DEFINE u == BlocksOf(msg, 0, s)
             at == s * Block
             v == BlocksOf(msg, at, q - s)
             w == u \o v
  <1>1. Block \in Nat \ {0}
    BY DEF Sha!HasherAssumption
  <1>2. /\ s \in Nat /\ q - s \in Nat /\ at \in Nat
        /\ s * Block <= n /\ at + (q - s) * Block = q * Block
    <2>1. s * Block <= q * Block /\ s * Block \in Nat /\ q * Block \in Nat
      BY <1>1, RowsMonotone
    <2>2. s * Block + (q - s) * Block = q * Block
      BY <1>1
    <2>. QED BY <2>1, <2>2
  <1>3. \A i \in 1 .. n : msg[i] \in S
    OBVIOUS
  <1>4. u \in Seq(Seq(S)) /\ Len(u) = s
    <2>1. Covers(S, msg, 0, s)
      BY <1>1, <1>2, <1>3 DEF Covers
    <2>2. IsBlocks(S, u, s)
      BY <1>2, <2>1, BlocksAre
    <2>. QED BY <2>2 DEF IsBlocks
  <1>5. v \in Seq(Seq(S)) /\ Len(v) = q - s
    <2> HIDE DEF at
    <2>1. Covers(S, msg, at, q - s)
      BY <1>1, <1>2, <1>3 DEF Covers
    <2>2. IsBlocks(S, v, q - s)
      BY <1>2, <2>1, BlocksAre
    <2>. QED BY <2>2 DEF IsBlocks
  <1>6. Sha!Blocks(Sha!Blocks(<<>>, msg, 0, s), msg, s * Block, q - s) = w
    <2>1. Sha!Blocks(<<>>, msg, 0, s) = <<>> \o u
      BY DEF Sha!Blocks, BlocksOf
    <2>2. <<>> \o u = u
      BY <1>4, ConcatEmptySeq
    <2>3. Sha!Blocks(u, msg, s * Block, q - s) = w
      BY DEF Sha!Blocks, BlocksOf
    <2> HIDE DEF u, w
    <2>. QED BY <2>1, <2>2, <2>3
  <1>7. ASSUME NEW b \in 1 .. s PROVE u[b] = BlockOf(msg, b)
    BY <1>1, <1>2 DEF BlocksOf, BlockOf
  <1>8. ASSUME NEW b \in 1 .. q, b > s PROVE v[b - s] = BlockOf(msg, b)
    <2>1. b - s \in 1 .. q - s
      BY <1>2, <1>8
    <2>2. at + (b - s - 1) * Block = (b - 1) * Block /\ at + (b - s) * Block = b * Block
      BY <1>1
    <2>. QED BY <2>1, <2>2 DEF BlocksOf, BlockOf
  <1> HIDE DEF u, v
  <1>9. Joins(Seq(S), w, u, Len(u), v, Len(v))
    BY <1>4, <1>5, Joined
  <1> HIDE DEF w
  <1>10. Joins(Seq(S), w, u, s, v, q - s)
    BY <1>4, <1>5, <1>9, Zenon
  <1>11. w \in Seq(Seq(S)) /\ Len(w) = q
    BY <1>2, <1>10 DEF Joins
  <1>12. ASSUME NEW b \in 1 .. q PROVE w[b] = BlockOf(msg, b)
    <2>1. b \in 1 .. s + (q - s)
      BY <1>2
    <2>2. \A i \in 1 .. s + (q - s) : w[i] = IF i <= s THEN u[i] ELSE v[i - s]
      BY <1>10, Zenon DEF Joins
    <2>3. w[b] = IF b <= s THEN u[b] ELSE v[b - s]
      BY <2>1, <2>2, Zenon
    <2>. QED BY <1>2, <1>7, <1>8, <2>3
  <1>. QED BY <1>6, <1>11, <1>12

\* The tail a message of n letters ends in, r of them after the whole blocks.
TailOf(msg, n, r, full) ==
  [i \in 1 .. Sha!TailLength(r) |->
     IF i > Sha!TailLength(r) - LengthBytes THEN <<n, i - (Sha!TailLength(r) - LengthBytes)>>
     ELSE IF i = r + 1 THEN Sha!End
     ELSE IF i <= r THEN msg[full + i]
     ELSE Sha!Zero]

\* What is written into a tail of zeros is what padding appends.
LEMMA TailIsPadding ==
  ASSUME Sha!HasherAssumption, NEW S, NEW msg \in Seq(S), NEW q \in Nat, NEW r \in Nat, r < Block,
         NEW n \in Nat, n = q * Block + r, Len(msg) = n,
         NEW i \in 1 .. Sha!TailLength(r)
  PROVE  /\ TailOf(msg, n, r, q * Block)[i] \in Letters(S, n)
         /\ Sha!Padded(msg)[q * Block + i] = TailOf(msg, n, r, q * Block)[i]
  <1> DEFINE P == Sha!Padded(msg)
             full == q * Block
             tlen == Sha!TailLength(r)
             end == full + tlen
  <1>1. Block \in Nat \ {0} /\ LengthBytes \in Nat /\ LengthBytes < Block
    BY DEF Sha!HasherAssumption
  <1>2. tlen \in Nat /\ r + 1 + LengthBytes <= tlen
    BY <1>1 DEF Sha!TailLength
  <1>3. /\ \A j \in 1 .. n : P[j] = msg[j]
        /\ P[n + 1] = Sha!End
        /\ \A j \in n + 2 .. end - LengthBytes : P[j] = Sha!Zero
        /\ \A j \in end - LengthBytes + 1 .. end : P[j] = <<n, j - (end - LengthBytes)>>
    <2>1. Pads(P, S, msg, n, end)
      BY PaddedIs
    <2> HIDE DEF P, end
    <2>. QED BY <2>1 DEF Pads
  <1>4. full \in Nat /\ n = full + r
    BY <1>1
  <1>5. i \in 1 .. tlen
    OBVIOUS
  <1>6. TailOf(msg, n, r, full)[i] =
          IF i > tlen - LengthBytes THEN <<n, i - (tlen - LengthBytes)>>
          ELSE IF i = r + 1 THEN Sha!End ELSE IF i <= r THEN msg[full + i] ELSE Sha!Zero
    BY DEF TailOf
  <1>7. \A j \in 1 .. n : msg[j] \in S
    OBVIOUS
  <1> DEFINE x == TailOf(msg, n, r, full)[i]
  <1> HIDE DEF P, full, tlen, x
  <1>8. CASE i > tlen - LengthBytes
    <2>1. x = <<n, i - (tlen - LengthBytes)>> /\ i - (tlen - LengthBytes) \in 1 .. LengthBytes
      BY <1>1, <1>2, <1>5, <1>6, <1>8 DEF x
    <2>2. full + i \in end - LengthBytes + 1 .. end
          /\ (full + i) - (end - LengthBytes) = i - (tlen - LengthBytes)
      BY <1>1, <1>2, <1>4, <1>5, <1>8
    <2>3. P[full + i] = x
      BY <1>3, <2>1, <2>2
    <2>. QED BY <2>1, <2>3 DEF Letters, x, P, full
  <1>9. CASE ~(i > tlen - LengthBytes) /\ i = r + 1
    <2>1. x = Sha!End /\ full + i = n + 1
      BY <1>4, <1>6, <1>9 DEF x
    <2>. QED BY <1>3, <2>1 DEF Letters, x, P, full
  <1>10. CASE ~(i > tlen - LengthBytes) /\ i <= r
    <2>1. x = msg[full + i] /\ full + i \in 1 .. n
      BY <1>4, <1>5, <1>6, <1>10 DEF x
    <2>. QED BY <1>3, <1>7, <2>1 DEF Letters, x, P, full
  <1>11. CASE ~(i > tlen - LengthBytes) /\ i > r + 1
    <2>1. i # r + 1 /\ ~(i <= r) /\ full + i >= n + 2 /\ full + i <= end - LengthBytes /\ full + i \in Int
      BY <1>1, <1>2, <1>4, <1>5, <1>11
    <2>2. x = Sha!Zero
      BY <1>6, <1>11, <2>1 DEF x
    <2>3. full + i \in n + 2 .. end - LengthBytes
      BY <1>1, <1>2, <1>4, <2>1
    <2>. QED BY <1>3, <2>2, <2>3 DEF Letters, x, P, full
  <1>. QED BY <1>1, <1>2, <1>5, <1>8, <1>9, <1>10, <1>11

\* Whole blocks and tail together are the blocks of the padded message.
LEMMA FinishIs ==
  ASSUME Sha!HasherAssumption, NEW S, NEW msg \in Seq(S), NEW q \in Nat, NEW r \in Nat, r < Block,
         NEW n \in Nat, n = q * Block + r, Len(msg) = n,
         NEW w \in Seq(Seq(S)), Len(w) = q, \A b \in 1 .. q : w[b] = BlockOf(msg, b)
  PROVE  Sha!Finish(w, msg, q * Block) = Sha!Sum256(msg)
  <1> DEFINE P == Sha!Padded(msg)
             L == Letters(S, n)
             full == q * Block
             tlen == Sha!TailLength(r)
             tail == TailOf(msg, n, r, full)
  <1>1. Block \in Nat \ {0} /\ LengthBytes \in Nat /\ LengthBytes < Block
    BY DEF Sha!HasherAssumption
  <1>2. PICK t \in {1, 2} : tlen = t * Block
    BY <1>1 DEF Sha!TailLength
  <1>3. tlen \div Block = t /\ (full + tlen) \div Block = q + t
    <2>1. (t * Block + 0) \div Block = t /\ ((q + t) * Block + 0) \div Block = q + t
      <3>1. t \in Nat /\ q + t \in Nat /\ 0 \in Nat /\ 0 < Block
        BY <1>1
      <3>. QED BY <1>1, <3>1, Division
    <2>2. t * Block + 0 = tlen /\ (q + t) * Block + 0 = full + tlen
      BY <1>1, <1>2
    <2>. QED BY <2>1, <2>2
  <1>4. full \in Nat /\ n = full + r /\ tlen \in Nat
    BY <1>1, <1>2
  <1>5. \A i \in 1 .. tlen : tail[i] \in L /\ P[full + i] = tail[i]
    BY TailIsPadding
  <1>6. P \in Seq(L) /\ Len(P) = full + tlen /\ \A i \in 1 .. n : P[i] = msg[i]
    <2>1. Pads(P, S, msg, n, full + tlen)
      BY PaddedIs
    <2> HIDE DEF P, full, tlen
    <2>. QED BY <2>1 DEF Pads
  <1> DEFINE v == BlocksOf(tail, 0, t)
             z == BlocksOf(P, 0, q + t)
  <1>7. Sha!Finish(w, msg, full) = w \o v
    <2>1. n - full = r
      BY <1>4
    <2> HIDE DEF full
    <2>. QED BY <1>3, <2>1 DEF Sha!Finish, Sha!Blocks, BlocksOf, TailOf
  <1>8. Sha!Sum256(msg) = z
    <2>1. Len(P) \div Block = q + t
      BY <1>3, <1>6
    <2>. QED BY <1>1, <2>1 DEF Sha!Sum256, BlocksOf
  <1> HIDE DEF P, L, full, tlen, tail
  <1>9. IsBlocks(L, v, t)
    <2>1. Covers(L, tail, 0, t)
      BY <1>1, <1>2, <1>5 DEF Covers
    <2>. QED BY <2>1, BlocksAre
  <1>10. IsBlocks(L, z, q + t)
    <2>1. (q + t) * Block = full + tlen
      BY <1>1, <1>2 DEF full
    <2>2. \A i \in 1 .. full + tlen : P[i] \in L
      BY <1>6
    <2>3. Covers(L, P, 0, q + t)
      BY <1>4, <2>1, <2>2 DEF Covers
    <2>4. q + t \in Nat
      OBVIOUS
    <2>. QED BY <2>3, <2>4, BlocksAre
  <1>11. IsBlocks(L, w, q)
    <2>1. S \subseteq L
      BY DEF L, Letters
    <2>2. \A b \in 1 .. q : w[b] \in Seq(L)
      BY <2>1, SeqMonotonic
    <2>. QED BY <2>2 DEF IsBlocks
  <1>12. ASSUME NEW b \in 1 .. q PROVE w[b] = z[b]
    <2> DEFINE x == (b - 1) * Block
               y == b * Block
    <2>1. x \in Nat /\ y \in Nat /\ y <= full
      BY <1>1, RowsMonotone DEF full
    <2>2. w[b] = SubSeq(msg, x + 1, y) /\ z[b] = SubSeq(P, x + 1, y)
      BY <1>1 DEF BlockOf, BlocksOf
    <2> HIDE DEF x, y
    <2>3. \A i \in x + 1 .. y : msg[i] \in S /\ P[i - (x + 1) + (x + 1)] = msg[i]
      BY <1>4, <1>6, <2>1
    <2>4. SubSeq(msg, x + 1, y) = SubSeq(P, x + 1, y)
      BY <2>1, <2>3, SameSlice
    <2>. QED BY <2>2, <2>4
  <1>13. ASSUME NEW c \in 1 .. t PROVE v[c] = z[q + c]
    <2> DEFINE x == (c - 1) * Block
               y == c * Block
    <2>1. x \in Nat /\ y \in Nat /\ y <= tlen
      BY <1>1, <1>2
    <2>2. (q + c - 1) * Block = full + x /\ (q + c) * Block = full + y
      BY <1>1 DEF full
    <2>3. v[c] = SubSeq(tail, x + 1, y)
      BY <1>1 DEF BlocksOf
    <2>4. z[q + c] = SubSeq(P, full + x + 1, full + y)
      BY <1>1, <1>4, <2>1, <2>2 DEF BlocksOf
    <2> HIDE DEF x, y
    <2>5. \A i \in x + 1 .. y : tail[i] \in L /\ P[i - (x + 1) + (full + x + 1)] = tail[i]
      <3> SUFFICES ASSUME NEW i \in x + 1 .. y
                   PROVE  tail[i] \in L /\ P[i - (x + 1) + (full + x + 1)] = tail[i]
        OBVIOUS
      <3>1. i \in 1 .. tlen /\ i - (x + 1) + (full + x + 1) = full + i
        BY <1>4, <2>1
      <3>. QED BY <1>5, <3>1
    <2>6. SubSeq(tail, x + 1, y) = SubSeq(P, full + x + 1, full + y)
      BY <1>4, <2>1, <2>5, SameSlice
    <2>. QED BY <2>3, <2>4, <2>6
  <1> HIDE DEF v, z
  <1>14. Joins(Seq(L), w \o v, w, q, v, t)
    <2>1. w \in Seq(Seq(L)) /\ v \in Seq(Seq(L)) /\ Len(v) = t
      BY <1>9, <1>11 DEF IsBlocks
    <2>2. Joins(Seq(L), w \o v, w, Len(w), v, Len(v))
      BY <2>1, Joined
    <2>. QED BY <2>1, <2>2, Zenon
  <1>15. w \o v = z
    <2> DEFINE u == w \o v
    <2> HIDE DEF u
    <2>1. u \in Seq(Seq(L)) /\ Len(u) = q + t /\ z \in Seq(Seq(L)) /\ Len(z) = q + t
      BY <1>10, <1>14 DEF IsBlocks, Joins, u
    <2>2. ASSUME NEW b \in 1 .. q + t PROVE u[b] = z[b]
      <3>1. u[b] = IF b <= q THEN w[b] ELSE v[b - q]
        BY <1>14 DEF Joins, u
      <3>2. CASE b <= q
        BY <1>12, <3>1, <3>2
      <3>3. CASE ~(b <= q)
        <4>1. b - q \in 1 .. t /\ q + (b - q) = b
          BY <3>3
        <4>. QED BY <1>13, <3>1, <3>3, <4>1
      <3>. QED BY <3>2, <3>3
    <2>3. u = z
      BY <2>1, <2>2, SeqEqual
    <2>. QED BY <2>3 DEF u
  <1>. QED BY <1>7, <1>8, <1>15 DEF full

\* The digest of a pair is that of each of its messages.
LEMMA PairIs ==
  ASSUME Sha!HasherAssumption, NEW S, NEW a \in Seq(S), NEW b \in Seq(S)
  PROVE  Sha!Pair(a, b) = <<Sha!Sum256(a), Sha!Sum256(b)>>
  <1>1. Block \in Nat \ {0}
    BY DEF Sha!HasherAssumption
  <1> DEFINE Whole(m, s) ==
               Sha!Blocks(Sha!Blocks(<<>>, m, 0, s), m, s * Block, Len(m) \div Block - s)
  <1>2. ASSUME NEW m \in Seq(S), NEW s \in Nat, s <= Len(m) \div Block
        PROVE  Sha!Finish(Whole(m, s), m, (Len(m) \div Block) * Block) = Sha!Sum256(m)
    <2>1. PICK n \in Nat : Len(m) = n
      BY <1>2
    <2>2. PICK q \in Nat : n \div Block = q /\ q * Block <= n /\ n < q * Block + Block
      BY <1>1, <2>1, RowsFit
    <2>3. s \in 0 .. q
      BY <1>2, <2>1, <2>2
    <2> DEFINE r == n - q * Block
    <2>4. r \in Nat /\ r < Block /\ n = q * Block + r
      BY <1>1, <2>2
    <2> DEFINE w == Sha!Blocks(Sha!Blocks(<<>>, m, 0, s), m, s * Block, q - s)
    <2>5. w \in Seq(Seq(S)) /\ Len(w) = q /\ \A k \in 1 .. q : w[k] = BlockOf(m, k)
      BY <2>1, <2>2, <2>3, WholeBlocks
    <2>6. Whole(m, s) = w
      BY <2>1, <2>2
    <2> HIDE DEF w, r, Whole
    <2>7. Sha!Finish(w, m, q * Block) = Sha!Sum256(m)
      BY <2>1, <2>4, <2>5, FinishIs
    <2>. QED BY <2>1, <2>2, <2>6, <2>7
  <1> DEFINE fa == Len(a) \div Block
             fb == Len(b) \div Block
             shared == (IF fa * Block < fb * Block THEN fa * Block ELSE fb * Block) \div Block
  <1>3. fa \in Nat /\ fb \in Nat
    BY <1>1, RowsFit, LenProperties
  <1>4. (fa * Block) \div Block = fa /\ (fb * Block) \div Block = fb
    <2> HIDE DEF fa, fb
    <2>1. (fa * Block + 0) \div Block = fa /\ (fb * Block + 0) \div Block = fb
      <3>1. 0 \in Nat /\ 0 < Block
        BY <1>1
      <3>. QED BY <1>1, <1>3, <3>1, Division
    <2>2. fa * Block + 0 = fa * Block /\ fb * Block + 0 = fb * Block
      BY <1>1, <1>3
    <2>. QED BY <2>1, <2>2
  <1>5. shared \in Nat /\ shared <= fa /\ shared <= fb
    <2> HIDE DEF fa, fb
    <2>1. fa * Block \in Nat /\ fb * Block \in Nat
      BY <1>1, <1>3
    <2>2. CASE fa * Block < fb * Block
      <3>1. fa <= fb
        <4> SUFFICES ASSUME fb <= fa PROVE fb * Block <= fa * Block
          BY <1>3, <2>1, <2>2
        <4>. QED BY <1>1, <1>3, RowsMonotone
      <3>. QED BY <1>3, <1>4, <2>2, <3>1
    <2>3. CASE ~(fa * Block < fb * Block)
      <3>1. fb <= fa
        <4> SUFFICES ASSUME fa + 1 <= fb PROVE FALSE
          BY <1>3
        <4>1. (fa + 1) * Block <= fb * Block /\ (fa + 1) * Block = fa * Block + Block
          BY <1>1, <1>3, RowsMonotone
        <4>. QED BY <1>1, <2>1, <2>3, <4>1
      <3>. QED BY <1>3, <1>4, <2>3, <3>1
    <2>. QED BY <2>2, <2>3
  <1>6. Sha!Pair(a, b) = <<Sha!Finish(Whole(a, shared), a, fa * Block), Sha!Finish(Whole(b, shared), b, fb * Block)>>
    BY <1>4 DEF Sha!Pair
  <1> HIDE DEF shared
  <1>7. Sha!Finish(Whole(a, shared), a, fa * Block) = Sha!Sum256(a)
    BY <1>2, <1>5
  <1>8. Sha!Finish(Whole(b, shared), b, fb * Block) = Sha!Sum256(b)
    BY <1>2, <1>5
  <1>. QED BY <1>6, <1>7, <1>8

Bytewise == {<<<<p, i>>, k>> : p \in Inputs, i \in Nat, k \in Nat}

\* The message of an input: the bytes of its own suffix array.
Message(p) ==
  [j \in 1 .. p.len * EntryBytes |-> <<<<p, (j - 1) \div EntryBytes + 1>>, (j - 1) % EntryBytes>>]

\* Of a scratch buffer only what the stream has just written is hashed.
LEMMA StreamIsOwn ==
  ASSUME Sha!HasherAssumption, NEW p \in Inputs, NEW sa
  PROVE  /\ Message(p) \in Seq(Bytewise)
         /\ Sha!Bytes(Sha!Stream(p, sa), p.len) = Message(p)
  <1>1. EntryBytes \in Nat \ {0} /\ MaxLength \in Nat /\ p.len \in 1 .. MaxLength
    BY DEF Sha!HasherAssumption
  <1> DEFINE n == p.len
             total == n * EntryBytes
             msg == Sha!Stream(p, sa)
  <1>2. ASSUME NEW j \in 1 .. total
        PROVE  /\ (j - 1) \div EntryBytes + 1 \in 1 .. n
               /\ (j - 1) % EntryBytes \in Nat
               /\ msg[(j - 1) \div EntryBytes + 1] = <<p, (j - 1) \div EntryBytes + 1>>
    <2> DEFINE d == (j - 1) \div EntryBytes
    <2>1. total \in Nat /\ j - 1 \in Nat /\ j - 1 < total
      BY <1>1
    <2>2. d \in Nat /\ d * EntryBytes <= j - 1 /\ (j - 1) % EntryBytes \in Nat
      <3>1. (j - 1) % EntryBytes \in Nat
        BY <1>1, <2>1
      <3>. QED BY <1>1, <2>1, <3>1, RowsFit
    <2> HIDE DEF d
    <2>3. d < n
      <3> SUFFICES ASSUME n <= d PROVE FALSE
        BY <1>1, <2>2
      <3>1. n * EntryBytes <= d * EntryBytes /\ d * EntryBytes \in Nat
        BY <1>1, <2>2, RowsMonotone
      <3>. QED BY <1>1, <2>1, <2>2, <3>1
    <2>4. d + 1 \in 1 .. n /\ d + 1 \in 1 .. MaxLength /\ d + 1 <= n
      BY <1>1, <2>2, <2>3
    <2>5. msg[d + 1] = <<p, d + 1>>
      BY <2>4 DEF Sha!Stream
    <2>. QED BY <2>2, <2>4, <2>5 DEF d
  <1> HIDE DEF msg
  <1>3. total \in Nat
    BY <1>1
  <1>4. \A j \in 1 .. total :
          <<<<p, (j - 1) \div EntryBytes + 1>>, (j - 1) % EntryBytes>> \in Bytewise
    <2> SUFFICES ASSUME NEW j \in 1 .. total
                 PROVE  <<<<p, (j - 1) \div EntryBytes + 1>>, (j - 1) % EntryBytes>> \in Bytewise
      OBVIOUS
    <2>1. PICK i \in Nat, k \in Nat : i = (j - 1) \div EntryBytes + 1 /\ k = (j - 1) % EntryBytes
      <3>1. n \in Nat
        BY <1>1
      <3>. QED BY <1>2, <3>1
    <2>2. <<<<p, i>>, k>> \in Bytewise
      BY DEF Bytewise
    <2>. QED BY <2>1, <2>2
  <1>5. Message(p) \in Seq(Bytewise)
    <2> DEFINE e(j) == <<<<p, (j - 1) \div EntryBytes + 1>>, (j - 1) % EntryBytes>>
    <2>1. Message(p) = [j \in 1 .. total |-> e(j)]
      BY DEF Message
    <2> HIDE DEF e
    <2>2. \A j \in 1 .. total : e(j) \in Bytewise
      BY <1>4 DEF e
    <2> HIDE DEF total
    <2>. QED BY <1>3, <2>1, <2>2
  <1>6. Sha!Bytes(msg, n) = Message(p)
    BY <1>2 DEF Sha!Bytes, Message
  <1>. QED BY <1>5, <1>6 DEF msg

\* Whatever the scratch buffers hold from earlier hashes, for streams of any
\* length, with SHA instructions or without: a hash, and each of a pair, is the
\* digest of its own suffix array (hasher.go:47, pair_test.go:8).
THEOREM DigestsAreOwn == Sha!Spec => []HashesAreOwn
  <1> USE ShaAssumption DEF HashesAreOwn
  <1>1. Sha!Init => HashesAreOwn
    BY DEF Sha!Init, Sha!HashIsDigest, Sha!PairIsTwoHashes
  <1>2. \A p \in Inputs : Sha!Digest(p) = Sha!Sum256(Message(p))
    BY DEF Sha!Digest, Message
  <1>3. ASSUME NEW a \in Inputs, Sha!Hash(a) PROVE HashesAreOwn'
    <2>1. asked' = <<a>> /\ digests' = <<Sha!Digest(a)>>
      BY <1>2, <1>3, StreamIsOwn DEF Sha!Hash, Sha!Called, Sha!FinalHash
    <2>2. Len(asked') = 1 /\ Len(asked') # 2 /\ asked'[1] = a
      BY <2>1
    <2>3. digests' = <<Sha!Digest(asked'[1])>>
      BY <2>1, <2>2
    <2>4. Sha!HashIsDigest'
      BY <2>3 DEF Sha!HashIsDigest
    <2>5. Sha!PairIsTwoHashes'
      BY <2>2 DEF Sha!PairIsTwoHashes
    <2>. QED BY <2>4, <2>5
  <1>4. ASSUME NEW a \in Inputs, NEW b \in Inputs, Sha!HashPair(a, b) PROVE HashesAreOwn'
    <2>1. asked' = <<a, b>>
      BY <1>4 DEF Sha!HashPair, Sha!Called
    <2>2. digests' = <<Sha!Sum256(Message(a)), Sha!Sum256(Message(b))>>
      <3>1. CASE useSHANI
        <4>1. digests' = Sha!Pair(Message(a), Message(b))
          BY <1>4, <3>1, StreamIsOwn DEF Sha!HashPair
        <4>2. Message(a) \in Seq(Bytewise) /\ Message(b) \in Seq(Bytewise)
          BY StreamIsOwn
        <4>. QED BY <4>1, <4>2, PairIs
      <3>2. CASE ~useSHANI
        BY <1>4, <3>2, StreamIsOwn DEF Sha!HashPair, Sha!FinalHash
      <3>. QED BY <3>1, <3>2
    <2>3. digests' = <<Sha!Digest(a), Sha!Digest(b)>>
      BY <1>2, <2>2
    <2>4. Len(asked') = 2 /\ Len(asked') # 1 /\ asked'[1] = a /\ asked'[2] = b
      BY <2>1
    <2>5. digests' = <<Sha!Digest(asked'[1]), Sha!Digest(asked'[2])>>
      BY <2>3, <2>4
    <2>6. Sha!PairIsTwoHashes'
      BY <2>5 DEF Sha!PairIsTwoHashes
    <2>7. Sha!HashIsDigest'
      BY <2>4 DEF Sha!HashIsDigest
    <2>. QED BY <2>6, <2>7
  <1>5. HashesAreOwn /\ [Sha!Next]_(Sha!vars) => HashesAreOwn'
    <2>1. ASSUME HashesAreOwn, UNCHANGED Sha!vars PROVE HashesAreOwn'
      BY <2>1 DEF Sha!vars, Sha!HashIsDigest, Sha!PairIsTwoHashes, Sha!Digest, Sha!Sum256, Sha!Padded, Sha!Zeros
    <2>. QED BY <1>3, <1>4, <2>1 DEF Sha!Next
  <1>. QED BY <1>1, <1>5, PTL DEF Sha!Spec


-----------------------------------------------------------------------------
(* The switch and its table.  A loop of the source is a recursive function  *)
(* here; it exists, and what its turns keep it keeps, by induction over     *)
(* the numbers.                                                             *)

Less == OpToRel(<, Nat)

\* Induction over the numbers, for a set of them.
LEMMA Inductive ==
  ASSUME NEW S, 0 \in S, \A n \in Nat : n \in S => n + 1 \in S
  PROVE  Nat \subseteq S
  <1> SUFFICES ASSUME Nat \ S # {} PROVE FALSE
    OBVIOUS
  <1>1. IsWellFoundedOn(Less, Nat)
    BY NatLessThanWellFounded DEF OpToRel, Less
  <1>2. PICK x \in Nat \ S : \A y \in Nat \ S : ~(<<y, x>> \in Less)
    <2>1. Nat \ S \subseteq Nat
      OBVIOUS
    <2> HIDE DEF Less
    <2>. QED BY <1>1, <2>1, WFMin
  <1>3. x # 0 /\ x - 1 \in Nat
    OBVIOUS
  <1>4. <<x - 1, x>> \in Less
    BY <1>3 DEF OpToRel, Less
  <1>5. x - 1 \in S
    BY <1>2, <1>3, <1>4
  <1>. QED BY <1>3, <1>5

\* What holds at the start of a loop and is kept by its turns holds throughout.
LEMMA Loops ==
  ASSUME NEW n \in Nat, NEW f, NEW D, f[0] \in D, \A k \in 1 .. n : f[k - 1] \in D => f[k] \in D
  PROVE  \A k \in 0 .. n : f[k] \in D
  <1> DEFINE S == {k \in Nat : k <= n => f[k] \in D}
  <1>1. 0 \in S
    OBVIOUS
  <1>2. ASSUME NEW k \in Nat, k \in S PROVE k + 1 \in S
    <2> SUFFICES ASSUME k + 1 <= n PROVE f[k + 1] \in D
      OBVIOUS
    <2>1. k + 1 \in 1 .. n /\ (k + 1) - 1 = k /\ f[k] \in D
      BY <1>2
    <2>. QED BY <2>1
  <1>3. Nat \subseteq S
    <2> HIDE DEF S
    <2>. QED BY <1>1, <1>2, Inductive
  <1>. QED BY <1>3

\* A loop of n turns, each a function of the state before it.
IsLoop(f, x, g, n) == f = [k \in 0 .. n |-> IF k = 0 THEN x ELSE g[k][f[k - 1]]]

\* There is a function that follows the turns of such a loop.
LEMMA LoopsExist ==
  ASSUME NEW D, NEW n \in Nat, NEW x \in D, NEW g \in [1 .. n -> [D -> D]]
  PROVE  \E f \in [0 .. n -> D] : IsLoop(f, x, g, n)
  <1> DEFINE S == {m \in Nat : m <= n => \E f \in [0 .. m -> D] : IsLoop(f, x, g, m)}
  <1>1. 0 \in S
    <2> DEFINE z == [k \in 0 .. 0 |-> x]
    <2>1. z \in [0 .. 0 -> D] /\ IsLoop(z, x, g, 0)
      BY DEF IsLoop
    <2>. QED BY <2>1
  <1>2. ASSUME NEW m \in Nat, m \in S PROVE m + 1 \in S
    <2> SUFFICES ASSUME m + 1 <= n PROVE \E f \in [0 .. m + 1 -> D] : IsLoop(f, x, g, m + 1)
      OBVIOUS
    <2>1. PICK f \in [0 .. m -> D] : IsLoop(f, x, g, m)
      BY <1>2
    <2> DEFINE h == [k \in 0 .. m + 1 |-> IF k = m + 1 THEN g[m + 1][f[m]] ELSE f[k]]
    <2>2. g[m + 1][f[m]] \in D
      <3>1. m + 1 \in 1 .. n /\ f[m] \in D
        OBVIOUS
      <3>. QED BY <3>1
    <2>3. h \in [0 .. m + 1 -> D]
      BY <2>2
    <2>4. ASSUME NEW k \in 0 .. m + 1 PROVE h[k] = IF k = 0 THEN x ELSE g[k][h[k - 1]]
      <3>1. CASE k = m + 1
        <4>1. h[k] = g[m + 1][f[m]] /\ h[k - 1] = f[m] /\ k # 0
          BY <3>1
        <4>. QED BY <3>1, <4>1
      <3>2. CASE k # m + 1
        <4>1. k \in 0 .. m /\ h[k] = f[k] /\ (k # 0 => h[k - 1] = f[k - 1])
          BY <3>2
        <4>2. f[k] = IF k = 0 THEN x ELSE g[k][f[k - 1]]
          BY <2>1, <4>1 DEF IsLoop
        <4>. QED BY <4>1, <4>2
      <3>. QED BY <3>1, <3>2
    <2>5. IsLoop(h, x, g, m + 1)
      <3> HIDE DEF h
      <3>1. h = [k \in 0 .. m + 1 |-> h[k]]
        BY <2>3
      <3>. QED BY <2>4, <3>1 DEF IsLoop
    <2>. QED BY <2>3, <2>5
  <1>3. Nat \subseteq S
    <2> HIDE DEF S
    <2>. QED BY <1>1, <1>2, Inductive
  <1>. QED BY <1>3

-----------------------------------------------------------------------------
(* RC4.                                                                    *)

C == Switch!Cell
Permutations == {s \in [C -> C] : \A v \in C : \E i \in C : s[i] = v}
Ciphers == [s : Permutations, i : C, j : C]
Contents == [C -> Switch!Byte]

\* The sizes of the switch, as the provers need them.
LEMMA StreamSizes == /\ N \in Nat \ {0} /\ N <= 256 /\ Window \in Nat \ {0}
               /\ Seeds \subseteq Contents
               /\ Switchers \in Seq(SUBSET (Switch!Byte \X C \X C))
  BY SwitchAssumption DEF Switch!StreamAssumption, C, Contents, Switch!Cell

\* Any number taken modulo N is a cell; cells are bytes.
LEMMA Cells == /\ \A x \in Int : x % N \in C
               /\ \A i \in C : i \in Int /\ i \in Switch!Byte
               /\ 0 \in C /\ N - 1 \in C
               /\ \A k \in 1 .. N : k - 1 \in C
  BY StreamSizes DEF C, Switch!Cell, Switch!Byte

\* Exchanging two values of a permutation leaves a permutation, i = j included.
LEMMA SwapPermutes ==
  ASSUME NEW s \in Permutations, NEW i \in C, NEW j \in C
  PROVE  Switch!Swapped(s, i, j) \in Permutations
  <1> DEFINE r == Switch!Swapped(s, i, j)
  <1>1. r \in [C -> C]
    BY DEF Switch!Swapped, Permutations
  <1>2. \A k \in C : r[k] = IF k = j THEN s[i] ELSE IF k = i THEN s[j] ELSE s[k]
    BY DEF Switch!Swapped, Permutations
  <1>3. ASSUME NEW v \in C PROVE \E k \in C : r[k] = v
    <2> HIDE DEF r
    <2>1. PICK k \in C : s[k] = v
      BY DEF Permutations
    <2>. QED BY <1>2, <2>1
  <1>. QED BY <1>1, <1>3 DEF Permutations

\* Exclusive or of two bytes is a byte.
LEMMA XorByte == \A x, y \in Switch!Byte : Switch!Xor8(x, y) \in Switch!Byte
  <1>1. \A a, b \in Switch!Nibble : Switch!Xor4[a][b] \in Switch!Nibble
    BY DEF Switch!Xor4, Switch!Half, Switch!Xor, Switch!Nibble
  <1>2. \A x \in Switch!Byte : x \div 16 \in Switch!Nibble /\ x % 16 \in Switch!Nibble
    BY DEF Switch!Byte, Switch!Nibble
  <1>3. \A a, b \in Switch!Nibble : 16 * a + b \in Switch!Byte
    BY DEF Switch!Byte, Switch!Nibble
  <1>. QED BY <1>1, <1>2, <1>3 DEF Switch!Xor8

\* And of two bytes is a byte.
LEMMA AndByte == \A x, y \in Switch!Byte : Switch!And8(x, y) \in Switch!Byte
  <1>1. \A a, b \in Switch!Nibble : Switch!And4[a][b] \in Switch!Nibble
    BY DEF Switch!And4, Switch!Half, Switch!And, Switch!Nibble
  <1>2. \A x \in Switch!Byte : x \div 16 \in Switch!Nibble /\ x % 16 \in Switch!Nibble
    BY DEF Switch!Byte, Switch!Nibble
  <1>3. \A a, b \in Switch!Nibble : 16 * a + b \in Switch!Byte
    BY DEF Switch!Byte, Switch!Nibble
  <1>. QED BY <1>1, <1>2, <1>3 DEF Switch!And8

IsMixing(m, key) ==
  m = [k \in 0 .. N |-> IF k = 0 THEN [s |-> [i \in C |-> i], j |-> 0]
                        ELSE Switch!Mixed(m[k - 1], k - 1, key)]

\* A new cipher is one, whatever the key.
LEMMA NewCiphers == ASSUME NEW key \in Contents PROVE Switch!NewCipher(key) \in Ciphers
  <1> DEFINE D == [s : Permutations, j : C]
             x == [s |-> [i \in C |-> i], j |-> 0]
             g == [k \in 1 .. N |-> [m \in D |-> Switch!Mixed(m, k - 1, key)]]
  <1>1. x \in D
    BY Cells DEF Permutations
  <1>2. ASSUME NEW m \in D, NEW i \in C PROVE Switch!Mixed(m, i, key) \in D
    <2>1. PICK j : j = (m.j + m.s[i] + key[i]) % N
      OBVIOUS
    <2>2. j \in C
      <3>1. m.j \in C /\ m.s[i] \in C
        BY DEF Permutations
      <3>2. m.j \in Int /\ m.s[i] \in Int
        <4> HIDE DEF D
        <4>. QED BY <3>1, Cells
      <3>3. key[i] \in Int
        BY DEF Contents, Switch!Byte
      <3>. QED BY <2>1, <3>2, <3>3, Cells
    <2>3. Switch!Mixed(m, i, key) = [s |-> Switch!Swapped(m.s, i, j), j |-> j]
      BY <2>1 DEF Switch!Mixed
    <2>. QED BY <2>2, <2>3, SwapPermutes
  <1>3. g \in [1 .. N -> [D -> D]]
    BY <1>2, Cells
  <1>4. PICK f \in [0 .. N -> D] : IsLoop(f, x, g, N)
    <2> HIDE DEF D, x, g
    <2>. QED BY <1>1, <1>3, LoopsExist, StreamSizes
  <1>5. IsMixing(f, key)
    <2>1. ASSUME NEW k \in 0 .. N, k # 0 PROVE g[k][f[k - 1]] = Switch!Mixed(f[k - 1], k - 1, key)
      <3>1. k \in 1 .. N /\ k - 1 \in 0 .. N /\ f[k - 1] \in D
        BY <2>1, StreamSizes
      <3>. QED BY <3>1
    <2> HIDE DEF g, D
    <2>. QED BY <1>4, <2>1 DEF IsLoop, IsMixing
  <1>6. PICK m : m = (CHOOSE z : IsMixing(z, key)) /\ IsMixing(m, key)
    BY <1>5
  <1>7. m[0] = x /\ \A k \in 1 .. N : m[k] = Switch!Mixed(m[k - 1], k - 1, key)
    <2>1. 0 \in 0 .. N /\ \A k \in 1 .. N : k \in 0 .. N /\ k # 0
      BY StreamSizes
    <2>2. \A k \in 0 .. N : m[k] = IF k = 0 THEN x ELSE Switch!Mixed(m[k - 1], k - 1, key)
      BY <1>6 DEF IsMixing
    <2> HIDE DEF x
    <2>. QED BY <2>1, <2>2
  <1>8. m[N] \in D
    <2> HIDE DEF D, x
    <2>1. \A k \in 1 .. N : m[k - 1] \in D => m[k] \in D
      BY <1>2, <1>7, Cells
    <2>2. \A k \in 0 .. N : m[k] \in D
      BY <1>1, <1>7, <2>1, Loops, StreamSizes
    <2>. QED BY <2>2, StreamSizes
  <1>9. Switch!NewCipher(key) = [s |-> m[N].s, i |-> 0, j |-> 0]
    BY <1>6 DEF IsMixing, Switch!NewCipher, C
  <1>. QED BY <1>8, <1>9, Cells DEF Ciphers

IsCrypting(t, c, src) ==
  t = [k \in 0 .. N |-> IF k = 0 THEN [c |-> c, dst |-> src] ELSE Switch!Crypted(t[k - 1], k - 1, src)]

\* A pass over step_3 leaves bytes and a cipher.
LEMMA KeyStreams ==
  ASSUME NEW c \in Ciphers, NEW src \in Contents
  PROVE  Switch!XORKeyStream(c, src) \in [c : Ciphers, dst : Contents]
  <1> DEFINE D == [c : Ciphers, dst : Contents]
             x == [c |-> c, dst |-> src]
             g == [k \in 1 .. N |-> [t \in D |-> Switch!Crypted(t, k - 1, src)]]
  <1>1. x \in D
    OBVIOUS
  <1>2. ASSUME NEW t \in D, NEW k \in C PROVE Switch!Crypted(t, k, src) \in D
    <2>1. PICK i : i = (t.c.i + 1) % N
      OBVIOUS
    <2>2. PICK p : p = t.c.s[i]
      OBVIOUS
    <2>3. PICK j : j = (t.c.j + p) % N
      OBVIOUS
    <2>4. PICK y : y = t.c.s[j]
      OBVIOUS
    <2>5. PICK s : s = Switch!Swapped(t.c.s, i, j)
      OBVIOUS
    <2>6. PICK v : v = Switch!Xor8(src[k], s[(p + y) % N])
      OBVIOUS
    <2>7. t.c \in Ciphers /\ t.c.s \in Permutations /\ t.c.s \in [C -> C] /\ t.c.i \in C /\ t.c.j \in C
      BY DEF Ciphers, Permutations
    <2> HIDE DEF D
    <2>8. i \in C
      BY <2>1, <2>7, Cells
    <2>9. p \in C
      BY <2>2, <2>7, <2>8
    <2>10. j \in C
      BY <2>3, <2>7, <2>9, Cells
    <2>11. y \in C
      BY <2>4, <2>7, <2>10
    <2>12. s \in Permutations /\ s \in [C -> C]
      BY <2>5, <2>7, <2>8, <2>10, SwapPermutes DEF Permutations
    <2>13. (p + y) % N \in C
      BY <2>9, <2>11, Cells
    <2>14. v \in Switch!Byte
      <3>1. src[k] \in Switch!Byte /\ s[(p + y) % N] \in Switch!Byte
        BY <2>12, <2>13, Cells DEF Contents
      <3>. QED BY <2>6, <3>1, XorByte
    <2>15. Switch!Crypted(t, k, src) = [c |-> [s |-> s, i |-> i, j |-> j], dst |-> [t.dst EXCEPT ![k] = v]]
      BY <2>1, <2>2, <2>3, <2>4, <2>5, <2>6 DEF Switch!Crypted
    <2>16. t.dst \in Contents /\ [t.dst EXCEPT ![k] = v] \in Contents
      BY <2>14 DEF D, Contents
    <2>17. [s |-> s, i |-> i, j |-> j] \in Ciphers
      BY <2>8, <2>10, <2>12 DEF Ciphers
    <2>. QED BY <2>15, <2>16, <2>17 DEF D
  <1>3. g \in [1 .. N -> [D -> D]]
    BY <1>2, Cells
  <1>4. PICK f \in [0 .. N -> D] : IsLoop(f, x, g, N)
    <2> HIDE DEF D, x, g
    <2>. QED BY <1>1, <1>3, LoopsExist, StreamSizes
  <1>5. IsCrypting(f, c, src)
    <2>1. ASSUME NEW k \in 0 .. N, k # 0 PROVE g[k][f[k - 1]] = Switch!Crypted(f[k - 1], k - 1, src)
      <3>1. k \in 1 .. N /\ k - 1 \in 0 .. N /\ f[k - 1] \in D
        BY <2>1, StreamSizes
      <3>. QED BY <3>1
    <2> HIDE DEF g, D
    <2>. QED BY <1>4, <2>1 DEF IsLoop, IsCrypting
  <1>6. PICK t : t = (CHOOSE z : IsCrypting(z, c, src)) /\ IsCrypting(t, c, src)
    BY <1>5
  <1>7. t[0] = x /\ \A k \in 1 .. N : t[k] = Switch!Crypted(t[k - 1], k - 1, src)
    <2>1. 0 \in 0 .. N /\ \A k \in 1 .. N : k \in 0 .. N /\ k # 0
      BY StreamSizes
    <2>2. \A k \in 0 .. N : t[k] = IF k = 0 THEN x ELSE Switch!Crypted(t[k - 1], k - 1, src)
      BY <1>6 DEF IsCrypting
    <2> HIDE DEF x
    <2>. QED BY <2>1, <2>2
  <1>8. t[N] \in D
    <2> HIDE DEF D, x
    <2>1. \A k \in 1 .. N : t[k - 1] \in D => t[k] \in D
      BY <1>2, <1>7, Cells
    <2>2. \A k \in 0 .. N : t[k] \in D
      BY <1>1, <1>7, <2>1, Loops, StreamSizes
    <2>. QED BY <2>2, StreamSizes
  <1>9. Switch!XORKeyStream(c, src) = t[N]
    BY <1>6 DEF IsCrypting, Switch!XORKeyStream
  <1>. QED BY <1>8, <1>9

-----------------------------------------------------------------------------
(* One statement after another: step_3 keeps its bytes, RC4 its            *)
(* permutation; the log only grows, and RC4 never runs unnoticed.          *)

Hashes == {"xxhash", "fnv1a", "siphash"}
Entries == {<<"rc4", <<>>>>} \cup Hashes \X UNION {[0 .. n - 1 -> Switch!Byte] : n \in C}
States == [s : Contents, log : Seq(Entries), rc : Ciphers]

\* Hashes have been taken since t, but RC4 has not run.
Quiet(t, u) ==
  /\ Len(t.log) <= Len(u.log)
  /\ \A k \in Len(t.log) + 1 .. Len(u.log) : u.log[k][1] # "rc4"

\* An extended log has its old entries and the new one.
LEMMA LogGrows ==
  ASSUME NEW t \in States, NEW e \in Entries
  PROVE  /\ Append(t.log, e) \in Seq(Entries)
         /\ Len(Append(t.log, e)) = Len(t.log) + 1 /\ Len(t.log) \in Nat
         /\ \A k \in 1 .. Len(t.log) : Append(t.log, e)[k] = t.log[k]
         /\ Append(t.log, e)[Len(t.log) + 1] = e
  BY DEF States

\* A hash leaves quiet what was quiet.
LEMMA QuietHash ==
  ASSUME NEW t \in States, NEW u \in States, Quiet(t, u), NEW v \in States, NEW e \in Entries,
         e[1] \in Hashes, v.log = Append(u.log, e)
  PROVE  Quiet(t, v)
  <1>1. Len(t.log) \in Nat /\ Len(u.log) \in Nat
    BY DEF States
  <1>2. Len(v.log) = Len(u.log) + 1 /\ v.log[Len(u.log) + 1] = e
        /\ \A k \in 1 .. Len(u.log) : v.log[k] = u.log[k]
    BY LogGrows
  <1>3. e[1] # "rc4"
    BY DEF Hashes
  <1>. QED BY <1>1, <1>2, <1>3 DEF Quiet

\* A hash is logged and changes nothing else.
LEMMA HashKeeps ==
  ASSUME NEW t \in States, NEW kind \in Hashes, NEW b \in C
  PROVE  /\ Switch!Hashed(t, kind, b) \in States
         /\ Switch!Hashed(t, kind, b).s = t.s
         /\ \A z \in States : Quiet(z, t) => Quiet(z, Switch!Hashed(t, kind, b))
  <1>1. PICK w : w = [k \in 0 .. b - 1 |-> t.s[k]]
    OBVIOUS
  <1>2. w \in [0 .. b - 1 -> Switch!Byte]
    <2>1. \A k \in 0 .. b - 1 : k \in C
      BY StreamSizes DEF C, Switch!Cell
    <2>. QED BY <1>1, <2>1 DEF States, Contents
  <1>3. <<kind, w>> \in Entries /\ <<kind, w>>[1] = kind
    BY <1>2 DEF Entries
  <1>4. PICK v : v = Switch!Hashed(t, kind, b)
    OBVIOUS
  <1>5. v = [t EXCEPT !.log = Append(t.log, <<kind, w>>)]
    BY <1>1, <1>4 DEF Switch!Hashed
  <1>6. v = [s |-> t.s, log |-> Append(t.log, <<kind, w>>), rc |-> t.rc]
    BY <1>5 DEF States
  <1>7. v \in States
    BY <1>3, <1>6, LogGrows DEF States
  <1>8. ASSUME NEW z \in States, Quiet(z, t) PROVE Quiet(z, v)
    BY <1>3, <1>6, <1>7, <1>8, QuietHash
  <1>9. v.s = t.s
    BY <1>6
  <1>. QED BY <1>4, <1>7, <1>8, <1>9

\* The reverse swap writes the two ends of the window.
LEMMA SwapKeeps ==
  ASSUME NEW t \in States, NEW a \in C, NEW b \in C
  PROVE  /\ Switch!ReverseSwap(t, a, b) \in States
         /\ Switch!ReverseSwap(t, a, b).log = t.log
         /\ \A i \in C \ {a, b} : Switch!ReverseSwap(t, a, b).s[i] = t.s[i]
  <1>1. ASSUME NEW x \in Switch!Byte PROVE Switch!Reverse8(x) \in Switch!Byte
    <2>1. \A k \in 0 .. 7 : Switch!Bit(x, k) \in {0, 1}
      BY DEF Switch!Byte, Switch!Bit, Switch!Pow
    <2>2. \A p, q, r, s \in {0, 1} : Switch!Half(p, q, r, s) \in 0 .. 15
      BY DEF Switch!Half
    <2>3. \A p, q \in 0 .. 15 : 16 * p + q \in Switch!Byte
      BY DEF Switch!Byte
    <2>. QED BY <2>1, <2>2, <2>3 DEF Switch!Reverse8
  <1>2. PICK p : p = Switch!Reverse8(t.s[a])
    OBVIOUS
  <1>3. PICK q : q = Switch!Reverse8(t.s[b])
    OBVIOUS
  <1>4. p \in Switch!Byte /\ q \in Switch!Byte
    BY <1>1, <1>2, <1>3 DEF States, Contents
  <1>5. PICK w : w = [t.s EXCEPT ![b] = p, ![a] = q]
    OBVIOUS
  <1>6. w \in Contents /\ \A i \in C \ {a, b} : w[i] = t.s[i]
    BY <1>4, <1>5 DEF States, Contents
  <1>7. PICK v : v = Switch!ReverseSwap(t, a, b)
    OBVIOUS
  <1>8. v = [t EXCEPT !.s = w]
    BY <1>2, <1>3, <1>5, <1>7 DEF Switch!ReverseSwap
  <1>9. v = [s |-> w, log |-> t.log, rc |-> t.rc]
    BY <1>8 DEF States
  <1>10. v \in States /\ v.log = t.log /\ v.s = w
    BY <1>6, <1>9 DEF States
  <1>. QED BY <1>6, <1>7, <1>10

Written(t, i, x) == [t EXCEPT !.s[i] = x]

\* Writing a byte to a cell changes that cell.
LEMMA WriteKeeps ==
  ASSUME NEW t \in States, NEW i \in C, NEW x \in Switch!Byte
  PROVE  /\ Written(t, i, x) \in States
         /\ Written(t, i, x).log = t.log /\ Written(t, i, x).s[i] = x
         /\ \A j \in C \ {i} : Written(t, i, x).s[j] = t.s[j]
  BY DEF Written, States, Contents

\* A new key changes the cipher only.
LEMMA RekeyKeeps ==
  ASSUME NEW t \in States
  PROVE  Switch!Rekeyed(t) \in States /\ Switch!Rekeyed(t).s = t.s /\ Switch!Rekeyed(t).log = t.log
  <1>1. Switch!Rekeyed(t) = [s |-> t.s, log |-> t.log, rc |-> Switch!NewCipher(t.s)]
    BY DEF Switch!Rekeyed, States
  <1>. QED BY <1>1, NewCiphers DEF States

\* RC4 leaves its mark in the log.
LEMMA EncryptKeeps ==
  ASSUME NEW t \in States
  PROVE  LET u == Switch!Encrypted(t)
         IN  u \in States /\ Len(u.log) = Len(t.log) + 1 /\ u.log[Len(u.log)][1] = "rc4"
  <1>1. PICK ks : ks = Switch!XORKeyStream(t.rc, t.s)
    OBVIOUS
  <1>2. ks.c \in Ciphers /\ ks.dst \in Contents
    BY <1>1, KeyStreams DEF States
  <1>3. PICK e : e = <<"rc4", <<>>>>
    OBVIOUS
  <1>4. e \in Entries /\ e[1] = "rc4"
    BY <1>3 DEF Entries
  <1>5. PICK u : u = Switch!Encrypted(t)
    OBVIOUS
  <1>6. u = [s |-> ks.dst, log |-> Append(t.log, e), rc |-> ks.c]
    BY <1>1, <1>3, <1>5 DEF Switch!Encrypted
  <1>7. u \in States /\ u.log = Append(t.log, e)
    BY <1>2, <1>4, <1>6, LogGrows DEF States
  <1>8. Len(u.log) = Len(t.log) + 1 /\ u.log[Len(u.log)] = e
    BY <1>4, <1>7, LogGrows
  <1>. QED BY <1>4, <1>5, <1>7, <1>8

\* The prologue starts with a state.
LEMMA PrologueStarts == ASSUME NEW key \in Contents PROVE Switch!Prologue(key) \in States
  <1>1. PICK ks : ks = Switch!XORKeyStream(Switch!NewCipher(key), key)
    OBVIOUS
  <1>2. ks.c \in Ciphers /\ ks.dst \in Contents
    BY <1>1, NewCiphers, KeyStreams
  <1>3. Switch!Prologue(key) = [s |-> ks.dst, log |-> <<>>, rc |-> ks.c]
    BY <1>1 DEF Switch!Prologue
  <1>. QED BY <1>2, <1>3 DEF States

-----------------------------------------------------------------------------
(* The switch and its table.                                               *)

ByteStatements == {"add", "mul", "sub97", "not", "xor", "and", "pop", "rev", "rotx", "shl", "shr",
                   "rot1", "rot3", "rot5", "xrot2", "xrot4"}

\* The code genwolf gives each statement.
LEMMA Codes ==
  /\ Switch!classifyStmt("add") = 2816 /\ Switch!classifyStmt("mul") = 3072
  /\ Switch!classifyStmt("sub97") = 3328 /\ Switch!classifyStmt("not") = 1792
  /\ Switch!classifyStmt("xor") = 1280 /\ Switch!classifyStmt("and") = 1536
  /\ Switch!classifyStmt("pop") = 2048 /\ Switch!classifyStmt("rev") = 2304
  /\ Switch!classifyStmt("rotx") = 2560 /\ Switch!classifyStmt("shl") = 768
  /\ Switch!classifyStmt("shr") = 1024 /\ Switch!classifyStmt("rot1") = 257
  /\ Switch!classifyStmt("rot3") = 259 /\ Switch!classifyStmt("rot5") = 261
  /\ Switch!classifyStmt("xrot2") = 514 /\ Switch!classifyStmt("xrot4") = 516
  /\ Switch!classifyStmt("swap") = 0 /\ Switch!classifyStmt("hash") = 0
  BY DEF Switch!classifyStmt, Switch!pack

\* The interpreter does for the code of a statement what the switch does.
LEMMA CodeRuns ==
  ASSUME NEW s \in ByteStatements, NEW x, NEW p
  PROVE  /\ Switch!Applied(Switch!classifyStmt(s), x, p) = Switch!Stmt(s, x, p)
         /\ Switch!classifyStmt(s) # 0
  BY Codes DEF ByteStatements, Switch!Applied, Switch!Stmt

\* A rotation of a byte is a byte.
LEMMA RotateByte ==
  ASSUME NEW x \in Switch!Byte, NEW k \in Nat PROVE Switch!RotateLeft8(x, k) \in Switch!Byte
  <1>1. PICK r \in 0 .. 7 : r = k % 8
    OBVIOUS
  <1>2. ((x * Switch!Pow(r)) % 256) + (x \div Switch!Pow(8 - r)) \in 0 .. 255
    <2>0. x \in 0 .. 255
      BY DEF Switch!Byte
    <2>1. CASE r = 0
      BY <2>0, <2>1 DEF Switch!Pow
    <2>2. CASE r = 1
      BY <2>0, <2>2 DEF Switch!Pow
    <2>3. CASE r = 2
      BY <2>0, <2>3 DEF Switch!Pow
    <2>4. CASE r = 3
      BY <2>0, <2>4 DEF Switch!Pow
    <2>5. CASE r = 4
      BY <2>0, <2>5 DEF Switch!Pow
    <2>6. CASE r = 5
      BY <2>0, <2>6 DEF Switch!Pow
    <2>7. CASE r = 6
      BY <2>0, <2>7 DEF Switch!Pow
    <2>8. CASE r = 7
      BY <2>0, <2>8 DEF Switch!Pow
    <2>. QED BY <2>1, <2>2, <2>3, <2>4, <2>5, <2>6, <2>7, <2>8, SMTT(30)
  <1>3. Switch!RotateLeft8(x, k) = ((x * Switch!Pow(r)) % 256) + (x \div Switch!Pow(8 - r))
    BY <1>1 DEF Switch!RotateLeft8
  <1>. QED BY <1>2, <1>3 DEF Switch!Byte

\* Reversing and counting bits gives bytes.
LEMMA BitsByte ==
  ASSUME NEW x \in Switch!Byte
  PROVE  Switch!OnesCount8(x) \in Switch!Byte /\ Switch!Reverse8(x) \in Switch!Byte
  <1>1. \A k \in 0 .. 7 : Switch!Bit(x, k) \in {0, 1}
    BY DEF Switch!Byte, Switch!Bit, Switch!Pow
  <1>2. Switch!OnesCount8(x) \in Switch!Byte
    <2>1. \A p, q, r, s, t, u, v, w \in {0, 1} : p + q + r + s + t + u + v + w \in Switch!Byte
      BY DEF Switch!Byte
    <2>. QED BY <1>1, <2>1 DEF Switch!OnesCount8
  <1>3. Switch!Reverse8(x) \in Switch!Byte
    <2>1. \A p, q, r, s \in {0, 1} : Switch!Half(p, q, r, s) \in 0 .. 15
      BY DEF Switch!Half
    <2>2. \A p, q \in 0 .. 15 : 16 * p + q \in Switch!Byte
      BY DEF Switch!Byte
    <2>. QED BY <1>1, <2>1, <2>2 DEF Switch!Reverse8
  <1>. QED BY <1>2, <1>3

\* A statement turns bytes into a byte.
LEMMA StatementByte ==
  ASSUME NEW s \in ByteStatements, NEW x \in Switch!Byte, NEW p \in Switch!Byte
  PROVE  Switch!Stmt(s, x, p) \in Switch!Byte
  <1>0. x \in Nat /\ x \in 0 .. 255 /\ 97 \in Switch!Byte /\ \A z \in Int : z % 256 \in Switch!Byte
    BY DEF Switch!Byte
  <1>1. \A y, z \in Switch!Byte : Switch!Xor8(y, z) \in Switch!Byte /\ Switch!And8(y, z) \in Switch!Byte
    BY XorByte, AndByte
  <1>2. \A k \in Nat : Switch!RotateLeft8(x, k) \in Switch!Byte
    BY RotateByte
  <1>3. Switch!OnesCount8(x) \in Switch!Byte /\ Switch!Reverse8(x) \in Switch!Byte
    BY BitsByte
  <1>4. Switch!Pow(x % 4) \in {1, 2, 4, 8}
    <2>1. x % 4 \in 0 .. 3
      BY <1>0
    <2>. QED BY <2>1 DEF Switch!Pow
  <1>5. CASE s \in {"add", "mul"}
    <2>1. x + x \in Int /\ x * x \in Int
      BY <1>0
    <2>. QED BY <1>0, <1>5, <2>1 DEF Switch!Stmt
  <1>6. CASE s = "sub97"
    <2>1. x - Switch!Xor8(x, 97) \in Int
      <3>1. Switch!Xor8(x, 97) \in Switch!Byte
        BY <1>0, <1>1
      <3>. QED BY <1>0, <3>1 DEF Switch!Byte
    <2>. QED BY <1>0, <1>6, <2>1 DEF Switch!Stmt
  <1>7. CASE s = "not"
    <2>1. 255 - x \in Switch!Byte
      BY DEF Switch!Byte
    <2>. QED BY <1>7, <2>1 DEF Switch!Stmt
  <1>8. CASE s \in {"xor", "and", "pop", "rev"}
    BY <1>1, <1>3, <1>8 DEF Switch!Stmt
  <1>9. CASE s \in {"rotx", "rot1", "rot3", "rot5", "xrot2", "xrot4"}
    BY <1>0, <1>1, <1>2, <1>9 DEF Switch!Stmt
  <1>10. CASE s = "shl"
    <2>1. x * Switch!Pow(x % 4) \in Int
      BY <1>0, <1>4
    <2>. QED BY <1>0, <1>10, <2>1 DEF Switch!Stmt
  <1>11. CASE s = "shr"
    <2>1. \A d \in {1, 2, 4, 8} : x \div d \in Switch!Byte
      BY <1>0 DEF Switch!Byte
    <2>. QED BY <1>4, <1>11, <2>1 DEF Switch!Stmt
  <1>. QED BY <1>5, <1>6, <1>7, <1>8, <1>9, <1>10, <1>11 DEF ByteStatements

\* A row of the table holds the codes of the byte statements of its case.
Twins(st, row, n) ==
  /\ Len(st) = n /\ DOMAIN st = 1 .. n /\ Len(row) = 4
  /\ row = <<row[1], row[2], row[3], row[4]>>
  /\ st[1] \in ByteStatements /\ row[1] = Switch!classifyStmt(st[1])
  /\ st[2] \in ByteStatements /\ row[2] = Switch!classifyStmt(st[2])
  /\ st[3] \in ByteStatements /\ row[3] = Switch!classifyStmt(st[3])
  /\ st[4] \in ByteStatements /\ row[4] = Switch!classifyStmt(st[4])

\* Only case 0 and case 253 have a statement more.
Statements(c) == IF c \in {0, 253} THEN 5 ELSE 4

\* Case by case, the table's row is the code of the case's statements.
LEMMA AllTwins ==
  ASSUME NEW c \in Switch!Byte
  PROVE  /\ Twins(Switch!Cases(c), Switch!wolfOps(c), Statements(c))
         /\ c = 0 => Switch!Cases(c)[5] = "swap"
         /\ c = 253 => Switch!Cases(c)[5] = "hash"
  <1>1. PICK q \in 0 .. 15, r \in 1 .. 16 : c \div 16 = q /\ r = (c % 16) + 1 /\ c = 16 * q + r - 1
    <2>1. c \div 16 \in 0 .. 15 /\ (c % 16) + 1 \in 1 .. 16 /\ c = 16 * (c \div 16) + ((c % 16) + 1) - 1
      BY DEF Switch!Byte
    <2>. QED BY <2>1
  <1>2. CASE q = 0
    <2>1. Switch!Cases(c) = Switch!Cases0[r] /\ Switch!wolfOps(c) = Switch!Ops0[r]
      BY <1>1, <1>2 DEF Switch!Cases, Switch!wolfOps
    <2>2. \A k \in 1 .. 16 \ {1} : Twins(Switch!Cases0[k], Switch!Ops0[k], 4)
      BY Codes DEF Switch!Cases0, Switch!Ops0, Twins, ByteStatements
    <2>4. Twins(Switch!Cases0[1], Switch!Ops0[1], 5)
      BY Codes DEF Switch!Cases0, Switch!Ops0, Twins, ByteStatements
    <2>3. Switch!Cases0[1][5] = "swap" /\ (c \in {0, 253} <=> r = 1)
      BY <1>1, <1>2 DEF Switch!Cases0
    <2>. QED BY <1>1, <1>2, <2>1, <2>2, <2>3, <2>4 DEF Statements
  <1>3. CASE q = 1
    <2>1. Switch!Cases(c) = Switch!Cases1[r] /\ Switch!wolfOps(c) = Switch!Ops1[r]
      BY <1>1, <1>3 DEF Switch!Cases, Switch!wolfOps
    <2>2. \A k \in 1 .. 16 : Twins(Switch!Cases1[k], Switch!Ops1[k], 4)
      BY Codes DEF Switch!Cases1, Switch!Ops1, Twins, ByteStatements
    <2>. QED BY <1>1, <1>3, <2>1, <2>2 DEF Statements
  <1>4. CASE q = 2
    <2>1. Switch!Cases(c) = Switch!Cases2[r] /\ Switch!wolfOps(c) = Switch!Ops2[r]
      BY <1>1, <1>4 DEF Switch!Cases, Switch!wolfOps
    <2>2. \A k \in 1 .. 16 : Twins(Switch!Cases2[k], Switch!Ops2[k], 4)
      BY Codes DEF Switch!Cases2, Switch!Ops2, Twins, ByteStatements
    <2>. QED BY <1>1, <1>4, <2>1, <2>2 DEF Statements
  <1>5. CASE q = 3
    <2>1. Switch!Cases(c) = Switch!Cases3[r] /\ Switch!wolfOps(c) = Switch!Ops3[r]
      BY <1>1, <1>5 DEF Switch!Cases, Switch!wolfOps
    <2>2. \A k \in 1 .. 16 : Twins(Switch!Cases3[k], Switch!Ops3[k], 4)
      BY Codes DEF Switch!Cases3, Switch!Ops3, Twins, ByteStatements
    <2>. QED BY <1>1, <1>5, <2>1, <2>2 DEF Statements
  <1>6. CASE q = 4
    <2>1. Switch!Cases(c) = Switch!Cases4[r] /\ Switch!wolfOps(c) = Switch!Ops4[r]
      BY <1>1, <1>6 DEF Switch!Cases, Switch!wolfOps
    <2>2. \A k \in 1 .. 16 : Twins(Switch!Cases4[k], Switch!Ops4[k], 4)
      BY Codes DEF Switch!Cases4, Switch!Ops4, Twins, ByteStatements
    <2>. QED BY <1>1, <1>6, <2>1, <2>2 DEF Statements
  <1>7. CASE q = 5
    <2>1. Switch!Cases(c) = Switch!Cases5[r] /\ Switch!wolfOps(c) = Switch!Ops5[r]
      BY <1>1, <1>7 DEF Switch!Cases, Switch!wolfOps
    <2>2. \A k \in 1 .. 16 : Twins(Switch!Cases5[k], Switch!Ops5[k], 4)
      BY Codes DEF Switch!Cases5, Switch!Ops5, Twins, ByteStatements
    <2>. QED BY <1>1, <1>7, <2>1, <2>2 DEF Statements
  <1>8. CASE q = 6
    <2>1. Switch!Cases(c) = Switch!Cases6[r] /\ Switch!wolfOps(c) = Switch!Ops6[r]
      BY <1>1, <1>8 DEF Switch!Cases, Switch!wolfOps
    <2>2. \A k \in 1 .. 16 : Twins(Switch!Cases6[k], Switch!Ops6[k], 4)
      BY Codes DEF Switch!Cases6, Switch!Ops6, Twins, ByteStatements
    <2>. QED BY <1>1, <1>8, <2>1, <2>2 DEF Statements
  <1>9. CASE q = 7
    <2>1. Switch!Cases(c) = Switch!Cases7[r] /\ Switch!wolfOps(c) = Switch!Ops7[r]
      BY <1>1, <1>9 DEF Switch!Cases, Switch!wolfOps
    <2>2. \A k \in 1 .. 16 : Twins(Switch!Cases7[k], Switch!Ops7[k], 4)
      BY Codes DEF Switch!Cases7, Switch!Ops7, Twins, ByteStatements
    <2>. QED BY <1>1, <1>9, <2>1, <2>2 DEF Statements
  <1>10. CASE q = 8
    <2>1. Switch!Cases(c) = Switch!Cases8[r] /\ Switch!wolfOps(c) = Switch!Ops8[r]
      BY <1>1, <1>10 DEF Switch!Cases, Switch!wolfOps
    <2>2. \A k \in 1 .. 16 : Twins(Switch!Cases8[k], Switch!Ops8[k], 4)
      BY Codes DEF Switch!Cases8, Switch!Ops8, Twins, ByteStatements
    <2>. QED BY <1>1, <1>10, <2>1, <2>2 DEF Statements
  <1>11. CASE q = 9
    <2>1. Switch!Cases(c) = Switch!Cases9[r] /\ Switch!wolfOps(c) = Switch!Ops9[r]
      BY <1>1, <1>11 DEF Switch!Cases, Switch!wolfOps
    <2>2. \A k \in 1 .. 16 : Twins(Switch!Cases9[k], Switch!Ops9[k], 4)
      BY Codes DEF Switch!Cases9, Switch!Ops9, Twins, ByteStatements
    <2>. QED BY <1>1, <1>11, <2>1, <2>2 DEF Statements
  <1>12. CASE q = 10
    <2>1. Switch!Cases(c) = Switch!Cases10[r] /\ Switch!wolfOps(c) = Switch!Ops10[r]
      BY <1>1, <1>12 DEF Switch!Cases, Switch!wolfOps
    <2>2. \A k \in 1 .. 16 : Twins(Switch!Cases10[k], Switch!Ops10[k], 4)
      BY Codes DEF Switch!Cases10, Switch!Ops10, Twins, ByteStatements
    <2>. QED BY <1>1, <1>12, <2>1, <2>2 DEF Statements
  <1>13. CASE q = 11
    <2>1. Switch!Cases(c) = Switch!Cases11[r] /\ Switch!wolfOps(c) = Switch!Ops11[r]
      BY <1>1, <1>13 DEF Switch!Cases, Switch!wolfOps
    <2>2. \A k \in 1 .. 16 : Twins(Switch!Cases11[k], Switch!Ops11[k], 4)
      BY Codes DEF Switch!Cases11, Switch!Ops11, Twins, ByteStatements
    <2>. QED BY <1>1, <1>13, <2>1, <2>2 DEF Statements
  <1>14. CASE q = 12
    <2>1. Switch!Cases(c) = Switch!Cases12[r] /\ Switch!wolfOps(c) = Switch!Ops12[r]
      BY <1>1, <1>14 DEF Switch!Cases, Switch!wolfOps
    <2>2. \A k \in 1 .. 16 : Twins(Switch!Cases12[k], Switch!Ops12[k], 4)
      BY Codes DEF Switch!Cases12, Switch!Ops12, Twins, ByteStatements
    <2>. QED BY <1>1, <1>14, <2>1, <2>2 DEF Statements
  <1>15. CASE q = 13
    <2>1. Switch!Cases(c) = Switch!Cases13[r] /\ Switch!wolfOps(c) = Switch!Ops13[r]
      BY <1>1, <1>15 DEF Switch!Cases, Switch!wolfOps
    <2>2. \A k \in 1 .. 16 : Twins(Switch!Cases13[k], Switch!Ops13[k], 4)
      BY Codes DEF Switch!Cases13, Switch!Ops13, Twins, ByteStatements
    <2>. QED BY <1>1, <1>15, <2>1, <2>2 DEF Statements
  <1>16. CASE q = 14
    <2>1. Switch!Cases(c) = Switch!Cases14[r] /\ Switch!wolfOps(c) = Switch!Ops14[r]
      BY <1>1, <1>16 DEF Switch!Cases, Switch!wolfOps
    <2>2. \A k \in 1 .. 16 : Twins(Switch!Cases14[k], Switch!Ops14[k], 4)
      BY Codes DEF Switch!Cases14, Switch!Ops14, Twins, ByteStatements
    <2>. QED BY <1>1, <1>16, <2>1, <2>2 DEF Statements
  <1>17. CASE q = 15
    <2>1. Switch!Cases(c) = Switch!Cases15[r] /\ Switch!wolfOps(c) = Switch!Ops15[r]
      BY <1>1, <1>17 DEF Switch!Cases, Switch!wolfOps
    <2>2. \A k \in 1 .. 16 \ {14} : Twins(Switch!Cases15[k], Switch!Ops15[k], 4)
      BY Codes DEF Switch!Cases15, Switch!Ops15, Twins, ByteStatements
    <2>4. Twins(Switch!Cases15[14], Switch!Ops15[14], 5)
      BY Codes DEF Switch!Cases15, Switch!Ops15, Twins, ByteStatements
    <2>3. Switch!Cases15[14][5] = "hash" /\ (c \in {0, 253} <=> r = 14)
      BY <1>1, <1>17 DEF Switch!Cases15
    <2>. QED BY <1>1, <1>17, <2>1, <2>2, <2>3, <2>4 DEF Statements
  <1>. QED BY <1>1, <1>2, <1>3, <1>4, <1>5, <1>6, <1>7, <1>8, <1>9, <1>10, <1>11, <1>12, <1>13, <1>14, <1>15, <1>16, <1>17

\* What Twins says of a case, one fact at a time.
LEMMA CaseStatements ==
  ASSUME NEW c \in Switch!Byte, NEW st, st = Switch!Cases(c)
  PROVE  /\ Len(st) = Statements(c) /\ Statements(c) \in {4, 5}
         /\ \A k \in 1 .. 4 : st[k] \in ByteStatements
         /\ \A k \in 1 .. Len(st) : \/ st[k] \in ByteStatements
                                    \/ k = 5 /\ c = 0 /\ st[k] = "swap"
                                    \/ k = 5 /\ c = 253 /\ st[k] = "hash"
  <1>1. PICK row : row = Switch!wolfOps(c)
    OBVIOUS
  <1>2. Twins(st, row, Statements(c)) /\ (c = 0 => st[5] = "swap") /\ (c = 253 => st[5] = "hash")
    BY <1>1, AllTwins
  <1>3. Len(st) = Statements(c) /\ st[1] \in ByteStatements /\ st[2] \in ByteStatements
        /\ st[3] \in ByteStatements /\ st[4] \in ByteStatements
    BY <1>2 DEF Twins
  <1>4. \A k \in 1 .. 4 : k = 1 \/ k = 2 \/ k = 3 \/ k = 4
    OBVIOUS
  <1>5. \A k \in 1 .. 4 : st[k] \in ByteStatements
    BY <1>3, <1>4
  <1>6. Statements(c) = 4 \/ (Statements(c) = 5 /\ (c = 0 \/ c = 253))
    BY DEF Statements
  <1>7. ASSUME NEW k \in 1 .. Len(st), ~ (k \in 1 .. 4) PROVE k = 5 /\ (c = 0 \/ c = 253)
    BY <1>3, <1>6, <1>7
  <1>. QED BY <1>2, <1>3, <1>5, <1>6, <1>7

\* A row is the codes of the first four statements.
LEMMA RowCodes ==
  ASSUME NEW c \in Switch!Byte, NEW st, st = Switch!Cases(c), NEW row, row = Switch!wolfOps(c)
  PROVE  /\ Len(row) = 4 /\ row = <<row[1], row[2], row[3], row[4]>>
         /\ \A k \in 1 .. 4 : row[k] = Switch!classifyStmt(st[k])
  <1>1. Twins(st, row, Statements(c))
    BY AllTwins
  <1>2. row[1] = Switch!classifyStmt(st[1]) /\ row[2] = Switch!classifyStmt(st[2])
        /\ row[3] = Switch!classifyStmt(st[3]) /\ row[4] = Switch!classifyStmt(st[4])
        /\ Len(row) = 4 /\ row = <<row[1], row[2], row[3], row[4]>>
    BY <1>1 DEF Twins
  <1>3. \A k \in 1 .. 4 : k = 1 \/ k = 2 \/ k = 3 \/ k = 4
    OBVIOUS
  <1>. QED BY <1>2, <1>3

IsEmission(f, st) ==
  f = [k \in 0 .. Len(st) |->
         IF k = 0 THEN <<>>
         ELSE IF Switch!classifyStmt(st[k]) = 0 THEN f[k - 1]
         ELSE Append(f[k - 1], Switch!classifyStmt(st[k]))]

\* genwolf emits the rows of the table.
LEMMA Emits == ASSUME NEW c \in Switch!Byte PROVE Switch!Emitted(c) = Switch!wolfOps(c)
  <1>1. PICK st : st = Switch!Cases(c)
    OBVIOUS
  <1>2. PICK row : row = Switch!wolfOps(c)
    OBVIOUS
  <1>3. PICK n \in {4, 5} : n = Len(st)
    <2>1. Len(st) = Statements(c) /\ Statements(c) \in {4, 5}
      BY <1>1, CaseStatements
    <2>. QED BY <2>1
  <1>4. PICK code : code = [k \in 1 .. n |-> Switch!classifyStmt(st[k])]
    OBVIOUS
  <1>5. \A k \in 1 .. n : code[k] \in Nat /\ (code[k] # 0 <=> k # 5)
    <2>1. \A s \in ByteStatements : Switch!classifyStmt(s) \in Nat \ {0}
      BY Codes DEF ByteStatements
    <2>2. \A k \in 1 .. n : k \in 1 .. 4 \/ k = 5
      BY <1>3
    <2>3. ASSUME NEW k \in 1 .. n, k = 5 PROVE code[k] = 0
      <3>1. st[k] = "swap" \/ st[k] = "hash"
        <4>1. \A s \in ByteStatements : Switch!classifyStmt(s) # 0
          BY <2>1
        <4>2. Len(st) = Statements(c) /\ k = Statements(c)
          BY <1>1, <1>3, <2>3, CaseStatements
        <4>3. c = 0 \/ c = 253
          BY <2>3, <4>2 DEF Statements
        <4>. QED BY <1>1, <2>3, <4>3, AllTwins
      <3>. QED BY <1>4, <3>1, Codes
    <2>4. \A k \in 1 .. 4 : k \in 1 .. n /\ st[k] \in ByteStatements /\ k # 5
      BY <1>1, <1>3, CaseStatements
    <2>. QED BY <1>4, <2>1, <2>2, <2>3, <2>4
  <1> DEFINE D == Seq(Nat)
             g == [k \in 1 .. n |-> [r \in D |-> IF code[k] = 0 THEN r ELSE Append(r, code[k])]]
  <1>6. g \in [1 .. n -> [D -> D]]
    BY <1>5
  <1>7. PICK h \in [0 .. n -> D] : IsLoop(h, <<>>, g, n)
    <2>1. <<>> \in D /\ n \in Nat
      BY <1>3
    <2> HIDE DEF D, g
    <2>. QED BY <1>6, <2>1, LoopsExist
  <1>8. IsEmission(h, st)
    <2>1. ASSUME NEW k \in 0 .. n, k # 0
          PROVE  g[k][h[k - 1]] = IF Switch!classifyStmt(st[k]) = 0 THEN h[k - 1]
                                  ELSE Append(h[k - 1], Switch!classifyStmt(st[k]))
      <3>1. k \in 1 .. n /\ k - 1 \in 0 .. n /\ h[k - 1] \in D
        BY <1>3, <2>1
      <3>. QED BY <1>4, <3>1
    <2> HIDE DEF g, D
    <2>. QED BY <1>3, <1>7, <2>1 DEF IsLoop, IsEmission
  <1>9. PICK f : f = (CHOOSE z : IsEmission(z, st)) /\ IsEmission(f, st)
    BY <1>8
  <1>10. \A k \in 0 .. n : f[k] = IF k = 0 THEN <<>> ELSE IF Switch!classifyStmt(st[k]) = 0 THEN f[k - 1]
                                  ELSE Append(f[k - 1], Switch!classifyStmt(st[k]))
    BY <1>3, <1>9 DEF IsEmission
  <1>11. f[0] = <<>> /\ \A k \in 1 .. n : f[k] = IF k = 5 THEN f[k - 1] ELSE Append(f[k - 1], code[k])
    <2>1. \A k \in 1 .. n : k \in 0 .. n /\ k # 0 /\ code[k] = Switch!classifyStmt(st[k])
      BY <1>4
    <2>2. 0 \in 0 .. n
      BY <1>3
    <2> HIDE DEF D, g
    <2>. QED BY <1>5, <1>10, <2>1, <2>2
  <1>12. ASSUME NEW k \in 1 .. 4 PROVE f[k] = Append(f[k - 1], row[k])
    <2>1. k \in 1 .. n /\ k # 5
      BY <1>3
    <2>2. code[k] = row[k]
      BY <1>1, <1>2, <1>4, <2>1, RowCodes
    <2>3. f[k] = Append(f[k - 1], code[k])
      BY <1>11, <2>1
    <2>. QED BY <2>2, <2>3
  <1> HIDE DEF D, g
  <1> DEFINE P(k) == f[k] \in Seq(Nat) /\ Len(f[k]) = k /\ \A j \in 1 .. k : f[k][j] = row[j]
  <1>13. ASSUME NEW k \in 1 .. 4 PROVE row[k] \in Nat
    <2>1. k \in 1 .. n
      BY <1>3
    <2>2. code[k] \in Nat
      BY <1>5, <2>1
    <2>3. code[k] = row[k]
      BY <1>1, <1>2, <1>4, <2>1, RowCodes
    <2>. QED BY <2>2, <2>3
  <1>14. ASSUME NEW k \in 1 .. 4, P(k - 1) PROVE P(k)
    <2>1. PICK r : r = f[k - 1]
      OBVIOUS
    <2>2. r \in Seq(Nat) /\ Len(r) = k - 1 /\ \A j \in 1 .. k - 1 : r[j] = row[j]
      BY <1>14, <2>1
    <2>3. f[k] = Append(r, row[k]) /\ row[k] \in Nat
      BY <1>12, <1>13, <2>1
    <2>4. f[k] \in Seq(Nat) /\ Len(f[k]) = k
      BY <2>2, <2>3
    <2>5. ASSUME NEW j \in 1 .. k PROVE f[k][j] = row[j]
      BY <2>2, <2>3
    <2>. QED BY <2>4, <2>5
  <1>15. P(0)
    BY <1>11
  <1>16. P(4)
    <2>1. \A k \in {1, 2, 3, 4} : k \in 1 .. 4
      OBVIOUS
    <2>2. 1 - 1 = 0 /\ 2 - 1 = 1 /\ 3 - 1 = 2 /\ 4 - 1 = 3
      OBVIOUS
    <2> HIDE DEF P
    <2>3. P(1)
      BY <1>14, <1>15, <2>1, <2>2
    <2>4. P(2)
      BY <1>14, <2>1, <2>2, <2>3
    <2>5. P(3)
      BY <1>14, <2>1, <2>2, <2>4
    <2>. QED BY <1>14, <2>1, <2>2, <2>5
  <1>17. f[n] = row
    <2>1. f[4] = row
      <3>1. row \in Seq(Nat) /\ Len(row) = 4
        <4>1. row[1] \in Nat /\ row[2] \in Nat /\ row[3] \in Nat /\ row[4] \in Nat
          BY <1>13
        <4>2. Len(row) = 4 /\ row = <<row[1], row[2], row[3], row[4]>>
          BY <1>1, <1>2, RowCodes
        <4>3. <<row[1], row[2], row[3], row[4]>> \in Seq(Nat)
          BY <4>1
        <4>. QED BY <4>2, <4>3
      <3>2. f[4] \in Seq(Nat) /\ Len(f[4]) = 4 /\ \A j \in 1 .. 4 : f[4][j] = row[j]
        BY <1>16
      <3>. QED BY <3>1, <3>2, SeqEqual
    <2>2. CASE n = 4
      BY <2>1, <2>2
    <2>3. CASE n = 5
      <3>1. f[5] = f[4]
        BY <1>11, <2>3
      <3>. QED BY <2>1, <2>3, <3>1
    <2>. QED BY <1>3, <2>2, <2>3
  <1>18. Switch!Emitted(c) = f[n]
    BY <1>1, <1>3, <1>9 DEF IsEmission, Switch!Emitted
  <1>. QED BY <1>2, <1>17, <1>18

\* classifyCase gives each case its row and its tag.
LEMMA Classified ==
  ASSUME NEW c \in Switch!Byte
  PROVE  Switch!classifyCase(c) = [row |-> Switch!wolfOps(c), tag |-> Switch!wolfSpecial(c)]
  <1>1. PICK st : st = Switch!Cases(c)
    OBVIOUS
  <1>2. DOMAIN st = 1 .. Statements(c)
    BY <1>1, AllTwins DEF Twins
  <1>3. (\E k \in DOMAIN st : st[k] = "swap") <=> c = 0
    <2>1. "swap" \notin ByteStatements
      BY DEF ByteStatements
    <2>2. c = 0 => 5 \in DOMAIN st /\ st[5] = "swap"
      BY <1>1, <1>2, AllTwins DEF Statements
    <2>3. Len(st) = Statements(c)
      BY <1>1, CaseStatements
    <2>4. ASSUME NEW k \in DOMAIN st, st[k] = "swap" PROVE c = 0
      BY <1>1, <1>2, <2>1, <2>3, <2>4, CaseStatements
    <2>. QED BY <2>2, <2>4
  <1>4. (IF c \in Switch!Rekeys THEN "rekey"
         ELSE IF \E k \in DOMAIN st : st[k] = "swap" THEN "swap" ELSE "") = Switch!wolfSpecial(c)
    <2>1. PICK b \in BOOLEAN : b <=> \E k \in DOMAIN st : st[k] = "swap"
      OBVIOUS
    <2>2. (IF c \in Switch!Rekeys THEN "rekey" ELSE IF b THEN "swap" ELSE "") = Switch!wolfSpecial(c)
      <3>1. b <=> c = 0
        BY <1>3, <2>1
      <3>2. CASE c = 0
        BY <3>1, <3>2 DEF Switch!Rekeys, Switch!wolfSpecial
      <3>3. CASE c \in {254, 255}
        BY <3>1, <3>3 DEF Switch!Rekeys, Switch!wolfSpecial
      <3>4. CASE c # 0 /\ c \notin {254, 255}
        BY <3>1, <3>4 DEF Switch!Rekeys, Switch!wolfSpecial
      <3>. QED BY <3>2, <3>3, <3>4
    <2>. QED BY <2>1, <2>2
  <1>. QED BY <1>1, <1>4, Emits DEF Switch!classifyCase

IsApplication(f, row, x, p) ==
  f = [k \in 0 .. Len(row) |-> IF k = 0 THEN x ELSE Switch!Applied(row[k], f[k - 1], p)]

\* The interpreter runs the byte statements of the case.
LEMMA Applies ==
  ASSUME NEW c \in Switch!Byte, NEW x \in Switch!Byte, NEW p \in Switch!Byte,
         NEW st, st = Switch!Cases(c),
         NEW v1, v1 = Switch!Stmt(st[1], x, p), NEW v2, v2 = Switch!Stmt(st[2], v1, p),
         NEW v3, v3 = Switch!Stmt(st[3], v2, p), NEW v4, v4 = Switch!Stmt(st[4], v3, p)
  PROVE  /\ {v1, v2, v3, v4} \subseteq Switch!Byte
         /\ Switch!wolfApplyByte(c, x, p) = v4
  <1>1. PICK row : row = Switch!wolfOps(c)
    OBVIOUS
  <1>2. Len(row) = 4 /\ 1 \in 1 .. 4 /\ 2 \in 1 .. 4 /\ 3 \in 1 .. 4 /\ 4 \in 1 .. 4
    BY <1>1, RowCodes
  <1>3. \A k \in 1 .. 4 : st[k] \in ByteStatements
    BY CaseStatements
  <1>4. ASSUME NEW k \in 1 .. 4, NEW y PROVE Switch!Applied(row[k], y, p) = Switch!Stmt(st[k], y, p)
    <2>1. row[k] = Switch!classifyStmt(st[k])
      BY <1>1, RowCodes
    <2>. QED BY <1>3, <2>1, CodeRuns
  <1>5. ASSUME NEW k \in 1 .. 4, NEW y \in Switch!Byte PROVE Switch!Stmt(st[k], y, p) \in Switch!Byte
    BY <1>3, StatementByte
  <1>6. v1 \in Switch!Byte
    BY <1>2, <1>5
  <1>7. v2 \in Switch!Byte
    BY <1>2, <1>5, <1>6
  <1>8. v3 \in Switch!Byte
    BY <1>2, <1>5, <1>7
  <1>9. v4 \in Switch!Byte
    BY <1>2, <1>5, <1>8
  <1> DEFINE g == [k \in 1 .. 4 |-> [y \in Switch!Byte |-> Switch!Applied(row[k], y, p)]]
  <1>10. g \in [1 .. 4 -> [Switch!Byte -> Switch!Byte]]
    BY <1>4, <1>5
  <1>11. PICK h \in [0 .. 4 -> Switch!Byte] : IsLoop(h, x, g, 4)
    <2> HIDE DEF g
    <2>. QED BY <1>10, LoopsExist
  <1>12. IsApplication(h, row, x, p)
    <2>1. ASSUME NEW k \in 0 .. 4, k # 0 PROVE g[k][h[k - 1]] = Switch!Applied(row[k], h[k - 1], p)
      <3>1. k \in 1 .. 4 /\ k - 1 \in 0 .. 4 /\ h[k - 1] \in Switch!Byte
        BY <2>1
      <3>. QED BY <3>1
    <2> HIDE DEF g
    <2>. QED BY <1>2, <1>11, <2>1 DEF IsLoop, IsApplication
  <1> HIDE DEF g
  <1>13. PICK f : f = (CHOOSE z : IsApplication(z, row, x, p)) /\ IsApplication(f, row, x, p)
    BY <1>12
  <1>14. f[0] = x /\ \A k \in 1 .. 4 : f[k] = Switch!Stmt(st[k], f[k - 1], p)
    <2>1. 0 \in 0 .. 4 /\ \A k \in 1 .. 4 : k \in 0 .. 4 /\ k # 0
      OBVIOUS
    <2>2. \A k \in 0 .. 4 : f[k] = IF k = 0 THEN x ELSE Switch!Applied(row[k], f[k - 1], p)
      BY <1>2, <1>13 DEF IsApplication
    <2>. QED BY <1>4, <2>1, <2>2
  <1>15. 1 - 1 = 0 /\ 2 - 1 = 1 /\ 3 - 1 = 2 /\ 4 - 1 = 3
    OBVIOUS
  <1>16. f[1] = v1
    BY <1>2, <1>14, <1>15
  <1>17. f[2] = v2
    BY <1>2, <1>14, <1>15, <1>16
  <1>18. f[3] = v3
    BY <1>2, <1>14, <1>15, <1>17
  <1>19. f[4] = v4
    BY <1>2, <1>14, <1>15, <1>18
  <1>20. Switch!wolfApplyByte(c, x, p) = f[4]
    BY <1>1, <1>2, <1>13 DEF IsApplication, Switch!wolfApplyByte
  <1>. QED BY <1>6, <1>7, <1>8, <1>9, <1>19, <1>20

\* Writing a cell twice is writing it once.
LEMMA Rewritten ==
  ASSUME NEW t \in States, NEW i \in C, NEW x \in Switch!Byte, NEW y \in Switch!Byte
  PROVE  Written(Written(t, i, x), i, y) = Written(t, i, y)
  BY DEF Written, States, Contents

\* A statement of the switch on a cell.
LEMMA Executes ==
  ASSUME NEW s \in ByteStatements, NEW t, NEW i, NEW a, NEW b
  PROVE  Switch!Exec(s, t, i, a, b) = Written(t, i, Switch!Stmt(s, t.s[i], t.s[b]))
  BY DEF ByteStatements, Switch!Exec, Written

IsBody(u, st, t, i, a, b) ==
  u = [k \in 0 .. Len(st) |-> IF k = 0 THEN t ELSE Switch!Exec(st[k], u[k - 1], i, a, b)]

\* One turn of the switch's loop is one of the table's.
LEMMA BodiesAgree ==
  ASSUME NEW c \in Switch!Byte, NEW t \in States, NEW a \in C, NEW b \in C, NEW i \in C, i # b
  PROVE  Switch!SwitchBody(c, t, i, a, b) = Switch!TableBody(c, t, i, a, b)
  <1>1. PICK st : st = Switch!Cases(c)
    OBVIOUS
  <1>2. PICK x : x = t.s[i]
    OBVIOUS
  <1>3. PICK p : p = t.s[b]
    OBVIOUS
  <1>4. PICK v1 : v1 = Switch!Stmt(st[1], x, p)
    OBVIOUS
  <1>5. PICK v2 : v2 = Switch!Stmt(st[2], v1, p)
    OBVIOUS
  <1>6. PICK v3 : v3 = Switch!Stmt(st[3], v2, p)
    OBVIOUS
  <1>7. PICK v4 : v4 = Switch!Stmt(st[4], v3, p)
    OBVIOUS
  <1>8. x \in Switch!Byte /\ p \in Switch!Byte
    BY <1>2, <1>3 DEF States, Contents
  <1>9. {v1, v2, v3, v4} \subseteq Switch!Byte /\ Switch!wolfApplyByte(c, x, p) = v4
    BY <1>1, <1>4, <1>5, <1>6, <1>7, <1>8, Applies
  <1>10. PICK n \in {4, 5} : n = Len(st) /\ (n = 5 <=> c \in {0, 253})
    <2>1. Len(st) = Statements(c)
      BY <1>1, CaseStatements
    <2>. QED BY <2>1 DEF Statements
  <1>30. n = Len(st) /\ n \in Nat
    BY <1>10
  <1>11. (c = 0 => st[5] = "swap") /\ (c = 253 => st[5] = "hash")
    BY <1>1, AllTwins
  <1>12. \A k \in 1 .. 4 : st[k] \in ByteStatements /\ k \in 1 .. n
    BY <1>1, <1>10, CaseStatements
  <1>13. ASSUME NEW k \in 1 .. n, NEW u \in States PROVE Switch!Exec(st[k], u, i, a, b) \in States
    <2>1. CASE k \in 1 .. 4
      <3>1. u.s[i] \in Switch!Byte /\ u.s[b] \in Switch!Byte
        BY DEF States, Contents
      <3>2. PICK w : w = Switch!Stmt(st[k], u.s[i], u.s[b])
        OBVIOUS
      <3>3. w \in Switch!Byte
        BY <1>12, <2>1, <3>1, <3>2, StatementByte
      <3>4. Switch!Exec(st[k], u, i, a, b) = Written(u, i, w)
        BY <1>12, <2>1, <3>2, Executes
      <3>. QED BY <3>3, <3>4, WriteKeeps
    <2>2. CASE k = 5
      <3>1. CASE c = 0
        BY <1>11, <2>2, <3>1, SwapKeeps DEF Switch!Exec
      <3>2. CASE c = 253
        BY <1>11, <2>2, <3>2, HashKeeps DEF Switch!Exec, Hashes
      <3>. QED BY <1>10, <2>2, <3>1, <3>2
    <2>. QED BY <1>10, <2>1, <2>2
  <1> DEFINE g == [k \in 1 .. n |-> [u \in States |-> Switch!Exec(st[k], u, i, a, b)]]
  <1>14. g \in [1 .. n -> [States -> States]]
    BY <1>13
  <1>15. PICK h \in [0 .. n -> States] : IsLoop(h, t, g, n)
    <2>1. n \in Nat
      BY <1>10
    <2> HIDE DEF g
    <2>. QED BY <1>14, <2>1, LoopsExist
  <1>16. IsBody(h, st, t, i, a, b)
    <2>1. ASSUME NEW k \in 0 .. n, k # 0 PROVE g[k][h[k - 1]] = Switch!Exec(st[k], h[k - 1], i, a, b)
      <3>1. k \in 1 .. n /\ k - 1 \in 0 .. n /\ h[k - 1] \in States
        BY <1>10, <2>1
      <3>. QED BY <3>1
    <2> HIDE DEF g
    <2>. QED BY <1>15, <1>30, <2>1 DEF IsLoop, IsBody
  <1> HIDE DEF g
  <1>17. PICK u : u = (CHOOSE z : IsBody(z, st, t, i, a, b)) /\ IsBody(u, st, t, i, a, b)
    BY <1>16
  <1>18. u[0] = t /\ \A k \in 1 .. n : u[k] = Switch!Exec(st[k], u[k - 1], i, a, b)
    <2>1. 0 \in 0 .. n /\ \A k \in 1 .. n : k \in 0 .. n /\ k # 0
      BY <1>10
    <2>2. \A k \in 0 .. n : u[k] = IF k = 0 THEN t ELSE Switch!Exec(st[k], u[k - 1], i, a, b)
      BY <1>17, <1>30 DEF IsBody
    <2>. QED BY <2>1, <2>2
  <1>19. u[1] = Written(t, i, v1)
    <2>1. 1 \in 1 .. 4 /\ 1 - 1 = 0
      OBVIOUS
    <2>. QED BY <1>2, <1>3, <1>4, <1>12, <1>18, <2>1, Executes
  <1>20. ASSUME NEW k \in 1 .. 4, NEW v \in Switch!Byte, NEW w \in Switch!Byte, w = Switch!Stmt(st[k], v, p),
                u[k - 1] = Written(t, i, v)
         PROVE  u[k] = Written(t, i, w)
    <2>1. PICK z : z = Written(t, i, v)
      OBVIOUS
    <2>2. z.s[i] = v /\ z.s[b] = p
      <3>1. z.s[i] = v /\ \A j \in C \ {i} : z.s[j] = t.s[j]
        BY <2>1, WriteKeeps
      <3>. QED BY <1>3, <3>1
    <2>3. u[k] = Written(z, i, w)
      BY <1>12, <1>18, <1>20, <2>1, <2>2, Executes
    <2>. QED BY <2>1, <2>3, Rewritten
  <1>21. 2 \in 1 .. 4 /\ 2 - 1 = 1 /\ 3 \in 1 .. 4 /\ 3 - 1 = 2 /\ 4 \in 1 .. 4 /\ 4 - 1 = 3
    OBVIOUS
  <1>22. u[2] = Written(t, i, v2)
    BY <1>5, <1>9, <1>19, <1>20, <1>21
  <1>23. u[3] = Written(t, i, v3)
    BY <1>6, <1>9, <1>20, <1>21, <1>22
  <1>24. u[4] = Written(t, i, v4)
    BY <1>7, <1>9, <1>20, <1>21, <1>23
  <1>25. PICK z : z = Written(t, i, v4)
    OBVIOUS
  <1>26. Switch!SwitchBody(c, t, i, a, b) = u[n]
    BY <1>1, <1>10, <1>17 DEF IsBody, Switch!SwitchBody
  <1>27. Switch!TableBody(c, t, i, a, b) =
           LET v == IF c = 0 THEN Switch!ReverseSwap(z, a, b) ELSE z
           IN  IF c = 253 THEN Switch!Hashed(v, "xxhash", b) ELSE v
    <2>1. z = [t EXCEPT !.s[i] = Switch!wolfApplyByte(c, @, t.s[b])]
      BY <1>2, <1>3, <1>9, <1>25 DEF Written
    <2>. QED BY <2>1 DEF Switch!TableBody
  <1>28. CASE n = 4
    BY <1>10, <1>24, <1>25, <1>26, <1>27, <1>28
  <1>29. CASE n = 5
    <2>1. u[5] = Switch!Exec(st[5], z, i, a, b)
      <3>1. 5 \in 1 .. n /\ 5 - 1 = 4
        BY <1>29
      <3>. QED BY <1>18, <1>24, <1>25, <3>1
    <2>2. CASE c = 0
      BY <1>11, <1>26, <1>27, <1>29, <2>1, <2>2 DEF Switch!Exec
    <2>3. CASE c = 253
      BY <1>11, <1>26, <1>27, <1>29, <2>1, <2>3 DEF Switch!Exec
    <2>. QED BY <1>10, <1>29, <2>2, <2>3
  <1>. QED BY <1>10, <1>28, <1>29

\* What a turn of the loop at i may make of t.
Turned(t, r, c, i, a, b) ==
  /\ r \in States
  /\ \A z \in States : Quiet(z, t) => Quiet(z, r)
  /\ \A j \in C \ {i} : r.s[j] = t.s[j] \/ (c = 0 /\ j \in {a, b})

\* The loop body rewrites its own cell, and in case 0 both ends.
LEMMA BodyKeeps ==
  ASSUME NEW c \in Switch!Byte, NEW t \in States, NEW a \in C, NEW b \in C, NEW i \in C
  PROVE  Turned(t, Switch!TableBody(c, t, i, a, b), c, i, a, b)
  <1>1. PICK x : x = Switch!wolfApplyByte(c, t.s[i], t.s[b])
    OBVIOUS
  <1>2. x \in Switch!Byte
    <2>1. t.s[i] \in Switch!Byte /\ t.s[b] \in Switch!Byte
      BY DEF States, Contents
    <2>2. PICK st : st = Switch!Cases(c)
      OBVIOUS
    <2>3. PICK p : p = t.s[b]
      OBVIOUS
    <2>9. PICK y : y = t.s[i]
      OBVIOUS
    <2>4. PICK v1 : v1 = Switch!Stmt(st[1], y, p)
      OBVIOUS
    <2>5. PICK v2 : v2 = Switch!Stmt(st[2], v1, p)
      OBVIOUS
    <2>6. PICK v3 : v3 = Switch!Stmt(st[3], v2, p)
      OBVIOUS
    <2>7. PICK v4 : v4 = Switch!Stmt(st[4], v3, p)
      OBVIOUS
    <2>10. y \in Switch!Byte /\ p \in Switch!Byte /\ x = Switch!wolfApplyByte(c, y, p)
      BY <1>1, <2>1, <2>3, <2>9
    <2>11. {v1, v2, v3, v4} \subseteq Switch!Byte /\ Switch!wolfApplyByte(c, y, p) = v4
      BY <2>2, <2>4, <2>5, <2>6, <2>7, <2>10, Applies
    <2>. QED BY <2>10, <2>11
  <1>3. PICK u : u = Written(t, i, x)
    OBVIOUS
  <1>4. u \in States /\ u.log = t.log /\ \A j \in C \ {i} : u.s[j] = t.s[j]
    BY <1>2, <1>3, WriteKeeps, ZenonT(40)
  <1>5. PICK v : v = IF c = 0 THEN Switch!ReverseSwap(u, a, b) ELSE u
    OBVIOUS
  <1>6. v \in States /\ v.log = t.log /\ \A j \in C \ {i} : v.s[j] = t.s[j] \/ (c = 0 /\ j \in {a, b})
    <2>1. CASE c = 0
      <3>1. v = Switch!ReverseSwap(u, a, b)
        BY <1>5, <2>1
      <3>2. v \in States /\ v.log = u.log /\ \A j \in C \ {a, b} : v.s[j] = u.s[j]
        BY <1>4, <3>1, SwapKeeps
      <3>. QED BY <1>4, <2>1, <3>2
    <2>2. CASE c # 0
      BY <1>4, <1>5, <2>2
    <2>. QED BY <2>1, <2>2
  <1>7. \A z \in States : Quiet(z, t) => Quiet(z, v)
    BY <1>6 DEF Quiet
  <1>8. PICK r : r = Switch!TableBody(c, t, i, a, b)
    OBVIOUS
  <1>9. r = IF c = 253 THEN Switch!Hashed(v, "xxhash", b) ELSE v
    <2>1. u = [t EXCEPT !.s[i] = Switch!wolfApplyByte(c, @, t.s[b])]
      BY <1>1, <1>3 DEF Written
    <2>. QED BY <1>5, <1>8, <2>1 DEF Switch!TableBody
  <1>10. r \in States /\ r.s = v.s /\ \A z \in States : Quiet(z, v) => Quiet(z, r)
    <2>1. CASE c = 253
      <3>1. r = Switch!Hashed(v, "xxhash", b) /\ v \in States /\ "xxhash" \in Hashes
        BY <1>6, <1>9, <2>1 DEF Hashes
      <3>. QED BY <3>1, HashKeeps
    <2>2. CASE c # 253
      BY <1>6, <1>9, <2>2
    <2>. QED BY <2>1, <2>2
  <1>11. \A z \in States : Quiet(z, t) => Quiet(z, r)
    BY <1>7, <1>10
  <1>. QED BY <1>6, <1>8, <1>10, <1>11 DEF Turned

\* RC4 has run since t.
Enciphered(t, u) == \E k \in Len(t.log) + 1 .. Len(u.log) : u.log[k][1] = "rc4"

\* Of every earlier state: RC4 has run since, or only the last cell is new.
Folded(t, r) ==
  /\ r \in States
  /\ \A z \in States : Quiet(z, t) => (Enciphered(z, r) \/ \A j \in C \ {N - 1} : r.s[j] = t.s[j])

\* The thresholds run RC4, and say so, or change the last cell only.
LEMMA ThresholdsKeep ==
  ASSUME NEW t \in States, NEW a \in C, NEW b \in C
  PROVE  Folded(t, Switch!Thresholds(t, a, b))
  <1>1. PICK t1 : t1 = IF Switch!Diff(t, a, b) < 16 THEN Switch!Hashed(t, "xxhash", b) ELSE t
    OBVIOUS
  <1>2. PICK t2 : t2 = IF Switch!Diff(t1, a, b) < 32 THEN Switch!Hashed(t1, "fnv1a", b) ELSE t1
    OBVIOUS
  <1>3. PICK t3 : t3 = IF Switch!Diff(t2, a, b) < 48 THEN Switch!Hashed(t2, "siphash", b) ELSE t2
    OBVIOUS
  <1>4. PICK t4 : t4 = IF Switch!Diff(t3, a, b) <= 64 THEN Switch!Encrypted(t3) ELSE t3
    OBVIOUS
  <1>5. PICK x : x = Switch!Xor8(Switch!Xor8(t4.s[N - 1], t4.s[a]), t4.s[b])
    OBVIOUS
  <1>6. PICK r : r = Switch!Thresholds(t, a, b)
    OBVIOUS
  <1>7. r = Written(t4, N - 1, x)
    BY <1>1, <1>2, <1>3, <1>4, <1>5, <1>6, ZenonT(40) DEF Switch!Thresholds, Written
  <1>8. t1 \in States /\ t1.s = t.s /\ \A z \in States : Quiet(z, t) => Quiet(z, t1)
    BY <1>1, HashKeeps DEF Hashes
  <1>9. t2 \in States /\ t2.s = t.s /\ \A z \in States : Quiet(z, t) => Quiet(z, t2)
    BY <1>2, <1>8, HashKeeps DEF Hashes
  <1>10. t3 \in States /\ t3.s = t.s /\ \A z \in States : Quiet(z, t) => Quiet(z, t3)
    BY <1>3, <1>9, HashKeeps DEF Hashes
  <1>11. t4 \in States /\ \A z \in States : Quiet(z, t) => Enciphered(z, t4) \/ t4 = t3
    <2>1. CASE t4 = t3
      BY <1>10, <2>1
    <2>2. CASE t4 = Switch!Encrypted(t3)
      <3>1. t4 \in States /\ Len(t4.log) = Len(t3.log) + 1 /\ t4.log[Len(t4.log)][1] = "rc4"
        BY <1>10, <2>2, EncryptKeeps
      <3>2. ASSUME NEW z \in States, Quiet(z, t) PROVE Enciphered(z, t4)
        <4>1. Len(z.log) <= Len(t3.log)
          BY <1>10, <3>2 DEF Quiet
        <4>2. Len(z.log) \in Nat /\ Len(t3.log) \in Nat /\ Len(t4.log) \in Nat
          BY <1>10, <3>1 DEF States
        <4>. QED BY <3>1, <4>1, <4>2 DEF Enciphered
      <3>. QED BY <3>1, <3>2
    <2>. QED BY <1>4, <2>1, <2>2
  <1>12. x \in Switch!Byte /\ N - 1 \in C
    <2>1. t4.s[N - 1] \in Switch!Byte /\ t4.s[a] \in Switch!Byte /\ t4.s[b] \in Switch!Byte
      BY <1>11, Cells DEF States, Contents
    <2>. QED BY <1>5, <2>1, XorByte, Cells
  <1>13. r \in States /\ r.log = t4.log /\ \A j \in C \ {N - 1} : r.s[j] = t4.s[j]
    BY <1>7, <1>11, <1>12, WriteKeeps
  <1>14. ASSUME NEW z \in States, Quiet(z, t)
         PROVE  Enciphered(z, r) \/ \A j \in C \ {N - 1} : r.s[j] = t.s[j]
    <2>1. Enciphered(z, t4) => Enciphered(z, r)
      BY <1>13 DEF Enciphered
    <2>2. t4 = t3 => \A j \in C \ {N - 1} : r.s[j] = t.s[j]
      BY <1>10, <1>13
    <2>. QED BY <1>11, <1>14, <2>1, <2>2
  <1>. QED BY <1>6, <1>13, <1>14 DEF Folded

IsSwitchLoop(u, c, t, a, b) ==
  u = [k \in 0 .. b - a |-> IF k = 0 THEN IF c \in Switch!Rekeys THEN Switch!Rekeyed(t) ELSE t
                            ELSE Switch!SwitchBody(c, u[k - 1], a + k - 1, a, b)]
IsTableLoop(u, c, t, a, b) ==
  u = [k \in 0 .. b - a |-> IF k = 0 THEN IF c \in {254, 255} THEN Switch!Rekeyed(t) ELSE t
                            ELSE Switch!TableBody(c, u[k - 1], a + k - 1, a, b)]

\* What the byte loop may change of t.
InWindow(t, u, c, a, b) ==
  /\ Quiet(t, u)
  /\ \A j \in C : u.s[j] # t.s[j] => j \in a .. b - 1 \/ (c = 0 /\ j = b)

\* Both loops reach the same state, in which only the window has changed.
LEMMA TriesAgree ==
  ASSUME NEW c \in Switch!Byte, NEW t \in States, NEW a \in C, NEW b \in C, a <= b
  PROVE  \E u \in States : /\ InWindow(t, u, c, a, b)
                           /\ Switch!SwitchTry(c, t, a, b) = Switch!Thresholds(u, a, b)
                           /\ Switch!TableTry(c, t, a, b) = Switch!Thresholds(u, a, b)
  <1>1. PICK n \in Nat : n = b - a
    BY Cells
  <1>2. PICK x : x = IF c \in {254, 255} THEN Switch!Rekeyed(t) ELSE t
    OBVIOUS
  <1>3. x \in States /\ x.s = t.s /\ x.log = t.log
    BY <1>2, RekeyKeeps
  <1>4. ASSUME NEW k \in 1 .. n
        PROVE  a + k - 1 \in C /\ a + k - 1 # b /\ a + k - 1 \in a .. b - 1 /\ a \in a .. b - 1
    BY <1>1, StreamSizes DEF C, Switch!Cell
  <1>5. ASSUME NEW k \in 1 .. n, NEW u \in States
        PROVE  Switch!TableBody(c, u, a + k - 1, a, b) \in States
    BY <1>4, BodyKeeps DEF Turned
  <1>6. ASSUME NEW k \in 1 .. n, NEW u \in States
        PROVE  Switch!SwitchBody(c, u, a + k - 1, a, b) = Switch!TableBody(c, u, a + k - 1, a, b)
    BY <1>4, BodiesAgree
  <1> DEFINE g == [k \in 1 .. n |-> [u \in States |-> Switch!TableBody(c, u, a + k - 1, a, b)]]
  <1>7. g \in [1 .. n -> [States -> States]]
    BY <1>5
  <1>8. PICK h \in [0 .. n -> States] : IsLoop(h, x, g, n)
    <2> HIDE DEF g
    <2>. QED BY <1>3, <1>7, LoopsExist
  <1>9. ASSUME NEW k \in 0 .. n, k # 0
        PROVE  g[k][h[k - 1]] = Switch!TableBody(c, h[k - 1], a + k - 1, a, b) /\ h[k - 1] \in States /\ k \in 1 .. n
    <2>1. k \in 1 .. n /\ k - 1 \in 0 .. n /\ h[k - 1] \in States
      BY <1>9
    <2>. QED BY <2>1
  <1> HIDE DEF g
  <1>10. IsTableLoop(h, c, t, a, b)
    BY <1>1, <1>2, <1>8, <1>9 DEF IsLoop, IsTableLoop
  <1>11. IsSwitchLoop(h, c, t, a, b)
    <2>1. ASSUME NEW k \in 0 .. n, k # 0
          PROVE  g[k][h[k - 1]] = Switch!SwitchBody(c, h[k - 1], a + k - 1, a, b)
      BY <1>6, <1>9, <2>1
    <2>2. x = IF c \in Switch!Rekeys THEN Switch!Rekeyed(t) ELSE t
      BY <1>2 DEF Switch!Rekeys
    <2>. QED BY <1>1, <1>8, <2>1, <2>2 DEF IsLoop, IsSwitchLoop
  <1>12. PICK u : u = (CHOOSE z : IsSwitchLoop(z, c, t, a, b)) /\ IsSwitchLoop(u, c, t, a, b)
    BY <1>11
  <1>13. PICK v : v = (CHOOSE z : IsTableLoop(z, c, t, a, b)) /\ IsTableLoop(v, c, t, a, b)
    BY <1>10
  <1>14. u[0] = x /\ \A k \in 1 .. n : u[k] = Switch!SwitchBody(c, u[k - 1], a + k - 1, a, b)
    <2>1. 0 \in 0 .. n /\ \A k \in 1 .. n : k \in 0 .. n /\ k # 0
      OBVIOUS
    <2>2. x = IF c \in Switch!Rekeys THEN Switch!Rekeyed(t) ELSE t
      BY <1>2 DEF Switch!Rekeys
    <2>3. \A k \in 0 .. n : u[k] = IF k = 0 THEN x ELSE Switch!SwitchBody(c, u[k - 1], a + k - 1, a, b)
      BY <1>1, <1>12, <2>2 DEF IsSwitchLoop
    <2>. QED BY <2>1, <2>3
  <1>15. v[0] = x /\ \A k \in 1 .. n : v[k] = Switch!TableBody(c, v[k - 1], a + k - 1, a, b)
    <2>1. 0 \in 0 .. n /\ \A k \in 1 .. n : k \in 0 .. n /\ k # 0
      OBVIOUS
    <2>2. \A k \in 0 .. n : v[k] = IF k = 0 THEN x ELSE Switch!TableBody(c, v[k - 1], a + k - 1, a, b)
      BY <1>1, <1>2, <1>13, SMTT(30) DEF IsTableLoop
    <2>. QED BY <2>1, <2>2
  <1> DEFINE D == {r \in States : InWindow(t, r, c, a, b)}
             Good(k) == u[k] \in D /\ v[k] = u[k]
             f == [k \in 0 .. n |-> IF Good(k) THEN 1 ELSE 0]
  <1>16. Good(0)
    <2>1. Len(t.log) \in Nat
      BY DEF States
    <2>2. Quiet(t, x)
      BY <1>3, <2>1 DEF Quiet
    <2>. QED BY <1>3, <1>14, <1>15, <2>2 DEF InWindow
  <1>17. ASSUME NEW k \in 1 .. n, Good(k - 1) PROVE Good(k)
    <2>1. PICK r : r = u[k - 1]
      OBVIOUS
    <2>2. r \in States /\ InWindow(t, r, c, a, b) /\ v[k - 1] = r
      BY <1>17, <2>1
    <2>3. PICK i \in C : i = a + k - 1
      BY <1>4
    <2>4. PICK w : w = Switch!TableBody(c, r, i, a, b)
      OBVIOUS
    <2>5. w \in States /\ (\A z \in States : Quiet(z, r) => Quiet(z, w))
          /\ \A j \in C \ {i} : w.s[j] = r.s[j] \/ (c = 0 /\ j \in {a, b})
      <3>1. Turned(r, w, c, i, a, b)
        BY <2>2, <2>4, BodyKeeps
      <3>. QED BY <3>1 DEF Turned
    <2>6. u[k] = w /\ v[k] = w
      BY <1>6, <1>14, <1>15, <2>1, <2>2, <2>3, <2>4
    <2>7. InWindow(t, w, c, a, b)
      <3>1. Quiet(t, w)
        BY <2>2, <2>5 DEF InWindow
      <3>2. i \in a .. b - 1 /\ a \in a .. b - 1
        BY <1>4, <2>3
      <3>3. ASSUME NEW j \in C, w.s[j] # t.s[j] PROVE j \in a .. b - 1 \/ (c = 0 /\ j = b)
        <4>1. CASE j = i
          BY <3>2, <4>1
        <4>2. CASE c = 0 /\ j \in {a, b}
          BY <3>2, <4>2
        <4>3. CASE w.s[j] = r.s[j]
          <5>1. r.s[j] # t.s[j]
            BY <3>3, <4>3
          <5>. QED BY <2>2, <5>1 DEF InWindow
        <4>. QED BY <2>5, <4>1, <4>2, <4>3
      <3>. QED BY <3>1, <3>3 DEF InWindow
    <2>. QED BY <2>5, <2>6, <2>7
  <1>18. Good(n)
    <2>1. f[0] \in {1}
      BY <1>16
    <2>2. ASSUME NEW k \in 1 .. n, f[k - 1] \in {1} PROVE f[k] \in {1}
      <3>1. k - 1 \in 0 .. n /\ k \in 0 .. n
        OBVIOUS
      <3> HIDE DEF Good
      <3>2. Good(k - 1)
        BY <2>2, <3>1
      <3>. QED BY <1>17, <3>1, <3>2
    <2>3. f[n] \in {1}
      <3>1. n \in 0 .. n
        OBVIOUS
      <3> HIDE DEF f
      <3>. QED BY <2>1, <2>2, <3>1, Loops
    <2> HIDE DEF Good
    <2>. QED BY <2>3
  <1>19. Switch!SwitchTry(c, t, a, b) = Switch!Thresholds(u[n], a, b)
    BY <1>1, <1>12 DEF IsSwitchLoop, Switch!SwitchTry
  <1>20. Switch!TableTry(c, t, a, b) = Switch!Thresholds(v[n], a, b)
    BY <1>1, <1>13 DEF IsTableLoop, Switch!TableTry
  <1>. QED BY <1>18, <1>19, <1>20

\* The window of a try lies in step_3 and is not too long.
LEMMA WindowOf ==
  ASSUME NEW p \in C, NEW q \in C, NEW w, w = Switch!Clamped(Switch!Ordered(p, q))
  PROVE  w[1] \in C /\ w[2] \in C /\ w[1] <= w[2] /\ w[2] - w[1] <= Window
  <1>1. PICK x \in C, y \in C : Switch!Ordered(p, q) = <<x, y>> /\ x <= y
    BY Cells DEF Switch!Ordered
  <1>2. y - x \in Nat /\ x \in Int /\ y \in Int
    BY <1>1, Cells
  <1>3. (y - x) % Window \in Nat /\ (y - x) % Window < Window
    BY <1>2, StreamSizes
  <1>4. w = IF y - x > Window THEN <<x, x + ((y - x) % Window)>> ELSE <<x, y>>
    BY <1>1 DEF Switch!Clamped
  <1>5. CASE y - x > Window
    <2>1. w[1] = x /\ w[2] = x + ((y - x) % Window)
      BY <1>4, <1>5
    <2>2. PICK m \in Nat : m = (y - x) % Window
      BY <1>3
    <2>3. x + m \in C
      BY <1>2, <1>3, <1>5, <2>2, StreamSizes DEF C, Switch!Cell
    <2>. QED BY <1>2, <1>3, <2>1, <2>2, <2>3, StreamSizes
  <1>6. CASE ~ (y - x > Window)
    BY <1>1, <1>2, <1>4, <1>6, StreamSizes
  <1>. QED BY <1>5, <1>6

\* Both implementations are in the same state; of step_3 only the window and the
\* last cell differ from the state before the try, unless RC4 has run.
SwitchInv ==
  /\ switched \in Nat /\ ref \in States /\ tab = ref /\ before \in States
  /\ op = -1 \/ op \in Switch!Byte
  /\ op # -1 =>
       /\ pos1 \in C /\ pos2 \in C /\ pos1 <= pos2 /\ pos2 - pos1 <= Window
       /\ \/ Enciphered(before, ref)
          \/ \A j \in C \ {N - 1} :
               ref.s[j] # before.s[j] => j \in pos1 .. pos2 - 1 \/ (op = 0 /\ j = pos2)

\* The invariant holds once the prologue is over.
LEMMA SwitchStarts == Switch!Init => SwitchInv
  <1> SUFFICES ASSUME Switch!Init PROVE SwitchInv
    OBVIOUS
  <1>1. PICK seed \in Seeds : ref = Switch!Prologue(seed)
    BY DEF Switch!Init
  <1>2. ref \in States
    BY <1>1, PrologueStarts, StreamSizes
  <1>. QED BY <1>2 DEF Switch!Init, SwitchInv

\* A try keeps the invariant.
LEMMA TryStep ==
  ASSUME SwitchInv, NEW c \in Switch!Byte, NEW p \in C, NEW q \in C, Switch!Try(c, p, q)
  PROVE  SwitchInv'
  <1>1. PICK w : w = Switch!Clamped(Switch!Ordered(p, q))
    OBVIOUS
  <1>2. PICK a, b : a = w[1] /\ b = w[2]
    OBVIOUS
  <1>3. a \in C /\ b \in C /\ a <= b /\ b - a <= Window
    BY <1>1, <1>2, WindowOf
  <1>4. PICK t : t = ref
    OBVIOUS
  <1>5. t \in States /\ tab = t
    BY <1>4 DEF SwitchInv
  <1>6. PICK u \in States : /\ InWindow(t, u, c, a, b)
                            /\ Switch!SwitchTry(c, t, a, b) = Switch!Thresholds(u, a, b)
                            /\ Switch!TableTry(c, t, a, b) = Switch!Thresholds(u, a, b)
    BY <1>3, <1>5, TriesAgree
  <1>7. PICK r : r = Switch!Thresholds(u, a, b)
    OBVIOUS
  <1>8. r \in States /\ (Enciphered(t, r) \/ \A j \in C \ {N - 1} : r.s[j] = u.s[j])
    <2>1. Quiet(t, u)
      BY <1>6 DEF InWindow
    <2>2. Folded(u, r)
      BY <1>3, <1>7, ThresholdsKeep
    <2>. QED BY <1>5, <2>1, <2>2 DEF Folded
  <1>9. ref' = r /\ tab' = r /\ before' = t /\ op' = c /\ pos1' = a /\ pos2' = b /\ switched' = switched + 1
    BY <1>1, <1>2, <1>4, <1>5, <1>6, <1>7 DEF Switch!Try
  <1>10. switched' \in Nat
    BY <1>9 DEF SwitchInv
  <1>11. Enciphered(t, r) \/ \A j \in C \ {N - 1} : r.s[j] # t.s[j] => j \in a .. b - 1 \/ (c = 0 /\ j = b)
    BY <1>6, <1>8 DEF InWindow
  <1>12. Enciphered(before', ref') <=> Enciphered(t, r)
    BY <1>9
  <1>. QED BY <1>3, <1>5, <1>8, <1>9, <1>10, <1>11, <1>12 DEF SwitchInv

\* The invariant of the tries.
LEMMA SwitchSound == Switch!Spec => []SwitchInv
  <1>1. SwitchInv /\ [Switch!Next]_(Switch!vars) => SwitchInv'
    <2>1. ASSUME SwitchInv, Switch!Next PROVE SwitchInv'
      <3>1. PICK rs \in Switchers[switched + 1] : switched < Len(Switchers) /\ Switch!Try(rs[1], rs[2], rs[3])
        BY <2>1 DEF Switch!Next
      <3>2. switched + 1 \in 1 .. Len(Switchers)
        BY <2>1, <3>1, StreamSizes DEF SwitchInv
      <3>3. Switchers[switched + 1] \subseteq Switch!Byte \X C \X C
        BY <3>2, StreamSizes
      <3>4. rs[1] \in Switch!Byte /\ rs[2] \in C /\ rs[3] \in C
        BY <3>1, <3>3
      <3>. QED BY <2>1, <3>1, <3>4, TryStep
    <2>2. ASSUME SwitchInv, UNCHANGED Switch!vars PROVE SwitchInv'
      BY <2>2 DEF Switch!vars, SwitchInv, Enciphered
    <2>. QED BY <2>1, <2>2
  <1>. QED BY <1>1, SwitchStarts, PTL DEF Switch!Spec

\* Whatever the tries, the table interpreter the GPU kernel is made from leaves
\* what the switch leaves (pow.go:101, wolftable.go:76), and every row of
\* the table it reads is the one genwolf emits from the switch.
THEOREM SwitchIsTable == Switch!Spec => []TablesAgree
  <1>1. SwitchInv => TablesAgree
    BY Classified DEF SwitchInv, TablesAgree, Switch!TableMirrorsSwitch, Switch!TableIsGenerated
  <1>. QED BY <1>1, SwitchSound, PTL

\* The instance counts as this module does.
LEMMA SameCount == ASSUME NEW S PROVE Switch!Cardinality(S) = Cardinality(S)
  BY DEF Switch!Cardinality, Cardinality, Switch!IsFiniteSet, IsFiniteSet

\* An exchange of two values loses none.
LEMMA CipherHolds ==
  ASSUME SwitchInv
  PROVE  Switch!CipherIsPermutation
  <1>1. PICK s : s = ref.rc.s
    OBVIOUS
  <1>2. s \in Permutations
    BY <1>1 DEF SwitchInv, States, Ciphers
  <1>3. {s[i] : i \in C} = C
    BY <1>2 DEF Permutations
  <1>4. Cardinality(C) = N
    <2>1. 0 \in Int /\ N - 1 \in Int /\ ~ (0 > N - 1) /\ (N - 1) - 0 + 1 = N
      BY StreamSizes
    <2>. QED BY <2>1, FS_Interval DEF C, Switch!Cell
  <1>5. {ref.rc.s[i] : i \in Switch!Cell} = C
    BY <1>1, <1>3 DEF C
  <1>. QED BY <1>4, <1>5, SameCount DEF Switch!CipherIsPermutation

\* What lies in an interval is no larger than it.
LEMMA InInterval ==
  ASSUME NEW x \in Int, NEW y \in Int, NEW w \in Nat, y - x + 1 <= w, NEW d \in SUBSET (x .. y)
  PROVE  Cardinality(d) <= w
  <1>1. IsFiniteSet(x .. y) /\ Cardinality(x .. y) = IF x > y THEN 0 ELSE y - x + 1
    BY FS_Interval
  <1>2. Cardinality(d) <= Cardinality(x .. y) /\ IsFiniteSet(d)
    BY <1>1, FS_Subset
  <1>3. Cardinality(d) \in Nat
    BY <1>2, FS_CardinalityType
  <1>. QED BY <1>1, <1>2, <1>3

\* What a try may have changed is no more than its window.
LEMMA WindowHolds ==
  ASSUME SwitchInv
  PROVE  Switch!WindowRespected
  <1>1. PICK changed : changed = {i \in C : ref.s[i] # before.s[i]} \ {N - 1}
    OBVIOUS
  <1>2. ASSUME op # -1, ~ Enciphered(before, ref)
        PROVE  /\ changed \subseteq pos1 .. pos2
               /\ Switch!Cardinality(changed \ {pos2}) <= Window
               /\ pos2 \in changed => op = 0
    <2>1. PICK x \in Int, y \in Int : x = pos1 /\ y = pos2 - 1 /\ pos2 = y + 1
      BY <1>2, Cells DEF SwitchInv
    <2>2. y - x + 1 <= Window /\ x <= y + 1
      BY <1>2, <2>1 DEF SwitchInv
    <2>3. \A j \in changed : j \in C /\ (j \in x .. y \/ (op = 0 /\ j = y + 1))
      BY <1>1, <1>2, <2>1 DEF SwitchInv
    <2>4. changed \subseteq x .. y + 1 /\ (y + 1 \in changed => op = 0)
      BY <2>2, <2>3
    <2>5. PICK d : d = changed \ {y + 1}
      OBVIOUS
    <2>6. d \in SUBSET (x .. y)
      BY <2>3, <2>5
    <2>7. Cardinality(d) <= Window
      BY <2>2, <2>6, InInterval, StreamSizes
    <2>. QED BY <2>1, <2>4, <2>5, <2>7, SameCount
  <1>3. {i \in Switch!Cell : ref.s[i] # before.s[i]} \ {N - 1} = changed
    BY <1>1 DEF C
  <1>. QED BY <1>2, <1>3 DEF Switch!WindowRespected, Enciphered

\* Whatever the tries, each changes the bytes of its window only, unless RC4
\* runs (pow.go:78-118), and RC4's state stays a permutation (rc4.go:42).
THEOREM WindowsHold == Switch!Spec => []StaysInBounds
  <1>1. SwitchInv => StaysInBounds
    BY CipherHolds, WindowHolds DEF StaysInBounds
  <1>. QED BY <1>1, SwitchSound, PTL
=============================================================================

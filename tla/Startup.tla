------------------------------- MODULE Startup -------------------------------
(***************************************************************************)
(* main up to the mine loop, and the benchmarks (main.go): the subgroup    *)
(* probe on a device of its own, the device main keeps with the limits it  *)
(* was granted (device.go), the choice of the suffix-array path, the batch *)
(* size and what becomes of the program.  Sessions is what the gate and    *)
(* the mine loop then do with the context.                                 *)
(***************************************************************************)
EXTENDS Integers, FiniteSets

CONSTANTS
  Stride,           \* entries of a suffix-array row (70912); an entry has 4 bytes
  \* Limits adapters and devices report: bytes of a storage binding, of a buffer,
  \* storage buffers of a stage.
  Bindings, Sizes, StorageBuffers,
  Defaults,         \* wgpu's default limits, [binding, size, storage]
  DefaultBatch,     \* 1664
  SpirvRows,        \* 512
  SPIRVBatchSize,   \* 2048
  Descriptors,      \* bytes of the native path's descriptors
  BatchFlags,       \* values of -batch
  BenchSizes        \* values of -bench and -benchpipe

RowBytes == Stride * 4
FusedStorageBuffers == 9
\* The adapters wgpu may offer; each limit may be 0, not reported.
Adapters ==
  [nvidia : BOOLEAN, vulkan : BOOLEAN, lanes : {0, 16, 32, 64},
   binding : Bindings, size : Sizes, storage : StorageBuffers]

\* -batch, set or not.
Batches == {[set |-> FALSE, rows |-> DefaultBatch]} \cup [set : {TRUE}, rows : BatchFlags]

\* A binding that is reported holds a row (277 KB; WebGPU grants 128 MB at
\* least): one that does not gives a MaxSlab of 0, for main no limit at all.
ASSUME StartupAssumption ==
  /\ Stride \in Nat \ {0} /\ {SpirvRows, SPIRVBatchSize, Descriptors, DefaultBatch} \subseteq Nat
  /\ SpirvRows <= SPIRVBatchSize
  /\ Defaults \in [binding : Nat, size : Nat, storage : Nat] /\ Defaults.binding <= Defaults.size
  /\ Bindings \cup Sizes \cup StorageBuffers \cup BatchFlags \cup BenchSizes \subseteq Nat
  /\ Defaults.binding >= RowBytes /\ \A b \in Bindings : b = 0 \/ b >= RowBytes

VARIABLES
  adapter,   \* the one -gpu and -backend select
  flags,     \* [sapath, batch, mode, n]
  stage,
  devices,   \* devices opened so far; a device has the limits it was granted
  ctx,       \* main's, 0 before it is opened
  limits, removed,   \* what main's device was granted; the devices the probe removed
  lanes, path, batchSize,
  done       \* hashes of the benchmark

vars == <<adapter, flags, stage, devices, ctx, limits, removed, lanes, path, batchSize, done>>

Init ==
  /\ adapter \in Adapters
  /\ flags \in [sapath : {"auto", "spirv", "refine", "portable"}, batch : Batches,
                mode : {"json", "benchpipe", "bench", "mine"}, n : BenchSizes]
  /\ stage = "start" /\ devices = 0 /\ ctx = 0 /\ limits = Defaults /\ removed = {}
  /\ lanes = 0 /\ path = "portable"
  /\ batchSize = flags.batch.rows
  /\ done = 0

Opened(d) == UNCHANGED <<adapter, flags, path, batchSize, done>> /\ devices' = d

-----------------------------------------------------------------------------
(* device.go.                                                              *)

\* The limits asked for: the adapter's own, but a buffer as large as a binding.
Asked ==
  [binding |-> adapter.binding, storage |-> adapter.storage,
   size |-> IF adapter.binding > adapter.size THEN adapter.binding ELSE adapter.size]

\* RequestDevice may hand back less of any of them, or report none; refused, main
\* asks again for none and gets the defaults.
Fewer(asked, reported) == {g \in reported \cup {asked} : asked = 0 \/ g <= asked}
Granted ==
  [binding : Fewer(Asked.binding, Bindings), size : Fewer(Asked.size, Sizes),
   storage : Fewer(Asked.storage, StorageBuffers)]
NewCtxBackend == limits' \in Granted \cup {Defaults}

CanFuse == limits.storage = 0 \/ limits.storage >= FusedStorageBuffers

CanSPIRV ==
  LET required == IF Descriptors > SPIRVBatchSize * RowBytes THEN Descriptors ELSE SPIRVBatchSize * RowBytes
  IN /\ adapter.vulkan /\ adapter.nvidia
     /\ limits.storage = 0 \/ limits.storage >= 8
     /\ limits.binding = 0 \/ limits.binding >= required
     /\ limits.size = 0 \/ limits.size >= required

MaxSlab_Entries == limits.binding \div Stride  \* (mutant) entries for bytes
MaxSlab == limits.binding \div RowBytes

\* ProbeSubgroupSize: a device for the probe alone, whose limits nobody reads.
\* Where there are no subgroups the dispatch removes the device it runs on.
ProbeDevice == devices + 1
ProbeSubgroupSize ==
  /\ stage = "start" /\ stage' = "probed"
  /\ Opened(ProbeDevice) /\ UNCHANGED <<ctx, limits>>
  /\ \/ /\ lanes' = adapter.lanes
        /\ removed' = IF adapter.lanes = 0 THEN {devices + 1} ELSE {}
     \/ lanes' = 0 /\ UNCHANGED removed

\* The device main keeps.
MiningDevice == devices + 1
OpenCtx ==
  /\ stage = "probed"
  /\ \/ NewCtxBackend /\ stage' = "opened" /\ ctx' = MiningDevice /\ Opened(MiningDevice)
     \/ stage' = "died" /\ Opened(devices) /\ UNCHANGED <<limits, ctx>>
  /\ UNCHANGED <<lanes, removed>>

-----------------------------------------------------------------------------
(* main.                                                                   *)

Keep == UNCHANGED <<adapter, flags, devices, ctx, limits, removed, lanes>>

NativeRuns == lanes = 32 /\ CanSPIRV
FusedRuns == lanes >= 32 /\ CanFuse

\* The path asked for, or "none" when this device cannot run it.
Selected ==
  CASE flags.sapath = "auto"   -> IF NativeRuns THEN "spirv" ELSE IF FusedRuns THEN "fused" ELSE "portable"
    [] flags.sapath = "spirv"  -> IF NativeRuns THEN "spirv" ELSE "none"
    [] flags.sapath = "refine" -> IF FusedRuns THEN "fused" ELSE "none"
    [] OTHER                   -> "portable"

SelectPath ==
  /\ stage = "opened" /\ Selected # "none" /\ stage' = "selected"
  /\ path' = Selected
  /\ Keep /\ UNCHANGED <<batchSize, done>>

\* A demanded path this device does not have: a skip in a verification sweep,
\* otherwise the end.
NoPath ==
  /\ stage = "opened" /\ Selected = "none"
  /\ stage' = IF flags.mode = "json" THEN "skipped" ELSE "died"
  /\ Keep /\ UNCHANGED <<path, batchSize, done>>

\* The path's own batch size, then the device's limit.
AtMost(n, limit) == IF n > limit THEN limit ELSE n
PathBatch ==
  IF path # "spirv" THEN batchSize
  ELSE IF ~flags.batch.set THEN SPIRVBatchSize
  ELSE AtMost(batchSize, SPIRVBatchSize)
Clamped == IF MaxSlab > 0 THEN AtMost(PathBatch, MaxSlab) ELSE PathBatch

Clamp ==
  /\ stage = "selected"
  /\ batchSize' = Clamped
  /\ stage' = CASE flags.mode = "json" -> "selftest"
                [] flags.mode = "benchpipe" -> IF path = "portable" THEN "died" ELSE "benchpipe"
                [] flags.mode = "bench" -> "bench"
                [] OTHER -> "gate"
  /\ Keep /\ UNCHANGED <<path, done>>

\* -selftest, and the startup gate, on the path that mines; a gate that failed
\* ends the program unless --skip-selftest is given.
SelfTest ==
  /\ \/ stage = "selftest" /\ stage' \in {"passed", "failed"}
     \/ stage = "gate" /\ stage' \in {"mining", "died"}
  /\ Keep /\ UNCHANGED <<path, batchSize, done>>

\* runBench hashes batch by batch; of an empty batch the native hash fails, the
\* others return at once.
Chunk_WholeOnly == IF batchSize <= flags.n - done THEN batchSize ELSE 0  \* (mutant) the rest is not hashed
Chunk == IF batchSize < flags.n - done THEN batchSize ELSE flags.n - done
RunBench ==
  /\ stage = "bench"
  /\ IF done >= flags.n THEN stage' = "benched" /\ UNCHANGED done
     ELSE IF path = "spirv" /\ batchSize = 0 THEN stage' = "died" /\ UNCHANGED done
     ELSE done' = done + Chunk /\ UNCHANGED stage
  /\ Keep /\ UNCHANGED <<path, batchSize>>

\* runBenchStream lays out all batches, then hashes them in one call; without
\* rows to a batch it divides by zero.
RunBenchStream ==
  /\ stage = "benchpipe"
  /\ IF batchSize = 0 THEN stage' = "died" /\ UNCHANGED done
     ELSE LET nb == (flags.n + batchSize - 1) \div batchSize
          IN stage' = "benched" /\ done' = AtMost(nb * batchSize, flags.n)
  /\ Keep /\ UNCHANGED <<path, batchSize>>

\* The device fails a batch.
BenchFails ==
  /\ stage \in {"bench", "benchpipe"} /\ stage' = "died"
  /\ Keep /\ UNCHANGED <<path, batchSize, done>>

Main ==
  \/ ProbeSubgroupSize \/ OpenCtx \/ SelectPath \/ NoPath \/ Clamp \/ SelfTest
  \/ RunBench \/ RunBenchStream
Next == Main \/ BenchFails

\* One goroutine, and every call returns; no failure is owed.
Spec == Init /\ [][Next]_vars /\ WF_vars(Main)

-----------------------------------------------------------------------------
(* Properties.                                                             *)

Hashing  == {"selftest", "gate", "mining", "bench", "benchpipe"}
\* The self test brings its own inputs; the others hash batchSize rows at most.
Batching == Hashing \ {"selftest", "gate"}

\* The guards of the builds behind a batch of n rows: SuffixArrayBatch
\* (sa_batch.go), buildFusedSession and NewFusedStreamer.
SessionRows(n) == IF path = "spirv" THEN SpirvRows ELSE n
Within(bytes, limit) == limit = 0 \/ bytes <= limit
Accepted(n) ==
  /\ Within(SessionRows(n) * RowBytes, limits.binding)
  /\ path = "fused" => CanFuse
  /\ path = "spirv" => /\ CanSPIRV /\ n <= SPIRVBatchSize
                       /\ Within(Descriptors, limits.binding)

\* "Clamp rather than fail deep inside a session build" (main.go:121): whatever
\* the flags, the adapter and the limits it granted, reported or not, no batch the
\* program hashes is refused by a guard of the build.
BatchIsAccepted == stage \in Batching => Accepted(batchSize)

\* A session allocates nothing larger than a row buffer, or on the native path the
\* archive.
Allocated(n) == IF path = "spirv" THEN SPIRVBatchSize * RowBytes ELSE n * RowBytes

\* "The smaller one wins" (device.go:73), and the clamp looks at the binding alone.  No
\* batch needs a buffer larger than the device allocates on the native path, which
\* tests both limits (device.go:120), and on a device that reports a binding limit
\* and grants what main asked for or its defaults: main asks for buffers as large as
\* a binding (device.go:236).  A device that grants less of the buffer alone may be
\* handed a batch that it binds and cannot allocate.
BatchIsAllocated ==
  stage \in Batching /\ (path = "spirv" \/ (limits.binding # 0 /\ limits \in {Asked, Defaults}))
    => Within(Allocated(batchSize), limits.size)

\* The two subgroup kernels run only where the probe saw the lanes they need,
\* and the native one on no other hardware than it was made for.
PathSuitsDevice ==
  stage \in Hashing =>
    /\ path # "portable" => adapter.lanes >= 32
    /\ path = "spirv" => adapter.lanes = 32 /\ adapter.nvidia /\ adapter.vulkan

\* The probe, which may remove its device, never costs the one that mines
\* (device.go:149-157).
MiningDeviceLives == ctx # 0 => ctx \notin removed

\* The device that hashes suits its path and has not been removed by the probe,
\* its batch fits every binding, and every buffer where the raised request was
\* granted in full (main.go:121, device.go:149, device.go:236).
DeviceSuitsMiner == BatchIsAccepted /\ BatchIsAllocated /\ PathSuitsDevice /\ MiningDeviceLives

\* A benchmark hashes what it was asked for and reports that number.
BenchCounts == stage = "benched" => done = flags.n

\* "hash N inputs ... and report H/s, then exit" (main.go:41): a benchmark ends,
\* unless -batch 0 reaches runBench on a path that hashes an empty batch without an
\* error, for which each chunk is empty (main.go:255).
BenchTakesRows == stage = "bench" => batchSize > 0 \/ path = "spirv"
RowsEndBench ==
  stage \in {"bench", "benchpipe"} /\ BenchTakesRows ~> stage \in {"benched", "died"}

\* That one never reports: whatever ended with a result had rows to hash.
BenchHadRows == stage = "benched" => batchSize > 0 \/ flags.n = 0
=============================================================================

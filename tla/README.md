# TLA+ verification of the Dirtybird Go GPU miner

This directory models the miner's own logic in TLA+, checks it with TLC on
small instances and proves, with TLAPS, the properties that matter most for
every value of the constants.  Everything is translated from the Go source;
`PROJECT.json` names, for each definition, the lines it stands for.

Contents: 1 the system, 2 the modules, 3 the runs, 4 bounds and fairness,
5 what the runs found, 6 what is proved, 7 what is not modelled, 8 the plan.

## 1. The system

One process mines DERO (AstroBWTv3) on a GPU against a getwork daemon or pool.

| component | state | operations | talks to |
|---|---|---|---|
| job state, `internal/miner/state.go` | blob, jobid, target under a mutex; epoch and mirrored counters as atomics | `SetJob`, `Job`, `Epoch` | written by the client's reader, read by the mine loop and the status line |
| difficulty, `internal/miner/difficulty.go` | none | `ComputeTarget`, `MeetsTarget` | job state, gate |
| getwork client, `internal/getwork/client.go` | connection, `connDone`, backoff, `Connected`, `SendFails` | `Run`, `connectAndServe` (reader), one writer goroutine per connection | daemon (websocket), mailbox `submits`, callback `OnJob` |
| gate, `cmd/go-gpu-miner/main.go` | counters, `reprobed` | `processBatch`, `classify`, `onMiscompute`, `submitShare` | job state, mailbox, `Connected`, CPU hash |
| one-shot mine loop, `main.go` | consecutive hash errors | `mineLoop` | job state, pipeline, gate |
| streaming mine loop, `main.go` | two blob buffers, `prev`, consecutive hash errors | `mineLoopStream` | job state, streamer, gate |
| WGSL streamer, `gpu/pipeline.go`, `gpu/fused.go` | `cur`, `have`; per session staging buffers and `saMapped` | `Submit`, `Drain`, `submitCompute`, `collect` | device queue |
| native streamer, `gpu/spirv_stream.go` | `cur`, `have`, map handles, two upload and two staging buffers, shared text/lens/archive | `Submit`, `Drain`, `prepare`, `submitGroup`, `collect` | device queue, CPU hash for overflowed slabs |
| device and sessions, `gpu/device.go`, `fused.go`, `sa_session.go`, `spirv_sa.go` | cached sessions, device limits | build, reuse, release, self test, startup gate | wgpu |
| program start, `main.go` | flags, path, batch size | probe, path selection, clamp, gate, benchmarks | device, sessions |
| CPU AstroBWTv3, `internal/astrobwt` | scratch buffers | wolf loop (`pow.go`, `wolftable.go`, `rc4.go`), `Hash`, `HashPair` | gate, streamer |
| CPU suffix arrays, `sais.go`, `sais2.go`, `sa_v114*.go` | scratch: `sa`, text, counts; arena and records | SA-IS, the v1.14 descriptor algorithm | CPU AstroBWTv3 |
| GPU kernels, `gpu/wgsl`, `gpu/spirv` | device buffers | front half, suffix arrays, SHA-256 | sessions |
| verification sweep, `cmd/verifybackends` | one child process, two channels, two timers | `runCombo` | the miner as a child |

A job goes daemon -> reader -> `SetJob`; the mine loop takes a snapshot with
`Job`, fills a batch of blobs and hands it to the GPU.  The hashes come back at
once (`mineLoop`) or with the next `Submit` (`mineLoopStream`).  The gate
compares each with the target, checks that the job's epoch has not moved, hashes
the row again on the CPU and only then queues a share in the mailbox, waiting
for room if it must.  The current connection's writer takes it from there to
the socket.

What is hard here, and the property that answers it:

* **Interleavings.**  Reader, mine loop and writers share the job state, the
  mailbox and `Connected`.  A snapshot must not be torn (`SnapshotConsistent`),
  the lock-free epoch check must be sound (`FreshIsCurrent`), two writers must
  never overlap across a reconnect (`OneWriter`).
* **Check, then act.**  The epoch is checked before the CPU re-hash and the
  wait for room, not after: how much can slip (`AtMostOneLate`)?
* **Results one call late.**  Hashes, blobs and job context of a batch must meet
  again after other batches were built, submitted and refused
  (`ResultsAligned`, which holds the silent alarm of a healthy GPU, `PipeMatchesLoop`).
* **Partial failure.**  The GPU miscomputes; a write fails while reads work; a
  map fails half way through `Submit` (`OnlySolutionsSubmitted`,
  `NoZombieLink`, `LossPerLink`, `BuffersSafe`, `ImplementsStreamer`).
* **Boundaries.**  A 257-bit target (`GateIsExact`), limits that are granted in part
  or not reported (`DeviceSuitsMiner`).
* **Everyone waiting.**  Full mailbox and dead link; reader waiting for a writer
  that waits for a share; Ctrl-C in any of these (`WaitEnds`,
  `NeverStuck`, `CtrlCStops`, `MailboxDrains`, `CallsReturn`).
* **Book-keeping.**  A share can end in five places; each must be counted once
  (`SharesAccounted`, `SharesKeepOrder`).
* **Device memory.**  A session is some fifty objects, built in an order that may
  fail anywhere (`BuildsAreSound`), cached, reused, outgrown and released by five
  callers (`CachesAreSound`, `HealthyNeverFails`), and reused with what earlier
  calls left in it (`RowsOfThisBatch`).
* **Two forms of one algorithm.**  256 hand-written cases and a generated table
  (`TablesAgree`); SA-IS, the descriptor algorithm and the GPU's prefix doubling,
  all of which must give the suffix order (`SuffixArraysAgree`, `KernelSorts`).
* **Scratch that is never cleared.**  Stale frequencies, stale padding, stale
  suffixes (`PassesAreSound`, `RecordsAreExact`, `TemplatesFollowRC4`,
  `HashesAreOwn`).
* **Lanes between barriers** (`RoundsInStep`), and a sweep whose child, reader and
  timers race (`SweepIsSound`).

`PROJECT.json` lists these as hazards at the lines where they bite.

## 2. The modules

    Difficulty --- JobCell ------------------------.
         \            ^ implemented by             |
          `-------- JobState                       v
                                    GetworkClient, JobCell --> ShareGate
                                                                |      |
                                                          MineLoop   StreamLoop --uses--> Streamer
                                                                                            ^ implemented by
                                                                          FusedStreamer, SpirvStreamer

    Startup --> Sessions --> SessionBuild      WolfOps --> WolfStream     SuffixOrder --> Sais
        (path)     (a session's life)             WolfLoop --(stream)-->              --> DescriptorSA
                   OneShot (one call of it)                    Hasher                 --> SaGpu

The second row is a chain by meaning, not by INSTANCE: each module takes over,
as one step or as an open choice, what its neighbour models in detail.

**Difficulty** (`difficulty.go`).  Hashes are numbers below `HashSpace`, the
target of `d` is `HashSpace \div d`, capped at the largest hash for `d = 1` as
the code caps the 257-bit value.

**JobCell** is the promise of the job state: one cell of work, target and epoch
that is replaced and read as a whole.  `work` stands for the pair (blob, jobid),
which the code compares and writes together.

**JobState** is the code: the mutex, `SetJob` as checks, mirrored counters,
lock, comparison, field writes and epoch bump (`SetJobReject`, `SetJobMirror`,
`SetJobSame`, `SetJobLock`, `SetJobStore`, `SetJobBump`) and `Job` as call, lock, field
reads, epoch read and return.  `ImplementsCell` states that it implements
JobCell; the cell is the job of the last *bumped* epoch.

**GetworkClient** (`client.go`).  `Run`, `DialFail`, `DialOK`, `ReadJob`,
`ReadFail`, `Join`, `Served` and the two `Backoff` actions are the goroutine of
`Run`; `WriterTake`, `WriteOK`, `WriteFail`, `WriterReleased`, `WriterCancel` are
the writer goroutine of connection `c`.  Each connection has its own socket, `connDone` and
writer, so that an overlap of two connections is a state of the model, not
excluded by it.  `MCGetworkClient` adds a producer in place of the mine loop.

**ShareGate** (`main.go` 384-529) puts the gate beside the client, the job cell
and a daemon whose accepted job `tip` rotates at any moment.  A candidate is the
pair of its GPU hash and its CPU hash; a miscompute is a pair that differs.
`ProcessBatch` is the call with its first epoch check, `GateMiss`, `GateRotated`,
`GateMiscompute`, `GateSubmit` are the outcomes for one row, `Send`, `Backpressure`,
`Abandon`, `WaitCancelled` the branches of `submitShare`.  The candidate of a row
is chosen when the gate reaches the row: rows do not influence one another.

**MineLoop** and **StreamLoop** add the two loops.  StreamLoop keeps the code's
two blob buffers, `bi`, `prev` and the loop's treatment of a refused `Submit`
and of the final `Drain`.  Both use the job state through JobCell, which JobState
is proved to implement, and StreamLoop uses the GPU through Streamer.

**Streamer** is the promise of the streaming GPU path: a pipe one batch deep,
where a call that fails changes nothing.

**FusedStreamer** (`pipeline.go` 261-306, `fused.go` `submitCompute` and
`collect`) and **SpirvStreamer** (`spirv_stream.go`) are the two
implementations, with the device's ordered queue, the state of every map, and a
fault at any fallible device call.  In SpirvStreamer the device buffers that two
groups in flight share (text, lengths, archive, overflow) hold batch numbers; a
sort or hash of one batch's text with another's lengths yields batch 0, "nobody's
hash", which the abstract pipe can never return.  SpirvStreamer also has the
caller's two blob buffers, because the code keeps the caller's slice and hashes
overflowed rows from it later.

**Startup** (`main.go` 30-299, `device.go`).  The adapter with the limits it
reports, the limits the device grants of those asked for, the flags and wgpu's default
limits are chosen freely; the actions are the probe on a device of its
own, opening the context, path selection, the batch's cap and clamp, the gate's
outcome and the two benchmarks, chunk by chunk.

**SessionBuild** (`sa_session.go`, `fused.go`, `spirv_sa.go`, `spirv_stream.go`,
`Ctx.Run`).  A build is the list of its creations and uploads in the code's order,
each with the objects it needs; `Refuse` is a failure at any of them, `Unwind` the
deferred release of the innermost active build function.  `Held` is what decides
whether a parent releases an inner session: the field is assigned only when the
inner build has returned.

**Sessions** (`pipeline.go`, `sa_batch.go`, `device.go`, `main.go`).  The five
caches of a context.  An operation (gate, `NewFusedStreamer`, batch, `Submit`,
`Drain`, re-probe, `Close`) is the list of steps it has left: need, drop, build, use,
submit, drain.  The WGSL handle and the native streamer keep their `cur` and `have`;
faults are bounded.  Whatever the order of calls and failures, the caches
and the device must agree.

**OneShot** (`fused.go` `run` and `runSPIRVData`, `sa_session.go` `run`).  One session
reused for batches of other sizes: rows, lengths, the uniform, the suffix
arrays and the flag slots keep what earlier calls left.

**WolfOps** holds the 256 cases of the switch as terms over eight-bit bytes,
the generated table, and `genwolf`'s classification that leads from one to the
other.  Its bit operations are arithmetic on bits and half bytes, and its loops
recursive functions, so that theorems can be stated about it.  **WolfStream** runs
the tries by both forms side by side, any case and any positions at each, with
RC4 and a log of the hash calls.  **WolfLoop** is the loop around the
tries: when it stops, where each chunk lands, the template markers, the stream's
length and the group flags.  The bytes that decide are left open.

**SuffixOrder** is the reference order of suffixes.  **Sais** is SA-IS pass by pass,
in place, with slices of shared memory; a recursive call pushes a frame, and the
level below works on what its caller's arrays leave free.  The passes of the top
level (`sais.go`) and of the recursion (`sais2.go`) differ only in the word packing
of short substrings.  **DescriptorSA** is the v1.14 algorithm: records of literal
positions and arena runs, emitted by template, sorted by radix, merged by key.
Sorting loops in these two are folds and RECURSIVE operators, which TLC
evaluates; no theorem is stated in them.

**Hasher** is the last stage over reused scratch, and the two-at-once SHA-256:
blocks, tail, padding.  **SaGpu** is the portable GPU kernel: what a lane does between two
barriers is a step, and all interleavings of an interval are explored.

**VerifyBackends** is the sweep: the child, the goroutine that scans its output, the
one in `Wait`, the two timers and `runCombo`.

Four MC modules put independent components into one instance each:
**MCAstroBWT** (WolfStream, WolfLoop, Hasher), **MCSuffixArrays** (Sais,
DescriptorSA, SaGpu), **MCSessions** (Sessions, SessionBuild, OneShot) and
**MCStartup** (Startup, VerifyBackends).  **HashParts**, **KernelParts** and
**SessionParts** declare parts of the first three, with the conjunctions their runs
check; the proofs stand on the same modules, so that a theorem and a run speak of
one definition.  Their variable `part` says which one
runs; the others rest in an initial state, so that the state space is the sum of
the parts.  Their properties are conjunctions of the parts' own, which carry the
comments.  Parts that are instances have their assumption as a definition, which
the MC module assumes.

An operator marked `(mutant)` is a plausible bug in the definition that follows
it; no specification uses it.  `PROJECT.json` pairs each with the property that
breaks when it takes the definition's place.

## 3. The runs

| run | what it asks | answer |
|---|---|---|
| `JobState` | do interleaved pushes and snapshots behave as one cell, and does every call return? | yes |
| `GetworkClient` | three connections, failure everywhere, Ctrl-C at any time: one writer, no half-dead link, shares in order and conserved, redial, shutdown? | yes |
| `MineLoop` | a GPU that may miscompute, rotating jobs and difficulties, a full mailbox, a failing link: only solutions, no solution missed, every share accounted for, one late per batch? | yes |
| `MineLoopLive` | does a wait for room end, does Ctrl-C end the process, does the mailbox drain? | yes |
| `StreamLoop` | refused Submits between good ones: are hashes, blobs and context always of one batch; with a healthy GPU no false miscompute alarm; does Ctrl-C end the process through the drain? | yes |
| `FusedStreamer` | is the WGSL streamer the one-deep pipe under any three faults, with no buffer copied into while mapped, and no later call failing for an earlier fault? | yes |
| `SpirvStreamer` | is the native streamer that pipe under any two faults, never writing a buffer still in use, on either side? | yes |
| `SpirvStreamerWedge` | does the native streamer recover from one fault? | no, see 5.1 |
| `AstroBWT` | do the switch and the table do the same for all 256 cases; do tries stay in their arrays; are stream, template flags and digest those of this hash? | yes |
| `SuffixArrays` | does every pass of SA-IS leave what the next needs, do descriptor records tile the suffixes in order, are the kernel's barriers uniform and its ranks those of prefixes, and is each result the suffix array? | yes |
| `Sessions` | wherever a build fails, is everything released once; do caches and device agree through gate, stream, re-probe and close under two faults; does a healthy device never fail a call; does a row get its own result? | yes |
| `Startup` | on every adapter, with every flag and whatever is granted of the limits, does the path suit the device and the batch fit its bindings, and its buffers where the request was granted in full; do benchmarks count right, and end unless the batch is empty (see 5); does the sweep end with every record its own? | yes |

`JobState`, `GetworkClient`, `FusedStreamer` and `SpirvStreamer` run on their
components; `MineLoop`, `MineLoopLive` and `StreamLoop` on the composed miner.
The four share guarantees that `MineLoop` checks hold for the streaming loop
too: they are proved for it (section 6).  The type invariants of job state,
client and both loops are proved and need no run; those of the streamers are
part of `BuffersSafe`, which is proved, too.

Deadlock is checked in `JobState`, `FusedStreamer` and `SpirvStreamer`, whose
callers can always call again.  The other runs switch it off because the
process, the algorithm, the bounded number of connections, calls or batches comes
to an end, or, in the composed instances, because a finished part stops;
`SuffixArraysAgree`, `KernelSorts` and the like speak of where it ends.

## 4. Bounds and fairness

* **Job state.**  Two templates, difficulties 1, 2 and 5 (1 is the capped
  target), up to four epochs.  Two templates are enough to alternate, four epochs
  enough for a snapshot to be overtaken twice; the theorems lift all of these.
* **Client.**  Three connections, three shares, two mailbox slots, backoff from 1
  to 15 so that doubling (1, 2, 4, 8, 15) meets the cap from below, as 15 s does
  in the code.  A property of overlap needs two connections, one that survives a
  second reconnect needs three.
* **Mine loops.**  Rows per batch 1 to 3, one mailbox slot, so that the second
  share of a batch already has to wait; two epochs, two difficulties, 1
  (whose target is the capped one) and 3; one, 2, in `MineLoopLive` and `StreamLoop`.
  Hash 2 is a share at each, hash 6 at difficulty 1 only, so that each row may be a
  hit, a miss, or a miscompute in either direction, and a rotation changes which.  `MineLoop` has two
  batches and two connections; `StreamLoop` three batches, the least with which a
  batch is gated while another is in flight and a third is being built, and one
  connection.  The hash error budget is two.  `MineLoop` uses the
  symmetry of the templates; the runs with liveness do not.  `StreamLoop` has a
  healthy GPU, the hard case for the alarm: `MineLoop` has the one that errs.
* **Streamers.**  Each of the two sessions is used at least twice after a fault:
  six Submits with three faults, and five with two.  Drain may be called at any
  time.

* **Startup.**  Limits below, at and above what one and three rows need, so that
  each path is refused and accepted; of each, an adapter may report none, and a device
  may grant any value up to what was asked, or none, each on its own.  Batches of 0,
  below and above the slab; an input count that is no multiple of the batch.  Storage
  buffers 8 and 9: an unreported count, 0, passes the same tests as 9 and is left to the
  theorems.  Adapters that are neither NVIDIA's nor Vulkan's are left out, as only
  being both is ever tested.
* **Sessions.**  Batches of one and three rows, so that a session is reused and
  outgrown; eight calls, two faults: gate, re-probe and stream in one history with a
  fault in each of two of them.  `SessionBuild` needs no bound: every build at its
  real length.
* **OneShot.**  Two rows of four letters, three calls: a larger batch, a
  smaller one over its rests, and one after a failure.
* **Wolf loop.**  All 256 cases at every pair of positions, at five cells and a
  window of three, from three seeds of mixed bit patterns with eight-bit bytes; then a
  second try of four cases (`MCSwitchers`) on whatever the first left.  The real
  operations are bytewise, so cells beyond the window add nothing; the theorems
  lift cells, seeds and tries.  `WolfLoop` has five to eight tries and a count
  cap of four, so that a template can outgrow its marker.
* **Suffix arrays.**  `Sais`: every text of up to seven letters over three, and
  longer ones chosen so that it recurses twice, recurses into `sa`, allocates, and
  meets long equal substrings.  `DescriptorSA`: chunks of two letters, keys of two,
  every text of up to nine letters over two, with every set of template flags, and arenas that
  just hold the text and that do not.  `SaGpu`: four lanes, every two-letter text of
  up to four, longer ones of two and five tiles.
* **Hasher.**  Blocks of eight bytes, tails on both sides of the boundary, two
  calls.  **VerifyBackends.**  Three combinations: a child that outlives its own
  meets the next one, and that one's record the one after.

Fairness is weak, on the goroutines and not on the environment:

* the client: dials, reads and writes have deadlines and timers fire, so
  each of these calls returns; a socket closed locally yields an error after
  finitely many buffered frames.  Nothing makes a dial succeed, a daemon push or
  an open connection fail.
* the mine loop: GPU calls return (`collect` and `wait` have a 120 s deadline), the
  100 ms tick of `submitShare` fires, a send into a mailbox with room succeeds.
  Nothing makes a job arrive or rotate.
* the job state: strong fairness on the two lock acquisitions, because
  `sync.Mutex` hands the lock to a waiter that has waited for a millisecond;
  without it a waiter could see the mutex free only at times when it is not
  scheduled.
* the GPU queue needs none: no property of the streamers is a liveness property.
* `Startup`: main goes on; no call in it waits for anything but the device.
* `VerifyBackends`: `runCombo` with its timers, the scanner and `Wait` go on.  Nothing
  makes the child print or exit.

## 5. Where the code differs from what its documents say

1. **The native streamer does not recover from a fault** (`SpirvStreamerWedge`).
   `prepare` and `collect` clear the map handle before they wait and `submitGroup`
   sets both at its very end.  A call that fails in between (a wait, a failed upload of the
   lengths, a submission; not a failed `MappedRange` alone, which leaves the buffer
   mapped) leaves no handle to wait for, and every later `Submit` returns "missing GPU map"; the mine loop then
   uses up its 50 errors and exits, where `main.go:531` expects that "a transient
   hiccup recovers within a few".  Nothing wrong is ever returned
   (`ImplementsStreamer` holds), and a restart helps.  The WGSL streamer has
   `collect`'s deferred unmap and does recover (`NoWedge`).

The models also do what the code does in the following places, where a document
promises more than the properties that hold.  No run states the promise.

* The clamp knows one limit of two.  `device.go:72` says of the binding and the buffer
  limit that "the smaller one wins", and `main.go:121` that the batch is clamped "rather
  than fail deep inside a session build"; `MaxSlab` looks at the binding alone.  main
  asks for buffers as large as a binding (`device.go:236`), but `device.go:82` expects
  that "RequestDevice may hand back fewer limits than it was asked for": with the
  binding granted and the buffer size not, the batch passes every guard and its row
  buffer cannot be allocated.  The same happens when a buffer limit is reported and
  no binding limit is.  Both are states of `Startup`; `BatchIsAllocated` says where
  it does not happen: on the native path, which tests both limits, and wherever the
  request or the defaults were granted in full and a binding limit is reported.
* With `-batch 0` the chunk of `runBench` (`main.go:255`) is empty, and the portable and
  the fused path hash an empty batch without an error: the loop goes on for ever, where
  `main.go:41` promises "then exit".  The run `Startup` has the batch 0;
  `RowsEndBench` says that every other benchmark ends, `BenchHadRows` that this one
  never does with a result.
* `SetJobSame` leaves the target alone: a push that changes only the difficulty is
  mirrored to the status line and returns early (`state.go:91`).
* `AtMostOneLate` says 1 and not 0: between the epoch check and the send lie the
  CPU re-hash and the wait for room, although `main.go:463` says that "a stale
  candidate is never submitted".  It is one whatever the batch's size, because
  every row checks again.
* `Abandon` needs only a tick that sees the link down, whereas `DEPLOY.md:172` says
  that a share is abandoned "only when the daemon would reject it anyway".
* When the streamed half of the native self test fails in `Drain`, `have` stays
  set, and a miner told to skip the gate still stops in `NewFusedStreamer`
  (`pipeline.go:236`); `HealthyNeverFails` is about devices without faults.
* A template outgrows its marker after 127 chunks and the first one begins late
  (`sa_v114.go:4` is simpler).  `FlagsFollowRC4` says which flags result as long as no
  template is that long; of a longer one it says nothing, `InBounds` that the flags
  stay in their array, and `SuffixArraysAgree` and `RecordsAreExact` that
  `DescriptorSA` gives the suffix array for every set of flags.
* `Wait` runs beside the reader of the child's `StdoutPipe`: a child that prints and
  exits at once may be recorded as having printed nothing.  `RecordsAreOwn` says
  that a record that is there is right.

## 6. What is proved

All theorems hold for every value of the constants under the named assumptions
of the modules.  `ClientAssumption`, `CellAssumption`, `JobAssumption`,
`GateAssumption`, `LoopAssumption`, `StreamAssumption` and `SpirvAssumption` say no
more than that bounds are naturals, batch and mailbox are not empty, `HashSpace` is
positive and distinguished values are distinct.  `StartupAssumption` adds what the
platform and the flags promise: a binding limit that is reported holds at least one
row, wgpu's default buffer is no smaller than its default binding, and `-batch` is not
negative (a negative one panics in `make` in every mode but the self test).  Of what an
adapter reports and a device grants it says nothing else: each limit may be missing, and
each may be less than was asked for.  `SessionsAssumption` adds that the batches given
to a session fit the slab and, on the native path, a streamed group: this is what
`MinerSuitsDevice` proves of the batches `main` lets through.  `OneShotAssumption`
says that a text fits its row.  WolfStream's `StreamAssumption` says that there
are 1 to 256 cells, as a position is a byte, and that seeds and positions are in range;
WolfLoop's `LoopAssumption` has the relations between the array sizes that
`pow.go` declares, and `HasherAssumption` says that a stream
fits the scratch buffer and a length field is shorter than a block.  TLC evaluates
each of them.

**JobStateProofs**: `TypeCorrect`, `NeverTorn`, `FreshnessSound`, `EpochsDiffer` and
`Refinement` (the code implements JobCell).  `SnapshotConsistent` is not
inductive: it needs to know who holds the mutex at each step (`MutexInv`), what
the push in progress carries (`PushInv`), that the fields are those of the last
epoch except between store and bump (`CellInv`), and that what `Job` has read so
far belongs to the epoch it is about to read (`SnapInv`).  The refinement maps the
bump to `SetJob`, the return to `Job`, and everything else to stuttering.

**ShareGateProofs** first treats the client alone: `TypeCorrect`, `SoleWriter`,
`NoHalfDeadLink`, `LossBounded`, `QueueKept`.  The invariant adds where each connection's writer can be
by the reader's position (`Writers`), the sockets of past connections (`Sockets`) and
that a writer holds a share just when it writes (`Holds`).  `LossBounded` counts
finite sets: a failing write adds one to `SendFails` and one element to the set
of writers that are done, which nothing ever leaves.  `QueueKept` looks at the
sequence of what was sent, what the writer has in hand and what is in the mailbox
(`Trail`): a step leaves it alone, appends to it, or drops the share in hand and
counts it.  That there is at most one share in hand is `SoleWriter`'s invariant.

Then come the lemmas both loops share: each step of the gate,
the daemon and the client keeps `GInv` (the cell's epoch is the number of pushes
remembered, and the batch at the gate and each queued share name a pushed job
and its target), `LateInv` (once a share of a batch was late, its epoch is past, so
the next row is turned away by the freshness check) and `SharesAccounted`.
The arithmetic is in `TargetSolves` and `SolutionMeets`: a hash is within
`HashSpace \div d`, or the cap for `d = 1`, just when times `d` it does not exceed
`HashSpace`.

**MineLoopProofs**: `MineTypes`, `MineOnlySolutions`, `MineGateExact`, `MineAccounts`,
`MineOneLate`.

**StreamLoopProofs**: the same five for the streaming loop, and `StreamAligned`,
`StreamInStep`.  The invariant relates loop and pipe: the batch in
flight is `prev`'s (`PipeInv`), its blobs are untouched in the buffer `prevBuf`
(`PrevInv`), the batch being built is in the other buffer (`BuiltInv`), and
during the gate `b` is `prev` and the hashes are `b`'s (`GateInv`).

**WgslProofs** is about the WGSL backend, its streamer and the kernel it dispatches.

Of the streamer it proves `BuffersAreSafe` and `Refinement` (it implements Streamer).  The invariant ties the state of each staging buffer to the
place in the call (`Maps`), says what a call on its way has accepted (`Calls`), and
that a buffer with commands on the queue has a last one (`Lasts`).  The refinement
maps a buffer to the batch it will hold when the queue has run (`Newest`), so that
the device's own steps are stuttering and a collected buffer is the batch in flight.

Of the kernel it proves `KernelInStep` and `KernelBuilds`, for any number of lanes and
any text that three passes can rank: barriers are uniform, ranks are those of
prefixes, and the result is the suffix array, in every interleaving.

* All lanes come from one place: one that waits is behind the barrier the place leads
  to, any other is there or has run past a loop that was over (`From`).  Shared memory
  that decides a loop is not written in an interval that reads it (`Steadily`).
* For each place `Phase` says what memory holds when the lanes of a set have run their
  interval there: as a predicate of the set, not of an order.  That a lane's interval
  adds it to the set, whoever ran before, is a lemma per place (`Step...`), and what
  all lanes have done is what the next place begins with, another (`Turn...`, `From...`).
  Where a barrier is needed, the step could not be proved without it: `AtRead` needs
  the sums that nobody has overwritten yet.
* A pass: the histogram counts the digits, its sums are the slots with lower digits
  (`SumsUnder`), and base, run and the lanes before give each slot its own place
  (`PlaceIs`), in the order of digit and slot (`PosOrder`).  So a pass is a stable
  permutation (`MovedIs`), passes compare one digit more each (`ByNext`), and three of
  them compare keys (`EnoughDigits`).
* The scan: after each turn a lane has the sum of a window of twice the width
  (`WindowIs`), so it ends with the number of pairs that differ from their
  predecessors, which ranks them (`NumbersRank`).
* A round: ranks of pairs of `h`-letter prefixes are ranks of `2h`-letter prefixes
  (`PairsDouble`).  The loop ends when all ranks differ or `h` reaches the length, and
  different ranks make the slots the suffix array (`ArrayBuilt`).

**SpirvStreamerProofs**: the same two for the native streamer.  Its groups share
text, lengths and archive, so the invariant follows each queued hash back to where
its inputs come from: the three commands before it are its group's, and those that
have run left their results in the shared buffers (`Hashable`, `Whole`).  A failed
call can leave a hash behind; `Strays` says that its staging buffer is never
collected from again.  `Flying` keeps the caller's blobs of the batch in flight.

**DeviceProofs** has two parts.

* `Sessions`: `CachesSound` and `HealthySucceeds`.  The operation in progress is a list
  of steps, and the invariant speaks of the whole list by position: what a step
  touches is kept, or built before it (`Touching`); what it drops is there and dropped
  once (`Dropping`); a build comes when its slot is empty (`Building`) and the other
  path's memory is back (`Alone`); and after `Close` every session still has its drop
  (`Closing`).  A step takes the head and puts others in its place; that this keeps
  each part is a lemma per kind of step, and that each operation's list is a good
  one (`Follows`) a lemma per operation.  `HealthySucceeds` adds what holds while
  nothing has failed: no need exceeds the rows there are (`Room`), and the streamer is
  idle, made or dropped only with no group in flight (`Sturdy`).
* `OneShot`: `RowsAreOfTheBatch`.  The native kernels always sort the whole slab: unused
  rows keep texts of earlier batches, and only their cleared lengths keep them from
  raising the flag.  The place of a row in the packed readback is a sum over the
  rows before it, a recursive function; that each row finds its own entries there is
  shown by induction over the rows.

**ProgramProofs** is about the programs around the device, in five parts.

* `Startup`: `MinerSuitsDevice` and `BenchIsExact`, from an
  invariant that numbers the devices (`Numbered`), and says that the path suits lanes
  and limits once it is chosen (`Suited`) and the batch suits the path, and the buffers
  where the limits were granted in full (`InFull`), once it is clamped (`Fitting`).  The
  arithmetic is that rows times bytes of a row stay below the limit they came from.
* `VerifyBackends`: `SweepIsOwn`.  What the pipe, the scanner and the channel hold is
  what this child printed, because each combination has its own (`OwnRecord`); the
  records so far are their children's (`OwnRecords`); and a child that was killed or
  waited for has ended (`Ended`).
* `WolfLoop`: `TriesInBounds` and `FlagsAreExact`.  Each try adds one chunk and at
  most one template, so the tries bound both (`Counting`); what is cut off at the end
  is longer than what the tail gives back (`Cut`).  For the flags the invariant says
  that the open template reaches to the last try (`Open`) and that the markers before
  it hold exactly the chunks where RC4 ended a template (`Marked`), as long as RC4
  comes often enough for counts to fit; the markers of an earlier hash lie behind.
* `Hasher`: `DigestsAreOwn`.  `StreamIsOwn`: the bytes that are hashed are the ones
  that the stream has just written.  `FinishIs`: writing the end mark and the length
  over a tail of zeros gives what padding gives, on both sides of the block boundary.
  `PairIs`: the blocks that two messages have in common, then the rest of each, are
  the blocks of each message.
* `WolfStream`: `SwitchIsTable` and `WindowsHold`.  `AllTwins` goes through the 256
  cases: each statement is the table's entry for it (`Twins`).  `StatementByte` says
  that a statement and the code `genwolf` gives it are one function of bytes, `Executes`
  and `BodiesAgree` lift this to the loop's body with the three special cases, and
  `TriesAgree` to all turns of the byte loop.  The invariant (`SwitchInv`) keeps both
  states equal and says what a try may have changed: the window, or everything if the
  log says that RC4 has run (`Enciphered`).  That the state of RC4 stays a permutation is
  `SwapPermutes`, through the key's loop (`NewCiphers`) and the stream's (`KeyStreams`).

A loop of the source is a recursive function in the models, and what it computes is
proved by induction all the same.  The library's induction theorems cannot be used,
for their hypothesis is an operator; but that `<` on the naturals is well founded can
be, and gives induction for a set (`Inductive`), then an invariant of a loop (`Loops`)
and the existence of the function that a recursive definition chooses (`LoopsExist`).

`SweepIsOwn` and `BenchIsExact` state the safety in `SweepIsSound` and `BenchesAreExact`
(run `Startup`); that sweep and benchmarks end is left to TLC.

Model-checked only, and why:

* all liveness: out of the prover's reach.
* the CPU's suffix arrays (`SuffixArraysAgree`, `PassesAreSound`, `RecordsAreExact`):
  their algorithms are defined by RECURSIVE operators and folds, which the provers
  cannot enter.
* `BuildsAreSound`: about concrete lists of creations, which TLC goes through at their
  real length; there is no constant for a theorem to lift.

## 7. Abstractions, and what is not modelled

* The byte order of `MeetsTarget` and the widths of `big.Int`; the texts of errors, logging,
  records, URLs, TLS, frame limits.
* `SetJob`'s length, hex and version checks are one predicate, `Valid`; the
  mirrored counters are represented by `Diff`.
* A job's content is `work`; nonces do not appear, a row is told apart by its
  batch and its index.  `submitShare`'s encoding is a record of the row, the job
  and the CPU hash.
* The client's ping/pong and deadlines are the possibility of a failed read
  or write at any time.  The shares in the mailbox when the process ends are
  never written; nothing in the repository promises that they are.
* Batches are never empty and always fit the sessions, as the mine loop makes
  them with a positive `-batch`; the size checks of `Submit` are left out.
* The GPU's per-kernel work within a submission is one step; the queue is in
  order, as wgpu promises for one queue.
* Sizes: chunks, windows, blocks, lanes and alphabets are constants of the modules with
  the real value in a comment; what depends on the real value only (that 277 chunks
  fit `MAX_LENGTH`) is an assumption.
* In `WolfStream` and `WolfLoop` the results of Salsa20, FNV, xxHash and SipHash are left open:
  external functions whose only property is equality with their references at
  real widths.  The same holds for the crypto kernels in WGSL and the SHA-256
  assembly.
* `Sais` leaves out the 64-bit twins in `sais2.go`, which nothing in this program
  calls.  In `Hasher` the branch for big-endian hosts is left out: `endian_big.go`
  does not build (it uses `unsafe` without importing it).
* `refpow` is the tests' oracle, the same algorithm text as `internal/astrobwt` but
  for scratch handling, markers and a `recover`; modelling it again would show
  nothing about the miner.
* `sa_refine.wgsl` and the Slang kernels (`spirv/src`): the active-set refinement and
  the tie breaking.  In `Sessions` and `OneShot` they are a step that returns the
  suffix array or a flag.
* `internal/config`, `internal/console`, `gpuprobe`, `sabench`, `stabbench`,
  `tiedepth` and the packaging are sequential I/O.

## 8. The plan

Order of the work, most important behaviour first.

Done: Difficulty, JobCell, JobState, GetworkClient, ShareGate, MineLoop,
Streamer, StreamLoop, FusedStreamer, SpirvStreamer; proofs for job state, client,
gate and both loops.  Then Startup, Sessions, SessionBuild, OneShot; WolfOps,
WolfStream, WolfLoop, Hasher; SuffixOrder, Sais, DescriptorSA, SaGpu; VerifyBackends.

Proofs for both streamers, the client's queue, Startup, Sessions, the flags
of OneShot and its rows, the barriers, ranks and result of SaGpu, the sweep, the tries
of the hash, their flags, its digest, the table against the switch, and RC4.

What remains for proofs: Sais and DescriptorSA, once they are written without the folds
and RECURSIVE operators that keep the provers out.

What remains for modelling: the refinement kernel of `sa_refine.wgsl` and the tie breaker of the
Slang sources.

------------------------------ MODULE Sessions -------------------------------
(***************************************************************************)
(* The sessions a device context caches (device.go: saSess, fused,         *)
(* fusedPipe, spirvFast) and the operations of a Pipeline that build,      *)
(* reuse and release them (pipeline.go, sa_batch.go): the startup gate,    *)
(* the benchmarks, the live streamer, the re-probe after a miscompute in   *)
(* the middle of the stream, and Close.  One goroutine does all of it; an  *)
(* operation is the list of the steps it has left, and a step that fails   *)
(* ends it.  SessionBuild looks inside a build, FusedStreamer and          *)
(* SpirvStreamer inside a Submit.                                          *)
(***************************************************************************)
EXTENDS Naturals, Sequences, FiniteSets

CONSTANTS
  Paths,       \* "portable", "wgsl", "native"
  Probe,       \* inputs of the known-answer test (8)
  Corpus,      \* rows of the suffix-array corpus
  Batches,     \* batch sizes of the program; no larger than the device's slab
  SpirvRows,   \* rows of a native session (512)
  StreamRows,  \* rows of the native streamer (2048)
  MaxSlab,     \* rows that fit a storage binding of the device
  MaxFaults, MaxCalls  \* bounds

\* main clamps the batch to the device's slab, on the native path to the
\* streamer's rows as well.
ASSUME SessionsAssumption ==
  /\ {MaxSlab, StreamRows} \subseteq Nat
  /\ Probe <= SpirvRows /\ Corpus <= SpirvRows /\ SpirvRows <= StreamRows
  /\ Batches \cup {Probe, Corpus, SpirvRows} \subseteq 1 .. MaxSlab
  /\ "native" \in Paths => \A n \in Batches : n <= StreamRows

VARIABLES
  path,
  slot,     \* the context's caches: per slot a session or None
  alive,    \* sessions with memory on the device
  stale,    \* some step used or released a session that was not alive
  cur, have, ready, answer,  \* of the native streamer: its fields, the upload buffers
                             \* that can be waited for, those with a group to collect
  turn, flying,      \* of the WGSL streamer handle: cur and have
  op,       \* "none", or the operation in progress
  todo,     \* its steps
  failed, opFault,   \* the last operation failed; a fault occurred in it
  stage,    \* where main is: "gate", "bench", "mine", "opening", "stream", "drained",
            \* "closed"; "refused" by the gate, "died" of NewFusedStreamer,
            \* "degraded" by the re-probe
  reprobed, ids, faults, calls

streamer == <<cur, have, ready, answer>>
handle == <<turn, flying>>
vars == <<path, slot, alive, stale, streamer, handle, op, todo, failed, opFault,
          stage, reprobed, ids, faults, calls>>

Slots == {"sa", "fused", "pipe0", "pipe1", "spirv"}
None == [id |-> 0, rows |-> 0, native |-> FALSE]
Native == path = "native"
Pipe(k) == IF k = 0 THEN "pipe0" ELSE "pipe1"

\* useRefine and useSPIRV are set once, so a suffix-array session only has to
\* be large enough, a fused session of the path's kind as well.
Fits(s, n) ==
  /\ slot[s] # None
  /\ slot[s].rows >= n
  /\ s = "sa" \/ slot[s].native = Native

Do(step, s, n) == [step |-> step, slot |-> s, n |-> n]

-----------------------------------------------------------------------------
(* The operations, as steps.                                               *)

Drop(s) == IF slot[s] = None THEN <<>> ELSE <<Do("drop", s, 0)>>
Need(s, n) == Do("need", s, n)
Use(s, n) == Do("use", s, n)

\* HashBatch and HashBatchFused.
HashBatch(n) == <<Need("sa", n), Use("sa", n)>>
HashBatchFused(n) == <<Need("fused", n), Use("fused", n)>>

\* NewFusedStreamer: the one-shot session goes first, then the other path's.
NewFusedStreamer(n) ==
  Drop("fused") \o
  IF Native
  THEN Drop("pipe0") \o Drop("pipe1") \o <<Need("spirv", 0), Do("idle", "spirv", 0)>>
  ELSE Drop("spirv") \o <<Need("pipe0", n), Need("pipe1", n)>>

\* HashBatchFusedStream, of one batch.
HashBatchFusedStream(n) ==
  IF Native
  THEN <<Do("new", "spirv", n), Do("submit", "spirv", n), Do("drain", "spirv", 0)>>
  ELSE <<Need("pipe0", n), Need("pipe1", n), Use("pipe0", n)>>

\* SelfTest: the known answer through the selected path, the corpus, and on the
\* native path the stream, unless a group is in flight.
SelfTest ==
  (IF path = "portable" THEN HashBatch(Probe) ELSE HashBatchFused(Probe)) \o
  (IF Native THEN <<Use("fused", Corpus), Do("probe", "spirv", Probe)>> ELSE HashBatch(Corpus))

ProbeStream_Always == HashBatchFusedStream(Probe)  \* (mutant) whatever is in flight
ProbeStream ==
  IF slot["spirv"] = None \/ ~have THEN HashBatchFusedStream(Probe) ELSE <<>>

-----------------------------------------------------------------------------
Init ==
  /\ path \in Paths
  /\ slot = [s \in Slots |-> None] /\ alive = {} /\ stale = FALSE
  /\ cur = 0 /\ have = FALSE /\ ready = {0, 1} /\ answer = {}
  /\ turn = 0 /\ flying = FALSE
  /\ op = "none" /\ todo = <<>> /\ failed = FALSE /\ opFault = FALSE
  /\ stage \in {"gate", "bench"}
  /\ reprobed = FALSE /\ ids = 0 /\ faults = 0 /\ calls = 0

Idle == op = "none"
Begin(name, steps) ==
  /\ Idle /\ calls < MaxCalls
  /\ calls' = calls + 1
  /\ op' = name /\ todo' = steps /\ failed' = FALSE /\ opFault' = FALSE
  /\ UNCHANGED <<path, slot, alive, stale, streamer, handle, ids, faults>>

\* The startup gate; main goes on after it has failed with --skip-selftest, and
\* otherwise exits.
Gate == stage = "gate" /\ Begin("gate", SelfTest) /\ UNCHANGED <<stage, reprobed>>
Open ==
  /\ stage = "mine" /\ path # "portable" /\ stage' = "opening"
  /\ \E n \in Batches : Begin("open", <<Do("new", "", n)>>)
  /\ UNCHANGED reprobed
Bench ==
  /\ stage = "bench"
  /\ \E n \in Batches :
       Begin("bench", IF path = "portable" THEN HashBatch(n)
                      ELSE IF Native THEN HashBatchFusedStream(n)
                      ELSE HashBatchFused(n))
  /\ UNCHANGED <<stage, reprobed>>
BenchStream ==
  /\ stage = "bench" /\ path # "portable"
  /\ \E n \in Batches : Begin("bench", HashBatchFusedStream(n))
  /\ UNCHANGED <<stage, reprobed>>

\* The live streamer's Submit and its final Drain; a batch of mineLoop; the one
\* re-probe, after hashes of the stream or of a batch; and Close.
Submit ==
  /\ stage = "stream"
  /\ Begin("submit", IF Native THEN <<Do("submit", "spirv", 1)>> ELSE <<Use(Pipe(turn), 1), Do("turn", "", 0)>>)
  /\ UNCHANGED <<stage, reprobed>>
Drain ==
  /\ stage = "stream" /\ stage' = "drained"
  /\ Begin("drain", IF Native THEN <<Do("drain", "spirv", 0)>>
                    ELSE IF flying THEN <<Use(Pipe(1 - turn), 1)>> ELSE <<>>)
  /\ UNCHANGED reprobed
MineBatch ==
  /\ stage = "mine" /\ path = "portable"
  /\ \E n \in Batches : Begin("batch", HashBatch(n))
  /\ UNCHANGED <<stage, reprobed>>
Reprobe ==
  /\ ~reprobed /\ reprobed' = TRUE
  /\ \/ /\ stage = "mine" /\ path = "portable"
     \/ /\ stage = "stream" /\ (have \/ flying)
     \/ /\ stage = "drained"
  /\ Begin("probe", SelfTest)
  /\ UNCHANGED stage
Close ==
  /\ \/ stage \in {"bench", "drained"}
     \/ stage = "mine" /\ path = "portable"
  /\ stage' = "closed"
  /\ Begin("close", Drop("spirv") \o Drop("sa") \o Drop("fused") \o Drop("pipe0") \o Drop("pipe1"))
  /\ UNCHANGED reprobed

-----------------------------------------------------------------------------
(* The steps.                                                              *)

At(step) == op # "none" /\ todo # <<>> /\ Head(todo).step = step
Step == Head(todo)
Rest == Tail(todo)
KeepOp == UNCHANGED <<path, op, stage, reprobed, calls>>
Fault == faults < MaxFaults /\ faults' = faults + 1 /\ opFault' = TRUE
Sound == UNCHANGED <<faults, opFault>>
Fails == todo' = <<>> /\ failed' = TRUE
Goes(steps) == todo' = steps /\ UNCHANGED failed
Uses(s) == stale' = (stale \/ slot[s] \notin alive)

Replacement(s, n) == Drop(s) \o <<Do("build", s, n)>>

\* A cached session is reused or replaced.  SuffixArrayBatch looks at the
\* device's limit before it gives up the session it has.
NeedStep ==
  /\ At("need")
  /\ IF Step.slot = "sa" /\ Step.n > MaxSlab THEN Fails
     ELSE Goes((IF Fits(Step.slot, Step.n) THEN <<>> ELSE Replacement(Step.slot, Step.n)) \o Rest)
  /\ KeepOp /\ Sound /\ UNCHANGED <<slot, alive, stale, streamer, handle, ids>>

\* release, and the cache emptied.
Forget_Not(s) == slot  \* (mutant) the cache keeps the released session
Forget(s) == [slot EXCEPT ![s] = None]

DropStep ==
  /\ At("drop")
  /\ Uses(Step.slot)
  /\ alive' = alive \ {slot[Step.slot]}
  /\ slot' = Forget(Step.slot)
  /\ Goes(Rest)
  /\ KeepOp /\ Sound /\ UNCHANGED <<streamer, handle, ids>>

\* A native session has SpirvRows rows whatever is asked; the native streamer
\* is built around one.
Rows(s, n) == IF s # "sa" /\ Native THEN SpirvRows ELSE n
BuildStep ==
  LET s == Step.slot
      new == [id |-> ids + 1, rows |-> Rows(s, Step.n), native |-> s # "sa" /\ Native]
  IN /\ At("build")
     /\ \/ /\ Step.n > Rows(s, Step.n) \/ Rows(s, Step.n) > MaxSlab
           /\ Fails /\ Sound /\ UNCHANGED <<slot, alive, ids, streamer>>
        \/ /\ Fails /\ Fault /\ UNCHANGED <<slot, alive, ids, streamer>>
        \/ /\ Step.n <= Rows(s, Step.n) /\ Rows(s, Step.n) <= MaxSlab
           /\ slot' = [slot EXCEPT ![s] = new] /\ alive' = alive \cup {new} /\ ids' = ids + 1
           /\ IF s = "spirv" THEN cur' = 0 /\ have' = FALSE /\ ready' = {0, 1} /\ answer' = {}
              ELSE UNCHANGED streamer
           /\ Goes(Rest) /\ Sound
     /\ KeepOp /\ UNCHANGED <<stale, handle>>

\* One call of a session: run, runSPIRVData, submitCompute or collect.
UseStep ==
  /\ At("use")
  /\ Uses(Step.slot)
  /\ \/ Goes(Rest) /\ Sound
     \/ Fault /\ Fails
  /\ KeepOp /\ UNCHANGED <<slot, alive, streamer, handle, ids>>

\* The rest of a WGSL Submit: the group before is collected, the handle turns.
TurnStep ==
  /\ At("turn")
  /\ IF flying THEN Uses(Pipe(1 - turn)) ELSE UNCHANGED stale
  /\ \/ Goes(Rest) /\ Sound /\ turn' = 1 - turn /\ flying' = TRUE
     \/ flying /\ Fault /\ Fails /\ UNCHANGED handle
  /\ KeepOp /\ UNCHANGED <<slot, alive, streamer, ids>>

NewStep ==
  /\ At("new")
  /\ IF Native /\ Step.n > StreamRows THEN Fails ELSE Goes(NewFusedStreamer(Step.n) \o Rest)
  /\ KeepOp /\ Sound /\ UNCHANGED <<slot, alive, stale, streamer, handle, ids>>

\* "SPIR-V streamer already has a batch in flight".
IdleStep ==
  /\ At("idle")
  /\ IF have THEN Fails ELSE Goes(Rest)
  /\ KeepOp /\ Sound /\ UNCHANGED <<slot, alive, stale, streamer, handle, ids>>

ProbeStep ==
  /\ At("probe")
  /\ Goes(ProbeStream \o Rest)
  /\ KeepOp /\ Sound /\ UNCHANGED <<slot, alive, stale, streamer, handle, ids>>

\* Submit of the native streamer.  prepare waits for the upload buffer's map;
\* submitGroup, which needs the staging buffer unmapped, leaves a group to
\* collect; collect takes the group before.
Other == 1 - cur
SubmitStep ==
  /\ At("submit") /\ Uses("spirv")
  /\ \/ /\ cur \notin ready
        /\ Fails /\ Sound /\ UNCHANGED streamer
     \/ /\ cur \in ready
        /\ Fails /\ IF cur \in answer THEN Sound ELSE Fault
        /\ ready' = ready \ {cur} /\ UNCHANGED <<cur, have, answer>>
     \/ /\ cur \in ready \ answer /\ have
        /\ Fails /\ IF Other \in answer THEN Fault ELSE Sound
        /\ answer' = {cur} /\ UNCHANGED <<cur, have, ready>>
     \/ /\ cur \in ready \ answer /\ have => Other \in answer
        /\ answer' = {cur} /\ have' = TRUE /\ cur' = Other /\ UNCHANGED ready
        /\ Goes(Rest) /\ Sound
  /\ KeepOp /\ UNCHANGED <<slot, alive, handle, ids>>

DrainStep ==
  /\ At("drain") /\ Uses("spirv")
  /\ \/ ~have /\ Goes(Rest) /\ Sound /\ UNCHANGED streamer
     \/ /\ have /\ Fails
        /\ IF Other \in answer THEN Fault ELSE Sound
        /\ answer' = answer \ {Other} /\ UNCHANGED <<cur, have, ready>>
     \/ /\ have /\ Other \in answer /\ Goes(Rest) /\ Sound
        /\ have' = FALSE /\ answer' = answer \ {Other} /\ UNCHANGED <<cur, ready>>
  /\ KeepOp /\ UNCHANGED <<slot, alive, handle, ids>>

\* The operation returns; main acts on the outcome of the gate and of
\* NewFusedStreamer.
Return ==
  /\ op # "none" /\ todo = <<>>
  /\ op' = "none"
  /\ stage' \in CASE op = "gate" -> IF failed THEN {"mine", "refused"} ELSE {"mine"}
                  [] op = "open" -> {IF failed THEN "died" ELSE "stream"}
                  [] op = "probe" -> {IF failed THEN "degraded" ELSE stage}
                  [] OTHER       -> {stage}
  /\ UNCHANGED <<path, slot, alive, stale, streamer, handle, todo, failed, opFault,
                 reprobed, ids, faults, calls>>

Next ==
  \/ Gate \/ Open \/ Bench \/ BenchStream \/ Submit \/ Drain \/ Reprobe \/ MineBatch \/ Close
  \/ NeedStep \/ DropStep \/ BuildStep \/ UseStep \/ TurnStep \/ NewStep \/ IdleStep
  \/ ProbeStep \/ SubmitStep \/ DrainStep \/ Return

Spec == Init /\ [][Next]_vars

-----------------------------------------------------------------------------
(* Properties.                                                             *)

\* What is on the device is what the caches hold, at every point of every
\* operation, also after builds that failed; after Close nothing is.
CachesOwnDevice ==
  /\ alive = {slot[s] : s \in Slots} \ {None}
  /\ stage = "closed" /\ Idle => alive = {}

\* No operation uses or releases a session that is gone.
NoStaleSession == ~stale

\* When sessions for streaming are built the one-shot session and the other
\* path's streaming sessions have given their memory back (pipeline.go:213).
StreamerBuildsAlone ==
  At("build") /\ Step.slot \in {"pipe0", "pipe1", "spirv"} =>
    /\ Step.slot = "spirv" => \A s \in {"fused", "pipe0", "pipe1"} : slot[s] = None
    /\ op \in {"open", "gate", "probe"} => slot["fused"] = None

\* The device holds what the caches hold, no operation uses a session that is
\* gone, and a streamer is built only after the one-shot session is released.
CachesAreSound == CachesOwnDevice /\ NoStaleSession /\ StreamerBuildsAlone

\* On a device that never faults every operation succeeds: the gate, also as a
\* re-probe in the middle of the stream, and the streamer after it.
HealthyNeverFails == faults = 0 => ~failed
=============================================================================

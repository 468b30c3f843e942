-------------------------- MODULE StreamLoopProofs --------------------------
(***************************************************************************)
(* The guarantees of module StreamLoop, from the lemmas of ShareGateProofs *)
(* and the contract of module Streamer: hashes, blobs and job context stay *)
(* together, and all that MineLoop guarantees holds one batch late.        *)
(***************************************************************************)
EXTENDS StreamLoop, ShareGateProofs

\* The loop's own state; the error budget is not used up while it runs.
OwnTypes ==
  /\ mpc \in {"job", "hash", "gate", "submit", "wait", "done", "drain", "exit", "fatal"}
  /\ errs \in 0..MaxHashErrs /\ no \in 0..MaxBatches
  /\ host \in [{0, 1} -> [no : 0..MaxBatches, work : Works \cup {NoWork}]]
  /\ bi \in {0, 1} /\ prevBuf \in {0, 1} /\ draining \in BOOLEAN
  /\ prev \in BatchCtxs \cup {NoBatch}
  /\ inflight \subseteq Batches /\ out \in Pipe!Outs
  /\ mpc # "fatal" => errs < MaxHashErrs

\* prev is the context of some job's batch, and its blobs are in the buffer
\* that is not filled next.
PrevInv ==
  prev # NoBatch =>
    /\ Of(prev, pushed) /\ prevBuf = 1 - bi
    /\ host[prevBuf] = [no |-> prev.no, work |-> prev.work]

InGate == mpc \in {"gate", "submit", "wait", "done"}

\* A batch has been built from the snapshot into the other buffer.
Built == mpc = "hash" \/ (InGate /\ ~draining)

BuiltInv ==
  Built => snap.epoch > 0 /\ no # 0 /\ host[bi] = [no |-> no, work |-> snap.work]

\* What the GPU is at work on.
PipeInv ==
  /\ mpc \in {"job", "hash", "drain"} => inflight = IF prev = NoBatch THEN {} ELSE {prev.no}
  /\ InGate /\ ~draining => inflight = {no}
  /\ draining => mpc \notin {"job", "hash", "drain"}

\* What the gate is at work on.
GateInv == Gating => b = prev /\ out.pows = {b.no}

LInv == OwnTypes /\ PrevInv /\ BuiltInv /\ PipeInv /\ GateInv /\ NoFalseAlarm

MInv == SInv /\ LInv

\* The invariant holds at the start.
LEMMA MineInit == Init => MInv
<1>. SUFFICES ASSUME Init PROVE MInv
  OBVIOUS
<1>1. SInv
  BY GateInitInv DEF Init
<1>2. OwnTypes
  BY GateAssumption, LoopAssumption
     DEF Init, GateInit, OwnTypes, EmptyBlobs, Pipe!StreamInit, Pipe!Outs, Pipe!None
<1>3. PrevInv /\ BuiltInv /\ PipeInv /\ GateInv /\ NoFalseAlarm
  BY DEF Init, GateInit, PrevInv, BuiltInv, Built, InGate, PipeInv, GateInv, Gating,
         NoFalseAlarm, Pipe!StreamInit, Pipe!None
<1>. QED BY <1>1, <1>2, <1>3 DEF MInv, LInv

\* Taking a snapshot and building a batch from it, or polling.
LEMMA TakeJobInv == ASSUME MInv, TakeJob PROVE MInv'
<1>1. SInv'
  BY IdleStep DEF MInv, TakeJob, Job, Stops
<1>2. /\ snap' = cell /\ cell.epoch \in Nat /\ cell.work \in Works \cup {NoWork}
      /\ UNCHANGED <<pushed, errs, bi, prev, prevBuf, inflight, out, draining, Miscompute>>
      /\ mpc = "job" /\ no \in Nat
  BY GateAssumption DEF TakeJob, Job, MInv, LInv, OwnTypes, SInv, GInv, GateTypeOK, Cells,
        jobVars, prevVars, pipeVars, counters
<1>3. CASE cell.epoch = 0
  BY <1>1, <1>2, <1>3 DEF TakeJob, MInv, LInv, OwnTypes, PrevInv, BuiltInv, Built, InGate,
        PipeInv, GateInv, Gating, NoFalseAlarm, Of
<1>4. CASE cell.epoch # 0
  <2>1. /\ mpc' = "hash" /\ no' = no + 1 /\ no < MaxBatches
        /\ host' = [host EXCEPT ![bi] = [no |-> no + 1, work |-> cell.work]]
    BY <1>4 DEF TakeJob, FillBatch
  <2>2. /\ no' \in 0..MaxBatches /\ no' # 0
        /\ host' \in [{0, 1} -> [no : 0..MaxBatches, work : Works \cup {NoWork}]]
        /\ host'[bi] = [no |-> no + 1, work |-> cell.work]
        /\ host'[1 - bi] = host[1 - bi]
    BY <1>2, <2>1, GateAssumption DEF MInv, LInv, OwnTypes
  <2>3. OwnTypes'
    BY <1>2, <2>1, <2>2 DEF MInv, LInv, OwnTypes
  <2>4. PrevInv' /\ BuiltInv' /\ PipeInv' /\ GateInv' /\ NoFalseAlarm'
    BY <1>2, <1>4, <2>1, <2>2 DEF MInv, LInv, OwnTypes, PrevInv, BuiltInv, Built, InGate,
          PipeInv, GateInv, Gating, NoFalseAlarm, Of
  <2>. QED BY <1>1, <2>3, <2>4 DEF MInv, LInv
<1>. QED BY <1>3, <1>4

\* A failed Submit: what is in flight stays in flight.
LEMMA HashFailInv == ASSUME MInv, HashFail PROVE MInv'
<1>1. SInv'
  BY IdleStep DEF MInv, HashFail, GivesUp
<1>2. /\ UNCHANGED <<pushed, snap, no, host, bi, prev, prevBuf, inflight, draining, Miscompute>>
      /\ mpc = "hash" /\ mpc' \in {"fatal", "job"} /\ out' \in Pipe!Outs
  BY DEF HashFail, GivesUp, Retry, jobVars, bufVars, prevVars, counters, Pipe!Refused,
         Pipe!Outs, Pipe!None
<1>3. errs' \in 0..MaxHashErrs /\ (mpc' # "fatal" => errs' < MaxHashErrs)
  BY LoopAssumption DEF HashFail, GivesUp, MInv, LInv, OwnTypes
<1>. QED BY <1>1, <1>2, <1>3 DEF MInv, LInv, OwnTypes, PrevInv, BuiltInv, Built, InGate,
        PipeInv, GateInv, Gating, NoFalseAlarm, Of

\* A successful Submit: the hashes that come back are those of prev.
LEMMA HashOKInv == ASSUME MInv, HashOK PROVE MInv'
<1>1. /\ UNCHANGED <<pushed, snap, no, host, bi, prev, prevBuf, draining, Miscompute>>
      /\ mpc = "hash" /\ errs' = 0 /\ inflight' = {no} /\ out'.pows = inflight
      /\ out' \in Pipe!Outs /\ ~draining
  BY DEF HashOK, ProcessBatch, jobVars, bufVars, prevVars, counters, Pipe!Submitted,
         Pipe!Outs, MInv, LInv, OwnTypes, PipeInv, Batches
<1>2. no \in Batches
  BY <1>1, GateAssumption DEF MInv, LInv, OwnTypes, BuiltInv, Built, Batches
<1>3. /\ mpc' \in {"gate", "done"} /\ SInv'
      /\ mpc' = "gate" => b' = prev /\ inflight = {prev.no} /\ prev # NoBatch
  <2>1. CASE out'.pows # {} /\ prev # NoBatch
    <3>1. ProcessBatch(prev) /\ UNCHANGED <<clientVars, jobVars, snap>>
      BY <2>1 DEF HashOK, Gated
    <3>2. prev \in BatchCtxs /\ Of(prev, pushed) /\ inflight = {prev.no}
      BY <1>1, <2>1 DEF MInv, LInv, OwnTypes, PrevInv, PipeInv
    <3>. QED BY <1>1, <2>1, <3>1, <3>2, ProcessStep DEF MInv, ProcessBatch
  <2>2. CASE ~(out'.pows # {} /\ prev # NoBatch)
    <3>1. /\ mpc' = "done" /\ UNCHANGED <<clientVars, jobVars, snap>>
          /\ UNCHANGED <<b, i, sub, reprobed, counters>>
      BY <2>2 DEF HashOK
    <3>. QED BY <1>1, <3>1, IdleStep DEF MInv
  <2>. QED BY <2>1, <2>2
<1>4. OwnTypes'
  BY <1>1, <1>2, <1>3, LoopAssumption DEF MInv, LInv, OwnTypes
<1>5. PrevInv' /\ BuiltInv' /\ PipeInv' /\ GateInv' /\ NoFalseAlarm'
  BY <1>1, <1>3 DEF MInv, LInv, PrevInv, BuiltInv, Built, InGate, PipeInv, GateInv,
        Gating, NoFalseAlarm, Of
<1>. QED BY <1>3, <1>4, <1>5 DEF MInv, LInv

\* The snapshot a batch was built from is that of some epoch.
LEMMA BatchCtxInv ==
  ASSUME MInv, Built
  PROVE  BatchCtx \in BatchCtxs /\ Of(BatchCtx, pushed) /\ BatchCtx # NoBatch
<1>1. snap \in Cells /\ Of(snap, pushed) /\ pushed \in Seq(Templates)
      /\ Len(pushed) <= MaxEpoch /\ no \in 1..MaxBatches
  BY GateAssumption DEF MInv, LInv, OwnTypes, BuiltInv, SInv, GInv, GateTypeOK, CtxInv,
        JobsInv
<1>2. snap.epoch \in 1..MaxEpoch /\ snap.work \in Works
  <2>1. pushed[snap.epoch] \in Templates /\ snap.epoch \in 1..Len(pushed)
    BY <1>1 DEF Of
  <2>. QED BY <1>1, <2>1, CellAssumption DEF Of, Templates
<1>. QED BY <1>1, <1>2 DEF BatchCtx, BatchCtxs, Cells, Of, NoBatch

\* The batch just submitted becomes prev, and the buffers swap roles.
LEMMA ProcessedInv == ASSUME MInv, Processed PROVE MInv'
<1>1. SInv'
  BY LeaveStep DEF MInv, Processed
<1>2. /\ mpc = "done" /\ mpc' = "job" /\ ~draining /\ Built /\ inflight = {no}
      /\ prev' = BatchCtx /\ prevBuf' = bi /\ bi' = 1 - bi
      /\ UNCHANGED <<pushed, snap, errs, no, host, inflight, out, draining, Miscompute>>
  BY DEF Processed, LeaveBatch, jobVars, pipeVars, MInv, LInv, PipeInv, Built, InGate
<1>3. BatchCtx \in BatchCtxs /\ Of(BatchCtx, pushed) /\ BatchCtx # NoBatch
  BY <1>2, BatchCtxInv
<1>4. OwnTypes'
  BY <1>2, <1>3 DEF MInv, LInv, OwnTypes
<1>5. PrevInv'
  <2>1. host[bi] = [no |-> no, work |-> snap.work] /\ bi \in {0, 1}
    BY <1>2 DEF MInv, LInv, OwnTypes, BuiltInv
  <2>. QED BY <1>2, <1>3, <2>1 DEF PrevInv, BatchCtx, Of
<1>6. PipeInv'
  BY <1>2, <1>3 DEF PipeInv, InGate, BatchCtx
<1>7. BuiltInv' /\ GateInv' /\ NoFalseAlarm'
  BY <1>2 DEF MInv, LInv, BuiltInv, Built, InGate, GateInv, Gating, NoFalseAlarm
<1>. QED BY <1>1, <1>4, <1>5, <1>6, <1>7 DEF MInv, LInv

\* Leaving the loop, with or without a batch to drain, and leaving the process.
LEMMA StopInv == ASSUME MInv, Stop \/ Exit PROVE MInv'
<1>1. CASE Stop
  <2>1. SInv'
    BY <1>1, IdleStep DEF MInv, Stop, loopVars
  <2>. QED BY <1>1, <2>1 DEF Stop, loopVars, jobVars, bufVars, prevVars, pipeVars, counters,
         MInv, LInv, OwnTypes, PrevInv, BuiltInv, Built, InGate, PipeInv, GateInv, Gating,
         NoFalseAlarm, Of
<1>2. CASE Exit
  <2>1. SInv'
    BY <1>2, LeaveStep DEF MInv, Exit, loopVars
  <2>. QED BY <1>2, <2>1 DEF Exit, LeaveBatch, loopVars, jobVars, bufVars, prevVars, pipeVars,
         MInv, LInv, OwnTypes, PrevInv, BuiltInv, Built, InGate, PipeInv, GateInv, Gating,
         NoFalseAlarm, Of
<1>. QED BY <1>1, <1>2

\* The last batch comes back, or is given up.
LEMMA DrainInv == ASSUME MInv, Drain PROVE MInv'
<1>1. /\ UNCHANGED <<pushed, snap, errs, no, host, bi, prev, prevBuf, Miscompute>>
      /\ mpc = "drain" /\ out' \in Pipe!Outs /\ inflight' \subseteq Batches
  <2>1. Miscompute' = Miscompute
    BY DEF Drain, ProcessBatch, counters
  <2>2. inflight \subseteq Batches
    BY DEF MInv, LInv, OwnTypes
  <2>3. Pipe!Drained \/ Pipe!Refused
    BY DEF Drain
  <2>4. out' \in Pipe!Outs /\ inflight' \subseteq Batches
    <3>1. CASE Pipe!Drained
      BY <2>2, <3>1 DEF Pipe!Drained, Pipe!Outs, Pipe!None
    <3>2. CASE Pipe!Refused
      BY <2>2, <3>2 DEF Pipe!Refused, Pipe!Outs, Pipe!None
    <3>. QED BY <2>3, <3>1, <3>2
  <2>. QED BY <2>1, <2>4 DEF Drain, jobVars, bufVars, prevVars
<1>2. CASE ~out'.err /\ out'.pows # {}
  <2>1. ProcessBatch(prev) /\ draining' = TRUE /\ out'.pows = inflight
        /\ UNCHANGED <<clientVars, jobVars, snap>>
    BY <1>2 DEF Drain, Pipe!Drained, Pipe!Refused
  <2>2. prev \in BatchCtxs /\ Of(prev, pushed) /\ inflight = {prev.no} /\ prev # NoBatch
    BY <1>1, <1>2, <2>1 DEF MInv, LInv, OwnTypes, PrevInv, PipeInv
  <2>3. SInv'
    BY <1>1, <2>1, <2>2, ProcessStep DEF MInv
  <2>4. OwnTypes'
    BY <1>1, <2>1 DEF MInv, LInv, OwnTypes, ProcessBatch
  <2>5. PrevInv' /\ BuiltInv' /\ PipeInv' /\ GateInv' /\ NoFalseAlarm'
    BY <1>1, <2>1, <2>2 DEF ProcessBatch, MInv, LInv, PrevInv, BuiltInv, Built, InGate,
          PipeInv, GateInv, Gating, NoFalseAlarm, Of
  <2>. QED BY <2>3, <2>4, <2>5 DEF MInv, LInv
<1>3. CASE mpc' = "exit" /\ UNCHANGED <<b, i, sub, reprobed, counters, draining>>
  <2>1. SInv'
    BY <1>1, <1>3, IdleStep DEF MInv, Drain
  <2>. QED BY <1>1, <1>3, <2>1 DEF MInv, LInv, OwnTypes, PrevInv, BuiltInv, Built, InGate,
         PipeInv, GateInv, Gating, NoFalseAlarm, Of
<1>. QED BY <1>2, <1>3 DEF Drain, ProcessBatch

\* A job pushed meanwhile does not change which job a batch was built for.
LEMMA PrevKept == ASSUME MInv, Environment, UNCHANGED loopVars PROVE PrevInv'
<1>1. pushed \in Seq(Templates) /\ tip \in Templates
  BY DEF MInv, SInv, GInv, GateTypeOK
<1>2. pushed' = pushed \/ pushed' = Append(pushed, tip)
  BY DEF Environment, Rotate, OnJob, Link, jobVars
<1>3. Of(prev, pushed) => Of(prev, pushed')
  BY <1>1, <1>2, Appended
<1>. QED BY <1>3 DEF MInv, LInv, PrevInv, loopVars, bufVars, prevVars, Of

\* The gate, submitShare, the daemon and the link leave the loop's own state be;
\* with a healthy GPU no row at the gate is a miscompute.
LEMMA OtherInv ==
  ASSUME MInv, UNCHANGED loopVars, Alive,
         \/ Environment \/ SubmitShare
         \/ \E r \in Candidates : Possible(r) /\ Gate(r)
  PROVE  MInv'
<1>. USE DEF loopVars, bufVars, prevVars, pipeVars
<1>1. SInv'
  BY SharedStep DEF MInv
<1>2. CASE Environment
  <2>1. UNCHANGED <<mpc, b, Miscompute>>
    BY <1>2 DEF Environment, Rotate, OnJob, Link, gateVars, counters
  <2>2. PrevInv'
    BY <1>2, PrevKept
  <2>. QED BY <1>1, <2>1, <2>2 DEF MInv, LInv, OwnTypes, BuiltInv, Built, InGate, PipeInv,
         GateInv, Gating, NoFalseAlarm
<1>3. CASE SubmitShare \/ \E r \in Candidates : Possible(r) /\ Gate(r)
  <2>1. /\ Gating /\ mpc' \in {"gate", "submit", "wait", "done", "fatal"}
        /\ UNCHANGED <<pushed, b>>
    <3>1. CASE SubmitShare
      BY <3>1 DEF SubmitShare, Send, Backpressure, Abandon, WaitCancelled, Return, NextRow,
            jobVars, Gating
    <3>2. CASE \E r \in Candidates : Possible(r) /\ Gate(r)
      BY <3>2 DEF Gate, GateMiss, GateRotated, GateMiscompute, GateSubmit, NextRow, jobVars,
            Gating
    <3>. QED BY <1>3, <3>1, <3>2
  <2>2. Aligned
    <3>1. b # NoBatch /\ b = prev /\ out.pows = {b.no}
      BY <2>1 DEF MInv, LInv, GateInv, Gating, SInv, GInv, CtxInv, InSubmit
    <3>. QED BY <3>1 DEF Aligned, MInv, LInv, PrevInv
  <2>3. Healthy => Miscompute' = Miscompute
    <3>1. CASE SubmitShare
      BY <3>1 DEF SubmitShare, Send, Backpressure, Abandon, WaitCancelled, counters
    <3>2. CASE \E r \in Candidates : Possible(r) /\ Gate(r)
      BY <2>2, <3>2 DEF Possible, Gate, GateMiss, GateRotated, GateMiscompute, GateSubmit,
            RehashOK, counters
    <3>. QED BY <1>3, <3>1, <3>2
  <2>4. NoFalseAlarm'
    BY <2>3 DEF MInv, LInv, NoFalseAlarm
  <2>5. OwnTypes' /\ PrevInv' /\ BuiltInv' /\ PipeInv' /\ GateInv'
    BY <2>1 DEF MInv, LInv, OwnTypes, PrevInv, BuiltInv, Built, InGate, PipeInv, GateInv,
          Gating, Of
  <2>. QED BY <1>1, <2>4, <2>5 DEF MInv, LInv
<1>. QED BY <1>2, <1>3

\* Every step keeps the invariant.
LEMMA MineStep == MInv /\ [Next]_vars => MInv'
<1>. SUFFICES ASSUME MInv, [Next]_vars PROVE MInv'
  OBVIOUS
<1>1. CASE Loop
  BY <1>1, TakeJobInv, HashFailInv, HashOKInv, ProcessedInv, StopInv, DrainInv DEF Loop
<1>2. CASE Next /\ ~Loop
  BY <1>2, OtherInv DEF Next, Mine
<1>3. CASE UNCHANGED vars
  <2>1. SInv'
    BY <1>3, StutterStep DEF MInv, vars, loopVars, flowVars
  <2>. QED BY <1>3, <2>1 DEF vars, loopVars, jobVars, gateVars, counters, bufVars, prevVars,
         pipeVars, MInv, LInv, OwnTypes, PrevInv, BuiltInv, Built, InGate, PipeInv, GateInv,
         Gating, NoFalseAlarm, Of
<1>. QED BY <1>1, <1>2, <1>3

\* The invariant is an invariant.
THEOREM StreamInvariance == Spec => []MInv
BY MineInit, MineStep, PTL DEF Spec

\* Every variable of the streaming miner keeps its type.
THEOREM StreamTypes == Spec => []TypeOK
<1>. MInv => TypeOK
  BY DEF MInv, LInv, OwnTypes, SInv, GInv, IInv, TypeOK
<1>. QED BY StreamInvariance, PTL

\* What the gate works on belongs together: the hashes, the blobs the CPU
\* re-hashes and the job context are those of one batch, after any number of
\* failed Submits (main.go:565-569); and a GPU that computes every hash right never
\* sets off the miscompute alarm (main.go:412).
THEOREM StreamAligned == Spec => []ResultsAligned
<1>. MInv => ResultsAligned
  BY DEF MInv, LInv, SInv, GInv, CtxInv, InSubmit, GateInv, PrevInv, Gating,
         ResultsAligned, NoFalseAlarm
<1>. QED BY StreamInvariance, PTL

\* The loop's prev and the streamer never disagree on what is in flight.
THEOREM StreamInStep == Spec => []PipeMatchesLoop
<1>. MInv => PipeMatchesLoop
  BY DEF MInv, LInv, PipeInv, PipeMatchesLoop
<1>. QED BY StreamInvariance, PTL

\* The streaming loop submits only solutions of the job they name, too.
THEOREM StreamOnlySolutions == Spec => []OnlySolutionsSubmitted
<1>. MInv => OnlySolutionsSubmitted
  BY DEF MInv, SInv, GInv, ShareInv
<1>. QED BY StreamInvariance, PTL

\* Its gate, one call behind, judges each batch by that batch's difficulty.
THEOREM StreamGateExact == Spec => []GateIsExact
<1>. MInv => GateIsExact
  BY GateExact DEF MInv, SInv
<1>. QED BY StreamInvariance, PTL

\* It accounts for every share.
THEOREM StreamAccounts == Spec => []SharesAccounted
<1>. MInv => SharesAccounted
  BY DEF MInv, SInv
<1>. QED BY StreamInvariance, PTL

\* It queues at most one share of a batch late.
THEOREM StreamOneLate == Spec => []AtMostOneLate
<1>. MInv => AtMostOneLate
  BY LateSafe DEF MInv, SInv
<1>. QED BY StreamInvariance, PTL

=============================================================================

--------------------------- MODULE MineLoopProofs ---------------------------
(* The guarantees of module MineLoop, from the lemmas of ShareGateProofs. *)
EXTENDS MineLoop, ShareGateProofs

\* A batch is only hashed on a job, and the error budget is not used up while
\* the loop runs.
LInv ==
  /\ mpc \in {"job", "hash", "gate", "submit", "wait", "done", "exit", "fatal"}
  /\ errs \in 0..MaxHashErrs /\ batches \in 0..MaxBatches
  /\ mpc # "fatal" => errs < MaxHashErrs
  /\ mpc = "hash" => snap.epoch > 0 /\ batches < MaxBatches

MInv == SInv /\ LInv

\* The invariant holds at the start.
LEMMA MineInit == Init => MInv
BY GateInitInv, GateAssumption, LoopAssumption DEF Init, GateInit, MInv, LInv

\* Taking a snapshot, or polling for the first job.
LEMMA TakeJobInv == ASSUME MInv, TakeJob PROVE MInv'
<1>1. SInv'
  BY IdleStep DEF MInv, TakeJob, Job
<1>2. LInv'
  <2>1. snap' = cell /\ cell.epoch \in Nat
    BY DEF TakeJob, Job, MInv, SInv, GInv, GateTypeOK, Cells
  <2>. QED BY <2>1 DEF MInv, LInv, TakeJob
<1>. QED BY <1>1, <1>2 DEF MInv

\* Leaving the loop.
LEMMA StopInv == ASSUME MInv, Stop PROVE MInv'
<1>1. SInv'
  BY IdleStep DEF MInv, Stop, loopVars
<1>. QED BY <1>1 DEF MInv, LInv, Stop, loopVars

\* A failed GPU call: the last one allowed ends the process.
LEMMA HashFailInv == ASSUME MInv, HashFail PROVE MInv'
<1>1. SInv'
  BY IdleStep DEF MInv, HashFail
<1>2. LInv'
  BY LoopAssumption DEF MInv, LInv, HashFail, GivesUp
<1>. QED BY <1>1, <1>2 DEF MInv

\* The context given to the gate is the snapshot the batch was built from.
LEMMA HashOKInv == ASSUME MInv, HashOK PROVE MInv'
<1>1. snap \in Cells /\ Of(snap, pushed) /\ pushed \in Seq(Templates)
      /\ Len(pushed) <= MaxEpoch /\ batches \in 0..MaxBatches /\ batches < MaxBatches
  BY DEF HashOK, MInv, LInv, SInv, GInv, GateTypeOK, CtxInv, JobsInv
<1>2. snap.epoch \in 1..MaxEpoch /\ snap.work \in Works
  <2>1. pushed[snap.epoch] \in Templates /\ snap.epoch \in 1..Len(pushed)
    BY <1>1 DEF Of
  <2>. QED BY <1>1, <2>1, CellAssumption DEF Of, Templates
<1>3. batches + 1 \in 1..MaxBatches
  BY <1>1, GateAssumption
<1>4. BatchCtx \in BatchCtxs
  BY <1>1, <1>2, <1>3 DEF BatchCtx, BatchCtxs, Cells
<1>5. Of(BatchCtx, pushed)
  BY <1>1 DEF Of, BatchCtx
<1>6. SInv'
  BY <1>4, <1>5, ProcessStep DEF HashOK, MInv
<1>7. LInv'
  BY <1>1, <1>3, LoopAssumption DEF HashOK, ProcessBatch, MInv, LInv
<1>. QED BY <1>6, <1>7 DEF MInv

\* Back from processBatch.
LEMMA ProcessedInv == ASSUME MInv, Processed PROVE MInv'
<1>1. SInv'
  BY LeaveStep DEF MInv, Processed, loopVars
<1>. QED BY <1>1 DEF MInv, LInv, Processed, loopVars

\* The gate, submitShare, the daemon and the link leave the loop's own state be.
LEMMA OtherInv ==
  ASSUME MInv, UNCHANGED loopVars, Alive,
         (Environment \/ SubmitShare \/ \E r \in Candidates : Gate(r))
  PROVE  MInv'
<1>1. SInv'
  BY SharedStep DEF MInv
<1>2. mpc' = mpc \/ mpc' \in {"gate", "submit", "wait", "done", "fatal"}
  <2>1. CASE Environment
    BY <2>1 DEF Environment, Rotate, OnJob, Link, gateVars
  <2>2. CASE SubmitShare
    BY <2>2 DEF SubmitShare, Send, Backpressure, Abandon, WaitCancelled, Return, NextRow
  <2>3. CASE \E r \in Candidates : Gate(r)
    BY <2>3 DEF Gate, GateMiss, GateRotated, GateMiscompute, GateSubmit, NextRow
  <2>. QED BY <2>1, <2>2, <2>3
<1>3. LInv'
  BY <1>2 DEF MInv, LInv, loopVars, Alive
<1>. QED BY <1>1, <1>3 DEF MInv

\* Every step keeps the invariant.
LEMMA MineStep == MInv /\ [Next]_vars => MInv'
<1>. SUFFICES ASSUME MInv, [Next]_vars PROVE MInv'
  OBVIOUS
<1>1. CASE Loop
  BY <1>1, TakeJobInv, StopInv, HashFailInv, HashOKInv, ProcessedInv DEF Loop
<1>2. CASE Next /\ ~Loop
  BY <1>2, OtherInv DEF Next, Mine
<1>3. CASE UNCHANGED vars
  <2>1. SInv'
    BY <1>3, StutterStep DEF MInv, vars, loopVars, flowVars
  <2>. QED BY <1>3, <2>1 DEF MInv, LInv, vars, loopVars, gateVars
<1>. QED BY <1>1, <1>2, <1>3

\* The invariant is an invariant.
THEOREM MineInvariance == Spec => []MInv
BY MineInit, MineStep, PTL DEF Spec

\* Every variable of the miner keeps its type; in particular the error budget
\* is never exceeded.
THEOREM MineTypes == Spec => []TypeOK
<1>. MInv => TypeOK
  BY DEF MInv, LInv, SInv, GInv, IInv, TypeOK
<1>. QED BY MineInvariance, PTL

\* The guarantee of DEPLOY.md section 4 for every batch size, mailbox capacity,
\* difficulty and set of hashes, whatever the GPU computes: only solutions of
\* the job they name are submitted.
THEOREM MineOnlySolutions == Spec => []OnlySolutionsSubmitted
<1>. MInv => OnlySolutionsSubmitted
  BY DEF MInv, SInv, GInv, ShareInv
<1>. QED BY MineInvariance, PTL

\* For every difficulty, 1 included, and every set of hashes the gate throws away as
\* a miss exactly what does not solve the job its batch was made from.
THEOREM MineGateExact == Spec => []GateIsExact
<1>. MInv => GateIsExact
  BY GateExact DEF MInv, SInv
<1>. QED BY MineInvariance, PTL

\* No share is lost without trace or counted twice.
THEOREM MineAccounts == Spec => []SharesAccounted
<1>. MInv => SharesAccounted
  BY DEF MInv, SInv
<1>. QED BY MineInvariance, PTL

\* Of a batch at most one share is queued for a job that has rotated, however
\* many rows the batch has.
THEOREM MineOneLate == Spec => []AtMostOneLate
<1>. MInv => AtMostOneLate
  BY LateSafe DEF MInv, SInv
<1>. QED BY MineInvariance, PTL

=============================================================================

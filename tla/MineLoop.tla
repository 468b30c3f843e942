------------------------------ MODULE MineLoop ------------------------------
(***************************************************************************)
(* mineLoop of cmd/go-gpu-miner/main.go: one batch at a time, hashed and   *)
(* then put through the gate of module ShareGate.  batches is the number   *)
(* of batches hashed; the GPU call may fail at any time.                   *)
(***************************************************************************)
EXTENDS ShareGate

CONSTANT MaxHashErrs

ASSUME LoopAssumption == MaxHashErrs \in Nat \ {0}

VARIABLES errs, batches

loopVars == <<snap, errs, batches>>
vars     == <<clientVars, jobVars, gateVars, loopVars>>

Init == GateInit /\ errs = 0 /\ batches = 0

\* A new iteration; without a job yet the loop polls.
TakeJob ==
  /\ mpc = "job" /\ ~Stops /\ batches < MaxBatches
  /\ Job
  /\ mpc' = IF cell.epoch = 0 THEN "job" ELSE "hash"
  /\ UNCHANGED <<clientVars, jobVars, b, i, sub, reprobed, counters, errs, batches>>

Stop ==
  /\ mpc = "job" /\ Stops
  /\ mpc' = "exit"
  /\ UNCHANGED <<clientVars, jobVars, b, i, sub, reprobed, counters, loopVars>>

GivesUp == errs + 1 >= MaxHashErrs

HashFail ==
  /\ mpc = "hash"
  /\ errs' = errs + 1
  /\ mpc' = IF GivesUp THEN "fatal" ELSE "job"
  /\ UNCHANGED <<clientVars, jobVars, b, i, sub, reprobed, counters, snap, batches>>

\* The job context handed to processBatch is the snapshot the batch was filled
\* from.
BatchCtx == [work |-> snap.work, target |-> snap.target, epoch |-> snap.epoch,
             no |-> batches + 1]

HashOK ==
  /\ mpc = "hash"
  /\ errs' = 0 /\ batches' = batches + 1
  /\ ProcessBatch(BatchCtx)
  /\ UNCHANGED <<clientVars, jobVars, snap>>

Processed ==
  /\ mpc = "done" /\ mpc' = "job"
  /\ LeaveBatch
  /\ UNCHANGED <<clientVars, jobVars, loopVars>>

Loop == TakeJob \/ Stop \/ HashFail \/ HashOK \/ Processed

Mine == \/ Loop
        \/ (\E r \in Candidates : Gate(r)) /\ UNCHANGED loopVars
        \/ SubmitShare /\ UNCHANGED loopVars

Next ==
  /\ Alive
  /\ \/ Mine
     \/ Environment /\ UNCHANGED loopVars

Spec == Init /\ [][Next]_vars

\* GPU calls, the 100 ms tick and sends into a mailbox with room return; the
\* client's goroutines run.
FairSpec == Spec /\ WF_vars(Mine) /\ LinkFairness

-----------------------------------------------------------------------------
\* Types of the whole state.
TypeOK ==
  /\ ClientTypeOK /\ GateTypeOK
  /\ mpc \in {"job", "hash", "gate", "submit", "wait", "done", "exit", "fatal"}
  /\ errs \in 0..MaxHashErrs /\ batches \in 0..MaxBatches

=============================================================================

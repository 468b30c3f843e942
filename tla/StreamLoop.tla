----------------------------- MODULE StreamLoop -----------------------------
(***************************************************************************)
(* mineLoopStream of cmd/go-gpu-miner/main.go: while the GPU computes one  *)
(* batch the gate of module ShareGate works on the one before it, whose    *)
(* blobs and job context must have been kept.  The GPU is the one-deep     *)
(* pipe of module Streamer, which both streaming back ends implement.      *)
(***************************************************************************)
EXTENDS ShareGate

CONSTANTS MaxHashErrs,
          Healthy       \* the GPU never computes a hash wrong

ASSUME LoopAssumption == MaxHashErrs \in Nat \ {0} /\ Healthy \in BOOLEAN

VARIABLES
  errs, no,      \* no: batches filled so far
  host, bi,      \* the two blob buffers; the one to fill next
  prev, prevBuf, \* the context of the batch in flight and its blobs
  inflight, out, \* the streamer
  draining       \* the loop is over, the last batch is being processed

Batches  == 1..MaxBatches
Pipe     == INSTANCE Streamer
pipeVars == <<inflight, out>>
bufVars  == <<no, host, bi>>
prevVars == <<prev, prevBuf>>
loopVars == <<snap, errs, bufVars, prevVars, pipeVars, draining>>
vars     == <<clientVars, jobVars, gateVars, loopVars>>

EmptyBlobs == [no |-> 0, work |-> NoWork]

Init ==
  /\ GateInit /\ Pipe!StreamInit
  /\ errs = 0 /\ no = 0 /\ host = [k \in {0, 1} |-> EmptyBlobs] /\ bi = 0
  /\ prev = NoBatch /\ prevBuf = 0 /\ draining = FALSE

FillBatch(w) == host' = [host EXCEPT ![bi] = [no |-> no + 1, work |-> w]]

\* A new iteration: without a job the loop polls, else a batch is built.
TakeJob ==
  /\ mpc = "job" /\ ~Stops /\ no < MaxBatches
  /\ Job
  /\ IF cell.epoch = 0
       THEN mpc' = "job" /\ UNCHANGED <<no, host>>
       ELSE mpc' = "hash" /\ FillBatch(cell.work) /\ no' = no + 1
  /\ UNCHANGED <<clientVars, jobVars, b, i, sub, reprobed, counters, errs, bi,
                 prevVars, pipeVars, draining>>

\* The context of the batch just built.
BatchCtx == [work |-> snap.work, target |-> snap.target, epoch |-> snap.epoch, no |-> no]

\* (mutant) the loop takes the refused batch for the one in flight
Retry_Accepts == prev' = BatchCtx /\ prevBuf' = bi

\* After a failed Submit the loop still waits for the batch in flight.
Retry == UNCHANGED prevVars

GivesUp == errs + 1 >= MaxHashErrs

HashFail ==
  /\ mpc = "hash" /\ Pipe!Refused
  /\ errs' = errs + 1
  /\ mpc' = IF GivesUp THEN "fatal" ELSE "job"
  /\ Retry
  /\ UNCHANGED <<clientVars, jobVars, b, i, sub, reprobed, counters, snap, bufVars, draining>>

\* (mutant) the hashes are gated with the context of the batch just submitted
Gated_New == BatchCtx

Gated == prev

\* Submit returns the previous batch's hashes, if there was one.
HashOK ==
  /\ mpc = "hash" /\ Pipe!Submitted(no)
  /\ errs' = 0
  /\ IF out'.pows # {} /\ prev # NoBatch
       THEN ProcessBatch(Gated)
       ELSE mpc' = "done" /\ UNCHANGED <<b, i, sub, reprobed, counters>>
  /\ UNCHANGED <<clientVars, jobVars, snap, bufVars, prevVars, draining>>

\* The batch in flight becomes prev, and the buffers swap roles.
Processed ==
  /\ mpc = "done" /\ ~draining
  /\ mpc' = "job" /\ LeaveBatch
  /\ prev' = BatchCtx /\ prevBuf' = bi /\ bi' = 1 - bi
  /\ UNCHANGED <<clientVars, jobVars, snap, errs, no, host, pipeVars, draining>>

Stop ==
  /\ mpc = "job" /\ Stops
  /\ mpc' = IF prev = NoBatch THEN "exit" ELSE "drain"
  /\ UNCHANGED <<clientVars, jobVars, b, i, sub, reprobed, counters, loopVars>>

Drain ==
  /\ mpc = "drain"
  /\ Pipe!Drained \/ Pipe!Refused
  /\ IF ~out'.err /\ out'.pows # {}
       THEN ProcessBatch(prev) /\ draining' = TRUE
       ELSE mpc' = "exit" /\ UNCHANGED <<b, i, sub, reprobed, counters, draining>>
  /\ UNCHANGED <<clientVars, jobVars, snap, errs, bufVars, prevVars>>

Exit ==
  /\ mpc = "done" /\ draining
  /\ mpc' = "exit" /\ LeaveBatch
  /\ UNCHANGED <<clientVars, jobVars, loopVars>>

Loop == TakeJob \/ HashFail \/ HashOK \/ Processed \/ Stop \/ Drain \/ Exit

\* The hashes being gated are those of b, and so are the blobs the CPU re-hashes.
Aligned == out.pows = {b.no} /\ host[prevBuf].no = b.no

\* A healthy GPU and the CPU agree on the same blob.
Possible(r) == Healthy /\ Aligned => r.gpu = r.cpu

Mine ==
  \/ Loop
  \/ (\E r \in Candidates : Possible(r) /\ Gate(r)) /\ UNCHANGED loopVars
  \/ SubmitShare /\ UNCHANGED loopVars

Next ==
  /\ Alive
  /\ \/ Mine
     \/ Environment /\ UNCHANGED loopVars

Spec == Init /\ [][Next]_vars

FairSpec == Spec /\ WF_vars(Mine) /\ LinkFairness

-----------------------------------------------------------------------------
\* Types of the whole state.
TypeOK ==
  /\ ClientTypeOK /\ GateTypeOK
  /\ mpc \in {"job", "hash", "gate", "submit", "wait", "done", "drain", "exit", "fatal"}
  /\ errs \in 0..MaxHashErrs /\ no \in 0..MaxBatches
  /\ host \in [{0, 1} -> [no : 0..MaxBatches, work : Works \cup {NoWork}]]
  /\ bi \in {0, 1} /\ prevBuf \in {0, 1} /\ draining \in BOOLEAN
  /\ prev \in BatchCtxs \cup {NoBatch}
  /\ inflight \subseteq Batches /\ out \in Pipe!Outs

Gating == mpc \in {"gate", "submit", "wait"}

\* "Staleness can never cause a re-hash mismatch ... a mismatch is a genuine
\* miscompute" (main.go:412): with a healthy GPU the alarm never sounds.
NoFalseAlarm == Healthy => Miscompute = 0

\* "A batch is verified against the exact job it was built for even though its
\* results arrive one iteration late" (main.go:568), also after failed Submits:
\* hashes, blobs and job context are those of one batch, so a miscompute that is
\* reported is one.
ResultsAligned ==
  /\ Gating => /\ out.pows = {b.no}
               /\ host[prevBuf] = [no |-> b.no, work |-> b.work]
  /\ NoFalseAlarm

\* Between iterations the loop and the streamer agree on what is in flight.
PipeMatchesLoop ==
  mpc = "job" => inflight = (IF prev = NoBatch THEN {} ELSE {prev.no})

=============================================================================

------------------------------ MODULE Streamer ------------------------------
(***************************************************************************)
(* What the streaming miner relies on (gpu.FusedStreamer, pipeline.go):    *)
(* a pipe one batch deep.  Submit accepts a batch and returns the hashes   *)
(* of the batch accepted before it, Drain returns those of the last one,   *)
(* and a call that fails leaves the pipe as it was, so that the next call  *)
(* may be made.  A batch is its number; a set of batches stands for "none  *)
(* or one" and, in pows, for the batches the returned hashes belong to.    *)
(* FusedStreamer (WGSL) and SpirvStreamer implement this module.           *)
(***************************************************************************)
CONSTANT Batches

VARIABLES
  inflight,     \* the batch accepted and not yet returned
  out           \* what the last call returned

Outs == [err : BOOLEAN, pows : SUBSET Batches]
None == {}

StreamInit == inflight = None /\ out = [err |-> FALSE, pows |-> None]

\* Submit(n) succeeds.
Submitted(n) ==
  /\ out' = [err |-> FALSE, pows |-> inflight]
  /\ inflight' = {n}

\* Drain succeeds.
Drained ==
  /\ out' = [err |-> FALSE, pows |-> inflight]
  /\ inflight' = None

\* A call fails.
Refused ==
  /\ out' = [err |-> TRUE, pows |-> None]
  /\ UNCHANGED inflight

StreamNext == (\E n \in Batches : Submitted(n)) \/ Drained \/ Refused

StreamSpec == StreamInit /\ [][StreamNext]_<<inflight, out>>

=============================================================================

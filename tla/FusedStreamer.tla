--------------------------- MODULE FusedStreamer ----------------------------
(***************************************************************************)
(* The WGSL streaming path: FusedStreamer.Submit and Drain of pipeline.go  *)
(* over two fusedSessions (fused.go submitCompute, collect) and the one    *)
(* ordered command queue of the device.  The steps of a call interleave    *)
(* with the GPU.  A batch is its number; a session's compute pass and its  *)
(* two read-back copies are one command of the queue.  The lens and the SA *)
(* staging buffer are one: the lens one is mapped with the other and       *)
(* unmapped no later.                                                      *)
(* Any fallible device call may fail, MaxFaults times in all.              *)
(***************************************************************************)
EXTENDS Naturals, Sequences

CONSTANTS MaxBatches,    \* bound on the calls of Submit
          MaxFaults      \* bound on the device faults

ASSUME StreamAssumption == MaxBatches \in Nat /\ MaxFaults \in Nat

VARIABLES
  cur, have,     \* FusedStreamer
  saMapped,      \* per session: its own idea of whether staging is mapped
  map,           \* per session: what staging really is, to the device
  staging,       \* per session: the batch whose results it holds
  queue,         \* commands submitted and not yet executed
  pc, op, n,     \* the call in progress: "submit" of batch n, or "drain"
  made,          \* calls of Submit so far
  faults, faulted,   \* device faults so far; one hit the present call
  out            \* what the last call returned

callVars   == <<op, n, made>>
faultVars  == <<faults, faulted>>
deviceVars == <<saMapped, map, staging, queue>>
vars == <<cur, have, deviceVars, pc, callVars, faultVars, out>>

Sessions == {0, 1}
Batches  == 1..MaxBatches
Other    == 1 - cur

Init ==
  /\ cur = 0 /\ have = FALSE
  /\ saMapped = [s \in Sessions |-> FALSE]
  /\ map = [s \in Sessions |-> "unmapped"]
  /\ staging = [s \in Sessions |-> 0]
  /\ queue = <<>>
  /\ pc = "idle" /\ op = "drain" /\ n = 0 /\ made = 0
  /\ faults = 0 /\ faulted = FALSE
  /\ out = [err |-> FALSE, pows |-> {}]

Returns(err, pows) == pc' = "idle" /\ out' = [err |-> err, pows |-> pows]

Fault == faults < MaxFaults /\ faults' = faults + 1 /\ faulted' = TRUE

\* The device still has work to do for session s.
Busy(s) == \E k \in DOMAIN queue : queue[k].session = s

-----------------------------------------------------------------------------
CallSubmit ==
  /\ pc = "idle" /\ made < MaxBatches
  /\ made' = made + 1 /\ op' = "submit" /\ n' = made + 1
  /\ pc' = "compute" /\ faulted' = FALSE
  /\ UNCHANGED <<cur, have, deviceVars, faults, out>>

\* Drain with nothing in flight returns nil, nil.
CallDrain ==
  /\ pc = "idle"
  /\ op' = "drain" /\ faulted' = FALSE
  /\ IF have THEN pc' = "collect" /\ UNCHANGED out ELSE Returns(FALSE, {})
  /\ UNCHANGED <<cur, have, deviceVars, n, made, faults>>

\* (mutant) the next Submit reuses the session just submitted
Flip_Stays == cur' = cur

\* A Submit that succeeds turns to the other session.
Flip == cur' = IF op = "submit" THEN Other ELSE cur

\* submitCompute's release of the zero-copy views the last collect left.
Unmap(s) ==
  /\ saMapped' = [saMapped EXCEPT ![s] = FALSE]
  /\ map' = IF saMapped[s] THEN [map EXCEPT ![s] = "unmapped"] ELSE map

\* submitCompute.  The device refuses a submission that copies into a buffer
\* which is mapped or about to be.
SubmitCompute ==
  /\ pc = "compute"
  /\ Unmap(cur)
  /\ map'[cur] = "unmapped"
  /\ queue' = Append(queue, [session |-> cur, batch |-> n])
  /\ IF have
       THEN pc' = "collect" /\ UNCHANGED <<cur, have, out>>
       ELSE Returns(FALSE, {}) /\ have' = TRUE /\ Flip
  /\ UNCHANGED <<staging, callVars, faultVars>>

SubmitRefused ==
  /\ pc = "compute"
  /\ Unmap(cur)
  /\ IF map'[cur] = "unmapped" THEN Fault ELSE UNCHANGED faultVars
  /\ Returns(TRUE, {})
  /\ UNCHANGED <<cur, have, staging, queue, callVars>>

-----------------------------------------------------------------------------
(* collect, on the session that is not cur *)

\* The device refuses to map a buffer which is mapped or about to be.
MapAsync ==
  /\ pc = "collect" /\ map[Other] = "unmapped"
  /\ map' = [map EXCEPT ![Other] = "pending"]
  /\ pc' = "wait"
  /\ UNCHANGED <<cur, have, saMapped, staging, queue, callVars, faultVars, out>>

\* (mutant) the error path returns without unmapping
Abort_LeavesPending == UNCHANGED <<saMapped, map>>

\* The deferred clean-up of every error path: Unmap cancels a pending map.
Abort ==
  /\ map' = [map EXCEPT ![Other] = "unmapped"]
  /\ saMapped' = [saMapped EXCEPT ![Other] = FALSE]

CollectFail ==
  /\ pc \in {"collect", "wait"}
  /\ IF pc = "collect" /\ map[Other] # "unmapped" THEN UNCHANGED faultVars ELSE Fault
  /\ Abort
  /\ Returns(TRUE, {})
  /\ UNCHANGED <<cur, have, staging, queue, callVars>>

\* A map resolves when the device is done with the buffer.
Resolved == ~Busy(Other)

\* The spin on Status ends.
MapDone ==
  /\ pc = "wait" /\ Resolved
  /\ map' = [map EXCEPT ![Other] = "mapped"]
  /\ saMapped' = [saMapped EXCEPT ![Other] = TRUE]
  /\ pc' = "hash"
  /\ UNCHANGED <<cur, have, staging, queue, callVars, faultVars, out>>

\* finalHashBatch reads the mapped views; then the streamer moves on.
Hash ==
  /\ pc = "hash"
  /\ Returns(FALSE, {staging[Other]})
  /\ have' = (op = "submit")
  /\ Flip
  /\ UNCHANGED <<deviceVars, callVars, faultVars>>

-----------------------------------------------------------------------------
\* The device executes its queue in order.
Execute ==
  /\ queue # <<>>
  /\ staging' = [staging EXCEPT ![Head(queue).session] = Head(queue).batch]
  /\ queue' = Tail(queue)
  /\ UNCHANGED <<cur, have, saMapped, map, pc, callVars, faultVars, out>>

Caller == \/ CallSubmit \/ CallDrain \/ SubmitCompute \/ SubmitRefused
          \/ MapAsync \/ CollectFail \/ MapDone \/ Hash

Next == Caller \/ Execute

Spec == Init /\ [][Next]_vars

-----------------------------------------------------------------------------
\* Types of the streamer, its sessions and the queue.
TypeOK ==
  /\ cur \in Sessions /\ have \in BOOLEAN
  /\ saMapped \in [Sessions -> BOOLEAN]
  /\ map \in [Sessions -> {"unmapped", "pending", "mapped"}]
  /\ staging \in [Sessions -> 0..MaxBatches]
  /\ queue \in Seq([session : Sessions, batch : Batches])
  /\ pc \in {"idle", "compute", "collect", "wait", "hash"}
  /\ op \in {"submit", "drain"} /\ n \in 0..MaxBatches /\ made \in 0..MaxBatches
  /\ faults \in 0..MaxFaults /\ faulted \in BOOLEAN
  /\ out \in [err : BOOLEAN, pows : SUBSET (0..MaxBatches)]

\* collect's deferred unmap keeps the session re-usable (fused.go:609-614): a
\* call fails only if the device failed it, never because of an earlier fault.
NoWedge == out.err /\ pc = "idle" => faulted

\* The zero-copy views stay valid while they are read: no command that writes
\* a mapped staging buffer is ever in the queue.
NoCopyIntoMapped == \A s \in Sessions : map[s] = "mapped" => ~Busy(s)

\* Both, with every buffer in one of its states.
BuffersSafe == TypeOK /\ NoWedge /\ NoCopyIntoMapped

\* The batch in flight: the last one queued on the session not written next,
\* or the one that session's staging already holds.
InFlight ==
  IF ~have THEN {}
  ELSE IF Busy(Other)
    THEN {queue[CHOOSE k \in DOMAIN queue :
             /\ queue[k].session = Other
             /\ \A m \in DOMAIN queue : queue[m].session = Other => m <= k].batch}
    ELSE {staging[Other]}

Pipe == INSTANCE Streamer WITH inflight <- InFlight, out <- out

\* The streamer is the one-deep pipe the mine loop relies on: the hashes it
\* returns are those of the batch accepted before, whole and in order, also
\* after failed calls.
ImplementsStreamer == Pipe!StreamSpec

=============================================================================

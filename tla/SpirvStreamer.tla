--------------------------- MODULE SpirvStreamer ----------------------------
(***************************************************************************)
(* The native SPIR-V streaming path, spirv_stream.go: Submit and Drain of  *)
(* spirvFastStreamer over two upload and two staging buffers, the shared   *)
(* text, lens, archive and overflow buffers, and the ordered queue of the  *)
(* device.  A batch is its number; a group's four slab sorts are one       *)
(* command.  Rows whose slab overflowed are hashed by the CPU from the     *)
(* caller's slice, which the streamer keeps by reference: the caller is    *)
(* mineLoopStream with its two buffers (main.go:573-603).                  *)
(***************************************************************************)
EXTENDS Naturals, Sequences

CONSTANTS MaxBatches,    \* bound on the calls of Submit
          MaxFaults,     \* bound on the device faults
          Few            \* failures in a row that count as "a few"

ASSUME SpirvAssumption == MaxBatches \in Nat /\ MaxFaults \in Nat /\ Few \in Nat

VARIABLES
  cur, have,
  uploadMapped,      \* per buffer: mapped for the CPU
  uploadPending,     \* per buffer: a map handle to wait for
  resultPending,
  pend, pendInputs,  \* per buffer: its batch (pendN); the caller's buffer, or 2
  upload, staging,   \* per buffer: contents
  stagingBusy,       \* per buffer: mapped, or being mapped, to the device
  text, lens, archive, overflow,   \* the device buffers groups share
  queue,             \* commands submitted and not yet executed
  host, bi,          \* the caller's two buffers; the one it fills next
  pc, op, n, made,   \* the call in progress: "submit" of batch n, or "drain"
  faults,            \* device faults so far
  errs,              \* the caller's count of failed Submits in a row
  out

mapVars    == <<uploadMapped, uploadPending, resultPending, stagingBusy>>
pendVars   == <<pend, pendInputs>>
deviceVars == <<staging, text, lens, archive, overflow>>
callVars   == <<host, op, n, made>>
vars == <<cur, have, mapVars, pendVars, upload, deviceVars, queue, bi, pc,
          callVars, faults, errs, out>>

Buffers == {0, 1}
Batches == 1..MaxBatches
Other   == 1 - cur

Empty(v) == [k \in Buffers |-> v]

Init ==
  /\ cur = 0 /\ have = FALSE
  /\ uploadMapped = Empty(TRUE) /\ uploadPending = Empty(FALSE)
  /\ resultPending = Empty(FALSE) /\ stagingBusy = Empty(FALSE)
  /\ pend = Empty(0) /\ pendInputs = Empty(2)
  /\ upload = Empty(0) /\ staging = Empty([batch |-> 0, overflow |-> FALSE])
  /\ text = 0 /\ lens = 0 /\ archive = 0 /\ overflow = FALSE /\ queue = <<>>
  /\ host = Empty(0) /\ bi = 0
  /\ pc = "idle" /\ op = "drain" /\ n = 0 /\ made = 0
  /\ faults = 0 /\ errs = 0
  /\ out = [err |-> FALSE, pows |-> {}]

Returns(err, pows) ==
  /\ pc' = "idle" /\ out' = [err |-> err, pows |-> pows]
  /\ errs' = IF op = "drain" THEN errs ELSE IF err THEN errs + 1 ELSE 0

Fault == faults < MaxFaults /\ faults' = faults + 1

\* Commands: "lens" writes batch arg's lengths; "text" copies upload buffer arg;
\* "sort"; "sha" hashes and copies to staging buffer arg.
Cmd(name, arg) == [name |-> name, arg |-> arg]
Queued(c)      == \E k \in DOMAIN queue : queue[k] = c

-----------------------------------------------------------------------------
(* The caller *)

CallSubmit ==
  /\ pc = "idle" /\ made < MaxBatches
  /\ made' = made + 1 /\ op' = "submit" /\ n' = made + 1
  /\ host' = [host EXCEPT ![bi] = made + 1]
  /\ pc' = "prepare"
  /\ UNCHANGED <<cur, have, mapVars, pendVars, upload, deviceVars, queue, bi,
                 faults, errs, out>>

CallDrain ==
  /\ pc = "idle"
  /\ op' = "drain"
  /\ IF have
       THEN pc' = "collect" /\ UNCHANGED out
       ELSE out' = [err |-> FALSE, pows |-> {}] /\ UNCHANGED pc
  /\ UNCHANGED <<cur, have, mapVars, pendVars, upload, deviceVars, queue, host,
                 bi, n, made, faults, errs>>

\* Submit succeeded: the streamer and its caller turn to their other buffers.
Accept == have' = TRUE /\ cur' = Other /\ bi' = 1 - bi

-----------------------------------------------------------------------------
(* prepare *)

\* (mutant) the upload buffer is written without waiting for its map
UploadReady_NoWait == TRUE

\* Mapped already, or its map has resolved: the device has copied it out.
UploadReady ==
  \/ uploadMapped[cur]
  \/ uploadPending[cur] /\ ~Queued(Cmd("text", cur))

Build == upload' = [upload EXCEPT ![cur] = n]

Prepare ==
  /\ pc = "prepare" /\ UploadReady
  /\ Build
  /\ uploadMapped' = [uploadMapped EXCEPT ![cur] = FALSE]
  /\ uploadPending' = [uploadPending EXCEPT ![cur] = FALSE]
  /\ queue' = Append(queue, Cmd("lens", n))
  /\ pend' = [pend EXCEPT ![cur] = n]
  /\ pendInputs' = [pendInputs EXCEPT ![cur] = bi]
  /\ pc' = "group"
  /\ UNCHANGED <<cur, have, resultPending, stagingBusy, deviceVars, bi, callVars,
                 faults, errs, out>>

\* "missing GPU map": there is nothing to wait for.
PrepareMissing ==
  /\ pc = "prepare" /\ ~uploadMapped[cur] /\ ~uploadPending[cur]
  /\ Returns(TRUE, {})
  /\ UNCHANGED <<cur, have, mapVars, pendVars, upload, deviceVars, queue, bi,
                 callVars, faults>>

\* The wait or the final WriteBuffer fails and leaves the buffer unmapped, or
\* MappedRange or Unmap fails and leaves it mapped.
PrepareFail ==
  /\ pc = "prepare" /\ Fault
  /\ uploadPending' = [uploadPending EXCEPT ![cur] = FALSE]
  /\ \/ uploadPending[cur] /\ UNCHANGED <<uploadMapped, upload>>
     \/ /\ UploadReady /\ Build
        /\ \E still \in BOOLEAN : uploadMapped' = [uploadMapped EXCEPT ![cur] = still]
  /\ Returns(TRUE, {})
  /\ UNCHANGED <<cur, have, resultPending, stagingBusy, pendVars, deviceVars,
                 queue, bi, callVars>>

-----------------------------------------------------------------------------
(* submitGroup: separate submissions for the upload copy, the sorts and the *)
(* final hash.                                                              *)

\* (mutant) the final hash is submitted before the sorts
GroupCmds_HashFirst == <<Cmd("text", cur), Cmd("sha", cur), Cmd("sort", 0)>>

GroupCmds == <<Cmd("text", cur), Cmd("sort", 0), Cmd("sha", cur)>>

Group ==
  /\ pc = "group" /\ ~stagingBusy[cur]
  /\ queue' = queue \o GroupCmds
  /\ resultPending' = [resultPending EXCEPT ![cur] = TRUE]
  /\ stagingBusy' = [stagingBusy EXCEPT ![cur] = TRUE]
  /\ uploadPending' = [uploadPending EXCEPT ![cur] = TRUE]
  /\ IF have
       THEN pc' = "collect" /\ UNCHANGED <<cur, have, bi, errs, out>>
       ELSE Returns(FALSE, {}) /\ Accept
  /\ UNCHANGED <<uploadMapped, pendVars, upload, deviceVars, callVars, faults>>

\* The device refuses the submission that copies into a staging buffer which
\* is mapped or about to be; those before it are on the queue.
GroupRefused ==
  /\ pc = "group" /\ stagingBusy[cur]
  /\ queue' = queue \o SubSeq(GroupCmds, 1, 2)
  /\ Returns(TRUE, {})
  /\ UNCHANGED <<cur, have, mapVars, pendVars, upload, deviceVars, bi, callVars,
                 faults>>

\* A submission fails, or one of the two MapAsync calls after the last.
GroupFail ==
  /\ pc = "group" /\ ~stagingBusy[cur] /\ Fault
  /\ \/ /\ \E k \in 0..3 : queue' = queue \o SubSeq(GroupCmds, 1, k)
        /\ UNCHANGED <<resultPending, stagingBusy>>
     \/ /\ queue' = queue \o GroupCmds
        /\ resultPending' = [resultPending EXCEPT ![cur] = TRUE]
        /\ stagingBusy' = [stagingBusy EXCEPT ![cur] = TRUE]
  /\ Returns(TRUE, {})
  /\ UNCHANGED <<cur, have, uploadMapped, uploadPending, pendVars, upload,
                 deviceVars, bi, callVars>>

-----------------------------------------------------------------------------
(* collect, on the buffer that is not cur *)

\* The batches the hashes belong to: the GPU's, and where a slab overflowed
\* the CPU's of what the caller's slice holds now.
Hashes(k) ==
  {staging[k].batch} \cup
  (IF staging[k].overflow THEN {host[pendInputs[k]]} ELSE {})

Collect ==
  /\ pc = "collect" /\ resultPending[Other] /\ ~Queued(Cmd("sha", Other))
  /\ Returns(FALSE, Hashes(Other))
  /\ resultPending' = [resultPending EXCEPT ![Other] = FALSE]
  /\ stagingBusy' = [stagingBusy EXCEPT ![Other] = FALSE]
  /\ pendInputs' = [pendInputs EXCEPT ![Other] = 2]
  /\ IF op = "submit" THEN Accept ELSE have' = FALSE /\ UNCHANGED <<cur, bi>>
  /\ UNCHANGED <<uploadMapped, uploadPending, pend, upload, deviceVars, queue,
                 callVars, faults>>

CollectMissing ==
  /\ pc = "collect" /\ ~resultPending[Other]
  /\ Returns(TRUE, {})
  /\ UNCHANGED <<cur, have, mapVars, pendVars, upload, deviceVars, queue, bi,
                 callVars, faults>>

\* Whatever fails, the handle is gone; the buffer may stay mapped.
CollectFail ==
  /\ pc = "collect" /\ resultPending[Other] /\ Fault
  /\ resultPending' = [resultPending EXCEPT ![Other] = FALSE]
  /\ \E still \in BOOLEAN : stagingBusy' = [stagingBusy EXCEPT ![Other] = still]
  /\ Returns(TRUE, {})
  /\ UNCHANGED <<cur, have, uploadMapped, uploadPending, pendVars, upload,
                 deviceVars, queue, bi, callVars>>

-----------------------------------------------------------------------------
\* The device executes its queue in order.  Sorting a text with another
\* batch's lengths, or hashing with them, yields nobody's hash: 0.
Execute ==
  /\ queue # <<>> /\ queue' = Tail(queue)
  /\ LET c == Head(queue) IN
     \/ c.name = "lens" /\ lens' = c.arg /\ UNCHANGED <<staging, text, archive, overflow>>
     \/ c.name = "text" /\ text' = upload[c.arg] /\ UNCHANGED <<staging, lens, archive, overflow>>
     \/ /\ c.name = "sort"
        /\ archive' = IF text = lens THEN text ELSE 0
        /\ overflow' \in BOOLEAN
        /\ UNCHANGED <<staging, text, lens>>
     \/ /\ c.name = "sha"
        /\ staging' = [staging EXCEPT ![c.arg] =
             [batch |-> IF archive = lens THEN archive ELSE 0, overflow |-> overflow]]
        /\ UNCHANGED <<text, lens, archive, overflow>>
  /\ UNCHANGED <<cur, have, mapVars, pendVars, upload, bi, pc, callVars,
                 faults, errs, out>>

Caller == \/ CallSubmit \/ CallDrain
          \/ Prepare \/ PrepareMissing \/ PrepareFail
          \/ Group \/ GroupRefused \/ GroupFail
          \/ Collect \/ CollectMissing \/ CollectFail

Next == Caller \/ Execute

Spec == Init /\ [][Next]_vars

-----------------------------------------------------------------------------
\* Types of the streamer, its buffers, the queue and the caller.
TypeOK ==
  /\ cur \in Buffers /\ have \in BOOLEAN
  /\ uploadMapped \in [Buffers -> BOOLEAN] /\ uploadPending \in [Buffers -> BOOLEAN]
  /\ resultPending \in [Buffers -> BOOLEAN] /\ stagingBusy \in [Buffers -> BOOLEAN]
  /\ pend \in [Buffers -> 0..MaxBatches] /\ pendInputs \in [Buffers -> 0..2]
  /\ upload \in [Buffers -> 0..MaxBatches]
  /\ staging \in [Buffers -> [batch : 0..MaxBatches, overflow : BOOLEAN]]
  /\ text \in 0..MaxBatches /\ lens \in 0..MaxBatches /\ archive \in 0..MaxBatches
  /\ overflow \in BOOLEAN
  /\ queue \in Seq([name : {"lens", "text", "sort", "sha"}, arg : 0..MaxBatches])
  /\ host \in [Buffers -> 0..MaxBatches] /\ bi \in Buffers
  /\ pc \in {"idle", "prepare", "group", "collect"} /\ op \in {"submit", "drain"}
  /\ n \in 0..MaxBatches /\ made \in 0..MaxBatches
  /\ faults \in 0..MaxFaults /\ errs \in Nat
  /\ out \in [err : BOOLEAN, pows : SUBSET (0..MaxBatches)]

\* The CPU never writes an upload buffer the device has still to copy.
UploadSafe ==
  [][\A k \in Buffers : upload'[k] # upload[k] => ~Queued(Cmd("text", k))]_vars

\* The slice behind a group in flight still holds that group's inputs, should
\* the CPU have to hash its overflowed rows (spirv_stream.go:445).
InputsKept == have /\ resultPending[Other] => host[pendInputs[Other]] = pend[Other]

\* Both, with every buffer in one of its states: what a group in flight still
\* needs is never overwritten, on either side of the bus.
BuffersSafe == []TypeOK /\ []InputsKept /\ UploadSafe

Pipe == INSTANCE Streamer WITH
  inflight <- IF have THEN {pend[Other]} ELSE {}, out <- out

\* The streamer is the one-deep pipe the mine loop relies on: what it returns
\* are the hashes of the batch accepted before, whole, whether the GPU or the
\* CPU computed them, also after failed calls.
ImplementsStreamer == Pipe!StreamSpec

\* What main.go:531 says of a stream of hash errors, "A transient hiccup
\* recovers within a few": one device fault does not make more than a few
\* Submits in a row fail.  Here it makes all of them fail.
RecoversWithinAFew == faults <= 1 => errs <= Few

=============================================================================

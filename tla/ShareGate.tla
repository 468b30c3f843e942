----------------------------- MODULE ShareGate ------------------------------
(***************************************************************************)
(* The life of a share in cmd/go-gpu-miner/main.go: processBatch, classify *)
(* and submitShare running in the mine loop beside the getwork client,     *)
(* over the job cell and the submit mailbox they share.  Modules MineLoop  *)
(* and StreamLoop add the two loops that feed it.                          *)
(*                                                                         *)
(* A candidate is the pair of its GPU hash and its CPU hash; they differ   *)
(* when the GPU miscomputed.  The GPU, Ctrl-C and the daemon are the       *)
(* environment: tip is the job the daemon currently accepts and pushes.    *)
(***************************************************************************)
EXTENDS GetworkClient, JobCell

CONSTANTS BatchSize, Pows, MailboxCap,
          MaxBatches       \* bound on the batches filled

ShareIds == 1..(MaxBatches * BatchSize)

ASSUME GateAssumption ==
  /\ BatchSize \in Nat \ {0} /\ MailboxCap \in Nat \ {0} /\ MaxBatches \in Nat
  /\ MaxEpoch # 0
  /\ Pows \subseteq 0..(HashSpace - 1)
  /\ Shares = [id : ShareIds, work : Works, epoch : 1..MaxEpoch, cpu : Pows]

VARIABLES
  tip,          \* the daemon's current job
  pushed,       \* history: the job of each epoch as the daemon pushed it
  mpc,          \* the mine loop: "gate","submit","wait" and "done" in
                \* processBatch; the loops add "job","hash","drain","exit","fatal"
  b,            \* processBatch's argument
  i,            \* the row the gate is at
  sub,          \* the share submitShare is queueing
  reprobed,     \* the self test has been re-run in this session
  TotalHashes, Submitted, Stale, GateStale, Miscompute,
  found,        \* history: shares the gate has let through
  cut,          \* history: shares given up because of Ctrl-C
  late          \* history: shares of this batch queued after the job rotated

counters == <<TotalHashes, Submitted, Stale, GateStale, Miscompute, found, cut, late>>
gateVars == <<mpc, b, i, sub, reprobed, counters>>
jobVars  == <<tip, pushed, cell>>
flowVars == <<clientVars, jobVars, gateVars>>

Rows       == 1..BatchSize
Candidates == [gpu : Pows, cpu : Pows]
Templates  == [work : Works, diff : Diffs]
BatchCtxs  == [work : Works, target : Nat, epoch : 1..MaxEpoch, no : 1..MaxBatches]
NoBatch    == [work |-> NoWork, target |-> 0, epoch |-> 0, no |-> 0]

GateInit ==
  /\ ClientInit /\ CellInit
  /\ tip \in Templates /\ pushed = <<>>
  /\ mpc = "job" /\ b = NoBatch /\ i = 1 /\ sub = NoShare /\ reprobed = FALSE
  /\ TotalHashes = 0 /\ Submitted = 0 /\ Stale = 0 /\ GateStale = 0
  /\ Miscompute = 0
  /\ found = 0 /\ cut = 0 /\ late = 0

\* The process ends when the mine loop does, with its goroutines wherever they
\* are.
Alive == mpc \notin {"exit", "fatal"}

\* (mutant) Ctrl-C is not looked at before the first job
Stops_OnlyWithJob == cancelled /\ cell.epoch > 0

\* The condition of both mine loops.
Stops == cancelled

-----------------------------------------------------------------------------
(* The daemon and the link *)

Rotate ==
  /\ cell.epoch < MaxEpoch
  /\ tip' \in Templates \ {tip}
  /\ UNCHANGED <<clientVars, pushed, cell, snap, gateVars>>

\* OnJob: the reader installs the pushed job.
OnJob ==
  /\ ReadJob /\ SetJob(tip.work, tip.diff)
  /\ pushed' = IF cell' = cell THEN pushed ELSE Append(pushed, tip)
  /\ UNCHANGED <<tip, snap, gateVars>>

Link(A) == A /\ UNCHANGED <<jobVars, snap, gateVars>>

-----------------------------------------------------------------------------
(* processBatch: the gate, row by row.  Rows do not depend on one another, *)
(* so a row's candidate r is chosen when the gate reaches it.              *)

Fresh == cell.epoch = b.epoch

\* The call: a batch whose job has rotated is dropped whole.
ProcessBatch(ctx) ==
  /\ TotalHashes' = TotalHashes + BatchSize
  /\ b' = ctx /\ i' = 1
  /\ mpc' = IF cell.epoch = ctx.epoch THEN "gate" ELSE "done"
  /\ UNCHANGED <<late, sub, reprobed, Submitted, Stale, GateStale, Miscompute, found, cut>>

\* Back in the loop processBatch's argument is out of scope.
LeaveBatch ==
  /\ b' = NoBatch /\ late' = 0
  /\ UNCHANGED <<i, sub, reprobed, TotalHashes, Submitted, Stale, GateStale, Miscompute, found, cut>>

\* On to the next row, or back to the loop after the last one.
NextRow ==
  /\ i' = IF i = BatchSize THEN 1 ELSE i + 1
  /\ mpc' = IF i = BatchSize THEN "done" ELSE "gate"

\* (mutant) the gate trusts the freshness check made when the batch arrived
GateFresh_Once == TRUE

GateFresh == Fresh

\* (mutant) the result of the CPU re-hash is ignored
RehashOK_Skipped(r) == TRUE

RehashOK(r) == r.cpu = r.gpu

Meets(r) == MeetsTarget(r.gpu, b.target)

GateMiss(r) ==
  /\ mpc = "gate" /\ ~Meets(r)
  /\ NextRow
  /\ UNCHANGED <<clientVars, jobVars, snap, b, sub, reprobed, counters>>

GateRotated(r) ==
  /\ mpc = "gate" /\ Meets(r) /\ ~GateFresh
  /\ GateStale' = GateStale + 1
  /\ i' = 1 /\ mpc' = "done"
  /\ UNCHANGED <<clientVars, jobVars, snap, b, sub, reprobed,
                 TotalHashes, Submitted, Stale, Miscompute, found, cut, late>>

\* onMiscompute: the first one of the session re-runs the self test, whose
\* failure is fatal.
GateMiscompute(r) ==
  /\ mpc = "gate" /\ Meets(r) /\ GateFresh /\ ~RehashOK(r)
  /\ Miscompute' = Miscompute + 1
  /\ reprobed' = TRUE
  /\ \/ NextRow
     \/ ~reprobed /\ mpc' = "fatal" /\ i' = i
  /\ UNCHANGED <<clientVars, jobVars, snap, b, sub, TotalHashes, Submitted,
                 Stale, GateStale, found, cut, late>>

Share(r) == [id    |-> (b.no - 1) * BatchSize + i,
             work  |-> b.work,
             epoch |-> b.epoch,
             cpu   |-> r.cpu]

GateSubmit(r) ==
  /\ mpc = "gate" /\ Meets(r) /\ GateFresh /\ RehashOK(r)
  /\ mpc' = "submit" /\ sub' = Share(r) /\ found' = found + 1
  /\ UNCHANGED <<clientVars, jobVars, snap, b, i, reprobed,
                 TotalHashes, Submitted, Stale, GateStale, Miscompute, cut, late>>

Gate(r) == GateMiss(r) \/ GateRotated(r) \/ GateMiscompute(r) \/ GateSubmit(r)

-----------------------------------------------------------------------------
(* submitShare *)

Room == Len(submits) < MailboxCap

\* submitShare returns to the gate.
Return == NextRow /\ sub' = NoShare

\* The share goes into the mailbox: at once, or when a slot frees while the
\* loop waits.  The epoch is not looked at again.
Send ==
  /\ mpc \in {"submit", "wait"} /\ Room
  /\ Enqueue(sub)
  /\ Submitted' = Submitted + 1
  /\ late' = IF Fresh THEN late ELSE late + 1
  /\ Return
  /\ UNCHANGED <<jobVars, snap, b, reprobed, TotalHashes, Stale, GateStale,
                 Miscompute, found, cut>>

Backpressure ==
  /\ mpc = "submit" /\ ~Room
  /\ mpc' = "wait"
  /\ UNCHANGED <<clientVars, jobVars, snap, b, i, sub, reprobed, counters>>

\* (mutant) only a rotation ends the wait
CanStillEarn_LinkIgnored == Fresh

CanStillEarn == Fresh /\ Connected

\* The 100 ms tick finds that the share can no longer earn.
Abandon ==
  /\ mpc = "wait" /\ ~CanStillEarn
  /\ Stale' = Stale + 1
  /\ Return
  /\ UNCHANGED <<clientVars, jobVars, snap, b, reprobed,
                 TotalHashes, Submitted, GateStale, Miscompute, found, cut, late>>

\* root.Done ends the wait uncounted; processBatch goes on with the next row.
WaitCancelled ==
  /\ mpc = "wait" /\ cancelled
  /\ cut' = cut + 1
  /\ Return
  /\ UNCHANGED <<clientVars, jobVars, snap, b, reprobed,
                 TotalHashes, Submitted, Stale, GateStale, Miscompute, found, late>>

SubmitShare == Send \/ Backpressure \/ Abandon \/ WaitCancelled

Environment == Rotate \/ OnJob \/ Link(ClientStep)

\* The client's goroutines keep running while the process does.
LinkFairness ==
  /\ WF_flowVars(Alive /\ Link(Run \/ DialFail \/ DialOK \/ Join \/ Served))
  /\ WF_flowVars(Alive /\ Link(BackoffCancel \/ BackoffExpire))
  /\ WF_flowVars(Alive /\ Link(ReadFail /\ sock[conn] = "closed"))
  /\ \A c \in Conns : WF_flowVars(Alive /\ Link(Writer(c)))

-----------------------------------------------------------------------------
GateTypeOK ==
  /\ cell \in Cells /\ snap \in Cells
  /\ tip \in Templates /\ pushed \in Seq(Templates)
  /\ b \in BatchCtxs \cup {NoBatch}
  /\ i \in Rows /\ sub \in Shares \cup {NoShare} /\ reprobed \in BOOLEAN
  /\ TotalHashes \in Nat /\ Submitted \in Nat /\ Stale \in Nat /\ GateStale \in Nat
  /\ Miscompute \in Nat /\ found \in Nat /\ cut \in Nat /\ late \in Nat

InRange(s) == {s[k] : k \in DOMAIN s}

\* Every share that has left the mine loop, wherever it is now.
Queued == InRange(submits) \cup InRange(sent) \cup lost
          \cup {held[c] : c \in {d \in Conns : held[d] # NoShare}}

\* The guarantee of DEPLOY.md section 4: what is submitted is a solution.  The
\* hash the CPU computes for the share, times the difficulty the daemon pushed
\* with the job named in the share, does not exceed the hash space; and the
\* template under the share is the one pushed with that job.
OnlySolutionsSubmitted ==
  \A s \in Queued :
    /\ s.epoch \in DOMAIN pushed
    /\ s.work = pushed[s.epoch].work
    /\ s.cpu * pushed[s.epoch].diff <= HashSpace

\* Nor is a solution of a batch thrown away as a miss: the target the batch was
\* handed to the gate with, however many jobs came since, passes exactly the hashes
\* that solve the difficulty pushed with its job, 1 included, whose target would
\* need one bit more than it has (difficulty.go:18).
GateIsExact ==
  mpc = "gate" =>
    /\ b.epoch \in DOMAIN pushed
    /\ \A pow \in Pows : MeetsTarget(pow, b.target) <=> pow * pushed[b.epoch].diff <= HashSpace

\* No share is lost without trace or doubled: each one the gate let through is
\* being submitted, abandoned (Stale), cut off by Ctrl-C or Submitted; and each
\* one Submitted is in the mailbox, in a writer's hands, written, or a
\* SendFail.
SharesAccounted ==
  /\ found = Submitted + Stale + cut + (IF mpc \in {"submit", "wait"} THEN 1 ELSE 0)
  /\ Submitted = Len(submits) + Cardinality({c \in Conns : held[c] # NoShare})
                 + Len(sent) + SendFails

\* The price of checking the epoch before the re-hash and not after it: of one
\* batch at most one share is queued for a job that has rotated.
AtMostOneLate == late <= 1

\* A share waiting for room never parks the mine loop for good, whatever the
\* link does (the reason for the connected check, main.go:491-496).
WaitEnds == mpc = "wait" ~> mpc # "wait"

\* Ctrl-C ends the process, also from inside a wait for a full mailbox.
CtrlCStops == cancelled ~> ~Alive

\* While the link stays up a queued share does not stay in the mailbox.
MailboxDrains ==
  \A n \in ShareIds :
    (\E k \in DOMAIN submits : submits[k].id = n)
      ~> (~Connected \/ ~Alive \/ \A k \in DOMAIN submits : submits[k].id # n)

=============================================================================

------------------------------ MODULE JobState ------------------------------
(***************************************************************************)
(* internal/miner/state.go with its mutex: SetJob is called by the getwork *)
(* reader goroutine, Job by the mine loop, Epoch by the mine loop without  *)
(* the mutex.  The fields blob and jobid are one value, work, because the  *)
(* code compares and writes them together.                                 *)
(***************************************************************************)
EXTENDS Difficulty, Sequences

CONSTANTS Works, Diffs, NoWork, MaxEpoch,
          Malformed   \* a pushed blob that fails the length, hex or version check

ASSUME JobAssumption ==
  /\ NoWork \notin Works
  /\ Malformed \notin Works
  /\ Diffs \subseteq Nat \ {0}
  /\ MaxEpoch \in Nat

VARIABLES
  mu,                 \* holder of State.mu: "free", "set" or "job"
  work, target,       \* the guarded fields
  epoch,              \* atomic, written with the mutex held
  diff,               \* the mirrored State.Diff, atomic
  pc,                 \* SetJob: "idle", "lock", "store", "bump"
  job,                \* SetJob's argument
  ret,                \* what the last finished SetJob returned
  jpc,                \* Job: "idle", "lock", "read", "epoch"
  part,               \* the fields Job has read so far
  snap,               \* the last snapshot Job returned
  installed           \* history: the job of each epoch

setVars == <<work, target, epoch, diff, pc, job, ret, installed>>
jobVars == <<jpc, part, snap>>
vars    == <<mu, setVars, jobVars>>

Jobs  == [work : Works \cup {Malformed}, diff : Diffs \cup {0}]
NoJob == [work |-> NoWork, diff |-> 0]

EmptySnap == [work |-> NoWork, target |-> 0, epoch |-> 0]

Init ==
  /\ mu = "free" /\ work = NoWork /\ target = 0 /\ epoch = 0 /\ diff = 0
  /\ pc = "idle" /\ job = NoJob /\ ret = "none"
  /\ jpc = "idle" /\ part = EmptySnap /\ snap = EmptySnap
  /\ installed = <<>>

\* (mutant) a critical section entered without looking at the mutex
Lock_NoMutex(who) == mu' = who

Lock(who) == mu = "free" /\ mu' = who

\* (mutant) the critical section is left with the mutex held
Unlock_Forgotten == mu' = mu

Unlock == mu' = "free"

Valid(j) == j.work \in Works /\ j.diff # 0

\* SetJob checks the push; an invalid one changes nothing.
SetJobReject(j) ==
  /\ pc = "idle" /\ ~Valid(j)
  /\ ret' = "error"
  /\ UNCHANGED <<mu, work, target, epoch, diff, pc, job, installed, jobVars>>

\* A valid one is mirrored to the status counters before the mutex is taken.
SetJobMirror(j) ==
  /\ pc = "idle" /\ Valid(j) /\ epoch < MaxEpoch
  /\ diff' = j.diff /\ job' = j /\ pc' = "lock"
  /\ UNCHANGED <<mu, work, target, epoch, ret, installed, jobVars>>

\* (mutant) every push counts as a change
SameWork_Never == FALSE

SameWork == job.work = work

\* Locked and unchanged: SetJob returns false at once.
SetJobSame ==
  /\ pc = "lock" /\ mu = "free" /\ SameWork
  /\ ret' = "same" /\ pc' = "idle"
  /\ UNCHANGED <<mu, work, target, epoch, diff, job, installed, jobVars>>

SetJobLock ==
  /\ pc = "lock" /\ Lock("set") /\ ~SameWork
  /\ pc' = "store"
  /\ UNCHANGED <<work, target, epoch, diff, job, ret, installed, jobVars>>

SetJobStore ==
  /\ pc = "store"
  /\ work' = job.work /\ target' = ComputeTarget(job.diff) /\ pc' = "bump"
  /\ UNCHANGED <<mu, epoch, diff, job, ret, installed, jobVars>>

SetJobBump ==
  /\ pc = "bump" /\ Unlock
  /\ epoch' = epoch + 1
  /\ installed' = Append(installed, [work |-> work, target |-> target])
  /\ ret' = "changed" /\ pc' = "idle"
  /\ UNCHANGED <<work, target, diff, job, jobVars>>

JobCall ==
  /\ jpc = "idle" /\ jpc' = "lock"
  /\ UNCHANGED <<mu, setVars, part, snap>>

JobLock ==
  /\ jpc = "lock" /\ Lock("job")
  /\ jpc' = "read"
  /\ UNCHANGED <<setVars, part, snap>>

JobRead ==
  /\ jpc = "read"
  /\ part' = [work |-> work, target |-> target, epoch |-> 0]
  /\ jpc' = "epoch"
  /\ UNCHANGED <<mu, setVars, snap>>

JobReturn ==
  /\ jpc = "epoch" /\ Unlock
  /\ snap' = [part EXCEPT !.epoch = epoch]
  /\ jpc' = "idle"
  /\ UNCHANGED <<setVars, part>>

Next ==
  \/ \E j \in Jobs : SetJobReject(j) \/ SetJobMirror(j)
  \/ SetJobSame \/ SetJobLock \/ SetJobStore \/ SetJobBump
  \/ JobCall \/ JobLock \/ JobRead \/ JobReturn

Spec == Init /\ [][Next]_vars

\* Goroutines keep running; sync.Mutex does not starve a waiter, whence SF on
\* the two acquisitions.
Fairness ==
  /\ SF_vars(SetJobSame \/ SetJobLock) /\ WF_vars(SetJobStore \/ SetJobBump)
  /\ SF_vars(JobLock) /\ WF_vars(JobRead \/ JobReturn)

FairSpec == Spec /\ Fairness

-----------------------------------------------------------------------------
Snaps == [work : Works \cup {NoWork}, target : Nat, epoch : Nat]

\* Types of the variables of State, SetJob and Job.
TypeOK ==
  /\ mu \in {"free", "set", "job"}
  /\ work \in Works \cup {NoWork} /\ target \in Nat /\ epoch \in Nat
  /\ diff \in Diffs \cup {0}
  /\ pc \in {"idle", "lock", "store", "bump"}
  /\ job \in Jobs \cup {NoJob}
  /\ ret \in {"none", "error", "same", "changed"}
  /\ jpc \in {"idle", "lock", "read", "epoch"}
  /\ part \in Snaps /\ snap \in Snaps
  /\ installed \in Seq([work : Works, target : Nat])

\* Job never returns a torn snapshot: the work and the target it hands the
\* mine loop are those installed with the epoch it hands out (state.go:101).
SnapshotConsistent ==
  snap.epoch > 0 =>
    /\ snap.epoch \in DOMAIN installed
    /\ [work |-> snap.work, target |-> snap.target] = installed[snap.epoch]

\* The lock-free staleness check is sound: a snapshot whose epoch is still the
\* current one is of the work being mined, unless a SetJob sits between its
\* field writes and its epoch bump.
FreshIsCurrent ==
  snap.epoch = epoch /\ pc # "bump" => snap.work = work /\ snap.target = target

\* An epoch change always means new work: two neighbouring epochs never hold
\* the same template, so a share is never called stale by a mere re-push.
EpochMeansNewWork ==
  \A e \in DOMAIN installed :
    e > 1 => installed[e].work # installed[e - 1].work

\* Every SetJob and every Job call returns: the reader goroutine is never parked
\* for good behind the mine loop's snapshots, nor the mine loop behind pushes.
CallsReturn == (pc # "idle" ~> pc = "idle") /\ (jpc # "idle" ~> jpc = "idle")

\* The code with its mutex behaves as a cell replaced and read as a whole.
\* The cell changes at the epoch bump, which Epoch() shows without the mutex.
current ==
  IF epoch = 0 THEN EmptySnap
  ELSE [work   |-> installed[epoch].work,
        target |-> installed[epoch].target,
        epoch  |-> epoch]

Cell == INSTANCE JobCell WITH cell <- current, snap <- snap

ImplementsCell == Cell!CellSpec

=============================================================================

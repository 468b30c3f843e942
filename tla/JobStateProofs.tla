--------------------------- MODULE JobStateProofs ---------------------------
(***************************************************************************)
(* The job cell is a cell: proofs about module JobState for any number of  *)
(* templates, any difficulties and any bound on the epochs.                *)
(***************************************************************************)
EXTENDS JobState, TLAPS

\* Who may be inside the critical section.
MutexInv ==
  /\ mu = "set" <=> pc \in {"store", "bump"}
  /\ mu = "job" <=> jpc \in {"read", "epoch"}

\* SetJob is working on a valid push that differs from the installed work.
PushInv ==
  /\ pc # "idle" => job \in [work : Works, diff : Diffs] /\ epoch < MaxEpoch
  /\ pc = "store" => job.work # work
  /\ pc = "bump" => /\ work = job.work /\ target = ComputeTarget(job.diff)
                    /\ epoch > 0 => work # installed[epoch].work

\* The fields are those of the newest epoch, but for a SetJob about to bump it.
CellInv ==
  /\ Len(installed) = epoch
  /\ pc # "bump" /\ epoch > 0 => [work |-> work, target |-> target] = installed[epoch]
  /\ pc # "bump" /\ epoch = 0 => work = NoWork /\ target = 0

\* Job's partial copy is current while it holds the mutex; its last snapshot
\* is of some epoch.
SnapInv ==
  /\ jpc = "epoch" => part.work = work /\ part.target = target
  /\ snap.epoch <= epoch
  /\ snap.epoch = 0 => snap.work = NoWork /\ snap.target = 0
  /\ SnapshotConsistent

IInv == TypeOK /\ MutexInv /\ PushInv /\ CellInv /\ SnapInv /\ EpochMeansNewWork

\* ComputeTarget returns a number for every difficulty SetJob lets through.
LEMMA TargetType == \A d \in Nat : ComputeTarget(d) \in Nat
BY HashSpaceAssumption DEF ComputeTarget

\* The invariant holds at the start.
LEMMA InitInv == Init => IInv
BY DEF Init, IInv, TypeOK, MutexInv, PushInv, CellInv, SnapInv, SnapshotConsistent,
       EpochMeansNewWork, Snaps, EmptySnap, NoJob, Jobs

\* Rejecting a push leaves the cell alone.
LEMMA RejectInv == ASSUME IInv, NEW j \in Jobs, SetJobReject(j) PROVE IInv'
BY DEF SetJobReject, IInv, TypeOK, MutexInv, PushInv, CellInv, SnapInv, jobVars,
       SnapshotConsistent, EpochMeansNewWork, Snaps

\* So does a push that changes nothing.
LEMMA SameInv == ASSUME IInv, SetJobSame PROVE IInv'
BY DEF SetJobSame, IInv, TypeOK, MutexInv, PushInv, CellInv, SnapInv, jobVars,
       SnapshotConsistent, EpochMeansNewWork, Snaps

\* Only a valid push is taken on.
LEMMA MirrorInv == ASSUME IInv, NEW j \in Jobs, SetJobMirror(j) PROVE IInv'
BY JobAssumption
   DEF SetJobMirror, Valid, IInv, TypeOK, MutexInv, PushInv, CellInv, SnapInv, Jobs,
       jobVars, SnapshotConsistent, EpochMeansNewWork, Snaps

\* SetJob enters the critical section only for a change.
LEMMA LockInv == ASSUME IInv, SetJobLock PROVE IInv'
BY DEF SetJobLock, Lock, SameWork, IInv, TypeOK, MutexInv, PushInv, CellInv, SnapInv,
       jobVars, SnapshotConsistent, EpochMeansNewWork, Snaps

\* The field writes: Job is not reading, because the mutex is held.
LEMMA StoreInv == ASSUME IInv, SetJobStore PROVE IInv'
<1>1. job.work \in Works /\ ComputeTarget(job.diff) \in Nat
  BY TargetType, JobAssumption DEF IInv, PushInv, SetJobStore
<1>2. TypeOK'
  BY <1>1 DEF SetJobStore, IInv, TypeOK, jobVars
<1>3. MutexInv' /\ PushInv' /\ CellInv' /\ EpochMeansNewWork'
  BY <1>1 DEF SetJobStore, IInv, TypeOK, MutexInv, PushInv, CellInv, jobVars,
              EpochMeansNewWork
<1>4. SnapInv'
  BY DEF SetJobStore, IInv, TypeOK, MutexInv, SnapInv, SnapshotConsistent, jobVars, Snaps
<1>. QED BY <1>2, <1>3, <1>4 DEF IInv

\* The bump publishes the fields as the job of the next epoch.
LEMMA BumpInv == ASSUME IInv, SetJobBump PROVE IInv'
<1>. DEFINE new == [work |-> work, target |-> target]
<1>1. /\ new \in [work : Works, target : Nat]
      /\ installed \in Seq([work : Works, target : Nat])
      /\ installed' = Append(installed, new)
      /\ Len(installed) = epoch /\ epoch \in Nat /\ epoch' = epoch + 1
  BY DEF SetJobBump, IInv, TypeOK, PushInv, CellInv
<1>2. /\ installed' \in Seq([work : Works, target : Nat])
      /\ Len(installed') = epoch' /\ installed'[epoch'] = new
      /\ \A e \in DOMAIN installed : installed'[e] = installed[e] /\ e \in DOMAIN installed'
  BY <1>1
<1>3. TypeOK'
  BY <1>2 DEF SetJobBump, Unlock, IInv, TypeOK, jobVars
<1>4. MutexInv' /\ PushInv' /\ CellInv'
  BY <1>1, <1>2 DEF SetJobBump, Unlock, IInv, TypeOK, MutexInv, PushInv, CellInv, jobVars
<1>5. SnapInv'
  BY <1>1, <1>2 DEF SetJobBump, IInv, TypeOK, MutexInv, SnapInv, SnapshotConsistent,
                    jobVars, Snaps
<1>6. EpochMeansNewWork'
  <2>. SUFFICES ASSUME NEW e \in DOMAIN installed', e > 1
                PROVE  installed'[e].work # installed'[e - 1].work
    BY DEF EpochMeansNewWork
  <2>1. e \in 1..(epoch + 1)
    BY <1>1, <1>2
  <2>2. CASE e = epoch + 1
    BY <1>1, <1>2, <2>2 DEF SetJobBump, IInv, PushInv
  <2>3. CASE e <= epoch
    BY <1>1, <1>2, <2>1, <2>3 DEF IInv, EpochMeansNewWork
  <2>. QED BY <1>1, <2>1, <2>2, <2>3
<1>. QED BY <1>3, <1>4, <1>5, <1>6 DEF IInv

\* Job's own steps.
LEMMA JobInv ==
  ASSUME IInv, JobCall \/ JobLock \/ JobRead \/ JobReturn
  PROVE  IInv'
<1>1. CASE JobLock
  BY <1>1 DEF JobLock, Lock, IInv, TypeOK, MutexInv, PushInv, CellInv, SnapInv, setVars,
              SnapshotConsistent, EpochMeansNewWork, Snaps
<1>2. CASE JobRead
  BY <1>2 DEF JobRead, IInv, TypeOK, MutexInv, PushInv, CellInv, SnapInv, setVars,
              SnapshotConsistent, EpochMeansNewWork, Snaps
<1>3. CASE JobReturn
  <2>1. /\ part \in Snaps /\ epoch \in Nat /\ pc \notin {"store", "bump"}
        /\ snap' = [work |-> work, target |-> target, epoch |-> epoch]
    BY <1>3 DEF JobReturn, IInv, TypeOK, MutexInv, SnapInv, Snaps
  <2>2. TypeOK'
    BY <1>3, <2>1 DEF JobReturn, Unlock, IInv, TypeOK, setVars, Snaps
  <2>3. MutexInv' /\ PushInv' /\ CellInv' /\ EpochMeansNewWork'
    BY <1>3 DEF JobReturn, Unlock, IInv, TypeOK, MutexInv, PushInv, CellInv, setVars,
                EpochMeansNewWork
  <2>4. SnapInv'
    BY <1>3, <2>1 DEF JobReturn, IInv, TypeOK, CellInv, SnapInv, SnapshotConsistent, setVars
  <2>. QED BY <2>2, <2>3, <2>4 DEF IInv
<1>4. CASE JobCall
  BY <1>4 DEF JobCall, IInv, TypeOK, MutexInv, PushInv, CellInv, SnapInv, setVars,
              SnapshotConsistent, EpochMeansNewWork, Snaps
<1>. QED BY <1>1, <1>2, <1>3, <1>4

\* Every step keeps the invariant.
LEMMA StepInv == IInv /\ [Next]_vars => IInv'
<1>. SUFFICES ASSUME IInv, [Next]_vars PROVE IInv'
  OBVIOUS
<1>1. CASE \E j \in Jobs : SetJobReject(j) \/ SetJobMirror(j)
  BY <1>1, RejectInv, MirrorInv
<1>2. CASE SetJobSame \/ SetJobLock \/ SetJobStore \/ SetJobBump
  BY <1>2, SameInv, LockInv, StoreInv, BumpInv
<1>3. CASE JobCall \/ JobLock \/ JobRead \/ JobReturn
  BY <1>3, JobInv
<1>4. CASE UNCHANGED vars
  BY <1>4 DEF vars, setVars, jobVars, IInv, TypeOK, MutexInv, PushInv, CellInv, SnapInv,
              SnapshotConsistent, EpochMeansNewWork, Snaps
<1>. QED BY <1>1, <1>2, <1>3, <1>4 DEF Next

\* The invariant is an invariant.
THEOREM Invariance == Spec => []IInv
BY InitInv, StepInv, PTL DEF Spec

\* Every variable keeps its type.
THEOREM TypeCorrect == Spec => []TypeOK
<1>. IInv => TypeOK
  BY DEF IInv
<1>. QED BY Invariance, PTL

\* The mine loop never builds a batch from a torn snapshot (state.go:101-106).
THEOREM NeverTorn == Spec => []SnapshotConsistent
<1>. IInv => SnapshotConsistent
  BY DEF IInv, SnapInv
<1>. QED BY Invariance, PTL

\* The lock-free epoch check of the mine loop is sound (state.go:109).
THEOREM FreshnessSound == Spec => []FreshIsCurrent
<1>. IInv => FreshIsCurrent
  BY DEF IInv, TypeOK, Snaps, CellInv, SnapInv, SnapshotConsistent, FreshIsCurrent
<1>. QED BY Invariance, PTL

\* A re-push of the same work never makes a batch stale (state.go:91).
THEOREM EpochsDiffer == Spec => []EpochMeansNewWork
<1>. IInv => EpochMeansNewWork
  BY DEF IInv
<1>. QED BY Invariance, PTL

-----------------------------------------------------------------------------
(* Refinement: the mutex-protected fields are one cell. *)

\* The empty state maps to the empty cell.
LEMMA RefinesInit == Init => Cell!CellInit
BY DEF Init, current, Cell!CellInit, Cell!EmptyCell, EmptySnap

\* The epoch bump is the moment the cell is replaced.
LEMMA BumpRefines == ASSUME IInv, SetJobBump PROVE Cell!CellNext
<1>1. /\ epoch \in Nat /\ epoch' = epoch + 1 /\ epoch < MaxEpoch /\ Len(installed) = epoch
      /\ installed \in Seq([work : Works, target : Nat])
      /\ installed' = Append(installed, [work |-> work, target |-> target])
      /\ job.work \in Works /\ job.diff \in Diffs /\ snap' = snap
      /\ work = job.work /\ target = ComputeTarget(job.diff)
      /\ epoch > 0 => work # installed[epoch].work
  BY DEF SetJobBump, IInv, TypeOK, PushInv, CellInv, jobVars
<1>2. /\ installed'[epoch'] = [work |-> work, target |-> target]
      /\ epoch' # 0 /\ NoWork \notin Works
  BY <1>1, JobAssumption
<1>3. current' = [work |-> work, target |-> target, epoch |-> epoch + 1]
  BY <1>1, <1>2 DEF current
<1>4. current.epoch = epoch /\ current.work # job.work
  BY <1>1, <1>2 DEF current, EmptySnap
<1>5. Cell!SetJob(job.work, job.diff)
  BY <1>1, <1>3, <1>4 DEF Cell!SetJob, Cell!ComputeTarget, ComputeTarget
<1>. QED BY <1>1, <1>4, <1>5 DEF Cell!CellNext

\* Job's last step reads the cell as a whole.
LEMMA ReturnRefines == ASSUME IInv, JobReturn PROVE Cell!CellNext
<1>1. /\ part \in Snaps /\ epoch \in Nat /\ pc \notin {"store", "bump"}
      /\ snap' = [work |-> work, target |-> target, epoch |-> epoch]
      /\ UNCHANGED <<epoch, installed>>
  BY DEF JobReturn, IInv, TypeOK, MutexInv, SnapInv, Snaps, setVars
<1>2. /\ epoch > 0 => work = installed[epoch].work /\ target = installed[epoch].target
      /\ epoch = 0 => work = NoWork /\ target = 0
  BY <1>1 DEF IInv, CellInv
<1>3. snap' = current /\ current' = current
  BY <1>1, <1>2 DEF current, EmptySnap
<1>. QED BY <1>3 DEF Cell!CellNext, Cell!Job

\* Every step of the code is a step of the cell or leaves it alone.
LEMMA RefinesStep == IInv /\ [Next]_vars => [Cell!CellNext]_<<current, snap>>
<1>. SUFFICES ASSUME IInv, [Next]_vars
              PROVE  Cell!CellNext \/ UNCHANGED <<current, snap>>
  OBVIOUS
<1>1. CASE SetJobBump
  BY <1>1, BumpRefines
<1>2. CASE JobReturn
  BY <1>2, ReturnRefines
<1>3. CASE UNCHANGED <<epoch, installed, snap>>
  BY <1>3 DEF current
<1>4. CASE \E j \in Jobs : SetJobReject(j) \/ SetJobMirror(j)
  BY <1>3, <1>4 DEF SetJobReject, SetJobMirror, jobVars
<1>5. CASE SetJobSame \/ SetJobLock \/ SetJobStore
  BY <1>3, <1>5 DEF SetJobSame, SetJobLock, SetJobStore, jobVars
<1>6. CASE JobCall \/ JobLock \/ JobRead
  BY <1>3, <1>6 DEF JobCall, JobLock, JobRead, setVars
<1>7. CASE UNCHANGED vars
  BY <1>3, <1>7 DEF vars, setVars, jobVars
<1>. QED BY <1>1, <1>2, <1>4, <1>5, <1>6, <1>7 DEF Next

\* The fields behind the mutex, read and written one by one, behave as one
\* cell that SetJob replaces and Job reads as a whole.
THEOREM Refinement == Spec => ImplementsCell
BY Invariance, RefinesInit, RefinesStep, PTL DEF Spec, ImplementsCell, Cell!CellSpec

=============================================================================

------------------------------ MODULE JobCell -------------------------------
(***************************************************************************)
(* What internal/miner/state.go promises the mine loop: one cell holding   *)
(* the current work, its target and its epoch, replaced as a whole by      *)
(* SetJob and read as a whole by Job.  Module JobState is the code with    *)
(* its mutex and its separate field writes; it implements this module.     *)
(***************************************************************************)
EXTENDS Difficulty

CONSTANTS Works,      \* what tells two templates apart: the pair blob, jobid
          Diffs,      \* difficulties of valid jobs
          NoWork,     \* the zero blob and jobid before the first job
          MaxEpoch    \* bound on the number of job changes

ASSUME CellAssumption ==
  /\ NoWork \notin Works
  /\ Diffs \subseteq Nat \ {0}
  /\ MaxEpoch \in Nat

VARIABLES cell,       \* the installed job
          snap        \* the mine loop's last snapshot

Cells == [work : Works \cup {NoWork}, target : Nat, epoch : Nat]

EmptyCell == [work |-> NoWork, target |-> 0, epoch |-> 0]

\* The locked part of SetJob: only a change of the work replaces the cell, so
\* a push that changes the difficulty alone leaves the target as it was.
SetJob(w, d) ==
  cell' = IF w = cell.work
            THEN cell
            ELSE [work |-> w, target |-> ComputeTarget(d), epoch |-> cell.epoch + 1]

Job == snap' = cell

CellInit == cell = EmptyCell /\ snap = EmptyCell

CellNext ==
  \/ /\ cell.epoch < MaxEpoch
     /\ \E w \in Works, d \in Diffs : SetJob(w, d)
     /\ UNCHANGED snap
  \/ Job /\ UNCHANGED cell

CellSpec == CellInit /\ [][CellNext]_<<cell, snap>>

=============================================================================

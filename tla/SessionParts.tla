---------------------------- MODULE SessionParts -----------------------------
(***************************************************************************)
(* What a context does with one session of its caches: its build and its   *)
(* release (SessionBuild), and the batches that reuse it (OneShot).  Their  *)
(* variables are declared here, some under other names, so that the caches  *)
(* themselves (Sessions) can stand beside them.                             *)
(***************************************************************************)
LOCAL INSTANCE Integers

CONSTANT Kinds
VARIABLES kind, steps, active, whole, made, live, twice, phase

Build == INSTANCE SessionBuild WITH todo <- steps

CONSTANTS Slab, Stride, Word, MaxTied, Texts, MaxRuns
VARIABLES session, call, batch, pc, text, lens, count, sa, flag, lensStaging, staging, result, used

Run == INSTANCE OneShot WITH kind <- session, calls <- used, MaxCalls <- MaxRuns

ASSUME RunAssumption == Run!OneShotAssumption

-----------------------------------------------------------------------------
\* A build that fails anywhere, and a release, give everything back once; what
\* a step needs exists, and no bind group is larger than the guard asked for.
BuildsAreSound ==
  Build!NothingLeft /\ Build!ReleasedOnce /\ Build!NeedsMade /\ Build!GuardCovers

\* Each row of a batch gets its own suffix array, and a call fails for a text
\* of its own only, whatever batch used the session before (fused.go:297-431).
RowsOfThisBatch == Run!RowsAreOwn /\ Run!OverflowIsOwn
=============================================================================

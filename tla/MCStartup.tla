----------------------------- MODULE MCStartup -------------------------------
(***************************************************************************)
(* TLC instance of the two programs that open GPUs: the start of the miner  *)
(* (Startup) and the sweep over all backends with one child each            *)
(* (VerifyBackends).  part is the one that runs; the other rests in an      *)
(* initial state.  Rows are of two entries, eight bytes: a binding takes no *)
(* row limit, or one, or three rows; the native path needs three for its    *)
(* archive.                                                                 *)
(***************************************************************************)
EXTENDS Startup, Sequences

CONSTANTS Combos

VARIABLES part
VARIABLES records, child, printed, pipe, scanner, found, waited, main, printedBy

Sweep == INSTANCE VerifyBackends WITH done <- waited

MCDefaults == [binding |-> 20, size |-> 32, storage |-> 8]

MCInit ==
  /\ part \in {"miner", "sweep"}
  /\ Init
  \* An adapter that is neither behaves as one that is not both.
  /\ adapter.nvidia \/ adapter.vulkan
  /\ part = "miner" \/ /\ adapter = CHOOSE a \in Adapters : a.nvidia /\ a.vulkan
                       /\ flags.sapath = "auto" /\ flags.mode = "json"
                       /\ flags.batch = CHOOSE b \in Batches : TRUE
                       /\ flags.n = CHOOSE n \in BenchSizes : TRUE
  /\ Sweep!Init

sweepVars == <<records, child, printed, pipe, scanner, found, waited, main, printedBy>>

Runs(p, A) == part = p /\ A

MCNext ==
  \/ Runs("miner", Next)       /\ UNCHANGED <<part, sweepVars>>
  \/ Runs("sweep", Sweep!Next) /\ UNCHANGED <<part, vars>>

MCSpec ==
  /\ MCInit /\ [][MCNext]_<<part, vars, sweepVars>>
  /\ WF_vars(Runs("miner", Main))
  /\ WF_sweepVars(Runs("sweep", Sweep!RunCombo)) /\ WF_sweepVars(Runs("sweep", Sweep!Scan))
  /\ WF_sweepVars(Runs("sweep", Sweep!Send)) /\ WF_sweepVars(Runs("sweep", Sweep!Wait))

-----------------------------------------------------------------------------
\* "hash N inputs ... and report H/s, then exit" (main.go:41), for a batch that
\* holds rows or a path that refuses one that does not, and never for another.
BenchesAreExact == []BenchCounts /\ []BenchHadRows /\ RowsEndBench

\* "One hostile driver must not void the matrix" (verifybackends main.go:5): the
\* sweep ends, one child at a time, and records of each its own result.
SweepIsSound == part = "sweep" => []Sweep!RecordsAreOwn /\ []Sweep!OneChild /\ Sweep!SweepEnds
=============================================================================

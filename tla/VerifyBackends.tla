--------------------------- MODULE VerifyBackends ----------------------------
(***************************************************************************)
(* The verification sweep (cmd/verifybackends): the miner's self test in   *)
(* one child process per combination, each under a time budget.  Of every  *)
(* combination run at once: the child, the goroutine that scans its        *)
(* stdout, the goroutine in cmd.Wait, two timers, and runCombo, which      *)
(* turns whatever happened into one record.                                *)
(***************************************************************************)
EXTENDS Naturals, Sequences

CONSTANTS Combos   \* how many combinations there are

Results == {"pass", "fail", "skip"}
None == "none"
Missing == "no record"       \* the two ways of runCombo to do without a record
TimedOut == "timeout"

VARIABLES
  records,    \* one per combination that is over
  child,      \* "none", "running", "exited"
  printed,    \* the record the child has printed
  pipe,       \* its stdout: a record to be read, None, or "closed"
  scanner,    \* "none", "scan", "over", or the record it is about to send
  found,      \* the channels, each with room for one
  done,
  main,       \* "next", "select", "grace", "killed" (a record is there), "late" (none is)
  printedBy   \* what the children of the combinations that are over have printed

vars == <<records, child, printed, pipe, scanner, found, done, main, printedBy>>

Init ==
  /\ records = <<>> /\ printedBy = <<>>
  /\ child = "none" /\ printed = None /\ pipe = None /\ scanner = "none"
  /\ found = None /\ done = FALSE
  /\ main = "next"

-----------------------------------------------------------------------------
(* runCombo                                                                *)

More == Len(records) < Combos

\* cmd.Start, with channels of this combination alone.
NewFound == None
Start ==
  /\ main = "next" /\ More
  /\ child' = "running" /\ printed' = None /\ pipe' = None /\ scanner' = "scan"
  /\ found' = NewFound /\ done' = FALSE
  /\ main' = "select"
  /\ UNCHANGED <<records, printedBy>>

Return(r) ==
  /\ records' = Append(records, r) /\ printedBy' = Append(printedBy, printed)
  /\ main' = "next"

StartFails ==
  /\ main = "next" /\ More
  /\ records' = Append(records, "fail") /\ printedBy' = Append(printedBy, "fail")
  /\ UNCHANGED <<child, printed, pipe, scanner, found, done, main>>

\* The select: the record, the end of the child, the time budget; several may
\* be ready.
GotRecord ==
  /\ main = "select" /\ found # None
  /\ main' = "grace"
  /\ UNCHANGED <<records, printedBy, child, printed, pipe, scanner, found, done>>
ChildOver ==
  /\ main = "select" /\ done
  /\ Return(IF found # None THEN found ELSE Missing)
  /\ UNCHANGED <<child, printed, pipe, scanner, found, done>>

Killed_Not == child  \* (mutant) Kill is forgotten
Killed == "exited"
Timeout ==
  /\ main = "select"
  /\ child' = Killed /\ main' = "late"
  /\ UNCHANGED <<records, printedBy, printed, pipe, scanner, found, done>>

\* With the record in hand: the child may finish, but not for ever.
Finished ==
  /\ main \in {"grace", "killed", "late"} /\ done
  /\ Return(IF main = "late" THEN TimedOut ELSE found)
  /\ UNCHANGED <<child, printed, pipe, scanner, found, done>>
GraceOver == child' = Killed /\ main' = "killed" /\ UNCHANGED <<records, printedBy>>
GraceTimer ==
  /\ main = "grace"
  /\ GraceOver
  /\ UNCHANGED <<printed, pipe, scanner, found, done>>

-----------------------------------------------------------------------------
(* The goroutines of a combination.                                        *)

Scan ==
  /\ scanner = "scan"
  /\ scanner' = IF pipe \in Results THEN pipe ELSE "over"
  /\ pipe \in Results \/ pipe = "closed" \/ child = "exited"
  /\ pipe' = IF pipe = "closed" THEN pipe ELSE None
  /\ UNCHANGED <<records, printedBy, child, printed, found, done, main>>

Send ==
  /\ scanner \in Results
  /\ found' = scanner /\ scanner' = "over"
  /\ UNCHANGED <<records, printedBy, child, printed, pipe, done, main>>

\* cmd.Wait closes the pipe as soon as it has seen the child's exit, whether or
\* not it has been read to the end.
Wait ==
  /\ child = "exited" /\ ~done
  /\ pipe' = "closed" /\ done' = TRUE
  /\ UNCHANGED <<records, printedBy, child, printed, scanner, found, main>>

-----------------------------------------------------------------------------
(* The child: prints one record, or none; ends, crashes or hangs.          *)

PrintRecord ==
  /\ child = "running" /\ printed = None
  /\ \E r \in Results : printed' = r /\ pipe' = r
  /\ UNCHANGED <<records, printedBy, child, scanner, found, done, main>>
Exit ==
  /\ child = "running" /\ child' = "exited"
  /\ UNCHANGED <<records, printedBy, printed, pipe, scanner, found, done, main>>

RunCombo == Start \/ StartFails \/ GotRecord \/ ChildOver \/ Timeout \/ Finished \/ GraceTimer
Next == RunCombo \/ Scan \/ Send \/ Wait \/ PrintRecord \/ Exit

\* The Go scheduler and the timers; the child owes nothing.
Spec == Init /\ [][Next]_vars /\ WF_vars(RunCombo) /\ WF_vars(Scan) /\ WF_vars(Send) /\ WF_vars(Wait)

-----------------------------------------------------------------------------
(* Properties.                                                             *)

\* A combination that is recorded with the miner's result was given that result
\* by its own child, not by an earlier one.
RecordsAreOwn ==
  \A k \in DOMAIN records : records[k] \in Results => records[k] = printedBy[k]

\* The next child starts only when the last has ended and was waited for: two
\* never share a GPU.
OneChild == main = "next" => child # "running" /\ (child = "exited" => done)

\* "One hostile driver must not void the matrix" (main.go:5): the sweep reaches
\* its end whatever the children do.
SweepEnds == <>(Len(records) = Combos)
=============================================================================

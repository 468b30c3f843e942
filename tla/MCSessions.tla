----------------------------- MODULE MCSessions ------------------------------
(***************************************************************************)
(* TLC instance of what a context does with the device: its cached sessions *)
(* (Sessions), the build and release of one (SessionBuild), and the batches *)
(* that reuse one (OneShot).  part is the one that runs; the others rest in *)
(* an initial state.                                                        *)
(***************************************************************************)
EXTENDS Sessions, SessionParts, Integers

VARIABLES part

\* An empty text, odd and whole numbers of words, and one the native sort
\* cannot break.
MCTexts == {<<>>, <<1>>, <<2, 1>>, <<1, 1, 1>>}

MCInit ==
  /\ part \in {"sessions", "build", "run"}
  /\ Init       /\ (part = "sessions" \/ (path = "portable" /\ stage = "gate"))
  /\ Build!Init /\ (part = "build" \/ kind = "plain")
  /\ Run!Init   /\ (part = "run" \/ session = "plain")

buildVars == <<kind, steps, active, whole, made, live, twice, phase>>
runVars   == <<session, call, batch, pc, text, lens, count, sa, flag, lensStaging, staging,
               result, used>>

MCNext ==
  \/ part = "sessions" /\ Next       /\ UNCHANGED <<part, buildVars, runVars>>
  \/ part = "build"    /\ Build!Next /\ UNCHANGED <<part, vars, runVars>>
  \/ part = "run"      /\ Run!Next   /\ UNCHANGED <<part, vars, buildVars>>

MCSpec == MCInit /\ [][MCNext]_<<part, vars, buildVars, runVars>>
=============================================================================

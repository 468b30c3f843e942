----------------------------- MODULE MCJobState -----------------------------
(* Two templates, three difficulties, up to four job changes. *)
EXTENDS JobState

CONSTANTS w1, w2

MCWorks == {w1, w2}
MCDiffs == {1, 2, 5}

=============================================================================

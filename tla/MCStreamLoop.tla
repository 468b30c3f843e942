---------------------------- MODULE MCStreamLoop ----------------------------
(* Instances of StreamLoop for TLC, with the values of MCMineLoop. *)
EXTENDS StreamLoop, TLC

CONSTANTS w1, w2

MCWorks == {w1, w2}
WorkSymmetry == Permutations(MCWorks)
MCPows == {2, 6}
MCShares == [id : ShareIds, work : MCWorks, epoch : 1..MaxEpoch, cpu : MCPows]

=============================================================================

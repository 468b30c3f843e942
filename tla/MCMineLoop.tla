----------------------------- MODULE MCMineLoop -----------------------------
(* Instances of MineLoop for TLC.  With HashSpace 8 the targets are 7 for  *)
(* difficulty 1, 4 for 2 and 2 for 3: hash 2 is a share under each, hash 6 *)
(* under the first only.                                                    *)
EXTENDS MineLoop, TLC

CONSTANTS w1, w2

MCWorks == {w1, w2}
WorkSymmetry == Permutations(MCWorks)
MCPows == {2, 6}
GoodPows == {2}
GoodShares == [id : ShareIds, work : MCWorks, epoch : 1..MaxEpoch, cpu : GoodPows]
MCShares == [id : ShareIds, work : MCWorks, epoch : 1..MaxEpoch, cpu : MCPows]

=============================================================================

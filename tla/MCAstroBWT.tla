----------------------------- MODULE MCAstroBWT ------------------------------
(***************************************************************************)
(* TLC instance of the parts of the CPU's AstroBWTv3 around the suffix      *)
(* array: the byte switch (WolfStream), the loop over the tries (WolfLoop)  *)
(* and the hash of the suffix array (Hasher).  part is the one that runs;   *)
(* the other two rest in an initial state.                                  *)
(***************************************************************************)
EXTENDS HashParts, Integers, Sequences

VARIABLES part

MCCells == 0 .. N - 1

\* Bytes of mixed bit patterns, close together and far apart, so that both
\* sides of every threshold occur.
MCSeeds == {[i \in MCCells |-> s[i + 1]] :
              s \in {<<0, 145, 254, 37, 90>>, <<200, 8, 113, 175, 200>>, <<61, 60, 33, 12, 3>>}}

\* Every case and every window in the first try; after it a case that swaps,
\* one that hashes, one with a new key and one of the rest.
MCSwitchers ==
  << (0 .. 255) \X MCCells \X MCCells,
     {<<0, 3, 1>>, <<253, 1, 4>>, <<255, 0, 2>>, <<77, 0, 4>>} >>

\* Streams of 1 to 8 entries of two bytes, blocks of eight bytes of which two
\* hold the length: tails of 0, 2, 4 and 6 bytes, one and two blocks, messages
\* of none, one or two whole blocks.
MCInputs == {[id |-> 1, len |-> n] : n \in {1, 3, 4, 6, 8}} \cup {[id |-> 2, len |-> n] : n \in {3, 7}}

MCInit ==
  /\ part \in {"switch", "tries", "sha"}
  /\ Switch!Init /\ (part = "switch" \/ ref = Switch!Prologue(CHOOSE s \in Seeds : TRUE))
  /\ Tries!Init  /\ (part = "tries" \/ markers[0] = 0)
  /\ Sha!Init    /\ (part = "sha" \/ useSHANI)

switchVars == <<switched, op, pos1, pos2, before, ref, tab>>
triesVars  == <<pc, tries, templateIdx, firstChunk, chunkCount, markers, nTemplates, written,
                data_len, groupFlags, fired>>
shaVars    == <<useSHANI, scratch, scratch2, asked, digests, calls>>

MCNext ==
  \/ part = "switch" /\ Switch!Next /\ UNCHANGED <<part, triesVars, shaVars>>
  \/ part = "tries"  /\ Tries!Next  /\ UNCHANGED <<part, switchVars, shaVars>>
  \/ part = "sha"    /\ Sha!Next    /\ UNCHANGED <<part, switchVars, triesVars>>

MCSpec == MCInit /\ [][MCNext]_<<part, switchVars, triesVars, shaVars>>
=============================================================================

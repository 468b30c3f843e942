------------------------------ MODULE HashParts ------------------------------
(***************************************************************************)
(* The parts of the CPU's AstroBWTv3 around the suffix array: the byte      *)
(* switch and its table (WolfStream), the loop over the tries (WolfLoop)    *)
(* and the hash of the suffix array (Hasher).  Their variables are declared *)
(* here, two of them under names of their own.                              *)
(***************************************************************************)
CONSTANTS N, Window, Seeds, Switchers
VARIABLES switched, op, pos1, pos2, before, ref, tab

Switch == INSTANCE WolfStream WITH tries <- switched

CONSTANTS MinTries, ExtraTries, Group, MaxTail, CountCap, MarkerSlots, MAX_LENGTH, Padding
VARIABLES pc, tries, templateIdx, firstChunk, chunkCount, markers, nTemplates, written,
          data_len, groupFlags, fired

Tries == INSTANCE WolfLoop WITH flags <- groupFlags

CONSTANTS Inputs, MaxLength, EntryBytes, Block, LengthBytes, MaxCalls
VARIABLES useSHANI, scratch, scratch2, asked, digests, calls

Sha == INSTANCE Hasher

ASSUME SwitchAssumption == Switch!StreamAssumption
ASSUME TriesAssumption  == Tries!LoopAssumption
ASSUME ShaAssumption    == Sha!HasherAssumption

-----------------------------------------------------------------------------
\* The table interpreter leaves what the switch leaves, and the table is the
\* one genwolf makes of the switch (pow.go:101, wolftable.go:76).
TablesAgree == Switch!TableMirrorsSwitch /\ Switch!TableIsGenerated

\* A try rewrites no byte outside its window, and the cipher stays a
\* permutation (pow.go:78-118, rc4.go:42).
StaysInBounds == Switch!WindowRespected /\ Switch!CipherIsPermutation

\* Nothing is written past the arrays, the stream and the template flags come
\* from this hash alone, although the scratch is reused, and the flags cut it
\* where RC4 ran (pow.go:2426-2456, sa_v114.go:79).
TemplatesFollowRC4 == Tries!InBounds /\ Tries!StreamIsFresh /\ Tries!FlagsFollowRC4

\* Alone or in a pair, a hash is that of its own suffix array (hasher.go:47).
HashesAreOwn == Sha!HashIsDigest /\ Sha!PairIsTwoHashes
=============================================================================

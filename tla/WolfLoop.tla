------------------------------ MODULE WolfLoop ------------------------------
(***************************************************************************)
(* The wolf loop of internal/astrobwt/pow.go from try to try: how many     *)
(* tries it makes, where each 256-byte chunk lands in scratch.data, the    *)
(* v1.14 template markers it records on the way, and the length of the     *)
(* stream it hands to the suffix array; then the group flags buildSAv114   *)
(* makes of the markers (sa_v114.go).  Whether a try applies RC4 and what  *)
(* step_3 ends in depend on the hashes and are left open.                  *)
(***************************************************************************)
EXTENDS Integers, FiniteSets, FiniteSetsExt

CONSTANTS
  MinTries,     \* the loop may stop after this many tries (260)
  ExtraTries,   \* and stops after that many more, plus one (16)
  Group,        \* bytes of a chunk (256)
  MaxTail,      \* most bytes of the last four chunks that are kept (0x3ff)
  CountCap,     \* chunk counts a marker can hold (1 << 7)
  MarkerSlots,  \* markers and flags of a scratch (280)
  MAX_LENGTH,   \* bytes of scratch.data without its padding (277 * 256)
  Padding       \* bytes after them (64)

MaxTries == MinTries + ExtraTries + 1

LoopAssumption ==
  /\ MinTries \in Nat /\ MinTries >= 4 /\ ExtraTries \in Nat
  /\ Group \in Nat \ {0} /\ MaxTail \in Nat /\ MaxTail < 4 * Group
  /\ CountCap \in Nat \ {0} /\ MarkerSlots \in Nat /\ MarkerSlots > MaxTries
  /\ MAX_LENGTH = MaxTries * Group /\ Padding \in Nat /\ Padding >= 4

VARIABLES
  pc,           \* "loop", or "done" once the flags are built
  tries,
  templateIdx, firstChunk, chunkCount,
  markers, nTemplates,
  written,      \* the bytes of scratch.data this hash has written: 0 .. written - 1
  data_len,
  flags,        \* the group flags, as a set of groups
  fired         \* history: the tries that applied RC4

vars == <<pc, tries, templateIdx, firstChunk, chunkCount, markers, nTemplates,
          written, data_len, flags, fired>>

-----------------------------------------------------------------------------
(* Markers.                                                                *)

Bitwise2(Op(_, _), x, y) ==
  MapThenSumSet(LAMBDA k : Op((x \div 2 ^ k) % 2, (y \div 2 ^ k) % 2) * 2 ^ k, 0 .. 9)
OrBits(x, y) == Bitwise2(LAMBDA a, b : IF a + b > 0 THEN 1 ELSE 0, x, y)

\* firstChunk<<7 | chunkCount: a count fills the low bits, and one that does not
\* fit spills into the chunk.
Marker(first, count) ==
  IF count < CountCap THEN first * CountCap + count
  ELSE OrBits(first, count \div CountCap) * CountCap + (count % CountCap)
StartGroup(m) == m \div CountCap
GroupCount(m) == m % CountCap

\* What one marker does to the flags: the first group after its chunks.
Boundary(m) == StartGroup(m) + GroupCount(m)

FlagsLen(len) == len \div Group + 1
FlagLimit(n) == IF n > MaxTries THEN MaxTries ELSE n

\* buildStage5Flags: nothing for an empty stream or too few flags.
Stage5Flags(ms, n, len) ==
  IF len = 0 \/ MarkerSlots < FlagsLen(len) THEN {}
  ELSE LET counted == {i \in 0 .. FlagLimit(n) - 1 : GroupCount(ms[i]) # 0}
       IN {0} \cup ({Boundary(ms[i]) : i \in counted} \cap 1 .. FlagsLen(len) - 1)

-----------------------------------------------------------------------------
Init ==
  /\ pc = "loop"
  /\ tries = 0
  /\ templateIdx = 0 /\ firstChunk = 0 /\ chunkCount = 1
  \* The scratch is reused: the markers of the hash before are still there.
  /\ markers \in {[i \in 0 .. MarkerSlots - 1 |-> m] : m \in {0, CountCap + 1}}
  /\ nTemplates = 0
  /\ written = 0 /\ data_len = 0 /\ flags = {} /\ fired = {}

\* step_3[pos1] - step_3[pos2] <= 0x40: RC4 runs, the template so far is
\* recorded and a new one starts with this try's chunk.
NewTemplate_EveryTry(t) == templateIdx + 1  \* (mutant) without the tries > 1 quirk
NewTemplate(t) == IF t > 1 THEN templateIdx + 1 ELSE templateIdx

Bookkeeping(t, rc4) ==
  IF rc4
  THEN /\ markers' = [markers EXCEPT ![templateIdx] = Marker(firstChunk, chunkCount)]
       /\ templateIdx' = NewTemplate(t)
       /\ firstChunk' = t - 1
       /\ chunkCount' = 1
       /\ fired' = fired \cup {t}
  ELSE /\ chunkCount' = chunkCount + 1
       /\ UNCHANGED <<markers, templateIdx, firstChunk, fired>>

\* tries > 260+16 || (step_3[255] >= 0xf0 && tries > 260)
Stops(t, high) == t > MinTries + ExtraTries \/ (high /\ t > MinTries)

StreamLen(t, tail) == (t - 4) * Group + tail

\* A try that is not the last.
Try(rc4, high) ==
  LET t == tries + 1
  IN /\ pc = "loop"
     /\ ~Stops(t, high)
     /\ tries' = t
     /\ Bookkeeping(t, rc4)
     /\ written' = t * Group
     /\ UNCHANGED <<pc, nTemplates, data_len, flags>>

\* The last try: the open template is flushed, the stream is cut, and the group
\* flags of the descriptor suffix array are built from the markers.
LastTry(rc4, high, tail) ==
  LET t == tries + 1
      idx == IF rc4 THEN NewTemplate(t) ELSE templateIdx
      recorded == IF rc4 THEN [markers EXCEPT ![templateIdx] = Marker(firstChunk, chunkCount)]
                         ELSE markers
      first == IF rc4 THEN t - 1 ELSE firstChunk
      count == IF rc4 THEN 1 ELSE chunkCount + 1
  IN /\ pc = "loop"
     /\ Stops(t, high)
     /\ pc' = "done"
     /\ tries' = t
     /\ templateIdx' = idx /\ firstChunk' = first /\ chunkCount' = count
     /\ fired' = IF rc4 THEN fired \cup {t} ELSE fired
     /\ markers' = [recorded EXCEPT ![idx] = Marker(first, count)]
     /\ nTemplates' = idx + 1
     /\ written' = t * Group
     /\ data_len' = StreamLen(t, tail)
     /\ flags' = Stage5Flags(markers', nTemplates', data_len')

Next == \E rc4, high \in BOOLEAN :
          Try(rc4, high) \/ \E tail \in 0 .. MaxTail : LastTry(rc4, high, tail)

Spec == Init /\ [][Next]_vars

-----------------------------------------------------------------------------
(* Properties.                                                             *)

\* Every index stays in its array: the marker slots, the chunks of
\* scratch.data, the four bytes buildSAv114 clears after the stream, and the
\* flags of all its groups.
InBounds ==
  /\ templateIdx \in 0 .. MarkerSlots - 1
  /\ written <= MAX_LENGTH
  /\ pc = "done" => /\ data_len <= MAX_LENGTH /\ data_len + 4 <= MAX_LENGTH + Padding
                    /\ nTemplates <= MarkerSlots /\ FlagsLen(data_len) <= MarkerSlots

\* The stream is not empty and holds no byte of the hash before: the scratch is
\* reused, and the cut removes more than the tail adds.
StreamIsFresh == pc = "done" => data_len > 0 /\ data_len <= written

\* No template outgrows its marker: RC4 ran in every window of CountCap - 1
\* tries.
NoLongTemplate ==
  \A t \in 0 .. tries - CountCap + 1 : fired \cap t + 1 .. t + CountCap - 1 # {}

\* Then the flags cut the stream at the chunks that RC4 rescrambled and nowhere
\* else, except that the first cut is one chunk late unless RC4 ran in the very
\* first try (the tries > 1 quirk), whatever the markers of the hash before.
FlagsFollowRC4 ==
  LET cuts  == {t - 1 : t \in fired}
      first == Min(cuts)
      late  == IF cuts # {} /\ first > 0 THEN (cuts \ {first}) \cup {first + 1} ELSE cuts
  IN pc = "done" /\ NoLongTemplate =>
       flags = {0} \cup (late \cap 1 .. FlagsLen(data_len) - 1)
=============================================================================

------------------------------- MODULE Hasher --------------------------------
(***************************************************************************)
(* The last stage of AstroBWTv3 and the hasher a worker keeps (pow.go,     *)
(* hasher.go, sha256mb.go): SHA-256 of the suffix array's bytes, of one    *)
(* input or of two at once, over scratch buffers that still hold what      *)
(* earlier hashes left.  WolfLoop, Sais and DescriptorSA are how the       *)
(* suffix array came there.  An entry of input p is <<p, i>>, a byte of it *)
(* <<p, i, k>>; a SHA-256 state is the sequence of blocks it has absorbed. *)
(***************************************************************************)
EXTENDS Naturals, Sequences, SequencesExt

CONSTANTS
  Inputs,      \* inputs, [id, len], by the length of their streams
  MaxLength,   \* entries of a scratch buffer
  EntryBytes, Block, LengthBytes,   \* 4, 64 and 8
  MaxCalls     \* bound

HasherAssumption ==
  /\ \A p \in Inputs : p.len \in 1 .. MaxLength
  /\ MaxLength \in Nat /\ EntryBytes \in Nat \ {0}
  /\ Block \in Nat /\ LengthBytes \in Nat /\ LengthBytes < Block

VARIABLES
  useSHANI,   \* whether the processor has SHA instructions
  scratch, scratch2,   \* their suffix arrays; scratch2 is <<>> until it is needed
  asked,               \* inputs of the last call
  digests,             \* what it returned
  calls

vars == <<useSHANI, scratch, scratch2, asked, digests, calls>>

Zero == "zero"
End == "0x80"
Zeros(n) == [i \in 1 .. n |-> Zero]
NewScratch == Zeros(MaxLength)

\* The bytes of a prefix of a suffix array, lowest byte first.
Bytes(sa, n) == [j \in 1 .. n * EntryBytes |-> <<sa[(j - 1) \div EntryBytes + 1], (j - 1) % EntryBytes>>]

\* crypto/sha256: the message padded to whole blocks.
Padded(msg) ==
  LET rem == (Len(msg) + 1 + LengthBytes) % Block
      fill == IF rem = 0 THEN 0 ELSE Block - rem
  IN msg \o <<End>> \o Zeros(fill) \o [i \in 1 .. LengthBytes |-> <<Len(msg), i>>]
Sum256(msg) == [b \in 1 .. Len(Padded(msg)) \div Block |-> SubSeq(Padded(msg), (b - 1) * Block + 1, b * Block)]

-----------------------------------------------------------------------------
(* pow.go                                                                  *)

\* astroBWTv3Stream leaves the suffix array in front of what was there.
Stream(p, sa) == [i \in 1 .. MaxLength |-> IF i <= p.len THEN <<p, i>> ELSE sa[i]]

\* The little-endian branch: endian_big.go does not compile (no import of unsafe),
\* so there is no big-endian build.
FinalHash_All(sa, n) == Sum256(Bytes(sa, MaxLength))  \* (mutant) the whole buffer
FinalHash(sa, n) == Sum256(Bytes(sa, n))

-----------------------------------------------------------------------------
(* sha256mb.go                                                             *)

\* sha256BlocksNI and sha256Blocks2NI: n blocks from byte position at on.
Blocks(state, msg, at, n) ==
  state \o [b \in 1 .. n |-> SubSeq(msg, at + (b - 1) * Block + 1, at + b * Block)]

TailLength(rem) == IF rem >= Block - LengthBytes THEN 2 * Block ELSE Block

\* The end mark and the length are written over a tail of zeros.
Finish(state, msg, full) ==
  LET rem == Len(msg) - full
      tlen == TailLength(rem)
      tail == [i \in 1 .. tlen |->
                 IF i > tlen - LengthBytes THEN <<Len(msg), i - (tlen - LengthBytes)>>
                 ELSE IF i = rem + 1 THEN End
                 ELSE IF i <= rem THEN msg[full + i]
                 ELSE Zero]
  IN Blocks(state, tail, 0, tlen \div Block)

\* The blocks both messages have go two at a time, then the longer one's alone.
Pair(a, b) ==
  LET fa == (Len(a) \div Block) * Block
      fb == (Len(b) \div Block) * Block
      shared == (IF fa < fb THEN fa ELSE fb) \div Block
      Whole(msg, full) == Blocks(Blocks(<<>>, msg, 0, shared), msg, shared * Block, full \div Block - shared)
  IN <<Finish(Whole(a, fa), a, fa), Finish(Whole(b, fb), b, fb)>>

-----------------------------------------------------------------------------
(* hasher.go                                                               *)

Init ==
  /\ useSHANI \in BOOLEAN
  /\ scratch = NewScratch /\ scratch2 = <<>>
  /\ asked = <<>> /\ digests = <<>> /\ calls = 0

Called(inputs) ==
  /\ calls < MaxCalls /\ calls' = calls + 1
  /\ asked' = inputs /\ UNCHANGED useSHANI

Hash(a) ==
  /\ Called(<<a>>)
  /\ scratch' = Stream(a, scratch) /\ digests' = <<FinalHash(scratch', a.len)>>
  /\ UNCHANGED scratch2

HashPair(a, b) ==
  /\ Called(<<a, b>>)
  /\ IF useSHANI  \* pairHashAvailable
     THEN /\ scratch' = Stream(a, scratch)
          /\ scratch2' = Stream(b, IF scratch2 = <<>> THEN NewScratch ELSE scratch2)
          /\ digests' = Pair(Bytes(scratch', a.len), Bytes(scratch2', b.len))
     ELSE LET first == Stream(a, scratch)
          IN /\ scratch' = Stream(b, first)
             /\ digests' = <<FinalHash(first, a.len), FinalHash(scratch', b.len)>>
             /\ UNCHANGED scratch2

Next == \E a \in Inputs : Hash(a) \/ \E b \in Inputs : HashPair(a, b)

Spec == Init /\ [][Next]_vars

-----------------------------------------------------------------------------
(* Properties.                                                             *)

Digest(p) == Sum256([j \in 1 .. p.len * EntryBytes |-> <<<<p, (j - 1) \div EntryBytes + 1>>, (j - 1) % EntryBytes>>])

\* "scratch.sa[:data_len] holds the SA whose little-endian bytes are the final
\* SHA-256 input" (pow.go:42): whatever earlier hashes have left in the scratch
\* buffer.
HashIsDigest == Len(asked) = 1 => digests = <<Digest(asked[1])>>

\* A pair is byte-identical to two hashes (pair_test.go:8), for messages of any
\* two lengths and either end of a block.
PairIsTwoHashes == Len(asked) = 2 => digests = <<Digest(asked[1]), Digest(asked[2])>>
=============================================================================

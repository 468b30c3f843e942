---------------------------- MODULE MCSuffixArrays ---------------------------
(***************************************************************************)
(* TLC instance of the three ways to a suffix array: SA-IS (Sais), the     *)
(* descriptors of v1.14 (DescriptorSA) and the kernel (KernelParts), each  *)
(* against one order of suffixes.  part is the one that runs; the others   *)
(* rest, before their first step.                                          *)
(***************************************************************************)
EXTENDS Sais, KernelParts

CONSTANTS Group, KeyLen, ShortRunMax, LiteralMax, Inputs

VARIABLES part
VARIABLES pc, data, logicalLen, flags, arenaCap, runStart, arena, runs, out

Descriptors == INSTANCE DescriptorSA

ASSUME Descriptors!SizeAssumption

TextOf(letters) == [i \in 0 .. Len(letters) - 1 |-> letters[i + 1]]

\* Every text of up to seven letters, and texts that recurse twice, recurse into
\* the middle of sa, allocate scratch, or have equally long LMS-substrings that
\* are too long to be packed.
MCTexts ==
  UNION {[0 .. n - 1 -> 0 .. K - 1] : n \in 0 .. 7} \cup
  {TextOf(t) : t \in {
    <<1, 0, 1, 0, 0, 1, 0, 1, 0, 0, 1, 0, 1, 0, 0, 1, 0, 1>>,
    <<1, 0, 1, 0, 1, 0, 0, 1, 0, 1, 0, 0, 1, 0, 1, 0, 0, 1, 0, 1>>,
    <<0, 0, 0, 0, 0, 0, 0, 1, 0, 1, 0, 1, 0, 1>>,
    <<0, 0, 0, 0, 0, 0, 0, 0, 0, 0, 1, 0, 1, 0, 1>>,
    <<2, 0, 2, 0, 2, 0, 2, 0, 2, 1, 2, 0, 2, 1, 2, 0, 2>>,
    <<1, 0, 1, 0, 1, 0, 1, 0, 1, 0, 1, 0, 1, 0, 1, 0, 1>>,
    <<1, 0, 1, 1, 1, 0, 1, 2, 1, 0, 1, 1, 1, 0, 2>>,
    <<2, 0, 2, 0, 2, 1, 2, 1, 2, 0, 2, 1, 2, 0, 1>>,
    <<1, 0, 1, 0, 2, 1, 1, 0, 2, 0, 1, 0, 2, 1, 0, 2, 1, 2>>}}

\* Every text up to the length, every set of flags, stale letters after the
\* text; an arena that just holds the longest, and one that does not.
Marked(letters, lengths, arenas) ==
  UNION {{[data |-> [i \in 0 .. n + KeyLen |-> IF i < n THEN t[i] ELSE K - 1],
           len |-> n, flags |-> f \cup {0}, arena |-> a] :
            t \in [0 .. n - 1 -> letters], f \in SUBSET (1 .. n \div Group - 1), a \in arenas} :
         n \in lengths}
MCInputs == Marked(0 .. 1, 0 .. 9, {9}) \cup Marked({0, 2}, {8}, {8}) \cup Marked(0 .. 2, {2, 5}, {4, 5})

\* Four lanes: every text of two letters with up to four bytes, texts of two
\* tiles, and one of five tiles with enough ranks for the third pass.
MCKernelTexts ==
  UNION {[0 .. m - 1 -> {0, 3}] : m \in 1 .. 4}
    \cup {TextOf(<<3, 0, 3, 0, 3, 0>>), TextOf(<<1, 1, 1, 1, 1>>), TextOf(<<2, 0, 1, 2, 0, 1, 2>>)}
    \cup {[i \in 0 .. 16 |-> i % 2]}

MCInit ==
  /\ part \in {"sais", "descriptors", "kernel"}
  /\ IF part = "sais" THEN Init ELSE mem = <<>> /\ stack = <<>>
  /\ IF part = "descriptors"
       THEN Descriptors!Init
       ELSE /\ pc = "start" /\ data = <<>> /\ logicalLen = 0 /\ flags = {} /\ arenaCap = 0
            /\ runStart = 0 /\ arena = <<>> /\ runs = <<>> /\ out = <<>>
  /\ Kernel!Init /\ (part = "kernel" \/ kernelText = [i \in {0} |-> 0])

descriptorVars == <<pc, data, logicalLen, flags, arenaCap, runStart, arena, runs, out>>
kernelVars     == <<kernelText, shared, reg, at, ran>>

MCNext ==
  \/ part = "sais"        /\ Next             /\ UNCHANGED <<part, descriptorVars, kernelVars>>
  \/ part = "descriptors" /\ Descriptors!Next /\ UNCHANGED <<part, vars, kernelVars>>
  \/ part = "kernel"      /\ Kernel!Next      /\ UNCHANGED <<part, vars, descriptorVars>>

MCSpec == MCInit /\ [][MCNext]_<<part, vars, descriptorVars, kernelVars>>

-----------------------------------------------------------------------------
\* Every pass of SA-IS leaves what the next one needs, its cache of frequencies
\* is never stale and no slice is misused (sais.go:143-207).
PassesAreSound ==
  NoMisuse /\ CacheIsCurrent /\ SubstringsSorted /\ NamesOrdered /\ LMSSuffixesSorted

\* The descriptor records tile the suffixes, each in suffix order with its key,
\* and only a full arena makes the algorithm decline (sa_v114.go:123-160).
RecordsAreExact ==
  Descriptors!RecordsTile /\ Descriptors!RecordsSorted /\ Descriptors!OnlyTheGuardDeclines

\* Whichever of the CPU's algorithms runs, what it leaves is the suffix array of
\* the text, on which its re-hash and the GPU's hash must agree (main.go:412);
\* the kernel's side is KernelSorts.
SuffixArraysAgree == SuffixArrayBuilt /\ Descriptors!WrittenIsSuffixArray
=============================================================================

----------------------------- MODULE KernelParts -----------------------------
(***************************************************************************)
(* The portable kernel (SaGpu) beside other modules: its constants and     *)
(* variables, some of them under names of their own, and what a run of it  *)
(* promises.                                                               *)
(***************************************************************************)
CONSTANTS WG, KernelTexts
VARIABLES kernelText, shared, reg, at, ran

Kernel == INSTANCE SaGpu WITH Texts <- KernelTexts, text <- kernelText, mem <- shared

ASSUME KernelAssumption == Kernel!SaGpuAssumption

-----------------------------------------------------------------------------
\* The lanes of the kernel meet at each barrier, and between rounds the ranks
\* are those of the doubled prefixes (sa_gpu.wgsl).
RoundsInStep == Kernel!BarriersUniform /\ Kernel!RanksArePrefixes

\* Whatever order the lanes take between barriers, the kernel leaves the suffix
\* array of its text (sa_gpu.wgsl).
KernelSorts == Kernel!SuffixArrayBuilt
=============================================================================

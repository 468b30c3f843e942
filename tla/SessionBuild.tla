---------------------------- MODULE SessionBuild -----------------------------
(***************************************************************************)
(* Building and releasing the GPU sessions: buildSASession (sa_session.go),*)
(* buildFusedSession (fused.go), buildSPIRVSA (spirv_sa.go) and            *)
(* buildSPIRVFastStreamer (spirv_stream.go), with their release methods.   *)
(* The sixth kind, "kernel", is one Ctx.Run (device.go), which releases    *)
(* what it made when it returns.                                           *)
(* A build creates some fifty device objects one after the other; any      *)
(* creation may fail, and the deferred release of every build function     *)
(* that is active then runs, innermost first.  An object is <<session,     *)
(* field, index>>.  A shader module that only serves to make a pipeline    *)
(* (makePipeline, final_sha) lives within the step that makes it.          *)
(***************************************************************************)
EXTENDS Integers, Sequences, SequencesExt, FiniteSets

CONSTANT Kinds   \* the sessions built: "plain", "refine", "wgsl", "native", "stream",
                 \* "kernel"

VARIABLES
  kind,
  todo,     \* the steps left
  active,   \* the build functions whose deferred release is installed, innermost last
  whole,    \* the sessions whose build returned: what a parent's field holds
  made,     \* objects created: fields that are not nil
  live,     \* objects not released
  twice,    \* objects released when they no longer lived
  phase     \* "build", "unwind", "built", "failed", "released"

vars == <<kind, todo, active, whole, made, live, twice, phase>>

-----------------------------------------------------------------------------
(* Steps: "enter" and "leave" a build function, "make" an object from the  *)
(* objects it needs, "write" to an object.                                 *)

Enter(who) == <<[op |-> "enter", who |-> who, obj |-> <<>>, needs |-> {}]>>
Leave(who) == <<[op |-> "leave", who |-> who, obj |-> <<>>, needs |-> {}]>>
Make(who, field, i, needs) ==
  <<[op |-> "make", who |-> who, obj |-> <<who, field, i>>, needs |-> needs]>>
Write(who, field) ==
  <<[op |-> "write", who |-> who, obj |-> <<>>, needs |-> {<<who, field, 0>>}]>>

Of(who, fields) == {<<who, f, 0>> : f \in fields}
Buffers(who, fields) == FlattenSeq([k \in DOMAIN fields |-> Make(who, fields[k], 0, {})])
Each(n, S(_)) == FlattenSeq([k \in 1 .. n |-> S(k - 1)])

\* A compute pipeline of a WGSL session, with what it binds.
Pipeline(who, i, bound) ==
  Make(who, "shader", i, {}) \o Make(who, "bgl", i, {})
  \o Make(who, "bg", i, bound \cup {<<who, "bgl", i>>})
  \o Make(who, "pl", i, {<<who, "bgl", i>>})
  \o Make(who, "pipe", i, {<<who, "pl", i>>, <<who, "shader", i>>})

-----------------------------------------------------------------------------
(* buildSASession                                                          *)

numOuts(refine) == IF refine THEN 7 ELSE 4

SAStorage(refine) == Of("sa", {"text", "lens"}) \cup {<<"sa", "out", i>> : i \in 0 .. numOuts(refine) - 1}
SASteps(refine) ==
  Enter("sa") \o Buffers("sa", <<"text", "lens">>)
  \o Each(numOuts(refine), LAMBDA i : Make("sa", "out", i, {}))
  \o Buffers("sa", <<"uniform", "staging">>)
  \o Pipeline("sa", 0, SAStorage(refine) \cup Of("sa", {"uniform"}))
  \o Leave("sa")

-----------------------------------------------------------------------------
(* buildFusedSession, and buildSPIRVSA within it                           *)

FrontStorage == Of("fused", {"in", "meta", "shak", "opt", "text", "lens"})
RefineStorage == Of("fused", {"text", "lens", "sa", "rank", "rankTmp", "av", "avTmp", "active", "keyTmp"})

SortStorage ==
  Of("fused", {"rank", "rankTmp", "av", "sa", "text", "lens"}) \cup Of("spirv", {"hist", "offsets"})
TieStorage ==
  Of("fused", {"text", "lens", "rank", "rankTmp", "avTmp"}) \cup Of("spirv", {"descriptors", "control"})

SortPipe(field, i) == Make("spirv", field, i, Of("spirv", {"sortLayout"}))
TiePipe(field, i)  == Make("spirv", field, i, Of("spirv", {"refineLayout"}))

SpirvSteps ==
  Enter("spirv") \o Buffers("spirv", <<"hist", "offsets", "descriptors", "control", "sortBGL">>)
  \o Make("spirv", "sortLayout", 0, Of("spirv", {"sortBGL"}))
  \o Make("spirv", "bindAB", 0, SortStorage \cup Of("spirv", {"sortBGL"}))
  \o Make("spirv", "bindBA", 0, SortStorage \cup Of("spirv", {"sortBGL"}))
  \o Buffers("spirv", <<"refineBGL">>)
  \o Make("spirv", "refineLayout", 0, Of("spirv", {"refineBGL"}))
  \o Make("spirv", "refineBind", 0, TieStorage \cup Of("spirv", {"refineBGL"}))
  \o SortPipe("init", 0) \o SortPipe("scan", 0)
  \o Each(4, LAMBDA i : SortPipe("histogram", i) \o SortPipe("scatter", i))
  \o TiePipe("detect", 0) \o TiePipe("prepare", 0)
  \o Each(4, LAMBDA i : TiePipe("tiny", i)) \o Each(3, LAMBDA i : TiePipe("large", i))
  \o Leave("spirv")

WgslScratch == <<"active", "keyTmp">>

FusedBuffers(native) ==
  <<"in", "meta", "shak", "opt", "text", "lens", "sa", "rank", "rankTmp", "av", "avTmp">>
  \o (IF native THEN <<>> ELSE WgslScratch)
  \o <<"saStaging", "lensStaging", "fhUniform">> \o IF native THEN <<>> ELSE <<"saUniform">>

FusedSteps(native) ==
  Enter("fused") \o Buffers("fused", FusedBuffers(native))
  \o Write("fused", "shak") \o Write("fused", "opt") \o Write("fused", "fhUniform")
  \o (IF native THEN <<>> ELSE Write("fused", "saUniform"))
  \o Pipeline("fused", 0, FrontStorage \cup Of("fused", {"fhUniform"}))
  \o (IF native THEN SpirvSteps ELSE Pipeline("fused", 1, RefineStorage \cup Of("fused", {"saUniform"})))
  \o Leave("fused")

-----------------------------------------------------------------------------
(* buildSPIRVFastStreamer: a native session first, then its own objects.   *)

\* What the bind groups of a slab bind; the last radix pass and the ties have
\* the archive in the place of rankTmp.
OfStream(storage, last) ==
  LET own == Of("fused", {"text", "lens"}) \cup IF last THEN Of("fused", {"rankTmp"}) ELSE {}
  IN (storage \ own) \cup Of("stream", {"text", "lens"}) \cup IF last THEN Of("stream", {"archive"}) ELSE {}
StreamSort(last) == OfStream(SortStorage, last) \cup Of("spirv", {"sortBGL"})
StreamTies == OfStream(TieStorage, TRUE) \cup Of("spirv", {"refineBGL"})

StreamSteps ==
  FusedSteps(TRUE) \o Enter("stream")
  \o Buffers("stream", <<"text", "lens", "archive", "overflow", "digests">>)
  \o Each(2, LAMBDA i : Make("stream", "upload", i, {}) \o Make("stream", "staging", i, {}))
  \o Each(4, LAMBDA i : Make("stream", "ab", i, StreamSort(FALSE))
                        \o Make("stream", "ba", i, StreamSort(FALSE))
                        \o Make("stream", "final", i, StreamSort(TRUE))
                        \o Make("stream", "refine", i, StreamTies))
  \o Make("stream", "shaBGL", 0, {})
  \o Make("stream", "shaLayout", 0, Of("stream", {"shaBGL"}))
  \o Make("stream", "shaBG", 0,
          Of("stream", {"archive", "lens", "digests", "shaBGL"}) \cup Of("fused", {"shak"}))
  \o Make("stream", "shaPipe", 0, Of("stream", {"shaLayout"}))
  \o Leave("stream")

-----------------------------------------------------------------------------
(* Ctx.Run, of a kernel with two inputs, two seeded outputs and a uniform. *)

KernelBuffer(field, i) ==
  Make("run", field, i, {})
  \o <<[op |-> "write", who |-> "run", obj |-> <<>>, needs |-> {<<"run", field, i>>}]>>
KernelSteps ==
  Enter("run") \o Buffers("run", <<"shader">>)
  \o Each(2, LAMBDA i : KernelBuffer("in", i)) \o Each(2, LAMBDA i : KernelBuffer("out", i))
  \o KernelBuffer("uniform", 0) \o Buffers("run", <<"bgl">>)
  \o Make("run", "bg", 0, {<<"run", f, i>> : f \in {"in", "out"}, i \in 0 .. 1}
                          \cup Of("run", {"uniform", "bgl"}))
  \o Make("run", "pl", 0, Of("run", {"bgl"}))
  \o Make("run", "pipe", 0, Of("run", {"pl", "shader"}))
  \o Each(2, LAMBDA i : Make("run", "staging", i, {<<"run", "out", i>>}))
  \o Leave("run")

Steps(k) == CASE k \in {"plain", "refine"} -> SASteps(k = "refine")
              [] k \in {"wgsl", "native"}  -> FusedSteps(k = "native")
              [] k = "stream"              -> StreamSteps
              [] k = "kernel"              -> KernelSteps
Top(k) == CASE k \in {"plain", "refine"} -> "sa"
            [] k \in {"wgsl", "native"}  -> "fused"
            [] k = "stream"              -> "stream"
            [] k = "kernel"              -> "run"

-----------------------------------------------------------------------------
(* Release                                                                 *)

\* What the release method of a session names, of what it made itself.
Stages(fields, n) == {<<f, i>> : f \in fields, i \in 0 .. n}
FusedReleased_OneUniform == {"in", "meta", "shak", "opt", "text", "lens", "sa", "rank", "rankTmp", "av",
  "avTmp", "active", "keyTmp", "saStaging", "lensStaging", "fhUniform"}  \* (mutant) saUniform is forgotten
FusedReleased == {"in", "meta", "shak", "opt", "text", "lens", "sa", "rank", "rankTmp", "av",
  "avTmp", "active", "keyTmp", "saStaging", "lensStaging", "fhUniform", "saUniform"}
Released(who) ==
  {<<who, f[1], f[2]>> : f \in
     CASE who = "sa" -> Stages({"staging", "uniform", "text", "lens", "pipe", "pl", "bg", "bgl", "shader"}, 0)
                        \cup Stages({"out"}, 6)
       [] who = "fused" -> Stages(FusedReleased, 0)
                           \cup Stages({"pipe", "pl", "bg", "bgl", "shader"}, 1)
       [] who = "spirv" -> Stages({"init", "scan", "detect", "prepare", "refineBind", "bindBA", "bindAB",
                                   "refineLayout", "sortLayout", "refineBGL", "sortBGL",
                                   "control", "descriptors", "offsets", "hist"}, 0)
                           \cup Stages({"histogram", "scatter", "tiny", "large"}, 3)
       [] who = "run" -> Stages({"in", "out", "staging"}, 1)
                         \cup Stages({"uniform", "shader", "bgl", "bg", "pl", "pipe"}, 0)
       [] who = "stream" -> Stages({"staging", "upload"}, 1) \cup Stages({"refine", "final", "ba", "ab"}, 3)
                            \cup Stages({"shaPipe", "shaBG", "shaLayout", "shaBGL",
                                         "digests", "overflow", "archive", "lens", "text"}, 0)}

\* The session a session holds in a field and releases with itself.
Child(who) == CASE who = "stream" -> {"fused"} [] who = "fused" -> {"spirv"} [] OTHER -> {}
Held(who) == Child(who) \cap whole
Family(who) == {who} \cup Held(who) \cup UNION {Held(c) : c \in Held(who)}

Release(who) ==
  LET objs == UNION {Released(s) : s \in Family(who)} \cap made
  IN /\ live' = live \ objs
     /\ twice' = twice \cup (objs \ live)
     /\ whole' = whole \ Family(who)

-----------------------------------------------------------------------------
Init ==
  /\ kind \in Kinds
  /\ todo = Steps(kind)
  /\ active = <<>> /\ whole = {} /\ made = {} /\ live = {} /\ twice = {}
  /\ phase = "build"

Step == /\ phase = "build" /\ todo # <<>> /\ todo' = Tail(todo)

EnterBuild ==
  /\ Step /\ Head(todo).op = "enter"
  /\ active' = Append(active, Head(todo).who)
  /\ UNCHANGED <<kind, whole, made, live, twice, phase>>

\* The build function returns its session.
LeaveBuild ==
  /\ Step /\ Head(todo).op = "leave"
  /\ active' = Front(active)
  /\ whole' = whole \cup {Head(todo).who}
  /\ phase' = IF todo' = <<>> THEN "built" ELSE "build"
  /\ UNCHANGED <<kind, made, live, twice>>

Create ==
  /\ Step /\ Head(todo).op = "make"
  /\ made' = made \cup {Head(todo).obj}
  /\ live' = live \cup {Head(todo).obj}
  /\ UNCHANGED <<kind, active, whole, twice, phase>>

Upload ==
  /\ Step /\ Head(todo).op = "write"
  /\ UNCHANGED <<kind, active, whole, made, live, twice, phase>>

\* The device refuses an object or an upload.
Refuse ==
  /\ Step /\ Head(todo).op \in {"make", "write"}
  /\ phase' = "unwind"
  /\ UNCHANGED <<kind, active, whole, made, live, twice>>

\* The deferred release of the innermost build function, and its return.
Unwind ==
  /\ phase = "unwind"
  /\ Release(Last(active))
  /\ active' = Front(active)
  /\ phase' = IF Len(active) = 1 THEN "failed" ELSE "unwind"
  /\ UNCHANGED <<kind, todo, made>>

ReleaseSession ==
  /\ phase = "built"
  /\ Release(Top(kind))
  /\ phase' = "released"
  /\ UNCHANGED <<kind, todo, active, made>>

Next == EnterBuild \/ LeaveBuild \/ Create \/ Upload \/ Refuse \/ Unwind \/ ReleaseSession

Spec == Init /\ [][Next]_vars

-----------------------------------------------------------------------------
(* Properties.                                                             *)

\* Wherever a build fails, and whenever a session is released, nothing of it
\* stays on the device: no field is forgotten by the release methods, and no
\* session that is half made is lost between the nested builds.
NothingLeft == phase \in {"failed", "released"} => live = {}

\* The nested deferred releases overlap nowhere: an inner session that failed
\* has released itself and its parent does not do it again.
ReleasedOnce == twice = {}

\* Whatever is made from other objects, or uploaded to, finds them made.
NeedsMade == phase = "build" /\ todo # <<>> => Head(todo).needs \subseteq live

\* FusedStorageBuffers = 9 and the 8 of the native session (device.go:129,
\* fused.go:126) are what the guards ask the device for: no bind group of the
\* session binds more storage buffers.
GuardCovers ==
  LET Storage == {"in", "meta", "shak", "opt", "text", "lens", "sa", "rank", "rankTmp", "av", "avTmp",
                  "active", "keyTmp", "hist", "offsets", "descriptors", "control", "archive", "digests", "out"}
  IN phase = "build" /\ todo # <<>> =>
       Cardinality({o \in Head(todo).needs : o[2] \in Storage})
         <= CASE kind \in {"native", "stream"} -> 8 [] kind = "plain" -> 8 [] OTHER -> 9
=============================================================================

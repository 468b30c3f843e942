----------------------------- MODULE DeviceProofs -----------------------------
(***************************************************************************)
(* Theorems about the device once it is open: the sessions cached on it    *)
(* (Sessions) and the batches that reuse one of them (SessionParts,        *)
(* OneShot).                                                               *)
(***************************************************************************)
EXTENDS Sessions, SessionParts, Integers, SequenceTheorems, WellFoundedInduction, TLAPS

-----------------------------------------------------------------------------
(* Sessions.  What an operation has left to do, and what the caches hold,  *)
(* always fit: the invariants below look at the steps of todo by position. *)

StepNames == {"drop", "need", "use", "new", "idle", "submit", "drain", "probe", "turn", "build"}
Steps == [step : StepNames, slot : Slots \cup {""}, n : Nat]

\* The slots the streamer of this path uses.
Streams == IF Native THEN {"spirv"} ELSE {"pipe0", "pipe1"}

\* A step that leaves a session in slot s, releases it, or works with it.
Builds(x, s)  == x.step \in {"need", "build"} /\ x.slot = s
Gives(x, s)   == Builds(x, s) \/ (x.step = "new" /\ s \in Streams)
Drops(x, s)   == x.step = "drop" /\ x.slot = s
Touches(x, s) == x.step \in {"use", "submit", "drain"} /\ x.slot = s

\* Slot s has a session and no step left releases it.
Kept(s) == slot[s] # None /\ \A k \in DOMAIN todo : ~Drops(todo[k], s)

SessionsTypeOK ==
  /\ todo \in Seq(Steps)
  /\ slot \in [Slots -> [id : Nat, rows : Nat, native : BOOLEAN]]
  /\ alive \subseteq [id : Nat, rows : Nat, native : BOOLEAN]
  /\ path \in Paths /\ stale \in BOOLEAN /\ failed \in BOOLEAN
  /\ cur \in {0, 1} /\ turn \in {0, 1} /\ have \in BOOLEAN /\ flying \in BOOLEAN
  /\ ready \subseteq {0, 1} /\ answer \subseteq {0, 1}
  /\ ids \in Nat /\ faults \in Nat

\* The device holds the sessions of the caches, each in one slot.
Owned ==
  /\ ~stale
  /\ alive = {slot[s] : s \in Slots} \ {None}
  /\ \A s \in Slots : slot[s] # None =>
       /\ slot[s].id \in 1 .. ids
       /\ slot[s].native = (s # "sa" /\ Native)
       /\ \A t \in Slots : slot[t].id = slot[s].id => t = s

\* The steps come where they can: only native paths probe and submit, only
\* the WGSL handle turns, and after the streamer is made only it is used.
Ordered ==
  /\ op = "none" => todo = <<>>
  /\ \A i \in DOMAIN todo :
       /\ todo[i].step \in {"drop", "need", "use", "build"} => todo[i].slot \in Slots
       /\ todo[i].step \in {"submit", "drain", "probe"} => Native /\ todo[i].slot = "spirv"
       /\ todo[i].step = "turn" => ~Native /\ stage = "stream"
       /\ Builds(todo[i], "spirv") => Native /\ todo[i].n = 0
       /\ \A j \in DOMAIN todo :
            todo[i].step \in {"new", "probe"} /\ j > i => todo[j].step \in {"submit", "drain"}

\* A session is released once, before another is built in its slot.
Dropping ==
  \A i \in DOMAIN todo : \A s \in Slots : Drops(todo[i], s) =>
    /\ slot[s] # None
    /\ \A j \in DOMAIN todo : j < i => ~Drops(todo[j], s) /\ ~Gives(todo[j], s)

\* What a step works with is there, or built before.
Touching ==
  \A i \in DOMAIN todo : \A s \in Slots : Touches(todo[i], s) =>
    Kept(s) \/ \E j \in DOMAIN todo : j < i /\ Gives(todo[j], s)

\* A session is built in an empty slot, at once after the release of the other.
Building ==
  \A i \in DOMAIN todo : todo[i].step = "build" =>
    \/ i = 1 /\ slot[todo[i].slot] = None
    \/ i = 2 /\ Drops(todo[1], todo[2].slot)

\* Slot s is empty when step i comes.
Clear(i, s) ==
  /\ slot[s] = None \/ \E j \in DOMAIN todo : j < i /\ Drops(todo[j], s)
  /\ \A j \in DOMAIN todo : j < i => ~Gives(todo[j], s)
Alone ==
  \A i \in DOMAIN todo :
    /\ Builds(todo[i], "spirv") => \A s \in {"fused", "pipe0", "pipe1"} : Clear(i, s)
    /\ op \in {"open", "gate", "probe"} /\ (Builds(todo[i], "pipe0") \/ Builds(todo[i], "pipe1")) =>
         Clear(i, "fused")

\* While the streamer is open its sessions stay, and NewFusedStreamer returns
\* with all of them.
Streaming ==
  /\ stage = "stream" => \A s \in Streams :
       Kept(s) /\ (~Native => \A k \in DOMAIN todo : ~Gives(todo[k], s))
  /\ op = "open" =>
       /\ stage = "opening"
       /\ failed \/ \A s \in Streams : Kept(s) \/ \E j \in DOMAIN todo : Gives(todo[j], s)

\* Close has a step for every session there still is.
Closing ==
  stage = "closed" =>
    /\ \A i \in DOMAIN todo : todo[i].step = "drop"
    /\ \A s \in Slots : slot[s] # None => \E i \in DOMAIN todo : Drops(todo[i], s)

CachesInv ==
  /\ SessionsTypeOK /\ Owned /\ Ordered /\ Dropping /\ Touching /\ Building /\ Alone
  /\ Streaming /\ Closing

\* Without faults: nothing asks for more rows than there are, the streamer
\* always has its upload buffers and the answer of its group in flight, and
\* it is taken, or made, only when nothing is in flight.
Room(x) ==
  /\ x.step \in {"need", "build"} =>
       Rows(x.slot, x.n) <= MaxSlab /\ x.n <= Rows(x.slot, x.n)
  /\ x.step = "new" => x.n <= MaxSlab /\ (Native => x.n <= StreamRows)

\* h: a group is in flight; s: the stage.
Sturdy(q, h, s) ==
  \A i \in DOMAIN q :
    /\ Room(q[i])
    /\ q[i].step \in {"idle", "new"} \/ Drops(q[i], "spirv") =>
         ~h /\ \A j \in DOMAIN q : j < i => q[j].step # "submit"
    /\ q[i].step = "submit" => s = "stream" \/ \E j \in DOMAIN q : j > i /\ q[j].step = "drain"
Drains(q) == \E j \in DOMAIN q : q[j].step = "drain"
Healthy ==
  faults = 0 =>
    /\ ~failed
    /\ ready = {0, 1} /\ answer = IF have THEN {Other} ELSE {}
    /\ op = "gate" => stage = "gate"
    /\ have => /\ Native /\ slot["spirv"] # None
               /\ stage = "stream" \/ Drains(todo)
    /\ Sturdy(todo, have, stage)

\* Touching after a step, in the steps and slots of then.
LEMMA TouchesNext ==
  ASSUME \A x, s : Gives(x, s)' = Gives(x, s),
         \A i \in DOMAIN todo' : \A s \in Slots : Touches(todo'[i], s) =>
           Kept(s)' \/ \E j \in DOMAIN todo' : j < i /\ Gives(todo'[j], s)
  PROVE  Touching'
  BY DEF Touching, Touches

LEMMA TailAt ==
  ASSUME NEW S, NEW q \in Seq(S), q # <<>>, NEW p, p = Tail(q)
  PROVE  /\ p \in Seq(S) /\ Head(q) = q[1] /\ 1 \in DOMAIN q
         /\ \A i \in DOMAIN p : i \in Nat \ {0} /\ i + 1 \in DOMAIN q /\ p[i] = q[i + 1]
         /\ \A i \in DOMAIN q : i \in Nat \ {0} /\ (i # 1 => i - 1 \in DOMAIN p /\ p[i - 1] = q[i])
  <1>1. /\ Len(q) \in Nat \ {0} /\ DOMAIN q = 1 .. Len(q)
        /\ p \in Seq(S) /\ Len(p) = Len(q) - 1 /\ DOMAIN p = 1 .. Len(p)
        /\ \A i \in 1 .. Len(p) : p[i] = q[i + 1]
    OBVIOUS
  <1>. QED BY <1>1

LEMMA JoinAt ==
  ASSUME NEW S, NEW x \in Seq(S), NEW y \in Seq(S), NEW p, p = x \o y
  PROVE  /\ p \in Seq(S) /\ Len(x) \in Nat
         /\ \A i \in DOMAIN p : /\ i \in Nat \ {0}
                                /\ i <= Len(x) => i \in DOMAIN x /\ p[i] = x[i]
                                /\ i > Len(x) => i - Len(x) \in DOMAIN y /\ p[i] = y[i - Len(x)]
         /\ \A i \in DOMAIN x : i \in Nat /\ i <= Len(x) /\ i \in DOMAIN p /\ p[i] = x[i]
         /\ \A i \in DOMAIN y : i \in Nat \ {0} /\ i + Len(x) \in DOMAIN p /\ p[i + Len(x)] = y[i]
  <1>1. /\ Len(x) \in Nat /\ DOMAIN x = 1 .. Len(x) /\ Len(y) \in Nat /\ DOMAIN y = 1 .. Len(y)
        /\ p \in Seq(S) /\ Len(p) = Len(x) + Len(y) /\ DOMAIN p = 1 .. Len(p)
        /\ \A i \in 1 .. Len(p) : p[i] = IF i <= Len(x) THEN x[i] ELSE y[i - Len(x)]
    BY ConcatProperties
  <1>. QED BY <1>1

\* One step in the place of the first.
LEMMA OneFor ==
  ASSUME NEW S, NEW q \in Seq(S), q # <<>>, NEW x \in S, NEW p, p = <<x>> \o Tail(q)
  PROVE  /\ p \in Seq(S) /\ 1 \in DOMAIN q /\ DOMAIN p = DOMAIN q /\ DOMAIN q \subseteq Nat \ {0}
         /\ p[1] = x
         /\ \A i \in DOMAIN q : i # 1 => p[i] = q[i]
  OBVIOUS

LEMMA DoIsStep ==
  ASSUME NEW w \in StepNames, NEW s \in Slots \cup {""}, NEW n \in Nat
  PROVE  Do(w, s, n) \in Steps /\ Do(w, s, n).step = w /\ Do(w, s, n).slot = s /\ Do(w, s, n).n = n
  BY DEF Do, Steps

\* Steps that build and release nothing leave the caches as they are; so does
\* the need of a session that is there.
LEMMA Consumed ==
  ASSUME CachesInv, op # "none", todo # <<>>, todo' = Tail(todo),
         \/ todo[1].step \in {"use", "turn", "idle", "submit", "drain"}
         \/ todo[1].step = "need" /\ slot[todo[1].slot] # None,
         UNCHANGED <<path, op, stage, slot>>, failed' = failed
  PROVE  (Ordered /\ Dropping /\ Touching /\ Building /\ Alone /\ Streaming /\ Closing)'
  <1> USE DEF CachesInv
  <1>1. /\ todo' \in Seq(Steps) /\ 1 \in DOMAIN todo
        /\ \A i \in DOMAIN todo' : i \in Nat \ {0} /\ i + 1 \in DOMAIN todo /\ todo'[i] = todo[i + 1]
        /\ \A i \in DOMAIN todo : i \in Nat \ {0} /\ (i # 1 => i - 1 \in DOMAIN todo' /\ todo'[i - 1] = todo[i])
    BY TailAt DEF SessionsTypeOK
  <1>2. Ordered'
    BY <1>1 DEF Ordered, Builds, Native
  <1>3. Dropping'
    BY <1>1 DEF Dropping, Drops, Gives, Builds, Streams, Native
  <1>4. /\ \A s \in Slots : Kept(s) => Kept(s)'
        /\ \A x, s : Gives(x, s)' = Gives(x, s)
        /\ Streams' = Streams /\ Streams \subseteq Slots
    BY <1>1 DEF Kept, Drops, Gives, Builds, Streams, Native, Slots
  <1>10. \A s \in Slots : Gives(todo[1], s) => Kept(s)'
    <2> SUFFICES ASSUME NEW s \in Slots, Gives(todo[1], s) PROVE Kept(s)'
      OBVIOUS
    <2>1. slot[s] # None
      BY DEF Gives, Builds
    <2>2. \A i \in DOMAIN todo' : ~Drops(todo'[i], s)
      BY <1>1 DEF Dropping
    <2>. QED BY <2>1, <2>2 DEF Kept, Drops
  <1>5. Touching'
    <2> SUFFICES ASSUME NEW i \in DOMAIN todo', NEW s \in Slots, Touches(todo'[i], s)
                 PROVE  Kept(s)' \/ \E j \in DOMAIN todo' : j < i /\ Gives(todo'[j], s)
      BY <1>4, TouchesNext
    <2>1. Kept(s) \/ \E j \in DOMAIN todo : j < i + 1 /\ Gives(todo[j], s)
      BY <1>1 DEF Touching
    <2>2. ASSUME NEW j \in DOMAIN todo, j < i + 1, Gives(todo[j], s), j # 1
          PROVE  j - 1 \in DOMAIN todo' /\ j - 1 < i /\ Gives(todo'[j - 1], s)
      BY <1>1, <1>4, <2>2
    <2>. QED BY <1>4, <1>10, <2>1, <2>2
  <1>6. Building'
    BY <1>1 DEF Building, Drops
  <1>7. Alone'
    <2>1. ASSUME NEW i \in DOMAIN todo', NEW s \in Slots, Clear(i + 1, s)
          PROVE  Clear(i, s)'
      <3>1. \A j \in DOMAIN todo' : j < i => ~Gives(todo'[j], s)
        BY <1>1, <2>1 DEF Clear
      <3>2. ~Drops(todo[1], s)
        BY DEF Drops
      <3>3. slot[s] = None \/ \E j \in DOMAIN todo' : j < i /\ Drops(todo'[j], s)
        <4>1. ASSUME NEW j \in DOMAIN todo, j < i + 1, Drops(todo[j], s)
              PROVE  j - 1 \in DOMAIN todo' /\ j - 1 < i /\ Drops(todo'[j - 1], s)
          BY <1>1, <3>2, <4>1
        <4>. QED BY <2>1, <4>1 DEF Clear
      <3>. QED BY <1>4, <3>1, <3>3 DEF Clear, Drops
    <2>. QED BY <1>1, <2>1 DEF Alone, Builds, Slots
  <1>8. Streaming'
    <2>1. \A s \in Slots, j \in DOMAIN todo :
            Gives(todo[j], s) /\ j # 1 => j - 1 \in DOMAIN todo' /\ Gives(todo'[j - 1], s)
      BY <1>1, <1>4
    <2>2. \A s \in Slots : (\A k \in DOMAIN todo : ~Gives(todo[k], s)) => \A k \in DOMAIN todo' : ~Gives(todo'[k], s)
      BY <1>1
    <2>. QED BY <1>4, <1>10, <2>1, <2>2 DEF Streaming, Native
  <1>9. Closing'
    BY <1>1 DEF Closing, Drops
  <1>. QED BY <1>2, <1>3, <1>5, <1>6, <1>7, <1>8, <1>9

\* An operation that gives up leaves the caches as they are; Close never does.
LEMMA GivenUp ==
  ASSUME CachesInv, op # "none", todo' = <<>>, failed' = TRUE, stage # "closed",
         UNCHANGED <<path, op, stage, slot>>
  PROVE  (Ordered /\ Dropping /\ Touching /\ Building /\ Alone /\ Streaming /\ Closing)'
  <1> USE DEF CachesInv
  <1>1. DOMAIN todo' = {} /\ todo' = <<>>
    OBVIOUS
  <1>2. Streaming'
    BY <1>1 DEF Streaming, Kept, Streams, Native
  <1>. QED BY <1>1, <1>2 DEF Ordered, Dropping, Touching, Building, Alone, Closing

\* The session of the first step is released.
LEMMA Dropped ==
  ASSUME CachesInv, DropStep
  PROVE  CachesInv'
  <1> USE DEF CachesInv
  <1> DEFINE d == todo[1].slot
  <1>0. /\ op # "none" /\ todo # <<>> /\ todo' = Tail(todo) /\ Step = todo[1] /\ todo[1].step = "drop"
        /\ stale' = (stale \/ slot[d] \notin alive) /\ alive' = alive \ {slot[d]}
        /\ slot' = [slot EXCEPT ![d] = None]
        /\ UNCHANGED <<path, op, stage, failed, faults, opFault, cur, have, ready, answer, turn, flying, ids>>
    <2>1. todo # <<>> /\ Step = todo[1]
      BY TailAt DEF DropStep, At, SessionsTypeOK, Step
    <2>. QED BY <2>1 DEF DropStep, At, Goes, Rest, Uses, Forget, KeepOp, Sound, streamer, handle
  <1>1. /\ todo' \in Seq(Steps) /\ 1 \in DOMAIN todo
        /\ \A i \in DOMAIN todo' : i \in Nat \ {0} /\ i + 1 \in DOMAIN todo /\ todo'[i] = todo[i + 1]
        /\ \A i \in DOMAIN todo : i \in Nat \ {0} /\ (i # 1 => i - 1 \in DOMAIN todo' /\ todo'[i - 1] = todo[i])
    BY <1>0, TailAt DEF SessionsTypeOK
  <1>2. /\ d \in Slots /\ Drops(todo[1], d) /\ slot[d] # None
        /\ \A s \in Slots : s # d => slot'[s] = slot[s]
        /\ slot'[d] = None
    BY <1>0, <1>1 DEF Ordered, Dropping, Drops, SessionsTypeOK
  <1>3. /\ \A s \in Slots : ~Gives(todo[1], s) /\ (Drops(todo[1], s) => s = d)
        /\ \A x, s : Gives(x, s)' = Gives(x, s) /\ Drops(x, s)' = Drops(x, s)
        /\ Streams' = Streams /\ Streams \subseteq Slots
    BY <1>0 DEF Drops, Gives, Builds, Streams, Native, Slots
  <1>4. \A i \in DOMAIN todo' : ~Drops(todo'[i], d)
    BY <1>1, <1>2 DEF Dropping
  <1>5. \A s \in Slots : Kept(s) => s # d /\ Kept(s)'
    BY <1>1, <1>2, <1>3 DEF Kept
  <1>6. SessionsTypeOK'
    BY <1>0, <1>1, <1>2 DEF SessionsTypeOK, None
  <1>7. Owned'
    <2>1. slot[d] \in alive
      BY <1>2 DEF Owned
    <2>2. \A s \in Slots : s # d => slot[s] # slot[d]
      BY <1>2 DEF Owned
    <2>3. alive' = {slot'[s] : s \in Slots} \ {None}
      BY <1>0, <1>2, <2>2 DEF Owned
    <2>4. \A s \in Slots : slot'[s] # None => s # d /\ slot'[s] = slot[s]
      BY <1>2
    <2>5. ASSUME NEW s \in Slots, slot'[s] # None, NEW t \in Slots, slot'[t].id = slot'[s].id
          PROVE  t = s
      <3>1. CASE t = d
        BY <1>2, <2>4, <2>5, <3>1 DEF Owned, None
      <3>. QED BY <1>2, <2>4, <2>5, <3>1 DEF Owned
    <2>6. ~stale'
      BY <1>0, <2>1 DEF Owned
    <2>7. \A s \in Slots : slot'[s] # None => slot'[s].id \in 1 .. ids' /\ slot'[s].native = (s # "sa" /\ Native)
      BY <1>0, <2>4 DEF Owned
    <2>8. Native' = Native /\ ids' = ids
      BY <1>0 DEF Native
    <2>9. \A s \in Slots : slot'[s] # None =>
            /\ slot'[s].id \in 1 .. ids' /\ slot'[s].native = (s # "sa" /\ Native)'
            /\ \A t \in Slots : slot'[t].id = slot'[s].id => t = s
      BY <2>5, <2>7, <2>8
    <2>. QED BY <2>3, <2>6, <2>9, Zenon DEF Owned, None
  <1>8. Ordered'
    BY <1>0, <1>1 DEF Ordered, Builds, Native
  <1>9. Dropping'
    <2> SUFFICES ASSUME NEW i \in DOMAIN todo', NEW s \in Slots, Drops(todo'[i], s)
                 PROVE  /\ slot'[s] # None
                        /\ \A j \in DOMAIN todo' : j < i => ~Drops(todo'[j], s) /\ ~Gives(todo'[j], s)
      BY <1>3 DEF Dropping
    <2>1. s # d
      BY <1>4
    <2>. QED BY <1>1, <1>2, <2>1 DEF Dropping
  <1>10. Touching'
    <2> SUFFICES ASSUME NEW i \in DOMAIN todo', NEW s \in Slots, Touches(todo'[i], s)
                 PROVE  Kept(s)' \/ \E j \in DOMAIN todo' : j < i /\ Gives(todo'[j], s)
      BY <1>3, TouchesNext
    <2>1. Kept(s) \/ \E j \in DOMAIN todo : j < i + 1 /\ Gives(todo[j], s)
      BY <1>1 DEF Touching
    <2>2. ASSUME NEW j \in DOMAIN todo, j < i + 1, Gives(todo[j], s)
          PROVE  j - 1 \in DOMAIN todo' /\ j - 1 < i /\ Gives(todo'[j - 1], s)
      BY <1>1, <1>3, <2>2
    <2>. QED BY <1>5, <2>1, <2>2
  <1>11. Building'
    <2> SUFFICES ASSUME NEW i \in DOMAIN todo', todo'[i].step = "build"
                 PROVE  i = 1 /\ slot'[todo'[i].slot] = None
      BY DEF Building
    <2>1. i + 1 = 2 /\ Drops(todo[1], todo[2].slot)
      BY <1>1 DEF Building
    <2>. QED BY <1>1, <1>2, <2>1 DEF Drops
  <1>12. Alone'
    <2>1. ASSUME NEW i \in DOMAIN todo', NEW s \in Slots, Clear(i + 1, s)
          PROVE  Clear(i, s)'
      <3>1. \A j \in DOMAIN todo' : j < i => ~Gives(todo'[j], s)
        BY <1>1, <2>1 DEF Clear
      <3>2. slot'[s] = None \/ \E j \in DOMAIN todo' : j < i /\ Drops(todo'[j], s)
        <4>1. ASSUME NEW j \in DOMAIN todo, j < i + 1, Drops(todo[j], s), s # d
              PROVE  j - 1 \in DOMAIN todo' /\ j - 1 < i /\ Drops(todo'[j - 1], s)
          BY <1>1, <1>3, <4>1
        <4>. QED BY <1>2, <2>1, <4>1 DEF Clear
      <3>. QED BY <1>3, <3>1, <3>2 DEF Clear
    <2>. QED BY <1>0, <1>1, <2>1 DEF Alone, Builds, Slots
  <1>13. Streaming'
    <2>1. \A s \in Slots, j \in DOMAIN todo : Gives(todo[j], s) => j - 1 \in DOMAIN todo' /\ Gives(todo'[j - 1], s)
      BY <1>1, <1>3
    <2>2. \A s \in Slots : (\A k \in DOMAIN todo : ~Gives(todo[k], s)) => \A k \in DOMAIN todo' : ~Gives(todo'[k], s)
      BY <1>1
    <2>. QED BY <1>0, <1>3, <1>5, <2>1, <2>2 DEF Streaming, Native
  <1>14. Closing'
    <2>1. \A s \in Slots, j \in DOMAIN todo : Drops(todo[j], s) /\ s # d => j - 1 \in DOMAIN todo' /\ Drops(todo'[j - 1], s)
      BY <1>1, <1>3
    <2>. QED BY <1>0, <1>1, <1>2, <1>3, <2>1 DEF Closing
  <1>. QED BY <1>6, <1>7, <1>8, <1>9, <1>10, <1>11, <1>12, <1>13, <1>14

\* The first step builds a session in its empty slot.
LEMMA Built ==
  ASSUME CachesInv, op # "none", todo # <<>>, todo[1].step = "build", todo' = Tail(todo),
         NEW b, b = todo[1].slot,
         NEW new, new = [id |-> ids + 1, rows |-> Rows(b, todo[1].n), native |-> b # "sa" /\ Native],
         Rows(b, todo[1].n) \in Nat,
         slot' = [slot EXCEPT ![b] = new], alive' = alive \cup {new}, ids' = ids + 1,
         UNCHANGED <<path, op, stage, stale, failed>>
  PROVE  (Owned /\ Ordered /\ Dropping /\ Touching /\ Building /\ Alone /\ Streaming /\ Closing)'
         /\ slot' \in [Slots -> [id : Nat, rows : Nat, native : BOOLEAN]]
         /\ alive' \subseteq [id : Nat, rows : Nat, native : BOOLEAN]
         /\ b \in Slots
  <1> USE DEF CachesInv
  <1>1. /\ todo' \in Seq(Steps) /\ 1 \in DOMAIN todo
        /\ \A i \in DOMAIN todo' : i \in Nat \ {0} /\ i + 1 \in DOMAIN todo /\ todo'[i] = todo[i + 1]
        /\ \A i \in DOMAIN todo : i \in Nat \ {0} /\ (i # 1 => i - 1 \in DOMAIN todo' /\ todo'[i - 1] = todo[i])
    BY TailAt DEF SessionsTypeOK
  <1>2. /\ b \in Slots /\ slot[b] = None
        /\ new \in [id : Nat, rows : Nat, native : BOOLEAN] /\ new # None
        /\ new.id = ids + 1 /\ new.native = (b # "sa" /\ Native)
    BY <1>1 DEF Ordered, Building, SessionsTypeOK, None
  <1>3. /\ \A s \in Slots : s # b => slot'[s] = slot[s]
        /\ slot'[b] = new
        /\ slot' \in [Slots -> [id : Nat, rows : Nat, native : BOOLEAN]]
    BY <1>2 DEF SessionsTypeOK
  <1>4. /\ \A s \in Slots : ~Drops(todo[1], s) /\ (Gives(todo[1], s) <=> s = b)
        /\ \A x, s : Gives(x, s)' = Gives(x, s) /\ Drops(x, s)' = Drops(x, s)
        /\ Streams' = Streams /\ Streams \subseteq Slots
    BY DEF Drops, Gives, Builds, Streams, Native, Slots
  <1>5. \A i \in DOMAIN todo' : ~Drops(todo'[i], b)
    BY <1>1, <1>2, <1>4 DEF Dropping
  <1>6. Kept(b)' /\ \A s \in Slots : Kept(s) => Kept(s)'
    BY <1>1, <1>2, <1>3, <1>4, <1>5 DEF Kept
  <1>7. Owned'
    <2>1. alive' = {slot'[s] : s \in Slots} \ {None}
      BY <1>2, <1>3 DEF Owned
    <2>2. Native' = Native /\ ids \in Nat
      BY DEF Native, SessionsTypeOK
    <2>3. \A s \in Slots : slot'[s] # None =>
            /\ slot'[s].id \in 1 .. ids' /\ slot'[s].native = (s # "sa" /\ Native)'
      <3> SUFFICES ASSUME NEW s \in Slots, slot'[s] # None
                   PROVE  slot'[s].id \in 1 .. ids' /\ slot'[s].native = (s # "sa" /\ Native)'
        OBVIOUS
      <3>1. CASE s = b
        BY <1>2, <1>3, <2>2, <3>1
      <3>2. CASE s # b
        <4>1. slot'[s] = slot[s] /\ slot[s].id \in 1 .. ids /\ slot[s].native = (s # "sa" /\ Native)
          BY <1>3, <3>2 DEF Owned
        <4>2. slot[s].id \in 1 .. ids'
          BY <4>1, <2>2
        <4>. QED BY <2>2, <4>1, <4>2
      <3>. QED BY <3>1, <3>2
    <2>4. ASSUME NEW s \in Slots, slot'[s] # None, NEW t \in Slots, slot'[t].id = slot'[s].id
          PROVE  t = s
      <3>1. \A u \in Slots \ {b} : slot'[u] = slot[u] /\ slot[u].id \in 0 .. ids
        BY <1>3, <2>2 DEF Owned, None
      <3>2. CASE s = b
        BY <1>2, <1>3, <2>2, <2>4, <3>1, <3>2
      <3>3. CASE s # b /\ t = b
        BY <1>2, <1>3, <2>2, <2>4, <3>1, <3>3
      <3>4. CASE s # b /\ t # b
        BY <2>4, <3>1, <3>4 DEF Owned
      <3>. QED BY <3>2, <3>3, <3>4
    <2>5. ~stale'
      BY DEF Owned
    <2>6. \A s \in Slots : slot'[s] # None =>
            /\ slot'[s].id \in 1 .. ids' /\ slot'[s].native = (s # "sa" /\ Native)'
            /\ \A t \in Slots : slot'[t].id = slot'[s].id => t = s
      BY <2>3, <2>4
    <2>. QED BY <2>1, <2>5, <2>6, Zenon DEF Owned, None
  <1>8. Ordered'
    BY <1>1 DEF Ordered, Builds, Native
  <1>9. Dropping'
    <2> SUFFICES ASSUME NEW i \in DOMAIN todo', NEW s \in Slots, Drops(todo'[i], s)
                 PROVE  /\ slot'[s] # None
                        /\ \A j \in DOMAIN todo' : j < i => ~Drops(todo'[j], s) /\ ~Gives(todo'[j], s)
      BY <1>4 DEF Dropping
    <2>1. s # b
      BY <1>5
    <2>. QED BY <1>1, <1>3, <2>1 DEF Dropping
  <1>10. Touching'
    <2> SUFFICES ASSUME NEW i \in DOMAIN todo', NEW s \in Slots, Touches(todo'[i], s)
                 PROVE  Kept(s)' \/ \E j \in DOMAIN todo' : j < i /\ Gives(todo'[j], s)
      BY <1>4, TouchesNext
    <2>1. Kept(s) \/ \E j \in DOMAIN todo : j < i + 1 /\ Gives(todo[j], s)
      BY <1>1 DEF Touching
    <2>2. ASSUME NEW j \in DOMAIN todo, j < i + 1, Gives(todo[j], s), s # b
          PROVE  j - 1 \in DOMAIN todo' /\ j - 1 < i /\ Gives(todo'[j - 1], s)
      BY <1>1, <1>4, <2>2
    <2>. QED BY <1>6, <2>1, <2>2
  <1>11. Building'
    BY <1>1, <1>4 DEF Building, Drops
  <1>12. Alone'
    <2>1. ASSUME NEW i \in DOMAIN todo', NEW s \in Slots, Clear(i + 1, s)
          PROVE  Clear(i, s)'
      <3>1. s # b /\ \A j \in DOMAIN todo' : j < i => ~Gives(todo'[j], s)
        BY <1>1, <1>4, <2>1 DEF Clear
      <3>2. slot'[s] = None \/ \E j \in DOMAIN todo' : j < i /\ Drops(todo'[j], s)
        <4>1. ASSUME NEW j \in DOMAIN todo, j < i + 1, Drops(todo[j], s)
              PROVE  j - 1 \in DOMAIN todo' /\ j - 1 < i /\ Drops(todo'[j - 1], s)
          BY <1>1, <1>4, <4>1
        <4>. QED BY <1>3, <2>1, <3>1, <4>1 DEF Clear
      <3>. QED BY <1>4, <3>1, <3>2 DEF Clear
    <2>. QED BY <1>1, <2>1 DEF Alone, Builds, Slots
  <1>13. Streaming'
    <2>1. \A s \in Slots, j \in DOMAIN todo : Gives(todo[j], s) /\ s # b => j - 1 \in DOMAIN todo' /\ Gives(todo'[j - 1], s)
      BY <1>1, <1>4
    <2>2. \A s \in Slots : (\A k \in DOMAIN todo : ~Gives(todo[k], s)) => \A k \in DOMAIN todo' : ~Gives(todo'[k], s)
      BY <1>1
    <2>. QED BY <1>4, <1>6, <2>1, <2>2 DEF Streaming, Native
  <1>14. Closing'
    BY <1>1 DEF Closing
  <1>. QED BY <1>2, <1>3, <1>7, <1>8, <1>9, <1>10, <1>11, <1>12, <1>13, <1>14 DEF SessionsTypeOK

\* A session that is needed and not there is built next.
LEMMA NeededNew ==
  ASSUME CachesInv, op # "none", todo # <<>>, todo[1].step = "need",
         NEW b, b = todo[1].slot, slot[b] = None,
         todo' = <<Do("build", b, todo[1].n)>> \o Tail(todo),
         UNCHANGED <<path, op, stage, slot, failed>>
  PROVE  (Ordered /\ Dropping /\ Touching /\ Building /\ Alone /\ Streaming /\ Closing)'
         /\ todo' \in Seq(Steps)
  <1> USE DEF CachesInv
  <1> DEFINE x == Do("build", b, todo[1].n)
  <1>1. /\ todo' \in Seq(Steps) /\ 1 \in DOMAIN todo /\ DOMAIN todo' = DOMAIN todo
        /\ DOMAIN todo \subseteq Nat \ {0}
        /\ todo'[1] = x /\ \A i \in DOMAIN todo : i # 1 => todo'[i] = todo[i]
    <2>1. todo \in Seq(Steps) /\ Tail(todo) \in Seq(Steps) /\ todo[1] \in Steps
      BY DEF SessionsTypeOK
    <2>2. x \in Steps
      BY <2>1, DoIsStep, ZenonT(40) DEF Steps, StepNames
    <2>3. todo' = <<x>> \o Tail(todo)
      OBVIOUS
    <2> HIDE DEF x
    <2>. QED BY <2>1, <2>2, <2>3, OneFor
  <1>2. b \in Slots /\ x.step = "build" /\ x.slot = b /\ x.n = todo[1].n
    BY <1>1 DEF Ordered, Do
  <1> HIDE DEF x
  <1>3. /\ \A i \in DOMAIN todo, s \in Slots : /\ Gives(todo'[i], s) <=> Gives(todo[i], s)
                                               /\ Builds(todo'[i], s) <=> Builds(todo[i], s)
                                               /\ Drops(todo'[i], s) <=> Drops(todo[i], s)
                                               /\ Touches(todo'[i], s) <=> Touches(todo[i], s)
        /\ \A y, s : Gives(y, s)' = Gives(y, s)
        /\ Streams' = Streams /\ Streams \subseteq Slots
    BY <1>1, <1>2, SMTT(30) DEF Gives, Builds, Drops, Touches, Streams, Native, Slots
  <1>4. \A s \in Slots : Kept(s) => Kept(s)'
    BY <1>1, <1>3 DEF Kept, Drops
  <1>5. Ordered'
    BY <1>1, <1>2 DEF Ordered, Builds, Native
  <1>6. Dropping'
    BY <1>1, <1>3 DEF Dropping, Drops
  <1>7. Touching'
    BY <1>1, <1>3, <1>4, ZenonT(40) DEF Touching, Touches
  <1>8. Building'
    BY <1>1, <1>2 DEF Building, Drops
  <1>9. Alone'
    <2>1. \A i \in DOMAIN todo, s \in Slots : Clear(i, s) => Clear(i, s)'
      BY <1>1, <1>3 DEF Clear, Drops
    <2>. QED BY <1>1, <1>3, <2>1 DEF Alone, Builds, Slots
  <1>10. Streaming'
    BY <1>1, <1>3, <1>4 DEF Streaming, Native
  <1>11. Closing'
    BY <1>1 DEF Closing
  <1>. QED BY <1>1, <1>5, <1>6, <1>7, <1>8, <1>9, <1>10, <1>11

\* A session that is too small, or of the other path, gives way first.
LEMMA NeededOther ==
  ASSUME CachesInv, op # "none", todo # <<>>, todo[1].step = "need",
         NEW b, b = todo[1].slot, slot[b] # None, ~Fits(b, todo[1].n),
         todo' = <<Do("drop", b, 0), Do("build", b, todo[1].n)>> \o Tail(todo),
         UNCHANGED <<path, op, stage, slot, failed>>
  PROVE  (Ordered /\ Dropping /\ Touching /\ Building /\ Alone /\ Streaming /\ Closing)'
         /\ todo' \in Seq(Steps)
  <1> USE DEF CachesInv
  <1> DEFINE x == Do("build", b, todo[1].n)
             d == Do("drop", b, 0)
  <1>0. todo \in Seq(Steps) /\ todo[1] \in Steps /\ b \in Slots /\ 1 \in DOMAIN todo
    BY DEF SessionsTypeOK, Ordered
  <1>1. /\ x \in Steps /\ x.step = "build" /\ x.slot = b /\ x.n = todo[1].n
        /\ d \in Steps /\ d.step = "drop" /\ d.slot = b
    <2>1. todo[1].n \in Nat /\ 0 \in Nat /\ {"drop", "build"} \subseteq StepNames /\ b \in Slots \cup {""}
      BY <1>0 DEF Steps, StepNames
    <2>2. x \in Steps /\ x.step = "build" /\ x.slot = b /\ x.n = todo[1].n
      BY <2>1 DEF Do, Steps
    <2>3. d \in Steps /\ d.step = "drop" /\ d.slot = b
      BY <2>1 DEF Do, Steps
    <2>. QED BY <2>2, <2>3
  <1>14. todo' = <<d, x>> \o Tail(todo)
    OBVIOUS
  <1> HIDE DEF x, d
  <1>2. /\ todo' \in Seq(Steps) /\ DOMAIN todo \subseteq Nat \ {0}
        /\ 1 \in DOMAIN todo' /\ todo'[1] = d
        /\ \A i \in DOMAIN todo : i + 1 \in DOMAIN todo' /\ todo'[i + 1] = IF i = 1 THEN x ELSE todo[i]
        /\ \A i \in DOMAIN todo' : i = 1 \/ \E k \in DOMAIN todo : i = k + 1
    <2>1. <<d, x>> \in Seq(Steps) /\ Tail(todo) \in Seq(Steps) /\ todo' = <<d, x>> \o Tail(todo)
      BY <1>0, <1>1, <1>14
    <2>2. /\ Len(todo) \in Nat \ {0} /\ DOMAIN todo = 1 .. Len(todo) /\ Len(Tail(todo)) = Len(todo) - 1
          /\ \A i \in 1 .. Len(todo) - 1 : Tail(todo)[i] = todo[i + 1]
      BY <1>0
    <2>3. /\ todo' \in Seq(Steps) /\ Len(todo') = Len(todo) + 1 /\ DOMAIN todo' = 1 .. Len(todo')
          /\ \A i \in 1 .. Len(todo') : todo'[i] = IF i <= 2 THEN <<d, x>>[i] ELSE Tail(todo)[i - 2]
      BY <2>1, <2>2, ConcatProperties
    <2>4. ASSUME NEW i \in DOMAIN todo', i # 1 PROVE i - 1 \in DOMAIN todo /\ i = (i - 1) + 1
      BY <2>2, <2>3, <2>4
    <2>5. \A i \in DOMAIN todo : i + 1 \in DOMAIN todo' /\ todo'[i + 1] = IF i = 1 THEN x ELSE todo[i]
      BY <2>2, <2>3
    <2>. QED BY <2>2, <2>3, <2>4, <2>5
  <1>3. /\ \A s \in Slots :
             /\ Gives(x, s) <=> Gives(todo[1], s)
             /\ Builds(x, s) <=> Builds(todo[1], s)
             /\ Drops(x, s) <=> Drops(todo[1], s)
             /\ Touches(x, s) <=> Touches(todo[1], s)
        /\ \A s \in Slots : /\ Drops(d, s) <=> s = b
                            /\ ~Gives(d, s) /\ ~Builds(d, s) /\ ~Touches(d, s)
                            /\ Gives(todo[1], s) <=> s = b
        /\ \A y, s : Gives(y, s)' = Gives(y, s) /\ Drops(y, s)' = Drops(y, s)
        /\ Streams' = Streams /\ Streams \subseteq Slots
    BY <1>1, <1>2 DEF Gives, Builds, Drops, Touches, Streams, Native, Slots
  <1>15. \A i \in DOMAIN todo, s \in Slots :
           /\ Gives(todo'[i + 1], s) <=> Gives(todo[i], s)
           /\ Builds(todo'[i + 1], s) <=> Builds(todo[i], s)
           /\ Drops(todo'[i + 1], s) <=> Drops(todo[i], s)
           /\ Touches(todo'[i + 1], s) <=> Touches(todo[i], s)
    BY <1>2, <1>3
  <1>4. \A i \in DOMAIN todo : ~Drops(todo[i], b)
    BY <1>0, <1>2, <1>3 DEF Dropping, Drops
  <1>5. \A s \in Slots : Kept(s) /\ s # b => Kept(s)'
    BY <1>1, <1>2, <1>3, <1>15 DEF Kept
  <1>6. b # "spirv"
    <2> SUFFICES ASSUME b = "spirv" PROVE Fits(b, todo[1].n)
      OBVIOUS
    <2>1. Builds(todo[1], "spirv") /\ Native /\ todo[1].n = 0
      BY <1>0 DEF Builds, Ordered
    <2>2. slot[b].rows \in Nat /\ slot[b].native = Native
      BY <1>0, <2>1 DEF SessionsTypeOK, Owned
    <2>. QED BY <2>1, <2>2 DEF Fits
  <1>7. Ordered'
    <2>1. \A i \in DOMAIN todo' :
            /\ todo'[i].step \in {"drop", "need", "use", "build"} => todo'[i].slot \in Slots
            /\ todo'[i].step \in {"submit", "drain", "probe"} => Native /\ todo'[i].slot = "spirv"
            /\ todo'[i].step = "turn" => ~Native /\ stage = "stream"
            /\ Builds(todo'[i], "spirv") => Native /\ todo'[i].n = 0
      <3>1. \A k \in DOMAIN todo :
              /\ todo[k].step \in {"drop", "need", "use", "build"} => todo[k].slot \in Slots
              /\ todo[k].step \in {"submit", "drain", "probe"} => Native /\ todo[k].slot = "spirv"
              /\ todo[k].step = "turn" => ~Native /\ stage = "stream"
              /\ Builds(todo[k], "spirv") => Native /\ todo[k].n = 0
        BY DEF Ordered
      <3>2. \A i \in DOMAIN todo' : todo'[i] \in {d, x} \/ \E k \in DOMAIN todo : todo'[i] = todo[k]
        BY <1>2
      <3>3. \A y \in {d, x} :
              /\ y.step \in {"drop", "need", "use", "build"} /\ y.slot \in Slots
              /\ y.step \notin {"submit", "drain", "probe", "turn"} /\ ~Builds(y, "spirv")
        BY <1>0, <1>1, <1>6 DEF Builds
      <3>. QED BY <3>1, <3>2, <3>3, SMTT(30)
    <2>2. ASSUME NEW i \in DOMAIN todo', NEW j \in DOMAIN todo', todo'[i].step \in {"new", "probe"}, j > i
          PROVE  todo'[j].step \in {"submit", "drain"}
      <3>1. PICK k \in DOMAIN todo : i = k + 1
        BY <1>1, <1>2, <2>2
      <3>2. k # 1 /\ todo[k].step \in {"new", "probe"}
        BY <1>0, <1>1, <1>2, <2>2, <3>1
      <3>3. PICK l \in DOMAIN todo : j = l + 1
        BY <1>2, <2>2, <3>1
      <3>4. l > k /\ l # 1
        <4>1. l + 1 > k + 1
          BY <2>2, <3>1, <3>3
        <4>2. k \in Nat \ {0} /\ l \in Nat
          BY <1>2, <3>1, <3>3
        <4>. QED BY <4>1, <4>2
      <3>. QED BY <1>2, <3>2, <3>3, <3>4 DEF Ordered
    <2>. QED BY <2>1, <2>2, SMTT(30) DEF Ordered, Builds, Native
  <1>8. Dropping'
    <2> SUFFICES ASSUME NEW i \in DOMAIN todo', NEW s \in Slots, Drops(todo'[i], s)
                 PROVE  /\ slot[s] # None
                        /\ \A j \in DOMAIN todo' : j < i => ~Drops(todo'[j], s) /\ ~Gives(todo'[j], s)
      BY <1>3 DEF Dropping
    <2>1. CASE i = 1
      BY <1>2, <1>3, <2>1
    <2>2. CASE i # 1
      <3>0. PICK k \in DOMAIN todo : i = k + 1
        BY <1>2, <2>2
      <3>1. Drops(todo[k], s) /\ s # b /\ slot[s] # None
        BY <1>4, <1>15, <3>0 DEF Dropping
      <3>2. ASSUME NEW l \in DOMAIN todo, l + 1 < i
            PROVE  ~Drops(todo'[l + 1], s) /\ ~Gives(todo'[l + 1], s)
        <4>1. l < k
          BY <1>2, <3>0, <3>2
        <4>. QED BY <1>15, <3>1, <4>1 DEF Dropping
      <3>3. ASSUME NEW j \in DOMAIN todo', j < i
            PROVE  ~Drops(todo'[j], s) /\ ~Gives(todo'[j], s)
        <4>1. CASE j = 1
          BY <1>2, <1>3, <3>1, <4>1
        <4>2. ASSUME NEW l \in DOMAIN todo, j = l + 1
              PROVE  ~Drops(todo'[j], s) /\ ~Gives(todo'[j], s)
          BY <3>2, <3>3, <4>2
        <4>. QED BY <1>2, <4>1, <4>2
      <3>. QED BY <3>1, <3>3
    <2>. QED BY <2>1, <2>2
  <1>9. Touching'
    <2> SUFFICES ASSUME NEW i \in DOMAIN todo', NEW s \in Slots, Touches(todo'[i], s)
                 PROVE  Kept(s)' \/ \E j \in DOMAIN todo' : j < i /\ Gives(todo'[j], s)
      BY <1>3, TouchesNext
    <2>1. PICK k \in DOMAIN todo : i = k + 1
      BY <1>2, <1>3
    <2>2. Touches(todo[k], s) /\ k # 1
      BY <1>15, <2>1 DEF Touches
    <2>3. Kept(s) \/ \E j \in DOMAIN todo : j < k /\ Gives(todo[j], s)
      BY <2>2 DEF Touching
    <2>4. ASSUME NEW j \in DOMAIN todo, j < k, Gives(todo[j], s)
          PROVE  j + 1 \in DOMAIN todo' /\ j + 1 < i /\ Gives(todo'[j + 1], s)
      <3>1. j + 1 \in DOMAIN todo' /\ Gives(todo'[j + 1], s)
        BY <1>2, <1>15, <2>4
      <3>2. j + 1 < i
        BY <1>2, <2>1, <2>4
      <3>. QED BY <3>1, <3>2
    <2>5. CASE s = b
      <3>1. Gives(todo[1], s) /\ 1 < k
        BY <1>0, <1>2, <1>3, <2>2, <2>5
      <3>. QED BY <1>0, <2>4, <3>1
    <2>. QED BY <1>3, <1>5, <2>3, <2>4, <2>5
  <1>10. Building'
    <2> SUFFICES ASSUME NEW i \in DOMAIN todo', todo'[i].step = "build"
                 PROVE  i = 2 /\ Drops(todo'[1], todo'[2].slot)
      BY <1>3 DEF Building
    <2>1. PICK k \in DOMAIN todo : i = k + 1
      BY <1>1, <1>2
    <2>2. k = 1
      <3> SUFFICES ASSUME k # 1 PROVE FALSE
        OBVIOUS
      <3>1. todo[k].step = "build"
        BY <1>2, <2>1
      <3>. QED BY <3>1 DEF Building, Drops
    <2>3. i = 2 /\ todo'[i] = x
      BY <1>2, <2>1, <2>2
    <2>. QED BY <1>0, <1>1, <1>2, <1>3, <2>3
  <1>11. Alone'
    <2>1. ASSUME NEW i \in DOMAIN todo, NEW s \in Slots, Clear(i, s)
          PROVE  Clear(i + 1, s)'
      <3>1. \A j \in DOMAIN todo' : j < i + 1 => ~Gives(todo'[j], s)
        <4> SUFFICES ASSUME NEW k \in DOMAIN todo, k + 1 < i + 1 PROVE ~Gives(todo'[k + 1], s)
          BY <1>2, <1>3, ZenonT(40)
        <4>1. k < i
          BY <1>2
        <4>. QED BY <1>15, <2>1, <4>1 DEF Clear
      <3>2. slot[s] = None \/ \E j \in DOMAIN todo' : j < i + 1 /\ Drops(todo'[j], s)
        <4>1. ASSUME NEW j \in DOMAIN todo, j < i, Drops(todo[j], s)
              PROVE  j + 1 \in DOMAIN todo' /\ j + 1 < i + 1 /\ Drops(todo'[j + 1], s)
          BY <1>2, <1>15, <4>1
        <4>. QED BY <2>1, <4>1 DEF Clear
      <3>. QED BY <1>3, <3>1, <3>2 DEF Clear
    <2>2. \A s \in Slots, i \in DOMAIN todo : Clear(i, s) => s # b
      BY <1>0, <1>2, <1>3 DEF Clear
    <2>3. ASSUME NEW i \in DOMAIN todo', NEW s \in Slots, Builds(todo'[i], s)
          PROVE  \E k \in DOMAIN todo : i = k + 1 /\ Builds(todo[k], s)
      BY <1>2, <1>3, <1>15, <2>3
    <2>. QED BY <2>1, <2>3 DEF Alone, Builds, Slots
  <1>12. Streaming'
    <2>1. stage = "stream" => b \notin Streams
      BY <1>0, <1>3, <1>6 DEF Streaming, Streams
    <2>2. \A s \in Slots : (\A k \in DOMAIN todo : ~Gives(todo[k], s)) => \A k \in DOMAIN todo' : ~Gives(todo'[k], s)
      BY <1>2, <1>3, <1>15
    <2>3. \A s \in Slots, j \in DOMAIN todo : Gives(todo[j], s) => j + 1 \in DOMAIN todo' /\ Gives(todo'[j + 1], s)
      BY <1>2, <1>15
    <2>4. Gives(todo[1], b)
      BY <1>0, <1>3
    <2>. QED BY <1>0, <1>3, <1>5, <2>1, <2>2, <2>3, <2>4, ZenonT(40) DEF Streaming, Native
  <1>13. Closing'
    BY <1>0 DEF Closing
  <1>. QED BY <1>2, <1>7, <1>8, <1>9, <1>10, <1>11, <1>12, <1>13

-----------------------------------------------------------------------------
(* The scripts of the operations: releases, then steps that release and    *)
(* build nothing themselves.                                               *)

\* D releases whatever is in the slots of A.
IsDrops(D, A) ==
  /\ D \in Seq(Steps) /\ A \subseteq Slots
  /\ \A i \in DOMAIN D : D[i].step = "drop" /\ D[i].slot \in A /\ slot[D[i].slot] # None
  /\ \A i, j \in DOMAIN D : D[i].slot = D[j].slot => i = j
  /\ \A s \in A : slot[s] # None => \E i \in DOMAIN D : Drops(D[i], s)

\* R can follow when the slots of A are empty.
Follows(R, A) ==
  /\ R \in Seq(Steps)
  /\ \A i \in DOMAIN R :
       /\ R[i].step \notin {"drop", "build"}
       /\ R[i].step \in {"need", "use"} => R[i].slot \in Slots
       /\ R[i].step \in {"submit", "drain", "probe"} => Native /\ R[i].slot = "spirv"
       /\ Builds(R[i], "spirv") =>
            /\ Native /\ R[i].n = 0
            /\ \A s \in {"fused", "pipe0", "pipe1"} : s \in A /\ \A j \in DOMAIN R : j < i => ~Gives(R[j], s)
       /\ \A j \in DOMAIN R : R[i].step \in {"new", "probe"} /\ j > i => R[j].step \in {"submit", "drain"}
       /\ \A s \in Slots : Touches(R[i], s) =>
            (slot[s] # None /\ s \notin A) \/ \E j \in DOMAIN R : j < i /\ Gives(R[j], s)

LEMMA DropOne == ASSUME NEW s \in Slots PROVE IsDrops(Drop(s), {s})
  <1> DEFINE d == Do("drop", s, 0)
  <1>1. d \in Steps /\ d.step = "drop" /\ d.slot = s
    <2>1. "drop" \in StepNames /\ s \in Slots \cup {""} /\ 0 \in Nat
      BY DEF StepNames
    <2>. QED BY <2>1 DEF Do, Steps
  <1>2. Drop(s) = IF slot[s] = None THEN <<>> ELSE <<d>>
    BY DEF Drop
  <1> HIDE DEF d
  <1>3. CASE slot[s] = None
    BY <1>2, <1>3 DEF IsDrops
  <1>4. CASE slot[s] # None
    <2>1. Drop(s) = <<d>> /\ <<d>> \in Seq(Steps) /\ DOMAIN <<d>> = {1} /\ <<d>>[1] = d
      BY <1>1, <1>2, <1>4
    <2>. QED BY <1>1, <1>4, <2>1 DEF IsDrops, Drops
  <1>. QED BY <1>3, <1>4

LEMMA DropJoin ==
  ASSUME NEW D, NEW A, NEW E, NEW B, IsDrops(D, A), IsDrops(E, B), A \cap B = {}
  PROVE  IsDrops(D \o E, A \cup B)
  <1> DEFINE p == D \o E
  <1>1. D \in Seq(Steps) /\ E \in Seq(Steps)
    BY DEF IsDrops
  <1>2. /\ p \in Seq(Steps) /\ Len(D) \in Nat
        /\ \A i \in DOMAIN p : /\ i \in Nat \ {0}
                               /\ i <= Len(D) => i \in DOMAIN D /\ p[i] = D[i]
                               /\ i > Len(D) => i - Len(D) \in DOMAIN E /\ p[i] = E[i - Len(D)]
        /\ \A i \in DOMAIN D : i \in Nat /\ i <= Len(D) /\ i \in DOMAIN p /\ p[i] = D[i]
        /\ \A i \in DOMAIN E : i \in Nat \ {0} /\ i + Len(D) \in DOMAIN p /\ p[i + Len(D)] = E[i]
    BY <1>1, JoinAt
  <1> HIDE DEF p
  <1>3. \A i \in DOMAIN p : p[i].step = "drop" /\ p[i].slot \in A \cup B /\ slot[p[i].slot] # None
    <2>1. \A i \in DOMAIN D : D[i].step = "drop" /\ D[i].slot \in A \cup B /\ slot[D[i].slot] # None
      BY DEF IsDrops
    <2>2. \A i \in DOMAIN E : E[i].step = "drop" /\ E[i].slot \in A \cup B /\ slot[E[i].slot] # None
      BY DEF IsDrops
    <2>3. \A i \in DOMAIN p : (\E k \in DOMAIN D : p[i] = D[k]) \/ (\E k \in DOMAIN E : p[i] = E[k])
      <3>1. ASSUME NEW i \in DOMAIN p, i > Len(D) PROVE \E k \in DOMAIN E : p[i] = E[k]
        BY <1>2, <3>1
      <3>. QED BY <1>2, <3>1
    <2>. QED BY <2>1, <2>2, <2>3
  <1>4. ASSUME NEW i \in DOMAIN p, NEW j \in DOMAIN p, p[i].slot = p[j].slot
        PROVE  i = j
    <2>1. CASE i <= Len(D) /\ j <= Len(D)
      BY <1>2, <1>4, <2>1 DEF IsDrops
    <2>2. CASE i > Len(D) /\ j > Len(D)
      <3>1. i - Len(D) = j - Len(D)
        BY <1>2, <1>4, <2>2 DEF IsDrops
      <3>. QED BY <1>2, <3>1
    <2>3. \A k, l \in DOMAIN p : k <= Len(D) /\ l > Len(D) => p[k].slot \in A /\ p[l].slot \in B
      BY <1>2 DEF IsDrops
    <2>. QED BY <1>2, <1>4, <2>1, <2>2, <2>3
  <1>5. \A s \in A \cup B : slot[s] # None => \E i \in DOMAIN p : Drops(p[i], s)
    <2>1. ASSUME NEW s \in A, slot[s] # None PROVE \E i \in DOMAIN p : Drops(p[i], s)
      <3>1. PICK i \in DOMAIN D : Drops(D[i], s)
        BY <2>1 DEF IsDrops
      <3>. QED BY <1>2, <3>1
    <2>2. ASSUME NEW s \in B, slot[s] # None PROVE \E i \in DOMAIN p : Drops(p[i], s)
      <3>1. PICK i \in DOMAIN E : Drops(E[i], s)
        BY <2>2 DEF IsDrops
      <3>. QED BY <1>2, <3>1
    <2>. QED BY <2>1, <2>2
  <1>6. A \cup B \subseteq Slots
    BY DEF IsDrops
  <1>. QED BY <1>2, <1>3, <1>4, <1>5, <1>6 DEF IsDrops, p

\* An operation that starts, or a step that expands, keeps the invariant when
\* its script is of that form.
LEMMA Started ==
  ASSUME SessionsTypeOK,
         NEW D, NEW R, NEW A, IsDrops(D, A), Follows(R, A), todo' = D \o R,
         UNCHANGED <<path, slot>>, op' # "none",
         \A i \in DOMAIN R : R[i].step = "turn" => ~Native /\ stage' = "stream",
         \A i \in DOMAIN R :
           op' \in {"open", "gate", "probe"} /\ (Builds(R[i], "pipe0") \/ Builds(R[i], "pipe1")) =>
             "fused" \in A /\ \A j \in DOMAIN R : j < i => ~Gives(R[j], "fused"),
         stage' = "stream" => \A s \in Streams :
           slot[s] # None /\ s \notin A /\ (~Native => \A j \in DOMAIN R : ~Gives(R[j], s)),
         op' = "open" => stage' = "opening" /\ \A s \in Streams :
           (slot[s] # None /\ s \notin A) \/ \E j \in DOMAIN R : Gives(R[j], s),
         stage' = "closed" => A = Slots /\ R = <<>>
  PROVE  (Ordered /\ Dropping /\ Touching /\ Building /\ Alone /\ Streaming /\ Closing)'
         /\ todo' \in Seq(Steps)
  <1>1. D \in Seq(Steps) /\ R \in Seq(Steps)
    BY DEF IsDrops, Follows
  <1>2. /\ todo' \in Seq(Steps) /\ Len(D) \in Nat
        /\ \A i \in DOMAIN todo' : /\ i \in Nat \ {0}
                                   /\ i <= Len(D) => i \in DOMAIN D /\ todo'[i] = D[i]
                                   /\ i > Len(D) => i - Len(D) \in DOMAIN R /\ todo'[i] = R[i - Len(D)]
        /\ \A i \in DOMAIN D : i \in Nat /\ i <= Len(D) /\ i \in DOMAIN todo' /\ todo'[i] = D[i]
        /\ \A i \in DOMAIN R : i \in Nat \ {0} /\ i + Len(D) \in DOMAIN todo' /\ todo'[i + Len(D)] = R[i]
    BY <1>1, JoinAt
  <1>3. /\ \A x, s : Gives(x, s)' = Gives(x, s) /\ Drops(x, s)' = Drops(x, s)
        /\ Streams' = Streams /\ Streams \subseteq Slots /\ Native' = Native
    BY DEF Gives, Builds, Drops, Streams, Native, Slots
  \* Every position is one of D or one of R, moved on.
  <1>4. \A i \in DOMAIN todo' : \/ i \in DOMAIN D /\ i <= Len(D) /\ todo'[i] = D[i]
                                \/ \E k \in DOMAIN R : i = k + Len(D) /\ i > Len(D) /\ todo'[i] = R[k]
    <2>1. ASSUME NEW i \in DOMAIN todo', i > Len(D)
          PROVE  i - Len(D) \in DOMAIN R /\ i = (i - Len(D)) + Len(D) /\ todo'[i] = R[i - Len(D)]
      BY <1>2, <2>1
    <2>. QED BY <1>2, <2>1
  <1>5. \A i \in DOMAIN D : /\ D[i].step = "drop" /\ D[i].slot \in A /\ A \subseteq Slots /\ slot[D[i].slot] # None
                            /\ \A s \in Slots : ~Gives(D[i], s) /\ ~Builds(D[i], s) /\ ~Touches(D[i], s)
    BY DEF IsDrops, Gives, Builds, Touches
  <1>6. \A k \in DOMAIN R, s \in Slots : ~Drops(R[k], s)
    BY DEF Follows, Drops
  <1>7. \A s \in Slots : slot[s] # None /\ s \notin A => Kept(s)'
    BY <1>3, <1>4, <1>5, <1>6 DEF Kept, Drops
  <1>8. Ordered'
    <2>1. \A i \in DOMAIN todo' :
            /\ todo'[i].step \in {"drop", "need", "use", "build"} => todo'[i].slot \in Slots
            /\ todo'[i].step \in {"submit", "drain", "probe"} => Native /\ todo'[i].slot = "spirv"
            /\ todo'[i].step = "turn" => ~Native /\ stage' = "stream"
            /\ Builds(todo'[i], "spirv") => Native /\ todo'[i].n = 0
      <3>1. \A x : (\E i \in DOMAIN D : x = D[i]) \/ (\E i \in DOMAIN R : x = R[i]) =>
              /\ x.step \in {"drop", "need", "use", "build"} => x.slot \in Slots
              /\ x.step \in {"submit", "drain", "probe"} => Native /\ x.slot = "spirv"
              /\ x.step = "turn" => ~Native /\ stage' = "stream"
              /\ Builds(x, "spirv") => Native /\ x.n = 0
        BY <1>5 DEF Follows, Builds
      <3>. QED BY <1>4, <3>1
    <2>2. ASSUME NEW i \in DOMAIN todo', NEW j \in DOMAIN todo', todo'[i].step \in {"new", "probe"}, j > i
          PROVE  todo'[j].step \in {"submit", "drain"}
      <3>1. PICK k \in DOMAIN R : i = k + Len(D) /\ i > Len(D) /\ todo'[i] = R[k]
        BY <1>4, <1>5, <2>2
      <3>2. PICK l \in DOMAIN R : j = l + Len(D) /\ todo'[j] = R[l]
        BY <1>2, <1>4, <2>2, <3>1
      <3>3. l > k
        BY <1>2, <2>2, <3>1, <3>2
      <3>. QED BY <2>2, <3>1, <3>2, <3>3 DEF Follows
    <2>. QED BY <1>3, <2>1, <2>2 DEF Ordered, Builds
  <1>9. Dropping'
    <2> SUFFICES ASSUME NEW i \in DOMAIN todo', NEW s \in Slots, Drops(todo'[i], s)
                 PROVE  /\ slot[s] # None
                        /\ \A j \in DOMAIN todo' : j < i => ~Drops(todo'[j], s) /\ ~Gives(todo'[j], s)
      BY <1>3 DEF Dropping
    <2>1. i \in DOMAIN D /\ i <= Len(D) /\ Drops(D[i], s)
      BY <1>4, <1>6
    <2>2. \A j \in DOMAIN todo' : j < i => j \in DOMAIN D /\ todo'[j] = D[j] /\ j # i
      BY <1>2, <2>1
    <2>3. \A j \in DOMAIN D : Drops(D[j], s) => j = i
      BY <2>1 DEF IsDrops, Drops
    <2>. QED BY <1>5, <2>1, <2>2, <2>3 DEF Drops
  <1>10. Touching'
    <2> SUFFICES ASSUME NEW i \in DOMAIN todo', NEW s \in Slots, Touches(todo'[i], s)
                 PROVE  Kept(s)' \/ \E j \in DOMAIN todo' : j < i /\ Gives(todo'[j], s)
      BY <1>3, TouchesNext
    <2>1. PICK k \in DOMAIN R : i = k + Len(D) /\ todo'[i] = R[k]
      BY <1>4, <1>5
    <2>2. (slot[s] # None /\ s \notin A) \/ \E j \in DOMAIN R : j < k /\ Gives(R[j], s)
      BY <2>1 DEF Follows
    <2>3. ASSUME NEW j \in DOMAIN R, j < k, Gives(R[j], s)
          PROVE  j + Len(D) \in DOMAIN todo' /\ j + Len(D) < i /\ Gives(todo'[j + Len(D)], s)
      <3>1. j + Len(D) \in DOMAIN todo' /\ Gives(todo'[j + Len(D)], s)
        BY <1>2, <2>3
      <3>2. j + Len(D) < i
        BY <1>2, <2>1, <2>3
      <3>. QED BY <3>1, <3>2
    <2>. QED BY <1>7, <2>2, <2>3
  <1>11. Building'
    BY <1>4, <1>5 DEF Building, Follows
  <1>12. Alone'
    <2>1. ASSUME NEW k \in DOMAIN R, NEW s \in A, \A j \in DOMAIN R : j < k => ~Gives(R[j], s)
          PROVE  Clear(k + Len(D), s)'
      <3>1. ASSUME NEW j \in DOMAIN todo', j < k + Len(D) PROVE ~Gives(todo'[j], s)
        <4>1. CASE j \in DOMAIN D /\ todo'[j] = D[j]
          BY <1>5, <4>1
        <4>2. ASSUME NEW l \in DOMAIN R, j = l + Len(D), todo'[j] = R[l]
              PROVE  ~Gives(todo'[j], s)
          <5>1. l < k
            BY <1>2, <3>1, <4>2
          <5>. QED BY <2>1, <4>2, <5>1
        <4>. QED BY <1>4, <4>1, <4>2
      <3>2. ASSUME slot[s] # None
            PROVE  \E j \in DOMAIN todo' : j < k + Len(D) /\ Drops(todo'[j], s)
        <4>1. PICK j \in DOMAIN D : Drops(D[j], s)
          BY <3>2 DEF IsDrops
        <4>2. j < k + Len(D) /\ j \in DOMAIN todo' /\ todo'[j] = D[j]
          BY <1>2
        <4>. QED BY <4>1, <4>2
      <3>. QED BY <1>3, <3>1, <3>2 DEF Clear
    <2>2. ASSUME NEW i \in DOMAIN todo', NEW s \in Slots, Builds(todo'[i], s)
          PROVE  \E k \in DOMAIN R : i = k + Len(D) /\ Builds(R[k], s)
      BY <1>4, <1>5, <2>2
    <2>3. ASSUME NEW k \in DOMAIN R, Builds(R[k], "spirv"), NEW s \in {"fused", "pipe0", "pipe1"}
          PROVE  Clear(k + Len(D), s)'
      BY <2>1, <2>3 DEF Follows
    <2>4. ASSUME NEW k \in DOMAIN R, op' \in {"open", "gate", "probe"},
                 Builds(R[k], "pipe0") \/ Builds(R[k], "pipe1")
          PROVE  Clear(k + Len(D), "fused")'
      BY <2>1, <2>4
    <2>. QED BY <2>2, <2>3, <2>4 DEF Alone, Builds, Slots
  <1>13. Streaming'
    <2>1. \A s \in Slots : (\A k \in DOMAIN R : ~Gives(R[k], s)) => \A k \in DOMAIN todo' : ~Gives(todo'[k], s)
      BY <1>4, <1>5
    <2>2. \A s \in Slots, j \in DOMAIN R : Gives(R[j], s) =>
            j + Len(D) \in DOMAIN todo' /\ Gives(todo'[j + Len(D)], s)
      BY <1>2
    <2>. QED BY <1>3, <1>7, <2>1, <2>2 DEF Streaming
  <1>14. Closing'
    <2> SUFFICES ASSUME stage' = "closed"
                 PROVE  /\ \A i \in DOMAIN todo' : todo'[i].step = "drop"
                        /\ \A s \in Slots : slot[s] # None => \E i \in DOMAIN todo' : Drops(todo'[i], s)
      BY DEF Closing, Drops
    <2>1. DOMAIN R = {}
      OBVIOUS
    <2>. QED BY <1>2, <1>4, <1>5, <2>1 DEF IsDrops
  <1>. QED BY <1>2, <1>8, <1>9, <1>10, <1>11, <1>12, <1>13, <1>14

\* Scripts that hash on the sessions of the gate, each after it is needed.
Local(R) ==
  /\ R \in Seq(Steps)
  /\ \A i \in DOMAIN R : R[i].step \in {"need", "use"} /\ R[i].slot \in {"sa", "fused"}
  /\ \A i \in DOMAIN R : R[i].step = "use" =>
       \E j \in DOMAIN R : j < i /\ R[j].step = "need" /\ R[j].slot = R[i].slot

LEMMA Fours ==
  ASSUME NEW S, NEW a \in S, NEW b \in S, NEW c \in S, NEW d \in S
  PROVE  /\ <<a, b>> \o <<c, d>> = <<a, b, c, d>>
         /\ <<a, b, c, d>> \in Seq(S)
  <1>1. /\ <<a, b>> \in Seq(S) /\ <<c, d>> \in Seq(S) /\ <<a, b, c, d>> \in Seq(S)
        /\ Len(<<a, b>>) = 2 /\ Len(<<c, d>>) = 2 /\ Len(<<a, b, c, d>>) = 4
    OBVIOUS
  <1>2. Len(<<a, b>> \o <<c, d>>) = 4 /\ <<a, b>> \o <<c, d>> \in Seq(S)
        /\ \A i \in 1 .. 4 : (<<a, b>> \o <<c, d>>)[i] = IF i <= 2 THEN <<a, b>>[i] ELSE <<c, d>>[i - 2]
    BY <1>1, ConcatProperties
  <1>3. \A i \in 1 .. 4 : (<<a, b>> \o <<c, d>>)[i] = <<a, b, c, d>>[i]
    BY <1>1, <1>2
  <1>. QED BY <1>1, <1>2, <1>3, SeqEqual

LEMMA Given == /\ Probe \in Nat /\ Corpus \in Nat /\ SpirvRows \in Nat /\ MaxSlab \in Nat /\ StreamRows \in Nat
               /\ Probe <= SpirvRows /\ Corpus <= SpirvRows /\ SpirvRows <= StreamRows
               /\ Probe <= MaxSlab /\ Corpus <= MaxSlab /\ SpirvRows <= MaxSlab
               /\ \A n \in Batches : n \in Nat /\ n <= MaxSlab
               /\ (path \in Paths /\ Native) => \A n \in Batches : n <= StreamRows
  BY SessionsAssumption DEF Native

LEMMA NeedUse ==
  ASSUME NEW s \in {"sa", "fused"}, NEW n \in Nat
  PROVE  Local(<<Need(s, n), Use(s, n)>>)
  <1>1. PICK a, b : a = Need(s, n) /\ b = Use(s, n)
    OBVIOUS
  <1>2. /\ a \in Steps /\ a.step = "need" /\ a.slot = s
        /\ b \in Steps /\ b.step = "use" /\ b.slot = s
    BY <1>1 DEF Need, Use, Do, Steps, StepNames, Slots
  <1>3. <<a, b>> \in Seq(Steps) /\ DOMAIN <<a, b>> = {1, 2} /\ <<a, b>>[1] = a /\ <<a, b>>[2] = b
    BY <1>2
  <1>. QED BY <1>1, <1>2, <1>3 DEF Local

LEMMA LocalJoin == ASSUME NEW P, NEW R, Local(P), Local(R) PROVE Local(P \o R)
  <1> DEFINE p == P \o R
  <1>1. P \in Seq(Steps) /\ R \in Seq(Steps)
    BY DEF Local
  <1>2. /\ p \in Seq(Steps) /\ Len(P) \in Nat
        /\ \A i \in DOMAIN p : /\ i \in Nat \ {0}
                               /\ i <= Len(P) => i \in DOMAIN P /\ p[i] = P[i]
                               /\ i > Len(P) => i - Len(P) \in DOMAIN R /\ p[i] = R[i - Len(P)]
        /\ \A i \in DOMAIN P : i \in Nat /\ i <= Len(P) /\ i \in DOMAIN p /\ p[i] = P[i]
        /\ \A i \in DOMAIN R : i \in Nat \ {0} /\ i + Len(P) \in DOMAIN p /\ p[i + Len(P)] = R[i]
    BY <1>1, JoinAt
  <1> HIDE DEF p
  <1>3. \A i \in DOMAIN p : \/ i \in DOMAIN P /\ p[i] = P[i]
                            \/ \E k \in DOMAIN R : i = k + Len(P) /\ p[i] = R[k]
    <2>1. ASSUME NEW i \in DOMAIN p, i > Len(P)
          PROVE  i - Len(P) \in DOMAIN R /\ i = (i - Len(P)) + Len(P) /\ p[i] = R[i - Len(P)]
      BY <1>2, <2>1
    <2>. QED BY <1>2, <2>1
  <1>4. \A i \in DOMAIN p : p[i].step \in {"need", "use"} /\ p[i].slot \in {"sa", "fused"}
    BY <1>3 DEF Local
  <1>5. ASSUME NEW i \in DOMAIN p, p[i].step = "use"
        PROVE  \E j \in DOMAIN p : j < i /\ p[j].step = "need" /\ p[j].slot = p[i].slot
    <2>1. CASE i \in DOMAIN P /\ p[i] = P[i]
      <3>1. PICK l \in DOMAIN P : l < i /\ P[l].step = "need" /\ P[l].slot = P[i].slot
        BY <1>5, <2>1 DEF Local
      <3>2. l \in DOMAIN p /\ p[l] = P[l]
        BY <1>2
      <3>. QED BY <2>1, <3>1, <3>2
    <2>2. ASSUME NEW k \in DOMAIN R, i = k + Len(P), p[i] = R[k]
          PROVE  \E j \in DOMAIN p : j < i /\ p[j].step = "need" /\ p[j].slot = p[i].slot
      <3>1. PICK l \in DOMAIN R : l < k /\ R[l].step = "need" /\ R[l].slot = R[k].slot
        BY <1>5, <2>2 DEF Local
      <3>2. l + Len(P) < i
        BY <1>2, <2>2, <3>1
      <3>3. l + Len(P) \in DOMAIN p /\ p[l + Len(P)] = R[l]
        BY <1>2
      <3>. QED BY <2>2, <3>1, <3>2, <3>3
    <2>. QED BY <1>3, <2>1, <2>2
  <1>. QED BY <1>2, <1>4, <1>5 DEF Local, p

LEMMA LocalFollows ==
  ASSUME NEW R, Local(R), NEW A
  PROVE  Follows(R, A) /\ \A i \in DOMAIN R, s \in Streams : ~Gives(R[i], s)
  <1>1. \A s : \A i \in DOMAIN R : R[i].step = "need" /\ R[i].slot = s => Gives(R[i], s)
    BY DEF Gives, Builds
  <1>. QED BY <1>1 DEF Local, Follows, Builds, Gives, Touches, Streams, Slots

\* Nothing to release first.
LEMMA NoDrops == /\ IsDrops(<<>>, {})
                 /\ \A R : R \in Seq(Steps) => <<>> \o R = R
  BY ConcatEmptySeq DEF IsDrops

LEMMA HashesAreLocal ==
  ASSUME NEW n \in Nat
  PROVE  Local(HashBatch(n)) /\ Local(HashBatchFused(n))
  BY NeedUse DEF HashBatch, HashBatchFused

LEMMA SelfTestFollows ==
  /\ SelfTest \in Seq(Steps)
  /\ ~Native => Local(SelfTest)
  /\ Native => Follows(SelfTest, {})
  /\ \A i \in DOMAIN SelfTest : /\ SelfTest[i].step \in {"need", "use", "probe"}
                                /\ \A s \in {"pipe0", "pipe1", "spirv"} : ~Builds(SelfTest[i], s)
  <1>1. CASE ~Native
    <2>1. Local(SelfTest)
      BY <1>1, Given, HashesAreLocal, LocalJoin DEF SelfTest
    <2>. QED BY <1>1, <2>1 DEF Local, Builds
  <1>2. CASE Native
    <2>1. path # "portable"
      BY <1>2 DEF Native
    <2>2. PICK a, b, c, d : a = Need("fused", Probe) /\ b = Use("fused", Probe)
                            /\ c = Use("fused", Corpus) /\ d = Do("probe", "spirv", Probe)
      OBVIOUS
    <2>3. /\ a \in Steps /\ a.step = "need" /\ a.slot = "fused"
          /\ b \in Steps /\ b.step = "use" /\ b.slot = "fused"
          /\ c \in Steps /\ c.step = "use" /\ c.slot = "fused"
          /\ d \in Steps /\ d.step = "probe" /\ d.slot = "spirv"
      BY <2>2, Given DEF Need, Use, Do, Steps, StepNames, Slots
    <2>4. SelfTest = <<a, b, c, d>> /\ <<a, b, c, d>> \in Seq(Steps)
      BY <1>2, <2>1, <2>2, <2>3, Fours DEF SelfTest, HashBatchFused
    <2>5. PICK R : R = <<a, b, c, d>>
      OBVIOUS
    <2>6. R \in Seq(Steps) /\ DOMAIN R = {1, 2, 3, 4} /\ R[1] = a /\ R[2] = b /\ R[3] = c /\ R[4] = d
      BY <2>4, <2>5
    <2>7. Gives(a, "fused") /\ \A s : ~Touches(a, s) /\ ~Touches(d, s)
          /\ (Touches(b, s) => s = "fused") /\ (Touches(c, s) => s = "fused")
      BY <2>3 DEF Gives, Builds, Touches
    <2>8. \A x \in {a, b, c, d} : x.step \in {"need", "use", "probe"} /\ \A s \in {"pipe0", "pipe1", "spirv"} : ~Builds(x, s)
      BY <2>3 DEF Builds
    <2>9. Follows(R, {})
      BY <1>2, <2>3, <2>6, <2>7, <2>8 DEF Follows, Builds, Slots
    <2>. QED BY <1>2, <2>4, <2>5, <2>6, <2>8, <2>9
  <1>. QED BY <1>1, <1>2

LEMMA StreamFollows ==
  ASSUME NEW n \in Nat
  PROVE  /\ Follows(HashBatchFusedStream(n), {})
         /\ \A i \in DOMAIN HashBatchFusedStream(n) :
              /\ HashBatchFusedStream(n)[i].step # "turn"
              /\ Native => \A s : ~Builds(HashBatchFusedStream(n)[i], s)
  <1> DEFINE R == HashBatchFusedStream(n)
  <1>1. CASE Native
    <2>1. PICK a, b, c : a = Do("new", "spirv", n) /\ b = Do("submit", "spirv", n) /\ c = Do("drain", "spirv", 0)
      OBVIOUS
    <2>2. /\ a \in Steps /\ a.step = "new"
          /\ b \in Steps /\ b.step = "submit" /\ b.slot = "spirv"
          /\ c \in Steps /\ c.step = "drain" /\ c.slot = "spirv"
      BY <2>1 DEF Do, Steps, StepNames, Slots
    <2>3. R = <<a, b, c>>
      BY <1>1, <2>1 DEF HashBatchFusedStream
    <2> HIDE DEF R
    <2>4. R \in Seq(Steps) /\ DOMAIN R = {1, 2, 3} /\ R[1] = a /\ R[2] = b /\ R[3] = c
      BY <2>2, <2>3
    <2>5. /\ Gives(a, "spirv")
          /\ \A s : ~Touches(a, s) /\ (Touches(b, s) => s = "spirv") /\ (Touches(c, s) => s = "spirv")
          /\ \A x \in {a, b, c} : x.step \in {"new", "submit", "drain"} /\ \A s : ~Builds(x, s)
      BY <1>1, <2>2 DEF Gives, Builds, Touches, Streams
    <2>6. Follows(R, {})
      BY <1>1, <2>2, <2>4, <2>5 DEF Follows
    <2>7. \A i \in DOMAIN R : R[i] \in {a, b, c}
      BY <2>4
    <2>. QED BY <2>5, <2>6, <2>7 DEF R
  <1>2. CASE ~Native
    <2>1. PICK a, b, c : a = Need("pipe0", n) /\ b = Need("pipe1", n) /\ c = Use("pipe0", n)
      OBVIOUS
    <2>2. /\ a \in Steps /\ a.step = "need" /\ a.slot = "pipe0"
          /\ b \in Steps /\ b.step = "need" /\ b.slot = "pipe1"
          /\ c \in Steps /\ c.step = "use" /\ c.slot = "pipe0"
      BY <2>1 DEF Need, Use, Do, Steps, StepNames, Slots
    <2>3. R = <<a, b, c>>
      BY <1>2, <2>1 DEF HashBatchFusedStream
    <2> HIDE DEF R
    <2>4. R \in Seq(Steps) /\ DOMAIN R = {1, 2, 3} /\ R[1] = a /\ R[2] = b /\ R[3] = c
      BY <2>2, <2>3
    <2>5. /\ Gives(a, "pipe0")
          /\ \A s : ~Touches(a, s) /\ ~Touches(b, s) /\ (Touches(c, s) => s = "pipe0")
          /\ \A x \in {a, b, c} : x.step \in {"need", "use"} /\ x.slot \in Slots /\ ~Builds(x, "spirv")
      BY <1>2, <2>2 DEF Gives, Builds, Touches, Slots
    <2>6. Follows(R, {})
      BY <1>2, <2>2, <2>4, <2>5 DEF Follows
    <2>7. \A i \in DOMAIN R : R[i] \in {a, b, c}
      BY <2>4
    <2>. QED BY <1>2, <2>5, <2>6, <2>7 DEF R
  <1>. QED BY <1>1, <1>2

\* Scripts of one step and of two.
LEMMA ShortFollows ==
  /\ \A x \in Steps : <<x>> \in Seq(Steps) /\ DOMAIN <<x>> = {1} /\ <<x>>[1] = x
  /\ \A x, y \in Steps : <<x, y>> \in Seq(Steps) /\ DOMAIN <<x, y>> = {1, 2} /\ <<x, y>>[1] = x /\ <<x, y>>[2] = y
  OBVIOUS

LEMMA OwnedSame ==
  ASSUME Owned, UNCHANGED <<path, slot, alive, stale, ids>>
  PROVE  Owned'
  <1>1. Native' = Native
    BY DEF Native
  <1>. QED BY <1>1 DEF Owned

\* What Begin leaves alone, and how it starts an operation.
LEMMA Begun ==
  ASSUME SessionsTypeOK, Owned, NEW name, NEW rest, Begin(name, rest), rest \in Seq(Steps)
  PROVE  /\ op = "none" /\ op' = name /\ todo' = rest /\ failed' = FALSE
         /\ UNCHANGED <<path, slot, alive, stale, streamer, handle, ids, faults>>
         /\ SessionsTypeOK' /\ Owned'
  <1>1. /\ op = "none" /\ op' = name /\ todo' = rest /\ failed' = FALSE
        /\ UNCHANGED <<path, slot, alive, stale, streamer, handle, ids, faults>>
    BY DEF Begin, Idle
  <1>2. SessionsTypeOK'
    BY <1>1 DEF SessionsTypeOK, streamer, handle
  <1>3. Owned'
    BY <1>1, OwnedSame
  <1>. QED BY <1>1, <1>2, <1>3

LEMMA StartedPlain ==
  ASSUME CachesInv, NEW name, NEW R, Begin(name, R), name # "none", Follows(R, {}), stage' # "closed",
         \A i \in DOMAIN R : R[i].step = "turn" => ~Native /\ stage' = "stream",
         name \in {"open", "gate", "probe"} => \A i \in DOMAIN R : ~Builds(R[i], "pipe0") /\ ~Builds(R[i], "pipe1"),
         stage' = "stream" => \A s \in Streams :
           slot[s] # None /\ (~Native => \A j \in DOMAIN R : ~Gives(R[j], s)),
         name = "open" => stage' = "opening" /\ \A s \in Streams : \E j \in DOMAIN R : Gives(R[j], s)
  PROVE  CachesInv'
  <1>1. R \in Seq(Steps)
    BY DEF Follows
  <1>2. /\ op' = name /\ todo' = R /\ UNCHANGED <<path, slot>>
        /\ SessionsTypeOK /\ SessionsTypeOK' /\ Owned'
    BY <1>1, Begun DEF CachesInv
  <1>3. PICK D, A : D = <<>> /\ A = {}
    OBVIOUS
  <1>4. IsDrops(D, A) /\ Follows(R, A) /\ todo' = D \o R
    BY <1>1, <1>2, <1>3, NoDrops
  <1>5. (Ordered /\ Dropping /\ Touching /\ Building /\ Alone /\ Streaming /\ Closing)'
    BY <1>2, <1>3, <1>4, Started
  <1>. QED BY <1>2, <1>5 DEF CachesInv

\* What is known between operations.
LEMMA BetweenOps ==
  ASSUME CachesInv, op = "none"
  PROVE  /\ todo = <<>>
         /\ stage = "stream" => \A s \in Streams : slot[s] # None
         /\ turn \in {0, 1} /\ Streams \subseteq Slots
         /\ ~Native => Pipe(turn) \in Streams /\ Pipe(1 - turn) \in Streams
  BY DEF CachesInv, Ordered, Streaming, Kept, SessionsTypeOK, Streams, Pipe, Slots

LEMMA SelfTestStarts ==
  ASSUME CachesInv, NEW name \in {"gate", "probe"}, Begin(name, SelfTest), stage' = stage, stage # "closed"
  PROVE  CachesInv'
  <1>1. Follows(SelfTest, {}) /\ \A i \in DOMAIN SelfTest : SelfTest[i].step # "turn" /\ SelfTest[i].step # "new"
    BY SelfTestFollows, LocalFollows
  <1>2. op = "none"
    BY DEF Begin, Idle
  <1>3. \A s \in Streams, i \in DOMAIN SelfTest : ~Gives(SelfTest[i], s)
    BY <1>1, SelfTestFollows DEF Gives, Streams
  <1>. QED BY <1>1, <1>2, <1>3, BetweenOps, SelfTestFollows, StartedPlain

LEMMA BatchStarts ==
  ASSUME CachesInv, NEW name \in {"bench", "batch"}, NEW n \in Nat, stage' = stage, stage \in {"bench", "mine"},
         \/ Begin(name, HashBatch(n))
         \/ Begin(name, HashBatchFused(n))
         \/ Begin(name, HashBatchFusedStream(n))
  PROVE  CachesInv'
  <1>1. CASE Begin(name, HashBatch(n))
    <2>1. Follows(HashBatch(n), {}) /\ \A i \in DOMAIN HashBatch(n) : HashBatch(n)[i].step # "turn"
      BY HashesAreLocal, LocalFollows DEF Local
    <2>. QED BY <1>1, <2>1, StartedPlain
  <1>2. CASE Begin(name, HashBatchFused(n))
    <2>1. Follows(HashBatchFused(n), {}) /\ \A i \in DOMAIN HashBatchFused(n) : HashBatchFused(n)[i].step # "turn"
      BY HashesAreLocal, LocalFollows DEF Local
    <2>. QED BY <1>2, <2>1, StartedPlain
  <1>3. CASE Begin(name, HashBatchFusedStream(n))
    BY <1>3, StreamFollows, StartedPlain
  <1>. QED BY <1>1, <1>2, <1>3

LEMMA OpenStarts == ASSUME CachesInv, Open PROVE CachesInv'
  <1>1. PICK n \in Batches : Begin("open", <<Do("new", "", n)>>)
    BY DEF Open
  <1>2. PICK x, R : x = Do("new", "", n) /\ R = <<x>>
    OBVIOUS
  <1>3. x \in Steps /\ x.step = "new"
    BY <1>2, Given DEF Do, Steps, StepNames
  <1>4. R \in Seq(Steps) /\ DOMAIN R = {1} /\ R[1] = x
    BY <1>2, <1>3, ShortFollows
  <1>5. /\ \A s : ~Builds(x, s) /\ ~Touches(x, s)
        /\ \A s \in Streams : Gives(x, s)
    BY <1>3 DEF Gives, Builds, Touches
  <1>6. Follows(R, {})
    BY <1>3, <1>4, <1>5 DEF Follows
  <1>7. Begin("open", R) /\ stage' = "opening"
    BY <1>1, <1>2 DEF Open
  <1>. QED BY <1>3, <1>4, <1>5, <1>6, <1>7, StartedPlain

LEMMA SubmitStarts == ASSUME CachesInv, Submit PROVE CachesInv'
  <1>1. op = "none" /\ stage = "stream" /\ stage' = "stream"
    BY DEF Submit, Begin, Idle
  <1>2. CASE Native
    <2>1. PICK x, R : x = Do("submit", "spirv", 1) /\ R = <<x>>
      OBVIOUS
    <2>2. x \in Steps /\ x.step = "submit" /\ x.slot = "spirv"
      BY <2>1 DEF Do, Steps, StepNames, Slots
    <2>3. R \in Seq(Steps) /\ DOMAIN R = {1} /\ R[1] = x
      BY <2>1, <2>2, ShortFollows
    <2>4. slot["spirv"] # None /\ \A s : ~Builds(x, s) /\ (Touches(x, s) => s = "spirv")
      BY <1>1, <1>2, <2>2, BetweenOps DEF Builds, Touches, Streams
    <2>5. Follows(R, {})
      BY <1>2, <2>2, <2>3, <2>4 DEF Follows
    <2>6. Begin("submit", R)
      BY <1>2, <2>1 DEF Submit
    <2>. QED BY <1>1, <1>2, <2>2, <2>3, <2>5, <2>6, BetweenOps, StartedPlain
  <1>3. CASE ~Native
    <2>1. PICK x, y, R : x = Use(Pipe(turn), 1) /\ y = Do("turn", "", 0) /\ R = <<x, y>>
      OBVIOUS
    <2>2. Pipe(turn) \in Streams /\ Pipe(turn) \in Slots /\ slot[Pipe(turn)] # None
      BY <1>1, <1>3, BetweenOps
    <2>3. x \in Steps /\ x.step = "use" /\ x.slot = Pipe(turn) /\ y \in Steps /\ y.step = "turn"
      BY <2>1, <2>2 DEF Use, Do, Steps, StepNames
    <2>4. R \in Seq(Steps) /\ DOMAIN R = {1, 2} /\ R[1] = x /\ R[2] = y
      <3>1. R = <<x, y>> /\ x \in Steps /\ y \in Steps
        BY <2>1, <2>3
      <3>. QED BY <3>1, ShortFollows
    <2>5. \A s : /\ ~Gives(x, s) /\ ~Gives(y, s) /\ ~Builds(x, s) /\ ~Builds(y, s)
                 /\ ~Touches(y, s) /\ (Touches(x, s) => s = Pipe(turn))
      BY <2>3 DEF Gives, Builds, Touches
    <2>6. Follows(R, {})
      BY <2>2, <2>3, <2>4, <2>5 DEF Follows
    <2>7. Begin("submit", R)
      BY <1>3, <2>1 DEF Submit
    <2>. QED BY <1>1, <1>3, <2>3, <2>4, <2>5, <2>6, <2>7, BetweenOps, StartedPlain
  <1>. QED BY <1>2, <1>3

LEMMA OneFollows ==
  ASSUME NEW x, x \in Steps, NEW s \in Slots, x.slot = s, slot[s] # None,
         \/ x.step = "use"
         \/ x.step \in {"submit", "drain"} /\ Native /\ s = "spirv"
  PROVE  /\ Follows(<<x>>, {})
         /\ \A i \in DOMAIN <<x>> : <<x>>[i].step # "turn" /\ \A t \in Slots : ~Builds(<<x>>[i], t) /\ ~Gives(<<x>>[i], t)
  <1>1. PICK R : R = <<x>>
    OBVIOUS
  <1>2. R \in Seq(Steps) /\ DOMAIN R = {1} /\ R[1] = x
    BY <1>1, ShortFollows
  <1>3. \A t : ~Builds(x, t) /\ ~Gives(x, t) /\ (Touches(x, t) => t = s)
    BY DEF Builds, Gives, Touches
  <1>4. Follows(R, {})
    BY <1>2, <1>3 DEF Follows
  <1>. QED BY <1>1, <1>2, <1>3, <1>4

LEMMA DrainStarts == ASSUME CachesInv, Drain PROVE CachesInv'
  <1>1. op = "none" /\ stage = "stream" /\ stage' = "drained"
    BY DEF Drain, Begin, Idle
  <1>2. CASE Native
    <2>1. PICK x : x = Do("drain", "spirv", 0)
      OBVIOUS
    <2>2. x \in Steps /\ x.step = "drain" /\ x.slot = "spirv"
      BY <2>1 DEF Do, Steps, StepNames, Slots
    <2>3. slot["spirv"] # None /\ "spirv" \in Slots
      BY <1>1, <1>2, BetweenOps DEF Streams, Slots
    <2>4. Begin("drain", <<x>>)
      BY <1>2, <2>1 DEF Drain
    <2>. QED BY <1>1, <1>2, <2>2, <2>3, <2>4, OneFollows, StartedPlain
  <1>3. CASE ~Native /\ flying
    <2>1. PICK x : x = Use(Pipe(1 - turn), 1)
      OBVIOUS
    <2>2. Pipe(1 - turn) \in Slots /\ slot[Pipe(1 - turn)] # None
      BY <1>1, <1>3, BetweenOps
    <2>3. x \in Steps /\ x.step = "use" /\ x.slot = Pipe(1 - turn)
      BY <2>1, <2>2 DEF Use, Do, Steps, StepNames
    <2>4. Begin("drain", <<x>>)
      BY <1>3, <2>1 DEF Drain
    <2>. QED BY <1>1, <2>2, <2>3, <2>4, OneFollows, StartedPlain
  <1>4. CASE ~Native /\ ~flying
    <2>1. Begin("drain", <<>>)
      BY <1>4 DEF Drain
    <2>2. Follows(<<>>, {})
      BY DEF Follows
    <2>. QED BY <1>1, <2>1, <2>2, StartedPlain
  <1>. QED BY <1>2, <1>3, <1>4

\* What Close releases.
LEMMA AllDrops ==
  IsDrops(Drop("spirv") \o Drop("sa") \o Drop("fused") \o Drop("pipe0") \o Drop("pipe1"), Slots)
  <1> DEFINE D1 == Drop("spirv") \o Drop("sa")
             D2 == D1 \o Drop("fused")
             D3 == D2 \o Drop("pipe0")
             D  == D3 \o Drop("pipe1")
  <1>0. \A s \in Slots : IsDrops(Drop(s), {s})
    BY DropOne
  <1>1. IsDrops(D1, {"spirv"} \cup {"sa"})
    BY <1>0, DropJoin DEF Slots
  <1>2. IsDrops(D2, {"spirv", "sa"} \cup {"fused"})
    <2> HIDE DEF D1
    <2>. QED BY <1>0, <1>1, DropJoin DEF Slots
  <1>3. IsDrops(D3, {"spirv", "sa", "fused"} \cup {"pipe0"})
    <2> HIDE DEF D2
    <2>. QED BY <1>0, <1>2, DropJoin DEF Slots
  <1>4. IsDrops(D, {"spirv", "sa", "fused", "pipe0"} \cup {"pipe1"})
    <2> HIDE DEF D3
    <2>. QED BY <1>0, <1>3, DropJoin DEF Slots
  <1>5. {"spirv", "sa", "fused", "pipe0"} \cup {"pipe1"} = Slots
    BY DEF Slots
  <1>. QED BY <1>4, <1>5

LEMMA CloseStarts == ASSUME CachesInv, Close PROVE CachesInv'
  <1>1. PICK D : IsDrops(D, Slots) /\ Begin("close", D)
    BY AllDrops DEF Close
  <1>2. stage' = "closed"
    BY DEF Close
  <1>3. D \in Seq(Steps) /\ D \o <<>> = D
    BY <1>1, ConcatEmptySeq DEF IsDrops
  <1>4. /\ op' = "close" /\ todo' = D /\ UNCHANGED <<path, slot>>
        /\ SessionsTypeOK /\ SessionsTypeOK' /\ Owned'
    BY <1>1, <1>3, Begun DEF CachesInv
  <1>5. PICK R, A : R = <<>> /\ A = Slots
    OBVIOUS
  <1>6. Follows(R, A) /\ todo' = D \o R /\ DOMAIN R = {}
    BY <1>3, <1>4, <1>5 DEF Follows
  <1>7. (Ordered /\ Dropping /\ Touching /\ Building /\ Alone /\ Streaming /\ Closing)'
    BY <1>1, <1>2, <1>4, <1>5, <1>6, Started
  <1>. QED BY <1>4, <1>7 DEF CachesInv

\* Every operation starts well.
LEMMA OperationsStart ==
  ASSUME CachesInv,
         Gate \/ Open \/ Bench \/ BenchStream \/ Submit \/ Drain \/ Reprobe \/ MineBatch \/ Close
  PROVE  CachesInv'
  <1>1. CASE Gate
    BY <1>1, SelfTestStarts DEF Gate
  <1>2. CASE Reprobe
    BY <1>2, SelfTestStarts DEF Reprobe
  <1>3. CASE Bench
    <2>1. PICK n \in Batches : Begin("bench", IF path = "portable" THEN HashBatch(n)
                                              ELSE IF Native THEN HashBatchFusedStream(n)
                                              ELSE HashBatchFused(n))
      BY <1>3 DEF Bench
    <2>2. n \in Nat /\ stage' = stage /\ stage = "bench"
      BY <1>3, Given DEF Bench
    <2>3. \/ Begin("bench", HashBatch(n))
          \/ Begin("bench", HashBatchFused(n))
          \/ Begin("bench", HashBatchFusedStream(n))
      BY <2>1
    <2>. QED BY <2>2, <2>3, BatchStarts
  <1>4. CASE BenchStream
    BY <1>4, Given, BatchStarts DEF BenchStream
  <1>5. CASE MineBatch
    BY <1>5, Given, BatchStarts DEF MineBatch
  <1>. QED BY <1>1, <1>2, <1>3, <1>4, <1>5, OpenStarts, SubmitStarts, DrainStarts, CloseStarts

-----------------------------------------------------------------------------
(* The steps.                                                              *)

\* A step of an operation: where it comes from, and what it leaves alone.
LEMMA StepAt ==
  ASSUME CachesInv, NEW w, At(w)
  PROVE  /\ op # "none" /\ todo # <<>> /\ Step = todo[1] /\ Step.step = w
         /\ Step \in Steps /\ Rest = Tail(todo) /\ Rest \in Seq(Steps) /\ 1 \in DOMAIN todo
         /\ stage = "closed" => w = "drop"
         /\ w \in {"new", "probe"} => \A i \in DOMAIN Rest :
              Rest[i].step \in {"submit", "drain"} /\ Rest[i].slot = "spirv" /\ Native
  <1>1. /\ todo \in Seq(Steps) /\ op # "none" /\ todo # <<>> /\ Head(todo).step = w
    BY DEF CachesInv, SessionsTypeOK, At
  <1>2. /\ Rest \in Seq(Steps) /\ Step = todo[1] /\ 1 \in DOMAIN todo
        /\ \A i \in DOMAIN Rest : i \in Nat \ {0} /\ i + 1 \in DOMAIN todo /\ Rest[i] = todo[i + 1]
    BY <1>1, TailAt DEF Rest, Step
  <1>3. Step \in Steps /\ Step.step = w
    BY <1>1, <1>2 DEF Step
  <1>4. stage = "closed" => w = "drop"
    BY <1>2, <1>3 DEF CachesInv, Closing
  <1>5. ASSUME w \in {"new", "probe"}, NEW i \in DOMAIN Rest
        PROVE  Rest[i].step \in {"submit", "drain"} /\ Rest[i].slot = "spirv" /\ Native
    <2>1. i + 1 > 1 /\ i + 1 \in DOMAIN todo /\ Rest[i] = todo[i + 1]
      BY <1>2
    <2>2. todo[i + 1].step \in {"submit", "drain"}
      BY <1>2, <1>3, <1>5, <2>1 DEF CachesInv, Ordered
    <2>. QED BY <2>1, <2>2 DEF CachesInv, Ordered
  <1>. QED BY <1>1, <1>2, <1>3, <1>4, <1>5 DEF Rest

\* A step that gives its operation up.
LEMMA FailsSoundly ==
  ASSUME CachesInv, NEW w, At(w), w # "drop", Fails, KeepOp, UNCHANGED <<slot, alive, ids>>,
         stale' = stale, SessionsTypeOK'
  PROVE  CachesInv'
  <1>1. Owned'
    BY OwnedSame DEF CachesInv, KeepOp
  <1>2. (Ordered /\ Dropping /\ Touching /\ Building /\ Alone /\ Streaming /\ Closing)'
    BY StepAt, GivenUp DEF Fails, KeepOp
  <1>. QED BY <1>1, <1>2 DEF CachesInv

\* A step that is done with, and built and released nothing.
LEMMA GoesSoundly ==
  ASSUME CachesInv, NEW w \in {"use", "turn", "idle", "submit", "drain"}, At(w), Goes(Rest), KeepOp,
         UNCHANGED <<slot, alive, ids>>, stale' = stale, SessionsTypeOK'
  PROVE  CachesInv'
  <1>1. Owned'
    BY OwnedSame DEF CachesInv, KeepOp
  <1>2. (Ordered /\ Dropping /\ Touching /\ Building /\ Alone /\ Streaming /\ Closing)'
    BY StepAt, Consumed DEF Goes, KeepOp
  <1>. QED BY <1>1, <1>2 DEF CachesInv

\* What the first step works with is alive.
LEMMA Lives ==
  ASSUME CachesInv, NEW w, At(w), NEW s \in Slots, Touches(Step, s) \/ (stage = "stream" /\ s \in Streams)
  PROVE  Uses(s) => stale' = stale
  <1>1. slot[s] # None
    <2>1. CASE Touches(Step, s)
      <3>1. ~\E j \in DOMAIN todo : j < 1 /\ Gives(todo[j], s)
        <4>1. \A j \in DOMAIN todo : j \in Nat \ {0}
          BY DEF CachesInv, SessionsTypeOK
        <4>. QED BY <4>1
      <3>. QED BY <2>1, <3>1, StepAt DEF CachesInv, Touching, Kept
    <2>2. CASE stage = "stream" /\ s \in Streams
      BY <2>2 DEF CachesInv, Streaming, Kept
    <2>. QED BY <2>1, <2>2
  <1>2. slot[s] \in alive /\ stale = FALSE
    BY <1>1 DEF CachesInv, Owned, SessionsTypeOK
  <1>3. Uses(s) => stale' = (stale \/ FALSE)
    BY <1>2 DEF Uses
  <1>. QED BY <1>2, <1>3

\* What the end of a step leaves of its operation.
LEMMA Ends ==
  ASSUME CachesInv, Rest \in Seq(Steps), Fails \/ Goes(Rest), Sound \/ Fault
  PROVE  todo' \in Seq(Steps) /\ failed' \in BOOLEAN /\ faults' \in Nat
  <1>1. todo' \in Seq(Steps)
    <2>1. todo' = <<>> \/ todo' = Rest
      BY DEF Goes, Fails
    <2>2. <<>> \in Seq(Steps)
      OBVIOUS
    <2>. QED BY <2>1, <2>2
  <1>2. failed' \in BOOLEAN
    BY DEF Goes, Fails, CachesInv, SessionsTypeOK
  <1>3. faults' \in Nat
    BY DEF Sound, Fault, CachesInv, SessionsTypeOK
  <1>. QED BY <1>1, <1>2, <1>3

LEMMA NeedSteps == ASSUME CachesInv, NeedStep PROVE CachesInv'
  <1>1. /\ op # "none" /\ todo # <<>> /\ Step = todo[1] /\ Step.step = "need" /\ Rest = Tail(todo)
        /\ stage # "closed" /\ Step \in Steps /\ Rest \in Seq(Steps)
    BY StepAt DEF NeedStep
  <1>2. UNCHANGED <<path, op, stage, slot, alive, stale, cur, have, ready, answer, turn, flying, ids, faults>>
    BY DEF NeedStep, KeepOp, Sound, streamer, handle
  <1>3. Owned'
    BY <1>2, OwnedSame DEF CachesInv
  <1>4. todo' \in Seq(Steps) /\ failed' \in BOOLEAN => SessionsTypeOK'
    BY <1>2 DEF CachesInv, SessionsTypeOK
  <1>5. CASE Step.slot = "sa" /\ Step.n > MaxSlab
    <2>1. todo' = <<>> /\ failed' = TRUE
      BY <1>5 DEF NeedStep, Fails
    <2>2. SessionsTypeOK'
      BY <1>4, <2>1
    <2>. QED BY <1>1, <1>2, <1>3, <2>1, <2>2, GivenUp DEF CachesInv
  <1>6. CASE ~(Step.slot = "sa" /\ Step.n > MaxSlab)
    <2>0. failed' = failed /\ failed \in BOOLEAN
      BY <1>6 DEF NeedStep, Goes, CachesInv, SessionsTypeOK
    <2>1. CASE Fits(Step.slot, Step.n)
      <3>1. todo' = Rest
        BY <1>1, <1>6, <2>1, ConcatEmptySeq DEF NeedStep, Goes
      <3>2. slot[todo[1].slot] # None
        BY <1>1, <2>1 DEF Fits
      <3>3. (Ordered /\ Dropping /\ Touching /\ Building /\ Alone /\ Streaming /\ Closing)'
        BY <1>1, <1>2, <2>0, <3>1, <3>2, Consumed
      <3>. QED BY <1>1, <1>3, <1>4, <2>0, <3>1, <3>3 DEF CachesInv
    <2>2. CASE ~Fits(Step.slot, Step.n) /\ slot[Step.slot] = None
      <3>1. todo' = (<<>> \o <<Do("build", Step.slot, Step.n)>>) \o Rest
        BY <1>6, <2>2 DEF NeedStep, Goes, Replacement, Drop
      <3>2. todo' = <<Do("build", todo[1].slot, todo[1].n)>> \o Tail(todo)
        BY <1>1, <3>1
      <3>3. (Ordered /\ Dropping /\ Touching /\ Building /\ Alone /\ Streaming /\ Closing)'
            /\ todo' \in Seq(Steps)
        BY <1>1, <1>2, <2>0, <2>2, <3>2, NeededNew
      <3>. QED BY <1>3, <1>4, <2>0, <3>3 DEF CachesInv
    <2>3. CASE ~Fits(Step.slot, Step.n) /\ slot[Step.slot] # None
      <3>1. todo' = (<<Do("drop", Step.slot, 0)>> \o <<Do("build", Step.slot, Step.n)>>) \o Rest
        BY <1>6, <2>3 DEF NeedStep, Goes, Replacement, Drop
      <3>2. todo' = <<Do("drop", todo[1].slot, 0), Do("build", todo[1].slot, todo[1].n)>> \o Tail(todo)
        BY <1>1, <3>1
      <3>3. (Ordered /\ Dropping /\ Touching /\ Building /\ Alone /\ Streaming /\ Closing)'
            /\ todo' \in Seq(Steps)
        BY <1>1, <1>2, <2>0, <2>3, <3>2, NeededOther
      <3>. QED BY <1>3, <1>4, <2>0, <3>3 DEF CachesInv
    <2>. QED BY <2>1, <2>2, <2>3
  <1>. QED BY <1>5, <1>6

LEMMA BuildSteps == ASSUME CachesInv, BuildStep PROVE CachesInv'
  <1>1. /\ op # "none" /\ todo # <<>> /\ Step = todo[1] /\ Step.step = "build" /\ Rest = Tail(todo)
        /\ stage # "closed" /\ Step \in Steps /\ Rest \in Seq(Steps) /\ At("build")
    BY StepAt DEF BuildStep
  <1>2. PICK b, new : b = Step.slot /\ new = [id |-> ids + 1, rows |-> Rows(b, Step.n), native |-> b # "sa" /\ Native]
    OBVIOUS
  <1>3. KeepOp /\ UNCHANGED <<path, op, stage, stale, turn, flying>>
    BY DEF BuildStep, KeepOp, handle
  <1>4. CASE Fails /\ (Sound \/ Fault) /\ UNCHANGED <<slot, alive, ids, streamer>>
    <2>1. SessionsTypeOK'
      BY <1>3, <1>4 DEF CachesInv, SessionsTypeOK, Fails, Sound, Fault, streamer
    <2>. QED BY <1>1, <1>3, <1>4, <2>1, FailsSoundly
  <1>5. CASE /\ slot' = [slot EXCEPT ![b] = new] /\ alive' = alive \cup {new} /\ ids' = ids + 1
             /\ IF b = "spirv" THEN cur' = 0 /\ have' = FALSE /\ ready' = {0, 1} /\ answer' = {}
                ELSE UNCHANGED streamer
             /\ Goes(Rest) /\ Sound
    <2>1. todo' = Tail(todo) /\ failed' = failed /\ faults' = faults
      BY <1>1, <1>5 DEF Goes, Sound
    <2>2. Rows(b, Step.n) \in Nat
      BY <1>1, Given DEF Rows, Steps
    <2>3. /\ (Owned /\ Ordered /\ Dropping /\ Touching /\ Building /\ Alone /\ Streaming /\ Closing)'
          /\ slot' \in [Slots -> [id : Nat, rows : Nat, native : BOOLEAN]]
          /\ alive' \subseteq [id : Nat, rows : Nat, native : BOOLEAN]
      BY <1>1, <1>2, <1>3, <1>5, <2>1, <2>2, Built
    <2>4. todo' \in Seq(Steps)
      BY <1>1, <2>1
    <2>5. cur' \in {0, 1} /\ have' \in BOOLEAN /\ ready' \subseteq {0, 1} /\ answer' \subseteq {0, 1}
      BY <1>5 DEF CachesInv, SessionsTypeOK, streamer
    <2>6. SessionsTypeOK'
      BY <1>3, <1>5, <2>1, <2>3, <2>4, <2>5 DEF CachesInv, SessionsTypeOK
    <2>. QED BY <2>3, <2>6 DEF CachesInv
  <1>. QED BY <1>2, <1>4, <1>5 DEF BuildStep

LEMMA UseSteps == ASSUME CachesInv, UseStep PROVE CachesInv'
  <1>1. /\ At("use") /\ Step = todo[1] /\ Step.step = "use" /\ Step \in Steps /\ Rest \in Seq(Steps)
        /\ KeepOp /\ UNCHANGED <<slot, alive, ids, streamer, handle>>
    BY StepAt DEF UseStep
  <1>2. Step.slot \in Slots /\ Touches(Step, Step.slot)
    BY <1>1, StepAt DEF Touches, CachesInv, Ordered
  <1>3. stale' = stale
    BY <1>1, <1>2, Lives DEF UseStep, Uses
  <1>4. (Goes(Rest) /\ Sound) \/ (Fault /\ Fails)
    BY DEF UseStep
  <1>5. SessionsTypeOK'
    <2>1. todo' \in Seq(Steps) /\ failed' \in BOOLEAN /\ faults' \in Nat
      BY <1>1, <1>4, Ends
    <2>. QED BY <1>1, <1>3, <2>1 DEF CachesInv, SessionsTypeOK, KeepOp, streamer, handle
  <1>. QED BY <1>1, <1>3, <1>4, <1>5, FailsSoundly, GoesSoundly

LEMMA TurnSteps == ASSUME CachesInv, TurnStep PROVE CachesInv'
  <1>1. /\ At("turn") /\ Step = todo[1] /\ Step.step = "turn" /\ Rest \in Seq(Steps) /\ 1 \in DOMAIN todo
        /\ KeepOp /\ UNCHANGED <<slot, alive, ids, streamer>>
    BY StepAt DEF TurnStep
  <1>2. ~Native /\ stage = "stream" /\ turn \in {0, 1}
    BY <1>1 DEF CachesInv, Ordered, SessionsTypeOK
  <1>3. Pipe(1 - turn) \in Slots /\ Pipe(1 - turn) \in Streams
    BY <1>2 DEF Pipe, Streams, Slots
  <1>4. stale' = stale
    BY <1>1, <1>2, <1>3, Lives DEF TurnStep, Uses
  <1>5. \/ Goes(Rest) /\ Sound /\ turn' = 1 - turn /\ flying' = TRUE
        \/ Fault /\ Fails /\ UNCHANGED handle
    BY DEF TurnStep
  <1>6. turn' \in {0, 1} /\ flying' \in BOOLEAN /\ todo' \in Seq(Steps) /\ failed' \in BOOLEAN /\ faults' \in Nat
    <2>1. turn' \in {0, 1}
      BY <1>2, <1>5 DEF handle
    <2>2. flying' \in BOOLEAN
      BY <1>5 DEF CachesInv, SessionsTypeOK, handle
    <2>. QED BY <1>1, <1>5, <2>1, <2>2, Ends
  <1>7. SessionsTypeOK'
    BY <1>1, <1>4, <1>6 DEF CachesInv, SessionsTypeOK, KeepOp, streamer
  <1>. QED BY <1>1, <1>4, <1>5, <1>7, FailsSoundly, GoesSoundly

LEMMA IdleSteps == ASSUME CachesInv, IdleStep PROVE CachesInv'
  <1>1. /\ At("idle") /\ Rest \in Seq(Steps) /\ KeepOp /\ Sound
        /\ UNCHANGED <<slot, alive, stale, ids, streamer, handle>>
        /\ Fails \/ Goes(Rest)
    BY StepAt DEF IdleStep
  <1>2. todo' \in Seq(Steps) /\ failed' \in BOOLEAN /\ faults' \in Nat
    BY <1>1, Ends
  <1>3. SessionsTypeOK'
    BY <1>1, <1>2 DEF CachesInv, SessionsTypeOK, KeepOp, streamer, handle
  <1>. QED BY <1>1, <1>3, FailsSoundly, GoesSoundly

LEMMA SubmitSteps == ASSUME CachesInv, SubmitStep \/ DrainStep PROVE CachesInv'
  <1>1. PICK w \in {"submit", "drain"} : At(w)
    BY DEF SubmitStep, DrainStep
  <1>2. /\ Uses("spirv") /\ KeepOp /\ UNCHANGED <<slot, alive, ids, handle>>
        /\ (Fails \/ Goes(Rest)) /\ (Sound \/ Fault)
    BY DEF SubmitStep, DrainStep
  <1>3. Step = todo[1] /\ Step.step = w /\ Rest \in Seq(Steps) /\ 1 \in DOMAIN todo
    BY <1>1, StepAt
  <1>4. Touches(Step, "spirv") /\ "spirv" \in Slots
    BY <1>1, <1>3 DEF Touches, CachesInv, Ordered, Slots
  <1>5. stale' = stale
    BY <1>1, <1>2, <1>4, Lives DEF Uses
  <1>6. cur \in {0, 1} /\ Other \in {0, 1} /\ ready \subseteq {0, 1} /\ answer \subseteq {0, 1} /\ have \in BOOLEAN
    BY DEF CachesInv, SessionsTypeOK, Other
  <1>7. cur' \in {0, 1} /\ have' \in BOOLEAN /\ ready' \subseteq {0, 1} /\ answer' \subseteq {0, 1}
    BY <1>6 DEF SubmitStep, DrainStep, streamer
  <1>8. todo' \in Seq(Steps) /\ failed' \in BOOLEAN /\ faults' \in Nat
    BY <1>2, <1>3, Ends
  <1>9. SessionsTypeOK'
    BY <1>2, <1>5, <1>7, <1>8 DEF CachesInv, SessionsTypeOK, KeepOp, handle
  <1>. QED BY <1>1, <1>2, <1>5, <1>9, FailsSoundly, GoesSoundly

Then(x, y) == x \o y

\* What a probe, or NewFusedStreamer, leaves for later works with the streamer.
Trailing(T, P, A) ==
  \A i \in DOMAIN T :
    /\ T[i].step \in {"submit", "drain"} /\ T[i].slot = "spirv" /\ Native
    /\ (slot["spirv"] # None /\ "spirv" \notin A) \/ \E k \in DOMAIN P : Gives(P[k], "spirv")

LEMMA Trails ==
  ASSUME NEW P, NEW T \in Seq(Steps), NEW A, NEW p, Follows(P, A), p = Then(P, T), Trailing(T, P, A)
  PROVE  /\ Follows(p, A)
         /\ \A i \in DOMAIN P : i \in DOMAIN p /\ p[i] = P[i]
         /\ \A i \in DOMAIN p : (i \in DOMAIN P /\ p[i] = P[i]) \/ p[i].step \in {"submit", "drain"}
  <1>1. P \in Seq(Steps)
    BY DEF Follows
  <1>2. /\ p \in Seq(Steps) /\ Len(P) \in Nat
        /\ \A i \in DOMAIN p : /\ i \in Nat \ {0}
                               /\ i <= Len(P) => i \in DOMAIN P /\ p[i] = P[i]
                               /\ i > Len(P) => i - Len(P) \in DOMAIN T /\ p[i] = T[i - Len(P)]
        /\ \A i \in DOMAIN P : i \in Nat /\ i <= Len(P) /\ i \in DOMAIN p /\ p[i] = P[i]
        /\ \A i \in DOMAIN T : i \in Nat \ {0} /\ i + Len(P) \in DOMAIN p /\ p[i + Len(P)] = T[i]
    BY <1>1, JoinAt DEF Then
  <1>3. \A i \in DOMAIN p : \/ i \in DOMAIN P /\ p[i] = P[i]
                            \/ /\ i > Len(P) /\ p[i].step \in {"submit", "drain"} /\ p[i].slot = "spirv" /\ Native
                               /\ \/ slot["spirv"] # None /\ "spirv" \notin A
                                  \/ \E k \in DOMAIN P : Gives(P[k], "spirv")
    <2>1. ASSUME NEW i \in DOMAIN p, i > Len(P)
          PROVE  \E k \in DOMAIN T : p[i] = T[k]
      BY <1>2, <2>1
    <2>. QED BY <1>2, <2>1 DEF Trailing
  <1>4. ASSUME NEW i \in DOMAIN p
        PROVE  /\ p[i].step \notin {"drop", "build"}
               /\ p[i].step \in {"need", "use"} => p[i].slot \in Slots
               /\ p[i].step \in {"submit", "drain", "probe"} => Native /\ p[i].slot = "spirv"
    BY <1>3 DEF Follows
  <1>5. ASSUME NEW i \in DOMAIN p, Builds(p[i], "spirv")
        PROVE  /\ Native /\ p[i].n = 0
               /\ \A s \in {"fused", "pipe0", "pipe1"} : s \in A /\ \A j \in DOMAIN p : j < i => ~Gives(p[j], s)
    <2>1. i \in DOMAIN P /\ p[i] = P[i] /\ i <= Len(P)
      BY <1>2, <1>3, <1>5 DEF Builds
    <2>2. \A j \in DOMAIN p : j < i => j \in DOMAIN P /\ p[j] = P[j]
      BY <1>2, <2>1
    <2>. QED BY <1>5, <2>1, <2>2 DEF Follows
  <1>6. ASSUME NEW i \in DOMAIN p, NEW j \in DOMAIN p, p[i].step \in {"new", "probe"}, j > i
        PROVE  p[j].step \in {"submit", "drain"}
    BY <1>3, <1>6 DEF Follows
  <1>7. ASSUME NEW i \in DOMAIN p, NEW s \in Slots, Touches(p[i], s)
        PROVE  (slot[s] # None /\ s \notin A) \/ \E j \in DOMAIN p : j < i /\ Gives(p[j], s)
    <2>1. CASE i \in DOMAIN P /\ p[i] = P[i]
      <3>1. (slot[s] # None /\ s \notin A) \/ \E j \in DOMAIN P : j < i /\ Gives(P[j], s)
        BY <1>7, <2>1 DEF Follows
      <3>. QED BY <1>2, <3>1
    <2>2. CASE i > Len(P) /\ p[i].slot = "spirv"
      <3>1. s = "spirv" /\ \A k \in DOMAIN P : k < i
        BY <1>2, <1>7, <2>2 DEF Touches
      <3>2. (slot["spirv"] # None /\ "spirv" \notin A) \/ \E k \in DOMAIN P : Gives(P[k], "spirv")
        <4>1. i - Len(P) \in DOMAIN T
          BY <1>2, <2>2
        <4>. QED BY <4>1 DEF Trailing
      <3>. QED BY <1>2, <3>1, <3>2
    <2>. QED BY <1>3, <2>1, <2>2
  <1>8. Follows(p, A)
    BY <1>2, <1>4, <1>5, <1>6, <1>7 DEF Follows
  <1>. QED BY <1>2, <1>3, <1>8

LEMMA Regroup ==
  \A x, y, z, w \in Seq(Steps) : Then(Then(x, Then(y, z)), w) = Then(Then(x, y), Then(z, w))
  <1>1. \A a, b, c \in Seq(Steps) : Then(Then(a, b), c) = Then(a, Then(b, c))
    BY ConcatAssociative DEF Then
  <1>2. \A a, b \in Seq(Steps) : Then(a, b) \in Seq(Steps)
    BY ConcatProperties DEF Then
  <1>. QED BY <1>1, <1>2

\* A step that puts others in its place.
LEMMA Expanded ==
  ASSUME CachesInv, NEW w \in {"new", "probe"}, At(w), KeepOp, Sound,
         UNCHANGED <<slot, alive, stale, streamer, handle, ids, failed>>,
         NEW D, NEW R, NEW A, IsDrops(D, A), Follows(R, A), todo' = D \o R,
         \A i \in DOMAIN R : R[i].step # "turn",
         op \in {"open", "gate", "probe"} =>
           \A i \in DOMAIN R : Builds(R[i], "pipe0") \/ Builds(R[i], "pipe1") =>
             "fused" \in A /\ \A j \in DOMAIN R : j < i => ~Gives(R[j], "fused"),
         stage = "stream" => Native /\ "spirv" \notin A,
         op = "open" => \A s \in Streams :
           (slot[s] # None /\ s \notin A) \/ \E j \in DOMAIN R : Gives(R[j], s)
  PROVE  CachesInv'
  <1>1. /\ op # "none" /\ stage # "closed" /\ op' = op /\ stage' = stage /\ UNCHANGED <<path, slot>>
    BY StepAt DEF KeepOp
  <1>2. stage = "stream" => \A s \in Streams : slot[s] # None /\ s \notin A
    BY DEF CachesInv, Streaming, Kept, Streams
  <1>3. op = "open" => stage = "opening"
    BY DEF CachesInv, Streaming
  <1>4. (Ordered /\ Dropping /\ Touching /\ Building /\ Alone /\ Streaming /\ Closing)' /\ todo' \in Seq(Steps)
    BY <1>1, <1>2, <1>3, Started DEF CachesInv
  <1>5. SessionsTypeOK'
    BY <1>1, <1>4 DEF CachesInv, SessionsTypeOK, Sound, streamer, handle
  <1>6. Owned'
    BY <1>1, OwnedSame DEF CachesInv
  <1>. QED BY <1>4, <1>5, <1>6 DEF CachesInv

LEMMA ProbeSteps == ASSUME CachesInv, ProbeStep PROVE CachesInv'
  <1>1. /\ At("probe") /\ Rest \in Seq(Steps) /\ op # "none" /\ Step = todo[1] /\ Step.step = "probe"
        /\ 1 \in DOMAIN todo
        /\ \A i \in DOMAIN Rest : Rest[i].step \in {"submit", "drain"} /\ Rest[i].slot = "spirv" /\ Native
    BY StepAt DEF ProbeStep
  <1>2. /\ KeepOp /\ Sound /\ UNCHANGED <<slot, alive, stale, streamer, handle, ids, failed>>
        /\ todo' = ProbeStream \o Rest
    BY DEF ProbeStep, Goes
  <1>3. Native
    BY <1>1 DEF CachesInv, Ordered
  <1>4. PICK P, A, R, D : P = ProbeStream /\ A = {} /\ R = Then(P, Rest) /\ D = <<>>
    OBVIOUS
  <1>5. /\ Follows(P, A)
        /\ \A i \in DOMAIN P : P[i].step # "turn" /\ \A s : ~Builds(P[i], s)
        /\ slot["spirv"] # None \/ \E k \in DOMAIN P : Gives(P[k], "spirv")
    <2>1. CASE slot["spirv"] = None \/ ~have
      <3>1. P = HashBatchFusedStream(Probe)
        BY <1>4, <2>1 DEF ProbeStream
      <3>2. PICK a, b, c : a = Do("new", "spirv", Probe) /\ b = Do("submit", "spirv", Probe) /\ c = Do("drain", "spirv", 0)
        OBVIOUS
      <3>3. P = <<a, b, c>> /\ a.step = "new"
        BY <1>3, <3>1, <3>2 DEF HashBatchFusedStream, Do
      <3>4. 1 \in DOMAIN P /\ Gives(P[1], "spirv")
        BY <1>3, <3>3 DEF Gives, Streams
      <3>. QED BY <1>3, <1>4, <3>1, <3>4, Given, StreamFollows
    <2>2. CASE slot["spirv"] # None /\ have
      <3>1. P = <<>>
        BY <1>4, <2>2 DEF ProbeStream
      <3>. QED BY <2>2, <3>1 DEF Follows
    <2>. QED BY <2>1, <2>2
  <1>6. /\ Follows(R, A)
        /\ \A i \in DOMAIN R : R[i].step # "turn" /\ \A s : ~Builds(R[i], s)
        /\ \A s \in Streams : (slot[s] # None /\ s \notin A) \/ \E j \in DOMAIN R : Gives(R[j], s)
    <2>0. (slot["spirv"] # None /\ "spirv" \notin A) \/ \E k \in DOMAIN P : Gives(P[k], "spirv")
      BY <1>4, <1>5
    <2>1. Trailing(Rest, P, A)
      BY <1>1, <2>0 DEF Trailing
    <2>2. /\ Follows(R, A)
          /\ \A i \in DOMAIN P : i \in DOMAIN R /\ R[i] = P[i]
          /\ \A i \in DOMAIN R : (i \in DOMAIN P /\ R[i] = P[i]) \/ R[i].step \in {"submit", "drain"}
      BY <1>1, <1>4, <1>5, <2>1, Trails
    <2>3. \A x : x.step \in {"submit", "drain"} => x.step # "turn" /\ \A s : ~Builds(x, s)
      BY DEF Builds
    <2>4. \A s \in Streams : (slot[s] # None /\ s \notin A) \/ \E j \in DOMAIN R : Gives(R[j], s)
      BY <1>3, <2>0, <2>2 DEF Streams
    <2>. QED BY <1>5, <2>2, <2>3, <2>4
  <1>7. IsDrops(D, A) /\ todo' = D \o R
    <2>1. R \in Seq(Steps)
      BY <1>6 DEF Follows
    <2>2. todo' = R
      BY <1>2, <1>4 DEF Then
    <2>. QED BY <1>4, <2>1, <2>2, NoDrops
  <1>. QED BY <1>1, <1>2, <1>3, <1>4, <1>6, <1>7, Expanded

LEMMA NewSteps == ASSUME CachesInv, NewStep PROVE CachesInv'
  <1>1. /\ At("new") /\ Rest \in Seq(Steps) /\ op # "none" /\ Step = todo[1] /\ Step.step = "new"
        /\ 1 \in DOMAIN todo /\ Step.n \in Nat
        /\ \A i \in DOMAIN Rest : Rest[i].step \in {"submit", "drain"} /\ Rest[i].slot = "spirv" /\ Native
    BY StepAt DEF NewStep, Steps
  <1>2. KeepOp /\ Sound /\ UNCHANGED <<slot, alive, stale, streamer, handle, ids>>
    BY DEF NewStep
  <1>3. \A s \in Slots : IsDrops(Drop(s), {s})
    BY DropOne
  <1>4. stage = "stream" => Native
    <2>1. ~Native => Gives(todo[1], "pipe0") /\ "pipe0" \in Streams
      BY <1>1 DEF Gives, Streams
    <2>. QED BY <1>1, <2>1 DEF CachesInv, Streaming
  <1>5. CASE Native /\ Step.n > StreamRows
    <2>1. Fails /\ stale' = stale
      BY <1>5 DEF NewStep
    <2>2. todo' \in Seq(Steps) /\ failed' \in BOOLEAN /\ faults' \in Nat
      BY <1>1, <1>2, <2>1, Ends
    <2>3. SessionsTypeOK'
      BY <1>2, <2>2 DEF CachesInv, SessionsTypeOK, KeepOp, streamer, handle
    <2>. QED BY <1>1, <1>2, <2>1, <2>3, FailsSoundly
  <1>6. CASE Native /\ ~(Step.n > StreamRows)
    <2>1. PICK a, b, P : a = Need("spirv", 0) /\ b = Do("idle", "spirv", 0) /\ P = <<a, b>>
      OBVIOUS
    <2>2. a \in Steps /\ a.step = "need" /\ a.slot = "spirv" /\ a.n = 0 /\ b \in Steps /\ b.step = "idle"
      BY <2>1 DEF Need, Do, Steps, StepNames, Slots
    <2>3. P \in Seq(Steps) /\ DOMAIN P = {1, 2} /\ P[1] = a /\ P[2] = b
      BY <2>1, <2>2, ShortFollows
    <2>4. PICK F, E, D, A : F = Drop("fused") /\ E = Drop("pipe0") \o Drop("pipe1") /\ D = F \o E
                            /\ A = {"fused", "pipe0", "pipe1"}
      OBVIOUS
    <2>5. IsDrops(E, {"pipe0"} \cup {"pipe1"})
      BY <1>3, <2>4, DropJoin DEF Slots
    <2>6. IsDrops(D, A)
      <3>1. IsDrops(D, {"fused"} \cup ({"pipe0"} \cup {"pipe1"}))
        BY <1>3, <2>4, <2>5, DropJoin DEF Slots
      <3>2. A = {"fused"} \cup ({"pipe0"} \cup {"pipe1"})
        BY <2>4
      <3>. QED BY <3>1, <3>2
    <2>7. PICK R : R = Then(P, Rest)
      OBVIOUS
    <2>8. todo' = D \o R /\ failed' = failed
      <3>1. todo' = Then(Then(F, Then(E, P)), Rest) /\ failed' = failed
        BY <1>6, <2>1, <2>4 DEF NewStep, Goes, NewFusedStreamer, Then
      <3>2. F \in Seq(Steps) /\ E \in Seq(Steps)
        BY <1>3, <2>4, <2>5 DEF IsDrops, Slots
      <3>3. todo' = Then(Then(F, E), R)
        BY <1>1, <2>3, <2>7, <3>1, <3>2, Regroup
      <3>. QED BY <2>4, <3>1, <3>3 DEF Then
    <2>9. /\ Gives(a, "spirv") /\ \A s : ~Touches(a, s) /\ ~Touches(b, s) /\ ~Gives(b, s)
          /\ \A s : (Builds(a, s) => s = "spirv") /\ ~Builds(b, s)
      BY <2>2 DEF Gives, Builds, Touches
    <2>10. Follows(P, A)
      BY <1>6, <2>2, <2>3, <2>4, <2>9 DEF Follows, Slots
    <2>11. Trailing(Rest, P, A)
      BY <1>1, <2>3, <2>9 DEF Trailing
    <2>12. /\ Follows(R, A)
           /\ \A i \in DOMAIN P : i \in DOMAIN R /\ R[i] = P[i]
           /\ \A i \in DOMAIN R : (i \in DOMAIN P /\ R[i] = P[i]) \/ R[i].step \in {"submit", "drain"}
      BY <1>1, <2>7, <2>10, <2>11, Trails
    <2>13. \A i \in DOMAIN R : R[i].step # "turn" /\ ~Builds(R[i], "pipe0") /\ ~Builds(R[i], "pipe1")
      <3>1. \A x : x.step \in {"submit", "drain"} => x.step # "turn" /\ \A s : ~Builds(x, s)
        BY DEF Builds
      <3>. QED BY <2>2, <2>3, <2>9, <2>12, <3>1
    <2>14. \A s \in Streams : \E j \in DOMAIN R : Gives(R[j], s)
      BY <1>6, <2>3, <2>9, <2>12 DEF Streams
    <2>15. "spirv" \notin A
      BY <2>4
    <2>. QED BY <1>1, <1>2, <1>6, <2>6, <2>8, <2>12, <2>13, <2>14, <2>15, Expanded
  <1>7. CASE ~Native
    <2>1. PICK a, b, P : a = Need("pipe0", Step.n) /\ b = Need("pipe1", Step.n) /\ P = <<a, b>>
      OBVIOUS
    <2>2. /\ a \in Steps /\ a.step = "need" /\ a.slot = "pipe0"
          /\ b \in Steps /\ b.step = "need" /\ b.slot = "pipe1"
      BY <1>1, <2>1 DEF Need, Do, Steps, StepNames, Slots
    <2>3. P \in Seq(Steps) /\ DOMAIN P = {1, 2} /\ P[1] = a /\ P[2] = b
      BY <2>1, <2>2, ShortFollows
    <2>4. PICK F, E, D, A : F = Drop("fused") /\ E = Drop("spirv") /\ D = F \o E /\ A = {"fused", "spirv"}
      OBVIOUS
    <2>5. IsDrops(D, A)
      <3>1. IsDrops(D, {"fused"} \cup {"spirv"})
        BY <1>3, <2>4, DropJoin DEF Slots
      <3>2. A = {"fused"} \cup {"spirv"}
        BY <2>4
      <3>. QED BY <3>1, <3>2
    <2>6. Rest = <<>>
      <3>1. DOMAIN Rest = {}
        BY <1>1, <1>7
      <3>2. DOMAIN Rest = 1 .. Len(Rest) /\ Len(Rest) \in Nat
        BY <1>1
      <3>3. Len(Rest) = 0
        BY <3>1, <3>2
      <3>. QED BY <1>1, <3>3
    <2>7. todo' = D \o P /\ failed' = failed
      <3>1. todo' = Then(Then(F, Then(E, P)), Rest) /\ failed' = failed
        BY <1>7, <2>1, <2>4 DEF NewStep, Goes, NewFusedStreamer, Then
      <3>2. F \in Seq(Steps) /\ E \in Seq(Steps)
        BY <1>3, <2>4 DEF IsDrops, Slots
      <3>3. Then(P, Rest) = P
        BY <2>3, <2>6, ConcatEmptySeq DEF Then
      <3>4. todo' = Then(Then(F, E), P)
        BY <1>1, <2>3, <3>1, <3>2, <3>3, Regroup
      <3>. QED BY <2>4, <3>1, <3>4 DEF Then
    <2>8. /\ Gives(a, "pipe0") /\ Gives(b, "pipe1")
          /\ \A s : ~Touches(a, s) /\ ~Touches(b, s) /\ (Gives(a, s) => s # "fused") /\ (Gives(b, s) => s # "fused")
          /\ ~Builds(a, "spirv") /\ ~Builds(b, "spirv")
      BY <2>2 DEF Gives, Builds, Touches
    <2>9. Follows(P, A)
      BY <2>2, <2>3, <2>8 DEF Follows, Slots
    <2>10. \A i \in DOMAIN P : P[i].step # "turn" /\ ~Gives(P[i], "fused")
      BY <2>2, <2>3, <2>8
    <2>11. \A s \in Streams : \E j \in DOMAIN P : Gives(P[j], s)
      BY <1>7, <2>3, <2>8 DEF Streams
    <2>12. "fused" \in A
      BY <2>4
    <2>. QED BY <1>1, <1>2, <1>4, <1>7, <2>5, <2>7, <2>9, <2>10, <2>11, <2>12, Expanded
  <1>. QED BY <1>5, <1>6, <1>7

LEMMA ReturnSteps == ASSUME CachesInv, Return PROVE CachesInv'
  <1>1. /\ op # "none" /\ todo = <<>> /\ op' = "none" /\ todo' = <<>>
        /\ UNCHANGED <<path, slot, alive, stale, cur, have, ready, answer, turn, flying, failed, ids, faults>>
    BY DEF Return, streamer, handle
  <1>2. stage' = stage \/ (op = "open" /\ ~failed /\ stage' = "stream")
        \/ stage' \in {"mine", "refused", "died", "degraded"}
    BY DEF Return
  <1>3. SessionsTypeOK' /\ Owned'
    BY <1>1, OwnedSame DEF CachesInv, SessionsTypeOK
  <1>4. DOMAIN todo = {} /\ DOMAIN todo' = {}
    BY <1>1
  <1>5. /\ Streams' = Streams /\ Streams \subseteq Slots /\ Native' = Native
        /\ \A s \in Slots : Kept(s) => Kept(s)'
    BY <1>1, <1>4 DEF Streams, Native, Slots, Kept
  <1>6. Streaming'
    <2>1. CASE stage' = stage
      BY <1>1, <1>4, <1>5, <2>1 DEF CachesInv, Streaming
    <2>2. CASE op = "open" /\ ~failed /\ stage' = "stream"
      BY <1>1, <1>4, <1>5, <2>2 DEF CachesInv, Streaming
    <2>3. CASE stage' \in {"mine", "refused", "died", "degraded"}
      BY <1>1, <2>3 DEF Streaming
    <2>. QED BY <1>2, <2>1, <2>2, <2>3
  <1>7. Closing'
    <2> SUFFICES ASSUME stage' = "closed" PROVE Closing'
      BY DEF Closing
    <2>1. stage = "closed"
      BY <1>2
    <2>. QED BY <1>1, <1>4, <2>1 DEF CachesInv, Closing, Drops
  <1>. QED BY <1>1, <1>3, <1>4, <1>6, <1>7 DEF CachesInv, Ordered, Dropping, Touching, Building, Alone

LEMMA CachesBegin == Init => CachesInv
  <1> SUFFICES ASSUME Init PROVE CachesInv
    OBVIOUS
  <1>1. SessionsTypeOK /\ DOMAIN todo = {}
    <2>1. todo = <<>> /\ <<>> \in Seq(Steps) /\ DOMAIN todo = {}
      BY DEF Init
    <2>2. slot \in [Slots -> [id : Nat, rows : Nat, native : BOOLEAN]]
      BY DEF Init, None
    <2>. QED BY <2>1, <2>2 DEF Init, SessionsTypeOK
  <1>2. Owned
    BY DEF Init, Owned, None, Slots
  <1>. QED BY <1>1, <1>2 DEF Init, CachesInv, Ordered, Dropping, Touching, Building, Alone, Streaming, Closing

LEMMA CachesStutter == ASSUME CachesInv, UNCHANGED vars PROVE CachesInv'
  <1>1. UNCHANGED <<path, slot, alive, stale, cur, have, ready, answer, turn, flying, op, todo, failed, stage,
                    ids, faults>>
    BY DEF vars, streamer, handle
  <1>2. /\ Streams' = Streams /\ Native' = Native /\ \A i, s : Clear(i, s)' = Clear(i, s) /\ Kept(s)' = Kept(s)
        /\ \A x, s : Gives(x, s)' = Gives(x, s)
    BY <1>1 DEF Streams, Native, Clear, Kept, Gives, Builds, Drops
  <1>3. SessionsTypeOK' /\ Owned'
    BY <1>1, OwnedSame DEF CachesInv, SessionsTypeOK
  <1>4. Ordered' /\ Dropping' /\ Touching' /\ Building'
    BY <1>1, <1>2 DEF CachesInv, Ordered, Dropping, Touching, Building, Builds, Drops, Touches
  <1>5. Alone' /\ Streaming' /\ Closing'
    BY <1>1, <1>2 DEF CachesInv, Alone, Streaming, Closing, Builds, Drops
  <1>. QED BY <1>3, <1>4, <1>5 DEF CachesInv

LEMMA CachesStep == ASSUME CachesInv, [Next]_vars PROVE CachesInv'
  BY OperationsStart, NeedSteps, Dropped, BuildSteps, UseSteps, TurnSteps, NewSteps, IdleSteps, ProbeSteps,
     SubmitSteps, ReturnSteps, CachesStutter DEF Next

\* Whatever the operations, their order and the faults in them: the device
\* holds the sessions of the caches and nothing else, and none after Close; no
\* operation uses or releases a session that is gone (pipeline.go:213); and a
\* streamer's sessions are built after the one-shot session, and those of the
\* other path, have given their memory back.
THEOREM CachesSound == Spec => []CachesAreSound
  <1>1. Init => CachesInv
    BY CachesBegin
  <1>2. CachesInv /\ [Next]_vars => CachesInv'
    BY CachesStep
  <1>3. CachesInv => CachesAreSound
    <2> SUFFICES ASSUME CachesInv PROVE CachesAreSound
      OBVIOUS
    <2>1. CachesOwnDevice
      <3>1. ASSUME stage = "closed", Idle PROVE alive = {}
        <4>1. DOMAIN todo = {}
          BY <3>1 DEF CachesInv, Ordered, Idle
        <4>2. \A s \in Slots : slot[s] = None
          BY <3>1, <4>1 DEF CachesInv, Closing
        <4>. QED BY <4>2 DEF CachesInv, Owned
      <3>. QED BY <3>1 DEF CachesInv, Owned, CachesOwnDevice
    <2>2. NoStaleSession
      BY DEF CachesInv, Owned, NoStaleSession
    <2>3. ASSUME At("build"), Step.slot \in {"pipe0", "pipe1", "spirv"}
          PROVE  /\ Step.slot = "spirv" => \A s \in {"fused", "pipe0", "pipe1"} : slot[s] = None
                 /\ op \in {"open", "gate", "probe"} => slot["fused"] = None
      <3>1. Step = todo[1] /\ 1 \in DOMAIN todo /\ Step.step = "build" /\ \A j \in DOMAIN todo : ~(j < 1)
        <4>1. \A j \in DOMAIN todo : j \in Nat \ {0}
          BY DEF CachesInv, SessionsTypeOK
        <4>. QED BY <2>3, <4>1, StepAt
      <3>2. \A s : Clear(1, s) => slot[s] = None
        BY <3>1 DEF Clear
      <3>. QED BY <2>3, <3>1, <3>2 DEF CachesInv, Alone, Builds
    <2>. QED BY <2>1, <2>2, <2>3 DEF CachesAreSound, StreamerBuildsAlone
  <1>. QED BY <1>1, <1>2, <1>3, PTL DEF Spec

-----------------------------------------------------------------------------
(* A device that never faults.                                             *)

LEMMA SturdyTail ==
  ASSUME NEW q \in Seq(Steps), q # <<>>, NEW h, NEW s, NEW p, p = Tail(q), Sturdy(q, h, s)
  PROVE  /\ Sturdy(p, h, s) /\ Sturdy(p, FALSE, s)
         /\ q[1].step = "submit" => Sturdy(p, TRUE, s) /\ (s = "stream" \/ Drains(p))
         /\ Drains(q) /\ q[1].step # "drain" => Drains(p)
  <1>1. /\ 1 \in DOMAIN q
        /\ \A i \in DOMAIN p : i \in Nat \ {0} /\ i + 1 \in DOMAIN q /\ p[i] = q[i + 1]
        /\ \A i \in DOMAIN q : i \in Nat \ {0} /\ (i # 1 => i - 1 \in DOMAIN p /\ p[i - 1] = q[i])
    BY TailAt
  <1>2. ASSUME NEW i \in DOMAIN p
        PROVE  /\ Room(p[i])
               /\ p[i].step \in {"idle", "new"} \/ Drops(p[i], "spirv") =>
                    /\ ~h /\ q[1].step # "submit"
                    /\ \A j \in DOMAIN p : j < i => p[j].step # "submit"
               /\ p[i].step = "submit" => s = "stream" \/ \E j \in DOMAIN p : j > i /\ p[j].step = "drain"
    <2>1. i + 1 \in DOMAIN q /\ p[i] = q[i + 1] /\ i \in Nat \ {0} /\ 1 < i + 1
      BY <1>1
    <2>2. Room(p[i])
      BY <2>1 DEF Sturdy
    <2>3. ASSUME p[i].step \in {"idle", "new"} \/ Drops(p[i], "spirv")
          PROVE  /\ ~h /\ q[1].step # "submit"
                 /\ \A j \in DOMAIN p : j < i => p[j].step # "submit"
      <3>1. ~h /\ \A j \in DOMAIN q : j < i + 1 => q[j].step # "submit"
        BY <2>1, <2>3 DEF Sturdy
      <3>2. \A j \in DOMAIN p : j < i => j + 1 < i + 1
        BY <1>1, <2>1
      <3>. QED BY <1>1, <2>1, <3>1, <3>2
    <2>4. ASSUME p[i].step = "submit", s # "stream"
          PROVE  \E j \in DOMAIN p : j > i /\ p[j].step = "drain"
      <3>1. PICK k \in DOMAIN q : k > i + 1 /\ q[k].step = "drain"
        BY <2>1, <2>4 DEF Sturdy
      <3>2. k # 1 /\ k - 1 > i
        BY <1>1, <2>1, <3>1
      <3>. QED BY <1>1, <3>1, <3>2
    <2>. QED BY <2>2, <2>3, <2>4
  <1>3. Sturdy(p, h, s) /\ Sturdy(p, FALSE, s)
    BY <1>2 DEF Sturdy
  <1>4. ASSUME q[1].step = "submit" PROVE Sturdy(p, TRUE, s) /\ (s = "stream" \/ Drains(p))
    <2>1. Sturdy(p, TRUE, s)
      BY <1>2, <1>4 DEF Sturdy
    <2>2. ASSUME s # "stream" PROVE Drains(p)
      <3>1. PICK k \in DOMAIN q : k > 1 /\ q[k].step = "drain"
        BY <1>1, <1>4, <2>2 DEF Sturdy
      <3>2. k # 1
        BY <1>1, <3>1
      <3>. QED BY <1>1, <3>1, <3>2 DEF Drains
    <2>. QED BY <2>1, <2>2
  <1>5. Drains(q) /\ q[1].step # "drain" => Drains(p)
    BY <1>1 DEF Drains
  <1>. QED BY <1>3, <1>4, <1>5

LEMMA SturdyJoin ==
  ASSUME NEW x \in Seq(Steps), NEW y \in Seq(Steps), NEW h, NEW s, NEW p, p = Then(x, y),
         Sturdy(x, h, s), Sturdy(y, h, s),
         \/ \A i \in DOMAIN x : x[i].step # "submit"
         \/ \A i \in DOMAIN y : y[i].step \in {"submit", "drain"}
  PROVE  Sturdy(p, h, s) /\ (Drains(x) \/ Drains(y) => Drains(p))
  <1>1. /\ p \in Seq(Steps) /\ Len(x) \in Nat
        /\ \A i \in DOMAIN p : /\ i \in Nat \ {0}
                               /\ i <= Len(x) => i \in DOMAIN x /\ p[i] = x[i]
                               /\ i > Len(x) => i - Len(x) \in DOMAIN y /\ p[i] = y[i - Len(x)]
        /\ \A i \in DOMAIN x : i \in Nat /\ i <= Len(x) /\ i \in DOMAIN p /\ p[i] = x[i]
        /\ \A i \in DOMAIN y : i \in Nat \ {0} /\ i + Len(x) \in DOMAIN p /\ p[i + Len(x)] = y[i]
    BY JoinAt DEF Then
  <1>2. \A i \in DOMAIN p : \/ i \in DOMAIN x /\ i <= Len(x) /\ p[i] = x[i]
                            \/ \E k \in DOMAIN y : i = k + Len(x) /\ i > Len(x) /\ p[i] = y[k]
    <2>1. ASSUME NEW i \in DOMAIN p, i > Len(x)
          PROVE  i - Len(x) \in DOMAIN y /\ i = (i - Len(x)) + Len(x) /\ p[i] = y[i - Len(x)]
      BY <1>1, <2>1
    <2>. QED BY <1>1, <2>1
  <1>3. ASSUME NEW i \in DOMAIN x
        PROVE  /\ Room(x[i])
               /\ x[i].step \in {"idle", "new"} \/ Drops(x[i], "spirv") =>
                    ~h /\ \A j \in DOMAIN p : j < i => p[j].step # "submit"
               /\ x[i].step = "submit" => s = "stream" \/ \E j \in DOMAIN p : j > i /\ p[j].step = "drain"
    <2>1. \A j \in DOMAIN p : j < i => j \in DOMAIN x /\ p[j] = x[j]
      BY <1>1
    <2>. QED BY <1>1, <2>1 DEF Sturdy
  <1>4. ASSUME NEW k \in DOMAIN y
        PROVE  /\ Room(y[k])
               /\ y[k].step \in {"idle", "new"} \/ Drops(y[k], "spirv") =>
                    ~h /\ \A j \in DOMAIN p : j < k + Len(x) => p[j].step # "submit"
               /\ y[k].step = "submit" => s = "stream" \/ \E j \in DOMAIN p : j > k + Len(x) /\ p[j].step = "drain"
    <2>1. Room(y[k])
      BY DEF Sturdy
    <2>2. ASSUME y[k].step \in {"idle", "new"} \/ Drops(y[k], "spirv")
          PROVE  ~h /\ \A j \in DOMAIN p : j < k + Len(x) => p[j].step # "submit"
      <3>1. ~h /\ \A l \in DOMAIN y : l < k => y[l].step # "submit"
        BY <2>2 DEF Sturdy
      <3>2. \A i \in DOMAIN x : x[i].step # "submit"
        BY <2>2 DEF Drops
      <3>3. ASSUME NEW j \in DOMAIN p, j < k + Len(x), NEW l \in DOMAIN y, j = l + Len(x), p[j] = y[l]
            PROVE  p[j].step # "submit"
        <4>1. l < k
          BY <1>1, <3>3
        <4>. QED BY <3>1, <3>3, <4>1
      <3>. QED BY <1>2, <3>1, <3>2, <3>3
    <2>3. ASSUME y[k].step = "submit", s # "stream"
          PROVE  \E j \in DOMAIN p : j > k + Len(x) /\ p[j].step = "drain"
      <3>1. PICK l \in DOMAIN y : l > k /\ y[l].step = "drain"
        BY <2>3 DEF Sturdy
      <3>2. l + Len(x) > k + Len(x)
        BY <1>1, <3>1
      <3>. QED BY <1>1, <3>1, <3>2
    <2>. QED BY <2>1, <2>2, <2>3
  <1>5. Sturdy(p, h, s)
    <2> SUFFICES ASSUME NEW i \in DOMAIN p
                 PROVE  /\ Room(p[i])
                        /\ p[i].step \in {"idle", "new"} \/ Drops(p[i], "spirv") =>
                             ~h /\ \A j \in DOMAIN p : j < i => p[j].step # "submit"
                        /\ p[i].step = "submit" => s = "stream" \/ \E j \in DOMAIN p : j > i /\ p[j].step = "drain"
      BY DEF Sturdy
    <2>. QED BY <1>2, <1>3, <1>4
  <1>6. Drains(x) \/ Drains(y) => Drains(p)
    BY <1>1 DEF Drains
  <1>. QED BY <1>5, <1>6

\* The operation after a step that did not fail.
LEMMA HealthyWhen ==
  ASSUME path' = path, NEW q, NEW h \in BOOLEAN, NEW s, todo' = q, have' = h, stage' = s,
         faults' = 0 =>
           /\ ~failed' /\ ready' = {0, 1} /\ answer' = IF h THEN {1 - cur'} ELSE {}
           /\ op' = "gate" => s = "gate"
           /\ h => Native /\ slot'["spirv"] # None /\ (s = "stream" \/ Drains(q))
           /\ Sturdy(q, h, s)
  PROVE  Healthy'
  BY DEF Healthy, Sturdy, Room, Rows, Native, Drops, Drains, Other

LEMMA HealthyNow ==
  ASSUME CachesInv, Healthy, faults = 0
  PROVE  /\ failed = FALSE /\ ready = {0, 1} /\ answer = IF have THEN {Other} ELSE {}
         /\ op = "gate" => stage = "gate"
         /\ have => Native /\ slot["spirv"] # None /\ (stage = "stream" \/ Drains(todo))
         /\ Sturdy(todo, have, stage)
         /\ cur \in {0, 1} /\ Other \in {0, 1} /\ Other # cur /\ 1 - Other = cur
         /\ have \in BOOLEAN /\ todo \in Seq(Steps)
  BY DEF CachesInv, SessionsTypeOK, Healthy, Other

LEMMA FaultFree ==
  ASSUME CachesInv, Sound \/ Fault, faults' = 0
  PROVE  faults = 0 /\ Sound
  BY DEF CachesInv, SessionsTypeOK, Sound, Fault

\* A step that is done with: the streamer is as it was, or empty.
LEMMA HealthyRest ==
  ASSUME CachesInv, Healthy, faults = 0, NEW w, At(w), w # "submit", Goes(Rest), KeepOp, faults' = 0,
         \/ w # "drain" /\ UNCHANGED streamer /\ (have => slot'["spirv"] # None)
         \/ have' = FALSE /\ ready' = {0, 1} /\ answer' = {}
  PROVE  Healthy'
  <1>1. /\ todo # <<>> /\ todo[1].step = w /\ Rest = Tail(todo) /\ Rest \in Seq(Steps)
    BY StepAt
  <1>2. /\ Sturdy(Rest, have, stage) /\ Sturdy(Rest, FALSE, stage)
        /\ Drains(todo) /\ w # "drain" => Drains(Rest)
    BY <1>1, HealthyNow, SturdyTail
  <1>3. todo' = Rest /\ failed' = FALSE /\ path' = path /\ op' = op /\ stage' = stage
    BY HealthyNow DEF Goes, KeepOp
  <1>4. CASE w # "drain" /\ UNCHANGED streamer /\ (have => slot'["spirv"] # None)
    <2>1. have' = have /\ ready' = {0, 1} /\ answer' = IF have THEN {1 - cur'} ELSE {}
      BY <1>4, HealthyNow DEF streamer, Other
    <2>. QED BY <1>2, <1>3, <1>4, <2>1, HealthyNow, HealthyWhen
  <1>5. CASE have' = FALSE /\ ready' = {0, 1} /\ answer' = {}
    BY <1>2, <1>3, <1>5, HealthyNow, HealthyWhen
  <1>. QED BY <1>4, <1>5

\* Steps come before the rest, which holds no submit or only the streamer's.
LEMMA HealthyMore ==
  ASSUME CachesInv, Healthy, faults = 0, NEW w, At(w), w \notin {"submit", "drain"}, KeepOp, faults' = 0,
         failed' = failed, UNCHANGED <<slot, streamer>>,
         NEW E \in Seq(Steps), todo' = Then(E, Rest), Sturdy(E, have, stage),
         w \notin {"new", "probe"} => \A i \in DOMAIN E : E[i].step # "submit"
  PROVE  Healthy'
  <1>1. /\ todo # <<>> /\ todo[1].step = w /\ Rest = Tail(todo) /\ Rest \in Seq(Steps)
        /\ w \in {"new", "probe"} => \A i \in DOMAIN Rest : Rest[i].step \in {"submit", "drain"}
    BY StepAt
  <1>2. Sturdy(Rest, have, stage) /\ (Drains(todo) => Drains(Rest))
    BY <1>1, HealthyNow, SturdyTail
  <1>3. PICK T, q : T = Rest /\ q = Then(E, T)
    OBVIOUS
  <1>4. Sturdy(q, have, stage) /\ (Drains(T) => Drains(q))
    BY <1>1, <1>2, <1>3, SturdyJoin
  <1>5. /\ todo' = q /\ failed' = FALSE /\ path' = path /\ op' = op /\ stage' = stage
        /\ have' = have /\ ready' = {0, 1} /\ answer' = IF have THEN {1 - cur'} ELSE {}
    BY <1>3, HealthyNow DEF KeepOp, streamer, Other
  <1>. QED BY <1>2, <1>3, <1>4, <1>5, HealthyNow, HealthyWhen

\* An operation that starts on a streamer without a group, or goes on with it.
LEMMA HealthyStart ==
  ASSUME CachesInv, Healthy, NEW name, NEW E, Begin(name, E), Sturdy(E, have, stage'),
         name = "gate" => stage' = "gate",
         have => stage' = "stream" \/ Drains(E)
  PROVE  Healthy'
  <1>1. /\ op' = name /\ todo' = E /\ failed' = FALSE
        /\ UNCHANGED <<path, slot, streamer, faults>>
    BY DEF Begin
  <1>2. SUFFICES ASSUME faults' = 0 PROVE Healthy'
    BY DEF Healthy
  <1>3. have' = have /\ ready' = {0, 1} /\ answer' = IF have THEN {1 - cur'} ELSE {}
    BY <1>1, <1>2, HealthyNow DEF streamer, Other
  <1>. QED BY <1>1, <1>2, <1>3, HealthyNow, HealthyWhen

\* Steps that ask for no more than there is, and leave the streamer's groups.
Calm(q) ==
  \A i \in DOMAIN q : Room(q[i]) /\ q[i].step \notin {"idle", "new", "submit"} /\ ~Drops(q[i], "spirv")

LEMMA CalmIsSturdy == ASSUME NEW q, Calm(q) PROVE \A h, s : Sturdy(q, h, s)
  BY DEF Calm, Sturdy

LEMMA CalmJoin ==
  ASSUME NEW x \in Seq(Steps), NEW y \in Seq(Steps), Calm(x), Calm(y)
  PROVE  Calm(x \o y)
  <1> DEFINE p == x \o y
  <1>1. /\ p \in Seq(Steps) /\ Len(x) \in Nat
        /\ \A i \in DOMAIN p : /\ i \in Nat \ {0}
                               /\ i <= Len(x) => i \in DOMAIN x /\ p[i] = x[i]
                               /\ i > Len(x) => i - Len(x) \in DOMAIN y /\ p[i] = y[i - Len(x)]
    BY JoinAt
  <1> HIDE DEF p
  <1>2. \A i \in DOMAIN p : (\E k \in DOMAIN x : p[i] = x[k]) \/ (\E k \in DOMAIN y : p[i] = y[k])
    <2>1. ASSUME NEW i \in DOMAIN p, i > Len(x) PROVE \E k \in DOMAIN y : p[i] = y[k]
      BY <1>1, <2>1
    <2>. QED BY <1>1, <2>1
  <1>3. Calm(p)
    BY <1>2 DEF Calm
  <1>. QED BY <1>3 DEF p

LEMMA HashesAreCalm ==
  ASSUME NEW n \in Nat, n <= MaxSlab
  PROVE  /\ Calm(HashBatch(n))
         /\ (Native => n <= SpirvRows) => Calm(HashBatchFused(n))
  <1>1. ASSUME NEW s \in {"sa", "fused"}, s = "fused" /\ Native => n <= SpirvRows
        PROVE  Calm(<<Need(s, n), Use(s, n)>>)
    <2>1. PICK a, b : a = Need(s, n) /\ b = Use(s, n)
      OBVIOUS
    <2>2. /\ a \in Steps /\ a.step = "need" /\ a.slot = s /\ a.n = n
          /\ b \in Steps /\ b.step = "use"
      BY <2>1 DEF Need, Use, Do, Steps, StepNames, Slots
    <2>3. PICK R : R = <<a, b>>
      OBVIOUS
    <2>4. DOMAIN R = {1, 2} /\ R[1] = a /\ R[2] = b
      BY <2>2, <2>3, ShortFollows
    <2>5. Rows(s, n) <= MaxSlab /\ n <= Rows(s, n)
      BY <1>1, Given DEF Rows
    <2>6. \A x \in {a, b} : Room(x) /\ x.step \notin {"idle", "new", "submit"} /\ ~Drops(x, "spirv")
      BY <2>2, <2>5 DEF Room, Drops
    <2>7. Calm(R)
      BY <2>4, <2>6 DEF Calm
    <2>. QED BY <2>1, <2>3, <2>7
  <1>. QED BY <1>1 DEF HashBatch, HashBatchFused

LEMMA SelfTestCalm == SelfTest \in Seq(Steps) /\ Calm(SelfTest)
  <1>1. /\ Calm(HashBatch(Probe)) /\ Calm(HashBatchFused(Probe)) /\ Calm(HashBatch(Corpus))
        /\ HashBatch(Probe) \in Seq(Steps) /\ HashBatchFused(Probe) \in Seq(Steps) /\ HashBatch(Corpus) \in Seq(Steps)
    BY Given, HashesAreCalm, HashesAreLocal DEF Local
  <1>2. PICK a, b, R : a = Use("fused", Corpus) /\ b = Do("probe", "spirv", Probe) /\ R = <<a, b>>
    OBVIOUS
  <1>3. a \in Steps /\ a.step = "use" /\ b \in Steps /\ b.step = "probe"
    BY <1>2, Given DEF Use, Do, Steps, StepNames, Slots
  <1>4. R \in Seq(Steps) /\ DOMAIN R = {1, 2} /\ R[1] = a /\ R[2] = b
    BY <1>2, <1>3, ShortFollows
  <1>5. Calm(R)
    BY <1>3, <1>4 DEF Calm, Room, Drops
  <1>6. PICK x, y \in Seq(Steps) : SelfTest = x \o y /\ Calm(x) /\ Calm(y)
    BY <1>1, <1>2, <1>4, <1>5 DEF SelfTest
  <1>. QED BY <1>6, CalmJoin, ConcatProperties

LEMMA StreamSturdy ==
  ASSUME NEW n \in Nat, n <= MaxSlab, Native => n <= StreamRows, NEW h, ~h, NEW s
  PROVE  HashBatchFusedStream(n) \in Seq(Steps) /\ Sturdy(HashBatchFusedStream(n), h, s)
  <1>1. CASE Native
    <2>1. PICK a, b, c, R : a = Do("new", "spirv", n) /\ b = Do("submit", "spirv", n) /\ c = Do("drain", "spirv", 0)
                            /\ R = <<a, b, c>>
      OBVIOUS
    <2>2. /\ a \in Steps /\ a.step = "new" /\ a.n = n
          /\ b \in Steps /\ b.step = "submit"
          /\ c \in Steps /\ c.step = "drain"
      BY <2>1 DEF Do, Steps, StepNames, Slots
    <2>3. R \in Seq(Steps) /\ DOMAIN R = {1, 2, 3} /\ R[1] = a /\ R[2] = b /\ R[3] = c
      BY <2>1, <2>2
    <2>4. Room(a) /\ Room(b) /\ Room(c) /\ \A t : ~Drops(a, t) /\ ~Drops(b, t) /\ ~Drops(c, t)
      BY <2>2 DEF Room, Drops
    <2>5. Sturdy(R, h, s)
      BY <2>2, <2>3, <2>4 DEF Sturdy
    <2>6. HashBatchFusedStream(n) = R
      BY <1>1, <2>1 DEF HashBatchFusedStream
    <2>. QED BY <2>3, <2>5, <2>6
  <1>2. CASE ~Native
    <2>1. PICK a, b, c, R : a = Need("pipe0", n) /\ b = Need("pipe1", n) /\ c = Use("pipe0", n) /\ R = <<a, b, c>>
      OBVIOUS
    <2>2. /\ a \in Steps /\ a.step = "need" /\ a.n = n
          /\ b \in Steps /\ b.step = "need" /\ b.n = n
          /\ c \in Steps /\ c.step = "use"
      BY <2>1 DEF Need, Use, Do, Steps, StepNames, Slots
    <2>3. R \in Seq(Steps) /\ DOMAIN R = {1, 2, 3} /\ R[1] = a /\ R[2] = b /\ R[3] = c
      BY <2>1, <2>2
    <2>4. Room(a) /\ Room(b) /\ Room(c) /\ \A t : ~Drops(a, t) /\ ~Drops(b, t) /\ ~Drops(c, t)
      BY <1>2, <2>2 DEF Room, Rows, Drops
    <2>5. Sturdy(R, h, s)
      BY <2>2, <2>3, <2>4 DEF Sturdy
    <2>6. HashBatchFusedStream(n) = R
      BY <1>2, <2>1 DEF HashBatchFusedStream
    <2>. QED BY <2>3, <2>5, <2>6
  <1>. QED BY <1>1, <1>2

LEMMA DropsSturdy ==
  ASSUME NEW D, NEW A, IsDrops(D, A), NEW h, ~h, NEW s
  PROVE  D \in Seq(Steps) /\ Sturdy(D, h, s) /\ \A i \in DOMAIN D : D[i].step # "submit"
  BY DEF IsDrops, Sturdy, Room

\* Every operation starts well on a device that has not faulted.
LEMMA HealthyStarts ==
  ASSUME CachesInv, Healthy,
         Gate \/ Open \/ Bench \/ BenchStream \/ Submit \/ Drain \/ Reprobe \/ MineBatch \/ Close
  PROVE  Healthy'
  <1>0. SUFFICES ASSUME faults' = 0 PROVE Healthy'
    BY DEF Healthy
  <1>1. faults = 0 /\ op = "none"
    BY <1>0 DEF Gate, Open, Bench, BenchStream, Submit, Drain, Reprobe, MineBatch, Close, Begin, Idle
  <1>2. have => Native /\ stage = "stream"
    <2>1. DOMAIN todo = {}
      BY <1>1, BetweenOps
    <2>. QED BY <1>1, <2>1, HealthyNow DEF Drains
  <1>3. \A n \in Batches : n \in Nat /\ n <= MaxSlab /\ (Native => n <= StreamRows)
    BY Given DEF CachesInv, SessionsTypeOK
  <1>4. CASE Gate
    <2>1. Begin("gate", SelfTest) /\ stage' = stage /\ stage = "gate"
      BY <1>4 DEF Gate
    <2>2. Sturdy(SelfTest, have, stage')
      BY SelfTestCalm, CalmIsSturdy
    <2>. QED BY <1>2, <2>1, <2>2, HealthyStart
  <1>5. CASE Reprobe
    <2>1. Begin("probe", SelfTest) /\ stage' = stage
      BY <1>5 DEF Reprobe
    <2>2. Sturdy(SelfTest, have, stage')
      BY SelfTestCalm, CalmIsSturdy
    <2>. QED BY <1>2, <2>1, <2>2, HealthyStart
  <1>6. CASE Open
    <2>1. PICK n \in Batches : Begin("open", <<Do("new", "", n)>>)
      BY <1>6 DEF Open
    <2>2. PICK x, R : x = Do("new", "", n) /\ R = <<x>>
      OBVIOUS
    <2>3. x \in Steps /\ x.step = "new" /\ x.n = n /\ n <= MaxSlab /\ (Native => n <= StreamRows)
      BY <1>3, <2>2 DEF Do, Steps, StepNames
    <2>4. DOMAIN R = {1} /\ R[1] = x
      BY <2>2, <2>3, ShortFollows
    <2>5. stage = "mine" /\ ~have
      BY <1>2, <1>6 DEF Open
    <2>6. Sturdy(R, have, stage')
      BY <2>3, <2>4, <2>5 DEF Sturdy, Room, Drops
    <2>7. Begin("open", R)
      BY <2>1, <2>2
    <2>. QED BY <2>5, <2>6, <2>7, HealthyStart
  <1>7. CASE Bench
    <2>1. PICK n \in Batches : Begin("bench", IF path = "portable" THEN HashBatch(n)
                                              ELSE IF Native THEN HashBatchFusedStream(n)
                                              ELSE HashBatchFused(n))
      BY <1>7 DEF Bench
    <2>2. PICK R : R = IF path = "portable" THEN HashBatch(n)
                       ELSE IF Native THEN HashBatchFusedStream(n) ELSE HashBatchFused(n)
      OBVIOUS
    <2>3. stage = "bench" /\ ~have
      BY <1>2, <1>7 DEF Bench
    <2>4. n \in Nat /\ n <= MaxSlab /\ (Native => n <= StreamRows)
      BY <1>3
    <2>5. Sturdy(R, have, stage')
      <3>1. CASE path = "portable"
        BY <2>2, <2>4, <3>1, HashesAreCalm, CalmIsSturdy
      <3>2. CASE path # "portable" /\ Native
        BY <2>2, <2>3, <2>4, <3>2, StreamSturdy
      <3>3. CASE path # "portable" /\ ~Native
        BY <2>2, <2>4, <3>3, HashesAreCalm, CalmIsSturdy
      <3>. QED BY <3>1, <3>2, <3>3
    <2>. QED BY <2>1, <2>2, <2>3, <2>5, HealthyStart
  <1>8. CASE BenchStream
    <2>1. PICK n \in Batches : Begin("bench", HashBatchFusedStream(n))
      BY <1>8 DEF BenchStream
    <2>2. stage = "bench" /\ ~have
      BY <1>2, <1>8 DEF BenchStream
    <2>3. Sturdy(HashBatchFusedStream(n), have, stage')
      BY <1>3, <2>2, StreamSturdy
    <2>. QED BY <2>1, <2>2, <2>3, HealthyStart
  <1>9. CASE MineBatch
    <2>1. PICK n \in Batches : Begin("batch", HashBatch(n))
      BY <1>9 DEF MineBatch
    <2>2. stage = "mine" /\ ~have
      BY <1>2, <1>9 DEF MineBatch
    <2>3. Sturdy(HashBatch(n), have, stage')
      BY Given, HashesAreCalm, CalmIsSturdy
    <2>. QED BY <2>1, <2>2, <2>3, HealthyStart
  <1>10. CASE Submit
    <2>1. PICK x, y, z, P, R : /\ x = Do("submit", "spirv", 1) /\ P = <<x>>
                               /\ y = Use(Pipe(turn), 1) /\ z = Do("turn", "", 0) /\ R = <<y, z>>
      OBVIOUS
    <2>2. (Native /\ Begin("submit", P)) \/ (~Native /\ Begin("submit", R))
      BY <1>10, <2>1 DEF Submit
    <2>3. stage = "stream" /\ stage' = "stream"
      BY <1>10 DEF Submit
    <2>4. x \in Steps /\ x.step = "submit"
      BY <2>1 DEF Do, Steps, StepNames, Slots
    <2>5. Sturdy(P, have, "stream")
      <3>1. DOMAIN P = {1} /\ P[1] = x
        BY <2>1, <2>4, ShortFollows
      <3>. QED BY <2>4, <3>1 DEF Sturdy, Room, Drops
    <2>6. ~Native => Sturdy(R, have, "stream")
      <3> SUFFICES ASSUME ~Native PROVE Calm(R)
        BY CalmIsSturdy
      <3>1. Pipe(turn) \in Slots
        BY <1>1, BetweenOps
      <3>2. y \in Steps /\ y.step = "use" /\ z \in Steps /\ z.step = "turn"
        BY <2>1, <3>1 DEF Use, Do, Steps, StepNames
      <3>3. R = <<y, z>> /\ y \in Steps /\ z \in Steps
        BY <2>1, <3>2
      <3>4. DOMAIN <<y, z>> = {1, 2} /\ <<y, z>>[1] = y /\ <<y, z>>[2] = z
        BY <3>3, ShortFollows
      <3>. QED BY <3>2, <3>3, <3>4 DEF Calm, Room, Drops
    <2>. QED BY <2>2, <2>3, <2>5, <2>6, HealthyStart
  <1>11. CASE Drain
    <2>1. CASE Native
      <3>1. PICK x, P : x = Do("drain", "spirv", 0) /\ P = <<x>>
        OBVIOUS
      <3>2. x \in Steps /\ x.step = "drain"
        BY <3>1 DEF Do, Steps, StepNames, Slots
      <3>3. DOMAIN P = {1} /\ P[1] = x
        BY <3>1, <3>2, ShortFollows
      <3>4. Calm(P) /\ Drains(P)
        BY <3>2, <3>3 DEF Calm, Room, Drops, Drains
      <3>5. Begin("drain", P)
        BY <1>11, <2>1, <3>1 DEF Drain
      <3>. QED BY <3>4, <3>5, CalmIsSturdy, HealthyStart
    <2>2. CASE ~Native /\ flying
      <3>1. PICK x, P : x = Use(Pipe(1 - turn), 1) /\ P = <<x>>
        OBVIOUS
      <3>2. Pipe(1 - turn) \in Slots
        BY <1>1, <2>2, BetweenOps
      <3>3. x \in Steps /\ x.step = "use"
        BY <3>1, <3>2 DEF Use, Do, Steps, StepNames
      <3>4. DOMAIN P = {1} /\ P[1] = x
        BY <3>1, <3>3, ShortFollows
      <3>5. Calm(P)
        BY <3>3, <3>4 DEF Calm, Room, Drops
      <3>6. Begin("drain", P)
        BY <1>11, <2>2, <3>1 DEF Drain
      <3>. QED BY <1>2, <2>2, <3>5, <3>6, CalmIsSturdy, HealthyStart
    <2>3. CASE ~Native /\ ~flying
      <3>1. Begin("drain", <<>>)
        BY <1>11, <2>3 DEF Drain
      <3>2. Calm(<<>>)
        BY DEF Calm
      <3>. QED BY <1>2, <2>3, <3>1, <3>2, CalmIsSturdy, HealthyStart
    <2>. QED BY <2>1, <2>2, <2>3
  <1>12. CASE Close
    <2>1. PICK D : IsDrops(D, Slots) /\ Begin("close", D)
      BY <1>12, AllDrops DEF Close
    <2>2. ~have
      BY <1>2, <1>12 DEF Close
    <2>3. Sturdy(D, have, stage')
      BY <2>1, <2>2, DropsSturdy
    <2>. QED BY <2>1, <2>2, <2>3, HealthyStart
  <1>. QED BY <1>4, <1>5, <1>6, <1>7, <1>8, <1>9, <1>10, <1>11, <1>12

LEMMA Roomy ==
  ASSUME CachesInv, Healthy, faults = 0, NEW w \in {"need", "build"}, At(w)
  PROVE  /\ Step = todo[1] /\ Step \in Steps /\ Step.step = w /\ Rest \in Seq(Steps) /\ 1 \in DOMAIN todo
         /\ Room(Step) /\ Step.slot \in Slots
  <1>1. Step = todo[1] /\ Step \in Steps /\ Step.step = w /\ Rest \in Seq(Steps) /\ 1 \in DOMAIN todo
    BY StepAt
  <1>2. Room(todo[1])
    BY <1>1, HealthyNow DEF Sturdy
  <1>3. todo[1].slot \in Slots
    BY <1>1 DEF CachesInv, Ordered
  <1>. QED BY <1>1, <1>2, <1>3

LEMMA Twos ==
  ASSUME NEW S, NEW a \in S, NEW b \in S
  PROVE  <<a>> \o <<b>> = <<a, b>>
  <1>1. /\ <<a>> \in Seq(S) /\ <<b>> \in Seq(S) /\ <<a, b>> \in Seq(S)
        /\ Len(<<a>>) = 1 /\ Len(<<b>>) = 1 /\ Len(<<a, b>>) = 2
    OBVIOUS
  <1>2. Len(<<a>> \o <<b>>) = 2 /\ <<a>> \o <<b>> \in Seq(S)
        /\ \A i \in 1 .. 2 : (<<a>> \o <<b>>)[i] = IF i <= 1 THEN <<a>>[i] ELSE <<b>>[i - 1]
    BY <1>1, ConcatProperties
  <1>3. \A i \in 1 .. 2 : (<<a>> \o <<b>>)[i] = <<a, b>>[i]
    BY <1>1, <1>2
  <1>. QED BY <1>1, <1>2, <1>3, SeqEqual

LEMMA HealthyNeeds == ASSUME CachesInv, Healthy, NeedStep PROVE Healthy'
  <1>0. SUFFICES ASSUME faults' = 0 PROVE Healthy'
    BY DEF Healthy
  <1>1. /\ faults = 0 /\ KeepOp /\ At("need")
        /\ UNCHANGED <<slot, streamer>>
    BY <1>0 DEF NeedStep, Sound
  <1>2. /\ Step = todo[1] /\ Step \in Steps /\ Step.step = "need" /\ Rest \in Seq(Steps) /\ 1 \in DOMAIN todo
        /\ Room(Step) /\ Step.slot \in Slots
    BY <1>1, Roomy
  <1>3. PICK b, n : b = Step.slot /\ n = Step.n
    OBVIOUS
  <1>4. ~(Step.slot = "sa" /\ Step.n > MaxSlab)
    <2>1. n \in Nat /\ MaxSlab \in Nat
      BY <1>2, <1>3, Given DEF Steps
    <2>2. b = "sa" => n <= MaxSlab
      BY <1>2, <1>3 DEF Room, Rows
    <2>. QED BY <1>3, <2>1, <2>2
  <1>5. failed' = failed /\ todo' = (IF Fits(b, n) THEN <<>> ELSE Replacement(b, n)) \o Rest
    BY <1>4, <1>3 DEF NeedStep, Goes
  <1>6. CASE Fits(b, n)
    <2>1. Goes(Rest)
      BY <1>2, <1>5, <1>6, ConcatEmptySeq DEF Goes
    <2>. QED BY <1>0, <1>1, <2>1, HealthyNow, HealthyRest
  <1>7. CASE ~Fits(b, n)
    <2>1. PICK x, d, X, D : x = Do("build", b, n) /\ d = Do("drop", b, 0) /\ X = <<x>> /\ D = <<d, x>>
      OBVIOUS
    <2>2. /\ x \in Steps /\ x.step = "build" /\ x.slot = b /\ x.n = n
          /\ d \in Steps /\ d.step = "drop" /\ d.slot = b
      BY <1>2, <1>3, <2>1 DEF Do, Steps, StepNames
    <2>3. /\ X \in Seq(Steps) /\ DOMAIN X = {1} /\ X[1] = x
          /\ D \in Seq(Steps) /\ DOMAIN D = {1, 2} /\ D[1] = d /\ D[2] = x
      <3>1. X = <<x>> /\ D = <<d, x>> /\ x \in Steps /\ d \in Steps
        BY <2>1, <2>2
      <3>2. <<x>> \in Seq(Steps) /\ DOMAIN <<x>> = {1} /\ <<x>>[1] = x
        BY <3>1, ShortFollows
      <3>3. <<d, x>> \in Seq(Steps) /\ DOMAIN <<d, x>> = {1, 2} /\ <<d, x>>[1] = d /\ <<d, x>>[2] = x
        BY <3>1, ShortFollows
      <3>. QED BY <3>1, <3>2, <3>3
    <2>4. Room(x) /\ Room(d) /\ ~Drops(x, "spirv")
      BY <1>2, <1>3, <2>2 DEF Room, Drops
    <2>5. CASE slot[b] = None
      <3>1. Calm(X) /\ \A i \in DOMAIN X : X[i].step # "submit"
        BY <2>2, <2>3, <2>4 DEF Calm
      <3>2. todo' = Then(X, Rest)
        <4>1. Replacement(b, n) = <<>> \o X
          BY <2>1, <2>5 DEF Replacement, Drop
        <4>2. <<>> \o X = X
          BY <2>3, ConcatEmptySeq
        <4>. QED BY <1>5, <1>7, <4>1, <4>2 DEF Then
      <3>. QED BY <1>0, <1>1, <1>5, <2>3, <3>1, <3>2, CalmIsSturdy, HealthyMore
    <2>6. CASE slot[b] # None
      <3>1. b # "spirv"
        <4> SUFFICES ASSUME b = "spirv" PROVE Fits(b, n)
          BY <1>7
        <4>1. Native /\ n = 0
          BY <1>2, <1>3 DEF CachesInv, Ordered, Builds
        <4>2. slot[b].rows \in Nat /\ slot[b].native = Native
          BY <1>2, <1>3, <2>6, <4>1 DEF CachesInv, SessionsTypeOK, Owned
        <4>. QED BY <2>6, <4>1, <4>2 DEF Fits
      <3>2. Calm(D) /\ \A i \in DOMAIN D : D[i].step # "submit"
        BY <2>2, <2>3, <2>4, <3>1 DEF Calm, Drops
      <3>3. todo' = Then(D, Rest)
        <4>1. Replacement(b, n) = <<d>> \o <<x>>
          BY <2>1, <2>6 DEF Replacement, Drop
        <4>2. Replacement(b, n) = D
          BY <2>1, <2>2, <4>1, Twos
        <4>. QED BY <1>5, <1>7, <4>2 DEF Then
      <3>. QED BY <1>0, <1>1, <1>5, <2>3, <3>2, <3>3, CalmIsSturdy, HealthyMore
    <2>. QED BY <2>5, <2>6
  <1>. QED BY <1>6, <1>7

LEMMA HealthyBuilds == ASSUME CachesInv, Healthy, BuildStep PROVE Healthy'
  <1>0. SUFFICES ASSUME faults' = 0 PROVE Healthy'
    BY DEF Healthy
  <1>1. faults = 0 /\ Sound /\ KeepOp /\ At("build")
    BY <1>0, FaultFree DEF BuildStep
  <1>2. /\ Step = todo[1] /\ Step \in Steps /\ Step.step = "build" /\ Rest \in Seq(Steps) /\ 1 \in DOMAIN todo
        /\ Room(Step) /\ Step.slot \in Slots
    BY <1>1, Roomy
  <1>3. PICK b, r : b = Step.slot /\ r = Rows(b, Step.n)
    OBVIOUS
  <1>4. r <= MaxSlab /\ Step.n <= r /\ r \in Nat /\ Step.n \in Nat
    BY <1>2, <1>3, Given DEF Room, Rows, Steps
  <1>5. ~(Step.n > r) /\ ~(r > MaxSlab)
    BY <1>4, Given
  <1>6. ~Fault
    BY <1>0, <1>1 DEF Fault
  <1>7. /\ Goes(Rest) /\ \E new : slot' = [slot EXCEPT ![b] = new]
        /\ IF b = "spirv" THEN cur' = 0 /\ have' = FALSE /\ ready' = {0, 1} /\ answer' = {}
           ELSE UNCHANGED streamer
    BY <1>3, <1>5, <1>6 DEF BuildStep
  <1>8. CASE b = "spirv"
    BY <1>0, <1>1, <1>7, <1>8, HealthyRest
  <1>9. CASE b # "spirv"
    <2>1. slot'["spirv"] = slot["spirv"]
      BY <1>7, <1>9 DEF CachesInv, SessionsTypeOK
    <2>. QED BY <1>0, <1>1, <1>7, <1>9, <2>1, HealthyNow, HealthyRest
  <1>. QED BY <1>8, <1>9

\* A step that works with the streamer or another session.
LEMMA HealthyWorks ==
  ASSUME CachesInv, Healthy, UseStep \/ TurnStep \/ IdleStep \/ DropStep
  PROVE  Healthy'
  <1>0. SUFFICES ASSUME faults' = 0 PROVE Healthy'
    BY DEF Healthy
  <1>1. KeepOp /\ UNCHANGED streamer /\ (Sound \/ Fault)
    BY DEF UseStep, TurnStep, IdleStep, DropStep
  <1>2. faults = 0 /\ Sound
    BY <1>0, <1>1, FaultFree
  <1>3. ~Fault
    BY <1>0, <1>2 DEF Fault
  <1>4. CASE UseStep \/ TurnStep
    <2>1. Goes(Rest) /\ UNCHANGED slot /\ (At("use") \/ At("turn"))
      BY <1>3, <1>4 DEF UseStep, TurnStep
    <2>. QED BY <1>0, <1>1, <1>2, <2>1, HealthyNow, HealthyRest
  <1>5. CASE IdleStep
    <2>1. At("idle") /\ UNCHANGED slot
      BY <1>5 DEF IdleStep
    <2>2. 1 \in DOMAIN todo /\ todo[1].step = "idle"
      BY <2>1, StepAt
    <2>3. ~have
      BY <1>2, <2>2, HealthyNow DEF Sturdy
    <2>4. Goes(Rest)
      BY <1>5, <2>3 DEF IdleStep
    <2>. QED BY <1>0, <1>1, <1>2, <2>1, <2>4, HealthyNow, HealthyRest
  <1>6. CASE DropStep
    <2>1. At("drop") /\ Goes(Rest) /\ slot' = [slot EXCEPT ![Step.slot] = None]
      BY <1>6 DEF DropStep, Forget
    <2>2. 1 \in DOMAIN todo /\ Step = todo[1] /\ todo[1].step = "drop"
      BY <2>1, StepAt
    <2>3. have => Step.slot # "spirv"
      BY <1>2, <2>2, HealthyNow DEF Sturdy, Drops
    <2>4. have => slot'["spirv"] # None
      BY <1>2, <2>1, <2>3, HealthyNow DEF CachesInv, SessionsTypeOK, Slots
    <2>. QED BY <1>0, <1>1, <1>2, <2>1, <2>4, HealthyRest
  <1>. QED BY <1>4, <1>5, <1>6

LEMMA HealthyNews == ASSUME CachesInv, Healthy, NewStep PROVE Healthy'
  <1>0. SUFFICES ASSUME faults' = 0 PROVE Healthy'
    BY DEF Healthy
  <1>1. /\ faults = 0 /\ KeepOp /\ At("new") /\ UNCHANGED <<slot, streamer>>
    BY <1>0 DEF NewStep, Sound
  <1>2. /\ Step = todo[1] /\ Step \in Steps /\ Step.step = "new" /\ Rest \in Seq(Steps) /\ 1 \in DOMAIN todo
    BY <1>1, StepAt
  <1>3. Room(Step) /\ ~have
    BY <1>1, <1>2, HealthyNow DEF Sturdy
  <1>4. PICK n : n = Step.n
    OBVIOUS
  <1>5. n \in Nat /\ n <= MaxSlab /\ (Native => n <= StreamRows)
    BY <1>2, <1>3, <1>4 DEF Room, Steps
  <1>6. failed' = failed /\ todo' = Then(NewFusedStreamer(n), Rest)
    <2>1. ~(Native /\ n > StreamRows)
      BY <1>5, Given
    <2>. QED BY <1>4, <2>1 DEF NewStep, Goes, Then
  <1>7. \A s \in Slots : IsDrops(Drop(s), {s})
    BY DropOne
  <1>8. PICK F, s, A : F = Drop("fused") /\ s = stage /\ A = {"fused"}
    OBVIOUS
  <1>9. F \in Seq(Steps) /\ Sturdy(F, have, s) /\ \A i \in DOMAIN F : F[i].step # "submit"
    BY <1>3, <1>7, <1>8, DropsSturdy DEF Slots
  <1>10. ASSUME NEW D, NEW B, IsDrops(D, B), NEW P \in Seq(Steps), Sturdy(P, have, s),
                \A i \in DOMAIN P : P[i].step # "submit",
                NewFusedStreamer(n) = Then(F, Then(D, P))
         PROVE  Healthy'
    <2>1. D \in Seq(Steps) /\ Sturdy(D, have, s) /\ \A i \in DOMAIN D : D[i].step # "submit"
      BY <1>3, <1>10, DropsSturdy
    <2>2. PICK X : X = Then(D, P)
      OBVIOUS
    <2>3. X \in Seq(Steps) /\ Sturdy(X, have, s)
      BY <1>10, <2>1, <2>2, SturdyJoin, ConcatProperties DEF Then
    <2>4. PICK Y : Y = Then(F, X)
      OBVIOUS
    <2>5. Y \in Seq(Steps) /\ Sturdy(Y, have, s)
      BY <1>9, <2>3, <2>4, SturdyJoin, ConcatProperties DEF Then
    <2>6. todo' = Then(Y, Rest)
      BY <1>6, <1>10, <2>2, <2>4
    <2>. QED BY <1>0, <1>1, <1>6, <1>8, <2>5, <2>6, HealthyMore
  <1>11. CASE Native
    <2>1. PICK a, b, P : a = Need("spirv", 0) /\ b = Do("idle", "spirv", 0) /\ P = <<a, b>>
      OBVIOUS
    <2>2. /\ a \in Steps /\ a.step = "need" /\ a.slot = "spirv" /\ a.n = 0
          /\ b \in Steps /\ b.step = "idle"
      BY <2>1 DEF Need, Do, Steps, StepNames, Slots
    <2>3. P \in Seq(Steps) /\ DOMAIN P = {1, 2} /\ P[1] = a /\ P[2] = b
      BY <2>1, <2>2, ShortFollows
    <2>4. Room(a) /\ Room(b)
      BY <1>11, <2>2, Given DEF Room, Rows
    <2>5. Sturdy(P, have, s) /\ \A i \in DOMAIN P : P[i].step # "submit"
      BY <1>3, <2>2, <2>3, <2>4 DEF Sturdy, Drops
    <2>6. PICK D, B : D = Drop("pipe0") \o Drop("pipe1") /\ B = {"pipe0"} \cup {"pipe1"}
      OBVIOUS
    <2>7. IsDrops(D, B)
      BY <1>7, <2>6, DropJoin DEF Slots
    <2>8. NewFusedStreamer(n) = Then(F, Then(D, P))
      BY <1>8, <1>11, <2>1, <2>6 DEF NewFusedStreamer, Then
    <2>. QED BY <1>10, <2>3, <2>5, <2>7, <2>8
  <1>12. CASE ~Native
    <2>1. PICK a, b, P : a = Need("pipe0", n) /\ b = Need("pipe1", n) /\ P = <<a, b>>
      OBVIOUS
    <2>2. /\ a \in Steps /\ a.step = "need" /\ a.slot = "pipe0" /\ a.n = n
          /\ b \in Steps /\ b.step = "need" /\ b.slot = "pipe1" /\ b.n = n
      BY <1>5, <2>1 DEF Need, Do, Steps, StepNames, Slots
    <2>3. P \in Seq(Steps) /\ DOMAIN P = {1, 2} /\ P[1] = a /\ P[2] = b
      BY <2>1, <2>2, ShortFollows
    <2>4. Room(a) /\ Room(b)
      BY <1>5, <1>12, <2>2 DEF Room, Rows
    <2>5. Sturdy(P, have, s) /\ \A i \in DOMAIN P : P[i].step # "submit"
      BY <1>3, <2>2, <2>3, <2>4 DEF Sturdy, Drops
    <2>6. PICK D, B : D = Drop("spirv") /\ B = {"spirv"}
      OBVIOUS
    <2>7. IsDrops(D, B)
      BY <1>7, <2>6 DEF Slots
    <2>8. NewFusedStreamer(n) = Then(F, Then(D, P))
      BY <1>8, <1>12, <2>1, <2>6 DEF NewFusedStreamer, Then
    <2>. QED BY <1>10, <2>3, <2>5, <2>7, <2>8
  <1>. QED BY <1>11, <1>12

LEMMA HealthyProbes == ASSUME CachesInv, Healthy, ProbeStep PROVE Healthy'
  <1>0. SUFFICES ASSUME faults' = 0 PROVE Healthy'
    BY DEF Healthy
  <1>1. /\ faults = 0 /\ KeepOp /\ At("probe") /\ UNCHANGED <<slot, streamer>>
        /\ failed' = failed /\ todo' = Then(ProbeStream, Rest)
    BY <1>0 DEF ProbeStep, Sound, Goes, Then
  <1>2. PICK E, s : E = ProbeStream /\ s = stage
    OBVIOUS
  <1>3. E \in Seq(Steps) /\ Sturdy(E, have, s)
    <2>1. CASE slot["spirv"] = None \/ ~have
      <3>1. ~have /\ E = HashBatchFusedStream(Probe)
        BY <1>1, <1>2, <2>1, HealthyNow DEF ProbeStream
      <3>2. Probe \in Nat /\ Probe <= MaxSlab /\ Probe <= StreamRows
        BY Given
      <3>. QED BY <3>1, <3>2, StreamSturdy
    <2>2. CASE slot["spirv"] # None /\ have
      <3>1. E = <<>> /\ <<>> \in Seq(Steps)
        BY <1>2, <2>2 DEF ProbeStream
      <3>. QED BY <3>1 DEF Sturdy
    <2>. QED BY <2>1, <2>2
  <1>. QED BY <1>0, <1>1, <1>2, <1>3, HealthyMore

LEMMA HealthySubmits == ASSUME CachesInv, Healthy, SubmitStep PROVE Healthy'
  <1>0. SUFFICES ASSUME faults' = 0 PROVE Healthy'
    BY DEF Healthy
  <1>1. /\ KeepOp /\ At("submit") /\ UNCHANGED slot /\ (Sound \/ Fault)
    BY DEF SubmitStep
  <1>2. faults = 0 /\ Sound
    BY <1>0, <1>1, FaultFree
  <1>3. ~Fault
    BY <1>0, <1>2 DEF Fault
  <1>4. cur \in ready /\ cur \notin answer /\ (have => Other \in answer)
    BY <1>2, HealthyNow
  <1>5. answer' = {cur} /\ have' = TRUE /\ cur' = Other /\ ready' = ready /\ Goes(Rest)
    BY <1>3, <1>4 DEF SubmitStep
  <1>6. todo # <<>> /\ todo[1].step = "submit" /\ Rest = Tail(todo) /\ 1 \in DOMAIN todo
    BY <1>1, StepAt
  <1>7. Sturdy(Rest, TRUE, stage) /\ (stage = "stream" \/ Drains(Rest))
    BY <1>2, <1>6, HealthyNow, SturdyTail
  <1>8. Native /\ slot["spirv"] # None
    <2>1. Native /\ Touches(todo[1], "spirv") /\ "spirv" \in Slots
      BY <1>6 DEF CachesInv, Ordered, Touches, Slots
    <2>2. ~\E j \in DOMAIN todo : j < 1 /\ Gives(todo[j], "spirv")
      <3>1. \A j \in DOMAIN todo : j \in Nat \ {0}
        BY DEF CachesInv, SessionsTypeOK
      <3>. QED BY <3>1
    <2>. QED BY <1>6, <2>1, <2>2 DEF CachesInv, Touching, Kept
  <1>9. answer' = {1 - cur'} /\ ready' = {0, 1} /\ failed' = FALSE /\ todo' = Rest
        /\ path' = path /\ op' = op /\ stage' = stage
    BY <1>1, <1>2, <1>5, HealthyNow DEF Goes, KeepOp
  <1>. QED BY <1>1, <1>2, <1>5, <1>7, <1>8, <1>9, HealthyNow, HealthyWhen

LEMMA HealthyDrains == ASSUME CachesInv, Healthy, DrainStep PROVE Healthy'
  <1>0. SUFFICES ASSUME faults' = 0 PROVE Healthy'
    BY DEF Healthy
  <1>1. /\ KeepOp /\ At("drain") /\ UNCHANGED slot /\ (Sound \/ Fault)
    BY DEF DrainStep
  <1>2. faults = 0 /\ Sound
    BY <1>0, <1>1, FaultFree
  <1>3. ~Fault
    BY <1>0, <1>2 DEF Fault
  <1>4. have => Other \in answer
    BY <1>2, HealthyNow
  <1>5. Goes(Rest) /\ have' = FALSE /\ answer' = {} /\ ready' = {0, 1}
    <2>1. CASE have
      <3>1. Goes(Rest) /\ have' = FALSE /\ answer' = answer \ {Other} /\ ready' = ready
        BY <1>3, <1>4, <2>1 DEF DrainStep
      <3>. QED BY <1>2, <2>1, <3>1, HealthyNow
    <2>2. CASE ~have
      <3>1. Goes(Rest) /\ have' = have /\ answer' = answer /\ ready' = ready
        BY <2>2 DEF DrainStep, streamer
      <3>. QED BY <1>2, <2>2, <3>1, HealthyNow
    <2>. QED BY <2>1, <2>2
  <1>. QED BY <1>0, <1>1, <1>2, <1>5, HealthyRest

LEMMA HealthyReturns == ASSUME CachesInv, Healthy, Return PROVE Healthy'
  <1>0. SUFFICES ASSUME faults' = 0 PROVE Healthy'
    BY DEF Healthy
  <1>1. /\ faults = 0 /\ todo = <<>> /\ op' = "none" /\ todo' = <<>> /\ failed' = failed
        /\ UNCHANGED <<path, slot, streamer>>
    BY <1>0 DEF Return
  <1>2. have => Native /\ slot["spirv"] # None /\ stage = "stream"
    <2>1. DOMAIN todo = {}
      BY <1>1
    <2>. QED BY <1>1, <2>1, HealthyNow DEF Drains
  <1>3. op \in {"gate", "open"} => stage # "stream"
    BY <1>1, HealthyNow DEF CachesInv, Streaming
  <1>4. have => stage' = "stream"
    <2>1. CASE have
      <3>1. stage = "stream" /\ op \notin {"gate", "open"}
        BY <1>2, <1>3, <2>1
      <3>2. failed = FALSE
        BY <1>1, HealthyNow
      <3>3. stage' \in {stage}
        BY <3>1, <3>2 DEF Return
      <3>. QED BY <3>1, <3>3
    <2>. QED BY <2>1
  <1>5. Sturdy(<<>>, have, stage')
    BY DEF Sturdy
  <1>6. have' = have /\ ready' = {0, 1} /\ answer' = IF have THEN {1 - cur'} ELSE {}
    BY <1>1, HealthyNow DEF streamer, Other
  <1>. QED BY <1>1, <1>2, <1>4, <1>5, <1>6, HealthyNow, HealthyWhen

LEMMA HealthyStep == ASSUME CachesInv, Healthy, [Next]_vars PROVE Healthy'
  <1>1. CASE UNCHANGED vars
    <2>1. SUFFICES ASSUME faults' = 0 PROVE Healthy'
      BY DEF Healthy
    <2>2. UNCHANGED <<path, slot, cur, have, ready, answer, op, todo, failed, stage, faults>>
      BY <1>1 DEF vars, streamer
    <2>3. answer' = IF have THEN {1 - cur'} ELSE {}
      BY <2>1, <2>2, HealthyNow DEF Other
    <2>. QED BY <2>1, <2>2, <2>3, HealthyNow, HealthyWhen
  <1>. QED BY <1>1, HealthyStarts, HealthyNeeds, HealthyBuilds, HealthyWorks, HealthyNews, HealthyProbes,
              HealthySubmits, HealthyDrains, HealthyReturns DEF Next

\* On a device that never faults no operation fails, in whatever order they
\* come: the gate, its repetition in the middle of the stream with a group in
\* flight (pipeline.go:398), the opening of the streamer after either, its
\* submits, its drain and Close.
THEOREM HealthySucceeds == Spec => []HealthyNeverFails
  <1> DEFINE Both == CachesInv /\ Healthy
  <1>1. Init => Both
    <2>1. Init => Healthy
      <3> SUFFICES ASSUME Init PROVE Healthy
        OBVIOUS
      <3>1. todo = <<>> /\ DOMAIN todo = {} /\ ~failed /\ ready = {0, 1} /\ answer = {} /\ have = FALSE /\ op = "none"
        BY DEF Init
      <3>2. Sturdy(todo, have, stage)
        BY <3>1 DEF Sturdy
      <3>. QED BY <3>1, <3>2 DEF Healthy
    <2>. QED BY <2>1, CachesBegin
  <1>2. Both /\ [Next]_vars => Both'
    <2> SUFFICES ASSUME CachesInv, Healthy, [Next]_vars PROVE CachesInv' /\ Healthy'
      OBVIOUS
    <2>. QED BY CachesStep, HealthyStep
  <1>3. Both => HealthyNeverFails
    BY DEF Healthy, HealthyNeverFails
  <1> HIDE DEF Both
  <1>. QED BY <1>1, <1>2, <1>3, PTL DEF Spec

-----------------------------------------------------------------------------
(* Running totals.                                                         *)

Less == {ss \in Nat \X Nat : ss[1] < ss[2]}

\* A set of numbers that has 0, and with a number the next one, has all.
LEMMA Inductive ==
  ASSUME NEW S, 0 \in S, \A n \in Nat : n \in S => n + 1 \in S
  PROVE  Nat \subseteq S
  <1> SUFFICES ASSUME Nat \ S # {} PROVE FALSE
    OBVIOUS
  <1>1. IsWellFoundedOn(Less, Nat)
    BY NatLessThanWellFounded DEF OpToRel, Less
  <1>2. PICK x \in Nat \ S : \A y \in Nat \ S : ~(<<y, x>> \in Less)
    <2>1. Nat \ S \subseteq Nat
      OBVIOUS
    <2> HIDE DEF Less
    <2>. QED BY <1>1, <2>1, WFMin
  <1>3. x # 0 /\ x - 1 \in Nat
    OBVIOUS
  <1>4. <<x - 1, x>> \in Less
    BY <1>3 DEF Less
  <1>5. x - 1 \in S
    BY <1>2, <1>3, <1>4
  <1>. QED BY <1>3, <1>5

\* b holds the running totals of the first n numbers of h.
IsTotal(b, h, n) == b = [i \in 0 .. n |-> IF i = 0 THEN 0 ELSE b[i - 1] + h[i]]

\* Numbers have running totals, which are what adding one after the other makes.
LEMMA TotalsExist ==
  ASSUME NEW n \in Nat, NEW h \in [1 .. n -> Nat]
  PROVE  \E b \in [0 .. n -> Nat] : IsTotal(b, h, n)
  <1> DEFINE S == {m \in Nat : m <= n => \E b \in [0 .. m -> Nat] : IsTotal(b, h, m)}
  <1>1. 0 \in S
    <2> DEFINE z == [i \in 0 .. 0 |-> 0]
    <2>1. z \in [0 .. 0 -> Nat] /\ IsTotal(z, h, 0)
      BY DEF IsTotal
    <2>. QED BY <2>1
  <1>2. ASSUME NEW m \in Nat, m \in S PROVE m + 1 \in S
    <2> SUFFICES ASSUME m + 1 <= n PROVE \E b \in [0 .. m + 1 -> Nat] : IsTotal(b, h, m + 1)
      OBVIOUS
    <2>1. PICK b \in [0 .. m -> Nat] : IsTotal(b, h, m)
      BY <1>2
    <2> DEFINE c == [i \in 0 .. m + 1 |-> IF i <= m THEN b[i] ELSE b[m] + h[m + 1]]
    <2>2. c \in [0 .. m + 1 -> Nat]
      OBVIOUS
    <2>3. \A i \in 0 .. m : b[i] = IF i = 0 THEN 0 ELSE b[i - 1] + h[i]
      BY <2>1 DEF IsTotal
    <2>4. ASSUME NEW i \in 0 .. m + 1 PROVE c[i] = IF i = 0 THEN 0 ELSE c[i - 1] + h[i]
      BY <2>3
    <2>5. IsTotal(c, h, m + 1)
      <3> HIDE DEF c
      <3>1. c = [i \in 0 .. m + 1 |-> c[i]]
        BY <2>2
      <3>. QED BY <2>4, <3>1 DEF IsTotal
    <2>. QED BY <2>2, <2>5
  <1>3. n \in S
    BY <1>1, <1>2, Inductive
  <1>. QED BY <1>3

\* The totals grow, so every place belongs to one number.
Grows(b, n) == \A i, j \in 0 .. n : i <= j => b[i] <= b[j]
LEMMA TotalsGrow ==
  ASSUME NEW n \in Nat, NEW h \in [1 .. n -> Nat], NEW b, IsTotal(b, h, n)
  PROVE  b \in [0 .. n -> Nat] /\ Grows(b, n)
  <1>1. \A i \in 0 .. n : b[i] = IF i = 0 THEN 0 ELSE b[i - 1] + h[i]
    BY DEF IsTotal
  <1> DEFINE S == {m \in Nat : m <= n => \A i \in 0 .. m : b[i] \in Nat /\ b[i] <= b[m]}
  <1>2. 0 \in S
    BY <1>1
  <1>3. ASSUME NEW m \in Nat, m \in S PROVE m + 1 \in S
    <2> SUFFICES ASSUME m + 1 <= n, NEW i \in 0 .. m + 1 PROVE b[i] \in Nat /\ b[i] <= b[m + 1]
      OBVIOUS
    <2>1. b[m + 1] = b[m] + h[m + 1] /\ h[m + 1] \in Nat
      BY <1>1
    <2>2. b[m] \in Nat /\ (i = m + 1 \/ (b[i] \in Nat /\ b[i] <= b[m]))
      BY <1>3
    <2>. QED BY <2>1, <2>2
  <1>4. Nat \subseteq S
    BY <1>2, <1>3, Inductive
  <1>5. b \in [0 .. n -> Nat]
    <2>1. b = [i \in 0 .. n |-> b[i]]
      BY DEF IsTotal
    <2>2. \A i \in 0 .. n : b[i] \in Nat
      BY <1>4
    <2>. QED BY <2>1, <2>2
  <1>. QED BY <1>4, <1>5 DEF Grows

\* base adds the lengths one after the other.
HostLens == [i \in 1 .. Run!N |-> Run!HostLen(i)]
LEMMA BaseIs ==
  ASSUME Run!N \in Nat, \A i \in 1 .. Run!N : Run!HostLen(i) \in Nat
  PROVE  /\ Run!base \in [0 .. Run!N -> Nat] /\ Grows(Run!base, Run!N)
         /\ \A i \in 1 .. Run!N : Run!base[i] = Run!base[i - 1] + Run!HostLen(i)
  <1>1. PICK n \in Nat : n = Run!N
    OBVIOUS
  <1>8. PICK h \in [1 .. n -> Nat] : h = HostLens
    BY <1>1 DEF HostLens
  <1>2. PICK b \in [0 .. n -> Nat] : IsTotal(b, h, n)
    BY TotalsExist
  <1> DEFINE Totals(c) == c = [i \in 0 .. Run!N |-> IF i = 0 THEN 0 ELSE c[i - 1] + Run!HostLen(i)]
  <1>9. \A i \in 0 .. n : i # 0 => h[i] = Run!HostLen(i)
    BY <1>1, <1>8 DEF HostLens
  <1>3. ASSUME NEW c PROVE Totals(c) <=> IsTotal(c, h, n)
    <2>1. [i \in 0 .. Run!N |-> IF i = 0 THEN 0 ELSE c[i - 1] + Run!HostLen(i)]
            = [i \in 0 .. n |-> IF i = 0 THEN 0 ELSE c[i - 1] + h[i]]
      BY <1>1, <1>9
    <2>. QED BY <2>1 DEF IsTotal
  <1>4. Run!base = CHOOSE c : Totals(c)
    BY DEF Run!base
  <1> HIDE DEF Totals
  <1>5. Totals(Run!base)
    BY <1>2, <1>3, <1>4
  <1>6. IsTotal(Run!base, h, n)
    BY <1>3, <1>5
  <1>7. \A i \in 1 .. n : Run!base[i] = Run!base[i - 1] + h[i] /\ h[i] = Run!HostLen(i)
    BY <1>6, <1>9 DEF IsTotal
  <1>. QED BY <1>1, <1>6, <1>7, TotalsGrow

-----------------------------------------------------------------------------
(* One session for many batches.                                           *)

\* The larger of two numbers.
LEMMA Larger ==
  ASSUME NEW a \in Nat, NEW b \in Nat
  PROVE  Run!Max({a, b}) \in Nat /\ a <= Run!Max({a, b}) /\ b <= Run!Max({a, b})
  <1>1. \E x \in {a, b} : \A y \in {a, b} : x >= y
    OBVIOUS
  <1>. QED BY <1>1 DEF Run!Max

\* The host knows how long the rows are and how much the staging buffer holds.
Measured == /\ Run!N \in Nat /\ Len(staging) \in Nat
            /\ \A i \in 1 .. Run!N : Run!HostLen(i) \in Nat

\* Row i lies where the totals say, and no other row there.
LEMMA PackedRow ==
  ASSUME Measured, NEW i \in 1 .. Run!N, NEW j \in 1 .. Run!HostLen(i)
  PROVE  Run!base[i - 1] + j \in DOMAIN Run!Packed /\ Run!Packed[Run!base[i - 1] + j] = sa[i][j]
  <1>0. PICK n \in Nat : n = Run!N
    BY DEF Measured
  <1>1. PICK b, h : n = Run!N /\ b = Run!base /\ h = HostLens
    BY <1>0
  <1>2. b \in [0 .. n -> Nat] /\ Grows(b, n) /\ \A q \in 1 .. n : b[q] = b[q - 1] + h[q]
    BY <1>1, BaseIs DEF Measured, HostLens
  <1>3. i \in 1 .. n /\ h[i] = Run!HostLen(i) /\ h[i] \in Nat
    BY <1>1 DEF Measured, HostLens
  <1>4. PICK k \in Nat : k = b[i - 1] + j
    BY <1>2, <1>3
  <1>5. b[i - 1] < k /\ k <= b[i] /\ b[i] <= b[n] /\ k >= 1
    BY <1>2, <1>3, <1>4 DEF Grows
  <1>6. ASSUME NEW q \in 1 .. n, b[q - 1] < k, k <= b[q] PROVE q = i
    <2>1. ASSUME q < i PROVE FALSE
      BY <1>2, <1>3, <1>5, <1>6, <2>1 DEF Grows
    <2>2. ASSUME i < q PROVE FALSE
      BY <1>2, <1>3, <1>5, <1>6, <2>2 DEF Grows
    <2>. QED BY <1>3, <2>1, <2>2
  <1>7. (CHOOSE q \in 1 .. n : b[q - 1] < k /\ k <= b[q]) = i
    BY <1>3, <1>5, <1>6
  <1>8. k \in 1 .. Run!Max({b[n], Len(staging)})
    BY <1>2, <1>5, Larger DEF Measured
  <1>9. Run!Packed = [m \in 1 .. Run!Max({b[n], Len(staging)}) |->
           IF m > b[n] THEN staging[m]
           ELSE sa[CHOOSE q \in 1 .. n : b[q - 1] < m /\ m <= b[q]]
                  [m - b[(CHOOSE q \in 1 .. n : b[q - 1] < m /\ m <= b[q]) - 1]]]
    BY <1>1 DEF Run!Packed
  <1>10. ~(k > b[n]) /\ k - b[i - 1] = j
    BY <1>2, <1>3, <1>4, <1>5
  <1>11. Run!Packed[k] = sa[i][j] /\ k \in DOMAIN Run!Packed
    BY <1>7, <1>8, <1>9, <1>10
  <1>. QED BY <1>1, <1>4, <1>11

\* The view of row i holds row i.
LEMMA DecodedRow ==
  ASSUME Measured, NEW i \in 1 .. Run!N
  PROVE  Run!Decoded(Run!Packed)[i] = [j \in 1 .. Run!HostLen(i) |-> sa[i][j]]
  <1>0. PICK n \in Nat, a \in Nat : n = Run!HostLen(i) /\ a = Run!base[i - 1]
    <2>1. Run!HostLen(i) \in Nat /\ Run!N \in Nat /\ i - 1 \in 0 .. Run!N
      BY DEF Measured
    <2>2. Run!base \in [0 .. Run!N -> Nat]
      BY BaseIs DEF Measured
    <2>3. Run!base[i - 1] \in Nat
      BY <2>1, <2>2
    <2>. QED BY <2>1, <2>3
  <1>1. PICK raw : n = Run!HostLen(i) /\ a = Run!base[i - 1] /\ raw = Run!Packed
    BY <1>0
  <1>2. Run!base[i] = a + n
    BY <1>1, BaseIs DEF Measured
  <1>3. Run!Decoded(raw)[i] = SubSeq(raw, a + 1, a + n)
    BY <1>1, <1>2 DEF Run!Decoded
  <1>4. \A j \in 1 .. n : raw[a + j] = sa[i][j]
    BY <1>1, PackedRow
  <1> DEFINE S == {sa[i][j] : j \in 1 .. n}
  <1>5. \A k \in a + 1 .. a + n : raw[k] \in S
    <2> SUFFICES ASSUME NEW k \in a + 1 .. a + n PROVE raw[k] \in S
      OBVIOUS
    <2>1. k - a \in 1 .. n /\ a + (k - a) = k
      OBVIOUS
    <2>. QED BY <1>4, <2>1
  <1> DEFINE view == SubSeq(raw, a + 1, a + n)
  <1>6. view \in Seq(S) /\ Len(view) = n /\ \A j \in 1 .. n : view[j] = raw[a + j]
    <2> HIDE DEF S
    <2>1. /\ view \in Seq(S) /\ Len(view) = IF a + 1 <= a + n THEN (a + n) - (a + 1) + 1 ELSE 0
          /\ \A j \in 1 .. (a + n) - (a + 1) + 1 : view[j] = raw[(a + 1) + j - 1]
      BY <1>5, SubSeqProperties
    <2> HIDE DEF view
    <2>. QED BY <2>1
  <1>7. DOMAIN view = 1 .. n /\ view = [j \in 1 .. n |-> view[j]]
    <2> HIDE DEF S, view
    <2>. QED BY <1>6, LenProperties
  <1> HIDE DEF S, view
  <1>8. view = [j \in 1 .. n |-> sa[i][j]]
    BY <1>4, <1>6, <1>7
  <1>. QED BY <1>1, <1>3, <1>8 DEF view

\* Some text of the batch has a run the native sort cannot break.
Unbreakable == \E i \in 1 .. Run!N : Run!Overflows(batch[i], Len(batch[i]))

RunTypeOK ==
  /\ session \in {"plain", "fused", "native"}
  /\ call \in {"run", "corpus"} /\ (session # "native" => call = "run")
  /\ flag \in {0, 1} /\ count \in Nat
  /\ batch \in Seq(Texts) /\ Run!N <= Slab
  /\ text \in [Run!Rows -> [1 .. Stride -> Nat]]
  /\ lens \in [Run!Rows -> Nat]
  /\ lensStaging \in [1 .. Slab + 1 -> Nat]
  /\ Len(staging) \in Nat

\* Before the submission the rows of the batch begin with its texts, the kernels
\* work on all of them, and the native ones find no length of an earlier batch.
Loaded(i) == lens[i] = Len(batch[i]) /\ \A j \in 1 .. Len(batch[i]) : text[i][j] = batch[i][j]
Uploaded ==
  pc = "uploaded" =>
    /\ \A i \in Run!Rows : i <= Run!N => Loaded(i) /\ Run!Sorted(i)
    /\ session = "native" => \A i \in Run!Rows : i <= Run!N \/ lens[i] = 0

\* After it they hold the suffix arrays, the host knows how long they are, and
\* the slot it reads the flag from holds this call's.
OwnArray(t) == Run!SuffixArray(t, Len(t))
Computed ==
  pc = "computed" =>
    /\ \A i \in 1 .. Run!N : /\ Run!HostLen(i) = Len(batch[i])
                             /\ \A j \in 1 .. Len(batch[i]) : sa[i][j] = OwnArray(batch[i])[j]
    /\ session = "native" => (lensStaging[Run!FlagSlot] # 0 <=> Unbreakable)

RunInv ==
  /\ RunTypeOK /\ Uploaded /\ Computed
  /\ Run!RowsAreOwn
  /\ pc = "idle" /\ batch # <<>> /\ session = "native" => (result.err <=> Unbreakable)

\* An overflow depends on the letters of the text, not on what a row holds
\* beyond them.
LEMMA OverflowOfPrefix ==
  ASSUME NEW n \in Nat, NEW t, NEW row,
         \A j \in 1 .. n : t[j] \in Nat /\ row[j] = t[j]
  PROVE  Run!Overflows(row, n) <=> Run!Overflows(t, n)
  <1>1. SubSeq(row, 1, n) = SubSeq(t, 1, n)
    <2>1. /\ SubSeq(row, 1, n) \in Seq(Nat) /\ SubSeq(t, 1, n) \in Seq(Nat)
          /\ Len(SubSeq(row, 1, n)) = n /\ Len(SubSeq(t, 1, n)) = n
          /\ \A i \in 1 .. n : SubSeq(row, 1, n)[i] = row[i] /\ SubSeq(t, 1, n)[i] = t[i]
      BY SubSeqProperties
    <2>. QED BY <2>1
  <1>2. ASSUME NEW c PROVE {i \in 1 .. n : row[i] = c} = {i \in 1 .. n : t[i] = c}
    OBVIOUS
  <1>. QED BY <1>1, <1>2 DEF Run!Overflows, Run!Quantify

\* An empty text has no run.
LEMMA NoOverflow == ASSUME NEW row PROVE ~Run!Overflows(row, 0)
  <1>1. SubSeq(row, 1, 0) = <<>>
    BY SubSeqEmpty
  <1>. QED BY <1>1 DEF Run!Overflows, Run!Range


\* A suffix array, too.
LEMMA ArrayOfPrefix ==
  ASSUME NEW n \in Nat, NEW t, NEW row, \A j \in 1 .. n : row[j] = t[j]
  PROVE  Run!SuffixArray(row, n) = Run!SuffixArray(t, n)
  <1>1. Run!Letters(row, n) = Run!Letters(t, n)
    BY DEF Run!Letters
  <1>. QED BY <1>1 DEF Run!SuffixArray, Run!Smaller

\* What the slab's rows overflow is what the batch's texts do.
LEMMA SlabOverflows ==
  ASSUME Run!OneShotAssumption, RunInv, session = "native", pc = "uploaded"
  PROVE  (\E i \in Run!Rows : Run!Overflows(text[i], lens[i])) <=> Unbreakable
  <1>1. RunTypeOK /\ Slab \in Nat
    BY DEF RunInv, Run!OneShotAssumption
  <1>2. /\ Run!N \in Nat /\ Run!N <= Slab /\ Run!Rows = 1 .. Slab
        /\ \A i \in 1 .. Run!N : i \in Run!Rows /\ batch[i] \in Seq(Nat)
    BY <1>1, SMTT(30) DEF RunTypeOK, Run!N, Run!Rows, Run!OneShotAssumption
  <1>3. ASSUME NEW i \in 1 .. Run!N
        PROVE  Run!Overflows(text[i], lens[i]) <=> Run!Overflows(batch[i], Len(batch[i]))
    <2>1. lens[i] = Len(batch[i]) /\ \A j \in 1 .. Len(batch[i]) : text[i][j] = batch[i][j]
      BY <1>2 DEF RunInv, Uploaded, Loaded
    <2>2. Len(batch[i]) \in Nat /\ \A j \in 1 .. Len(batch[i]) : batch[i][j] \in Nat
      BY <1>2
    <2>3. Run!Overflows(text[i], Len(batch[i])) <=> Run!Overflows(batch[i], Len(batch[i]))
      BY <2>1, <2>2, OverflowOfPrefix
    <2>. QED BY <2>1, <2>3
  <1>4. ASSUME NEW i \in Run!Rows, i \notin 1 .. Run!N
        PROVE  ~Run!Overflows(text[i], lens[i])
    <2>1. ~(i <= Run!N)
      BY <1>2, <1>4
    <2>2. lens[i] = 0
      BY <2>1 DEF RunInv, Uploaded
    <2>. QED BY <2>2, NoOverflow
  <1>. QED BY <1>2, <1>3, <1>4 DEF Unbreakable

LEMMA UploadRuns == ASSUME Run!OneShotAssumption, RunInv, Run!Upload PROVE RunInv'
  <1>2. RunTypeOK /\ pc' = "uploaded" /\ Slab \in Nat \ {0} /\ Stride \in Nat
        /\ UNCHANGED <<session, flag, lensStaging, staging>>
    BY DEF Run!Upload, RunInv, Run!OneShotAssumption
  <1>3. /\ batch' \in Seq(Texts) /\ Len(batch') \in Run!Rows /\ call' \in {"run", "corpus"}
        /\ session # "native" => call' = "run"
        /\ \A i \in 1 .. Len(batch') : /\ batch'[i] \in Seq(Nat) /\ Len(batch'[i]) \in Nat
                                        /\ Len(batch'[i]) <= Stride
    <2>1. PICK n \in Run!Rows : batch' \in [1 .. n -> Texts]
      BY DEF Run!Upload
    <2>2. n \in Nat
      BY <1>2 DEF Run!Rows
    <2>3. batch' \in Seq(Texts) /\ Len(batch') = n
      BY <2>1, <2>2
    <2>. QED BY <1>2, <2>1, <2>3 DEF Run!Upload, Run!OneShotAssumption
  <1>4. lens' = [i \in Run!Rows |-> IF i <= Len(batch') THEN Len(batch'[i]) 
                                    ELSE IF session = "native" THEN 0 ELSE lens[i]]
    BY DEF Run!Upload, Run!NativeLens, Run!N
  <1>5. lens' \in [Run!Rows -> Nat]
    BY <1>2, <1>3, <1>4 DEF Run!Rows, RunTypeOK
  <1> DEFINE Zeros == [j \in 1 .. Stride |-> 0]
  <1>6. text' = [i \in Run!Rows |->
           IF i <= Len(batch') THEN Run!Over(IF call' = "corpus" THEN Zeros ELSE text[i], batch'[i])
           ELSE IF call' = "corpus" THEN Zeros ELSE text[i]]
    BY DEF Run!Upload, Run!N
  <1>7. ASSUME NEW row \in [1 .. Stride -> Nat], NEW t \in Seq(Nat), Len(t) <= Stride
        PROVE  /\ Run!Over(row, t) \in [1 .. Stride -> Nat]
               /\ \A j \in 1 .. Len(t) : Run!Over(row, t)[j] = t[j]
    <2>1. Len(t) \in Nat /\ \A j \in 1 .. Len(t) : t[j] \in Nat
      BY <1>7
    <2>. QED BY <1>2, <1>7, <2>1 DEF Run!Over
  <1>8. \A i \in Run!Rows : text[i] \in [1 .. Stride -> Nat] /\ Zeros \in [1 .. Stride -> Nat]
    BY <1>2 DEF RunTypeOK
  <1> HIDE DEF Zeros
  <1>9. ASSUME NEW i \in Run!Rows
        PROVE  /\ text'[i] \in [1 .. Stride -> Nat]
               /\ i <= Len(batch') => \A j \in 1 .. Len(batch'[i]) : text'[i][j] = batch'[i][j]
    <2>1. PICK row \in [1 .. Stride -> Nat] : row = IF call' = "corpus" THEN Zeros ELSE text[i]
      BY <1>8
    <2>2. text'[i] = IF i <= Len(batch') THEN Run!Over(row, batch'[i]) ELSE row
      BY <1>6, <2>1
    <2>3. CASE i <= Len(batch')
      <3>1. i \in 1 .. Len(batch')
        BY <1>2, <1>3, <2>3 DEF Run!Rows
      <3>. QED BY <1>3, <1>7, <2>2, <2>3, <3>1
    <2>. QED BY <2>2, <2>3
  <1>11. text' \in [Run!Rows -> [1 .. Stride -> Nat]]
    BY <1>6, <1>9
  <1>13. count' = IF call' = "corpus" THEN count ELSE Len(batch')
    BY DEF Run!Upload, Run!N
  <1>12. RunTypeOK'
    <2>1. Run!N' <= Slab
      BY <1>2, <1>3 DEF Run!N, Run!Rows
    <2>2. flag' \in {0, 1} /\ lensStaging' \in [1 .. Slab + 1 -> Nat] /\ Len(staging)' \in Nat
          /\ session' \in {"plain", "fused", "native"}
      BY <1>2 DEF RunTypeOK
    <2>3. count' \in Nat
      BY <1>2, <1>3, <1>13 DEF RunTypeOK, Run!Rows
    <2>. QED BY <1>2, <1>3, <1>5, <1>11, <2>1, <2>2, <2>3 DEF RunTypeOK, Run!Rows
  <1>14. Uploaded'
    <2>1. ASSUME NEW i \in Run!Rows, i <= Len(batch') PROVE Loaded(i)'
      BY <1>4, <1>9, <2>1 DEF Loaded
    <2>2. ASSUME NEW i \in Run!Rows, i <= Len(batch') PROVE Run!Sorted(i)'
      BY <1>2, <1>3, <1>13, <2>2 DEF Run!Sorted
    <2>3. ASSUME NEW i \in Run!Rows, session = "native" PROVE i <= Len(batch') \/ lens'[i] = 0
      BY <1>4, <2>3
    <2>. QED BY <1>2, <2>1, <2>2, <2>3 DEF Uploaded, Run!N, Run!Rows
  <1>. QED BY <1>2, <1>12, <1>14 DEF RunInv, Computed, Run!RowsAreOwn, Run!Answered

LEMMA ComputeRuns == ASSUME Run!OneShotAssumption, RunInv, Run!Compute PROVE RunInv'
  <1>2. pc = "uploaded" /\ pc' = "computed" /\ RunTypeOK
        /\ UNCHANGED <<session, call, batch, text, lens, count, staging>> /\ Slab \in Nat \ {0} /\ Stride \in Nat
    BY DEF Run!Compute, RunInv, Run!OneShotAssumption
  <1>3. Unbreakable' <=> Unbreakable
    BY <1>2 DEF Unbreakable, Run!N, Run!Overflows, Run!Quantify, Run!Range
  <1>4. flag' \in {0, 1} /\ (session = "native" => (flag' # 0 <=> Unbreakable))
    BY <1>2, SlabOverflows DEF Run!Compute
  <1>8. /\ Run!N \in Nat /\ Run!N <= Slab /\ Run!N' = Run!N
        /\ \A i \in 1 .. Run!N : i \in Run!Rows /\ i <= Run!N /\ Len(batch[i]) \in Nat /\ Len(batch[i]) <= Stride
    <2>1. Run!N = Len(batch) /\ Run!N' = Len(batch) /\ batch \in Seq(Texts) /\ Run!N <= Slab
      BY <1>2 DEF RunTypeOK, Run!N
    <2>2. \A t \in Texts : Len(t) \in Nat /\ Len(t) <= Stride
      BY DEF Run!OneShotAssumption
    <2>3. \A i \in 1 .. Len(batch) : batch[i] \in Texts
      BY <2>1
    <2>. QED BY <1>2, <2>1, <2>2, <2>3 DEF Run!Rows
  <1>5. /\ lensStaging' \in [1 .. Slab + 1 -> Nat]
        /\ session = "native" => lensStaging'[Run!FlagSlot] = flag'
        /\ session # "plain" /\ call # "corpus" => \A i \in 1 .. Run!N : lensStaging'[i] = lens[i]
    <2>1. CASE session = "plain"
      BY <1>2, <2>1 DEF Run!Compute, RunTypeOK
    <2>2. CASE session # "plain" /\ call = "corpus"
      <3>1. lensStaging' = [lensStaging EXCEPT ![1] = flag']
        BY <1>2, <2>2 DEF Run!Compute
      <3>. QED BY <1>2, <1>4, <2>2, <3>1 DEF Run!FlagSlot, RunTypeOK
    <2>3. CASE session # "plain" /\ call # "corpus"
      <3>1. lensStaging' = [i \in 1 .. Slab + 1 |->
               IF i <= Run!N THEN lens[i]
               ELSE IF session = "native" /\ i = Slab + 1 THEN flag' ELSE lensStaging[i]]
        BY <1>2, <2>3 DEF Run!Compute
      <3>2. Run!FlagSlot = Slab + 1
        BY <1>2, <2>3 DEF RunTypeOK, Run!FlagSlot
      <3>. QED BY <1>2, <1>4, <1>8, <3>1, <3>2 DEF RunTypeOK, Run!Rows
    <2>. QED BY <2>1, <2>2, <2>3
  <1>6. Run!FlagSlot' = Run!FlagSlot
    BY <1>2 DEF Run!FlagSlot
  <1>7. RunTypeOK'
    BY <1>2, <1>4, <1>5, <1>8 DEF RunTypeOK, Run!Rows
  <1>9. ASSUME NEW i \in 1 .. Run!N
        PROVE  Run!HostLen(i)' = Len(batch[i]) /\ \A j \in 1 .. Len(batch[i]) : sa'[i][j] = OwnArray(batch[i])[j]
    <2>1. Loaded(i) /\ Run!Sorted(i)
      BY <1>2, <1>8 DEF RunInv, Uploaded
    <2>2. Run!HostLen(i)' = Len(batch[i])
      BY <1>2, <1>5, <2>1 DEF Run!HostLen, Loaded
    <2>3. sa'[i] = [j \in 1 .. Stride |-> IF j <= lens[i] THEN Run!SuffixArray(text[i], lens[i])[j] ELSE sa[i][j]]
      BY <1>8, <2>1 DEF Run!Compute
    <2>4. Run!SuffixArray(text[i], lens[i]) = OwnArray(batch[i])
      <3>0. PICK n \in Nat : n = Len(batch[i])
        BY <1>8
      <3>1. PICK t, row : n = Len(batch[i]) /\ t = batch[i] /\ row = text[i]
        BY <3>0
      <3>2. lens[i] = n /\ \A j \in 1 .. n : row[j] = t[j]
        BY <2>1, <3>1 DEF Loaded
      <3>3. Run!SuffixArray(row, n) = Run!SuffixArray(t, n)
        BY <3>2, ArrayOfPrefix
      <3>. QED BY <3>1, <3>2, <3>3 DEF OwnArray
    <2>5. lens[i] = Len(batch[i])
      BY <2>1 DEF Loaded
    <2>6. ASSUME NEW j \in 1 .. Len(batch[i]) PROVE sa'[i][j] = OwnArray(batch[i])[j]
      BY <1>2, <1>8, <2>3, <2>4, <2>5
    <2>. QED BY <2>2, <2>6
  <1>10. Computed'
    BY <1>2, <1>3, <1>4, <1>5, <1>6, <1>8, <1>9 DEF Computed
  <1>. QED BY <1>2, <1>7, <1>10 DEF RunInv, Uploaded, Run!RowsAreOwn, Run!Answered

LEMMA ReadBackRuns == ASSUME Run!OneShotAssumption, RunInv, Run!ReadBack PROVE RunInv'
  <1>1. /\ RunTypeOK /\ pc = "computed" /\ pc' = "idle"
        /\ UNCHANGED <<session, call, batch, flag, count, text, lens, lensStaging>>
        /\ (session = "native" => (result'.err <=> lensStaging[Run!FlagSlot] # 0))
    BY DEF Run!ReadBack, Run!Fails, Run!device, RunInv
  <1>2. Measured
    <2>1. Run!N = Len(batch) /\ batch \in Seq(Texts) /\ Len(staging) \in Nat
      BY <1>1 DEF RunTypeOK, Run!N
    <2>2. ASSUME NEW i \in 1 .. Run!N PROVE Run!HostLen(i) \in Nat
      <3>1. batch[i] \in Seq(Nat)
        BY <2>1, <2>2 DEF Run!OneShotAssumption
      <3>2. Len(batch[i]) \in Nat
        BY <3>1
      <3>. QED BY <1>1, <2>2, <3>2 DEF RunInv, Computed
    <2>. QED BY <2>1, <2>2 DEF Measured
  <1>3. ASSUME ~result'.err
        PROVE  staging' = Run!Packed /\ \A i \in 1 .. Run!N : result'.sas[i] = OwnArray(batch[i])
    <2>1. staging' = Run!Packed /\ result'.sas = Run!Decoded(Run!Packed)
      BY <1>3 DEF Run!ReadBack, Run!Fails
    <2>2. ASSUME NEW i \in 1 .. Run!N PROVE result'.sas[i] = OwnArray(batch[i])
      <3>1. result'.sas[i] = [j \in 1 .. Run!HostLen(i) |-> sa[i][j]]
        BY <1>2, <2>1, DecodedRow
      <3>2. Run!HostLen(i) = Len(batch[i]) /\ \A j \in 1 .. Len(batch[i]) : sa[i][j] = OwnArray(batch[i])[j]
        BY <1>1 DEF RunInv, Computed
      <3>3. OwnArray(batch[i]) = [j \in 1 .. Len(batch[i]) |-> OwnArray(batch[i])[j]]
        BY DEF OwnArray, Run!SuffixArray
      <3>. QED BY <3>1, <3>2, <3>3
    <2>. QED BY <2>1, <2>2
  <1>4. Len(staging') \in Nat
    <2>1. CASE staging' = staging
      BY <1>1, <2>1 DEF RunTypeOK
    <2>2. CASE staging' = Run!Packed
      <3>1. PICK m \in Nat : m = Run!Max({Run!base[Run!N], Len(staging)})
        <4>1. Run!base[Run!N] \in Nat /\ Len(staging) \in Nat
          BY <1>2, BaseIs DEF Measured
        <4>. QED BY <4>1, Larger
      <3>2. PICK f : f = Run!Packed
        OBVIOUS
      <3>3. f = [k \in 1 .. m |-> f[k]]
        BY <3>1, <3>2 DEF Run!Packed
      <3>4. f \in Seq({f[k] : k \in 1 .. m})
        BY <3>3, SeqDef
      <3>. QED BY <2>2, <3>2, <3>4, LenProperties
    <2>. QED BY <2>1, <2>2 DEF Run!ReadBack
  <1>5. RunTypeOK'
    BY <1>1, <1>4 DEF RunTypeOK, Run!N, Run!Rows
  <1>6. Unbreakable' <=> Unbreakable
    BY <1>1 DEF Unbreakable, Run!N, Run!Overflows, Run!Quantify, Run!Range
  <1>7. session = "native" => (lensStaging[Run!FlagSlot] # 0 <=> Unbreakable)
    BY <1>1 DEF RunInv, Computed
  <1>8. Run!RowsAreOwn'
    <2>1. Run!N' = Run!N
      BY <1>1 DEF Run!N
    <2>. QED BY <1>1, <1>3, <2>1 DEF Run!RowsAreOwn, Run!Answered, OwnArray
  <1>. QED BY <1>1, <1>5, <1>6, <1>7, <1>8 DEF RunInv, Uploaded, Computed

LEMMA RestRuns ==
  ASSUME Run!OneShotAssumption, RunInv, Run!Fault \/ UNCHANGED Run!vars
  PROVE  RunInv'
  <1>1. RunTypeOK /\ UNCHANGED <<session, call, flag, count, text, lens, lensStaging, sa, staging>>
    BY DEF Run!Fault, Run!vars, Run!device, RunInv
  <1>2. CASE Run!Fault
    <2>1. pc' = "idle" /\ batch' = <<>>
      BY <1>2 DEF Run!Fault, Run!Fails
    <2>2. RunTypeOK'
      BY <1>1, <2>1 DEF RunTypeOK, Run!N, Run!Rows, Run!OneShotAssumption
    <2>. QED BY <2>1, <2>2 DEF RunInv, Uploaded, Computed, Run!RowsAreOwn, Run!Answered
  <1>3. CASE UNCHANGED Run!vars
    <2>1. UNCHANGED <<batch, pc, result>>
      BY <1>3 DEF Run!vars
    <2>2. Unbreakable' <=> Unbreakable
      BY <2>1 DEF Unbreakable, Run!N, Run!Overflows, Run!Quantify, Run!Range
    <2>3. Run!N' = Run!N /\ Run!FlagSlot' = Run!FlagSlot /\ \A i : Run!HostLen(i)' = Run!HostLen(i)
      BY <1>1, <2>1 DEF Run!N, Run!FlagSlot, Run!HostLen
    <2>4. RunTypeOK'
      BY <1>1, <2>1 DEF RunTypeOK, Run!N, Run!Rows
    <2>5. Uploaded'
      BY <1>1, <2>1, <2>3 DEF RunInv, Uploaded, Loaded, Run!Sorted, Run!Rows
    <2>6. Computed'
      BY <1>1, <2>1, <2>2, <2>3 DEF RunInv, Computed
    <2>7. Run!RowsAreOwn'
      BY <2>1, <2>3 DEF RunInv, Run!RowsAreOwn, Run!Answered
    <2>. QED BY <1>1, <2>1, <2>2, <2>4, <2>5, <2>6, <2>7 DEF RunInv
  <1>. QED BY <1>2, <1>3

\* A session of any kind hashes batch after batch of any sizes, some failing half
\* way, the native one some by the corpus entry: each row of the answer is the
\* suffix array of its own text, and a call reports a run the native sort cannot
\* break when, and only when, a text of this call has one (fused.go:297-431).
THEOREM RowsAreOfTheBatch == Run!Spec => []RowsOfThisBatch
  <1>1. Run!Init => RunInv
    <2> SUFFICES ASSUME Run!Init PROVE RunInv
      OBVIOUS
    <2>1. RunTypeOK
      BY RunAssumption DEF Run!Init, RunTypeOK, Run!N, Run!Rows, Run!OneShotAssumption
    <2>. QED BY <2>1 DEF RunInv, Run!Init, Uploaded, Computed, Run!RowsAreOwn, Run!Answered
  <1>2. RunInv /\ [Run!Next]_(Run!vars) => RunInv'
    BY RunAssumption, UploadRuns, ComputeRuns, ReadBackRuns, RestRuns DEF Run!Next
  <1>3. RunInv => RowsOfThisBatch
    BY DEF RunInv, RowsOfThisBatch, Run!OverflowIsOwn, Run!Answered, Unbreakable
  <1>. QED BY <1>1, <1>2, <1>3, PTL DEF Run!Spec

=============================================================================

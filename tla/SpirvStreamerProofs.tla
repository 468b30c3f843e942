------------------------ MODULE SpirvStreamerProofs -------------------------
(***************************************************************************)
(* Proofs about module SpirvStreamer, for any number of calls and faults:  *)
(* its buffers are safe on both sides of the bus and it implements the     *)
(* one-deep pipe of Streamer.  The groups share text, lens and archive, so *)
(* the invariant follows every queued hash back to the command or the      *)
(* buffer each of its inputs comes from (Hashable).                        *)
(***************************************************************************)
EXTENDS SpirvStreamer, SequenceTheorems, TLAPS

\* The commands the streamer submits.
Cmds == [name : {"lens", "text", "sort", "sha"}, arg : 0..MaxBatches]
Args == \A i \in DOMAIN queue : queue[i].name \in {"text", "sha"} => queue[i].arg \in Buffers

\* An upload buffer mapped for the CPU is not to be copied any more.
Uploads == \A k \in Buffers : uploadMapped[k] => ~Queued(Cmd("text", k))

\* A result is waited for in a staging buffer kept for it.
Handles == \A k \in Buffers : resultPending[k] => stagingBusy[k]

\* A hash on its way to a staging buffer nobody keeps, which a failed call left
\* behind: that buffer is never submitted to, or never collected from, again.
Strays ==
  \A k \in Buffers : Queued(Cmd("sha", k)) /\ ~stagingBusy[k] =>
    IF k = cur THEN ~uploadMapped[k] /\ ~uploadPending[k] /\ pc # "group" ELSE have

\* A hash at position i of the queue, into staging buffer k, will be that of
\* batch b: the three commands before it are its group's, and those of them no
\* longer on the queue have left their results in the shared buffers.
Hashable(i, k, b) ==
  /\ IF i > 3 THEN queue[i - 3] = Cmd("lens", b) ELSE lens = b
  /\ IF i > 2 THEN queue[i - 2] = Cmd("text", k) /\ upload[k] = b ELSE text = b
  /\ IF i > 1 THEN queue[i - 1] = Cmd("sort", 0) ELSE archive = b

\* Staging buffer k holds batch b, or will.
Whole(k, b) ==
  /\ \A i \in DOMAIN queue : queue[i] = Cmd("sha", k) => Hashable(i, k, b)
  /\ ~Queued(Cmd("sha", k)) => staging[k].batch = b

\* The last lengths written, or to be written, are those of batch b.
LensLast(b) == IF queue = <<>> THEN lens = b ELSE queue[Len(queue)] = Cmd("lens", b)

Calls ==
  /\ pc = "collect" => have
  /\ pc \in {"prepare", "group"} => op = "submit"
  /\ pc # "idle" /\ op = "submit" => n \in Batches /\ host[bi] = n

Written == pend[cur] = n /\ pendInputs[cur] = bi

\* Between prepare and submitGroup.
Grouping ==
  pc = "group" => /\ ~uploadMapped[cur] /\ ~uploadPending[cur]
                  /\ upload[cur] = n /\ Written /\ LensLast(n)

\* Between submitGroup and the collection of the batch before.
Submitting ==
  pc = "collect" /\ op = "submit" => resultPending[cur] /\ Written /\ Whole(cur, n)

\* The batch in flight.
Flying ==
  have /\ resultPending[Other] =>
    Whole(Other, pend[Other]) /\ pendInputs[Other] = 1 - bi /\ host[1 - bi] = pend[Other]

IInv ==
  /\ TypeOK /\ Args /\ Uploads /\ Handles /\ Strays
  /\ Calls /\ Grouping /\ Submitting /\ Flying

-----------------------------------------------------------------------------
(* The queue                                                               *)

\* The two buffers are the one written next and the other.
LEMMA TwoBuffers ==
  ASSUME cur \in Buffers
  PROVE  /\ Other \in Buffers /\ Other # cur /\ 1 - Other = cur
         /\ \A k \in Buffers : k = cur \/ k = Other
BY DEF Buffers, Other

\* Commands differ in name or argument.
LEMMA CmdsDiffer ==
  \A a, b : /\ Cmd("sha", a) # Cmd("text", b) /\ Cmd("sha", a) # Cmd("sort", b)
            /\ Cmd("sha", a) # Cmd("lens", b) /\ Cmd("text", a) # Cmd("lens", b)
            /\ Cmd("text", a) # Cmd("sort", b)
            /\ Cmd("sha", a) = Cmd("sha", b) => a = b
            /\ Cmd("text", a) = Cmd("text", b) => a = b
BY DEF Cmd

\* A group is the copy of its text, the sorts and the final hash.
LEMMA GroupIs ==
  ASSUME NEW j \in 0..3
  PROVE  LET g == SubSeq(GroupCmds, 1, j)
         IN /\ Len(g) = j /\ DOMAIN g = 1 .. j
            /\ j >= 1 => g[1] = Cmd("text", cur)
            /\ j >= 2 => g[2] = Cmd("sort", 0)
            /\ j >= 3 => g[3] = Cmd("sha", cur)
<1>1. ASSUME NEW a, NEW b, NEW c
      PROVE  LET g == SubSeq(<<a, b, c>>, 1, j)
             IN /\ Len(g) = j /\ DOMAIN g = 1 .. j
                /\ j >= 1 => g[1] = a
                /\ j >= 2 => g[2] = b
                /\ j >= 3 => g[3] = c
  <2>1. j = 0 \/ j = 1 \/ j = 2 \/ j = 3
    OBVIOUS
  <2>2. /\ Len(<<a, b, c>>) = 3 /\ <<a, b, c>>[1] = a /\ <<a, b, c>>[2] = b /\ <<a, b, c>>[3] = c
        /\ <<a, b, c>> \in Seq({a, b, c})
    OBVIOUS
  <2>. QED BY <2>1, <2>2
<1>. QED BY <1>1 DEF GroupCmds

\* Queue p is queue q with more commands behind.
Grown(q, p) ==
  /\ Len(p) \in Nat /\ Len(q) \in 0 .. Len(p)
  /\ DOMAIN p = 1 .. Len(p) /\ DOMAIN q = 1 .. Len(q)
  /\ \A i \in 1 .. Len(q) : p[i] = q[i]

\* Submitting j commands of a group.
LEMMA AddGroup ==
  ASSUME NEW q \in Seq(Cmds), cur \in Buffers, MaxBatches \in Nat \ {0}, NEW j \in 0..3
  PROVE  LET p == q \o SubSeq(GroupCmds, 1, j)
         IN /\ p \in Seq(Cmds) /\ Grown(q, p) /\ Len(p) = Len(q) + j
            /\ j >= 1 => p[Len(q) + 1] = Cmd("text", cur)
            /\ j >= 2 => p[Len(q) + 2] = Cmd("sort", 0)
            /\ j >= 3 => p[Len(q) + 3] = Cmd("sha", cur)
<1>. DEFINE g == SubSeq(GroupCmds, 1, j)
<1>1. /\ Len(g) = j /\ DOMAIN g = 1 .. j
      /\ j >= 1 => g[1] = Cmd("text", cur)
      /\ j >= 2 => g[2] = Cmd("sort", 0)
      /\ j >= 3 => g[3] = Cmd("sha", cur)
  BY GroupIs
<1>2. Cmd("text", cur) \in Cmds /\ Cmd("sort", 0) \in Cmds /\ Cmd("sha", cur) \in Cmds
  BY DEF Cmd, Cmds, Buffers
<1>3. g \in Seq(Cmds)
  BY <1>2 DEF GroupCmds
<1>. HIDE DEF g
<1>4. /\ q \o g \in Seq(Cmds) /\ Len(q) \in Nat /\ Len(q \o g) = Len(q) + j
      /\ DOMAIN (q \o g) = 1 .. Len(q) + j /\ DOMAIN q = 1 .. Len(q)
      /\ \A i \in 1 .. Len(q) : (q \o g)[i] = q[i]
      /\ \A i \in 1 .. j : (q \o g)[Len(q) + i] = g[i]
  <2>1. \A i \in 1 .. Len(q) + Len(g) :
          (q \o g)[i] = IF i <= Len(q) THEN q[i] ELSE g[i - Len(q)]
    BY <1>3
  <2>2. \A i \in 1 .. j : (q \o g)[Len(q) + i] = g[i]
    <3>. SUFFICES ASSUME NEW i \in 1 .. j PROVE (q \o g)[Len(q) + i] = g[i]
      OBVIOUS
    <3>1. /\ Len(q) \in Nat /\ Len(q) + i \in 1 .. Len(q) + Len(g)
          /\ ~(Len(q) + i <= Len(q)) /\ (Len(q) + i) - Len(q) = i
      BY <1>1
    <3>. QED BY <2>1, <3>1
  <2>. QED BY <1>1, <1>3, <2>2
<1>5. Grown(q, q \o g)
  BY <1>4 DEF Grown
<1>. QED BY <1>1, <1>4, <1>5 DEF g

\* Submitting the lengths.
LEMMA AddLens ==
  ASSUME NEW q \in Seq(Cmds), NEW b \in 0..MaxBatches
  PROVE  LET p == Append(q, Cmd("lens", b))
         IN /\ p \in Seq(Cmds) /\ Grown(q, p) /\ Len(p) = Len(q) + 1 /\ p # <<>>
            /\ p[Len(q) + 1] = Cmd("lens", b)
<1>. DEFINE c == Cmd("lens", b)
<1>1. c \in Cmds
  BY DEF Cmd, Cmds
<1>. HIDE DEF c
<1>2. /\ Append(q, c) \in Seq(Cmds) /\ Len(q) \in Nat /\ Len(Append(q, c)) = Len(q) + 1
      /\ DOMAIN Append(q, c) = 1 .. Len(q) + 1 /\ DOMAIN q = 1 .. Len(q)
      /\ Append(q, c)[Len(q) + 1] = c
      /\ \A i \in 1 .. Len(q) : Append(q, c)[i] = q[i]
  BY <1>1
<1>3. Append(q, c) # <<>>
  BY <1>2
<1>4. Grown(q, Append(q, c))
  BY <1>2 DEF Grown
<1>. QED BY <1>2, <1>3, <1>4 DEF c

\* Executing the head shifts the others by one.
LEMMA TailShift ==
  ASSUME NEW q \in Seq(Cmds), q # <<>>
  PROVE  /\ Len(q) \in Nat \ {0} /\ DOMAIN q = 1 .. Len(q) /\ Head(q) = q[1] /\ q[1] \in Cmds
         /\ Tail(q) \in Seq(Cmds) /\ DOMAIN Tail(q) = 1 .. Len(q) - 1 /\ Len(Tail(q)) = Len(q) - 1
         /\ \A i \in 1 .. Len(q) - 1 : Tail(q)[i] = q[i + 1]
OBVIOUS

-----------------------------------------------------------------------------
(* What a staging buffer will hold                                         *)

\* Calls that leave the device alone.
LEMMA Still ==
  ASSUME UNCHANGED <<queue, staging, text, lens, archive>>
  PROVE  /\ \A c : Queued(c)' <=> Queued(c)
         /\ \A b : LensLast(b)' <=> LensLast(b)
         /\ \A k \in Buffers : \A b : upload'[k] = upload[k] => (Whole(k, b)' <=> Whole(k, b))
<1>1. \A c : Queued(c)' <=> Queued(c)
  BY DEF Queued
<1>. QED BY <1>1 DEF LensLast, Whole, Hashable

\* Commands behind the others, no hash of buffer k among them.
LEMMA GrownWhole ==
  ASSUME Grown(queue, queue'), UNCHANGED <<staging, text, lens, archive>>,
         NEW k \in Buffers, upload'[k] = upload[k], NEW b, Whole(k, b),
         \A i \in DOMAIN queue' : i \in DOMAIN queue \/ queue'[i] # Cmd("sha", k)
  PROVE  Whole(k, b)'
<1>1. ASSUME NEW i \in DOMAIN queue', queue'[i] = Cmd("sha", k)
      PROVE  Hashable(i, k, b)'
  <2>1. i \in 1 .. Len(queue) /\ Len(queue) \in Nat /\ queue[i] = Cmd("sha", k)
    BY <1>1 DEF Grown
  <2>2. Hashable(i, k, b)
    BY <2>1 DEF Whole, Grown
  <2>3. /\ i > 3 => i - 3 \in 1 .. Len(queue)
        /\ i > 2 => i - 2 \in 1 .. Len(queue)
        /\ i > 1 => i - 1 \in 1 .. Len(queue)
    BY <2>1
  <2>. QED BY <2>2, <2>3 DEF Hashable, Grown
<1>2. Queued(Cmd("sha", k)) => Queued(Cmd("sha", k))'
  BY DEF Queued, Grown
<1>. QED BY <1>1, <1>2 DEF Whole

\* The device executes a command: what a staging buffer will hold stays.
LEMMA ExecuteWhole ==
  ASSUME queue \in Seq(Cmds), Args, Execute, staging \in [Buffers -> [batch : 0..MaxBatches, overflow : BOOLEAN]],
         NEW k \in Buffers, NEW b, Whole(k, b)
  PROVE  Whole(k, b)'
<1>. DEFINE h == Head(queue)
<1>1. /\ Len(queue) \in Nat \ {0} /\ DOMAIN queue = 1 .. Len(queue) /\ h = queue[1]
      /\ DOMAIN queue' = 1 .. Len(queue) - 1
      /\ \A i \in 1 .. Len(queue) - 1 : queue'[i] = queue[i + 1]
      /\ upload' = upload /\ 1 \in DOMAIN queue
  BY TailShift DEF Execute
<1>2. \/ /\ h.name = "lens" /\ lens' = h.arg /\ UNCHANGED <<staging, text, archive>>
      \/ /\ h.name = "text" /\ text' = upload[h.arg] /\ UNCHANGED <<staging, lens, archive>>
      \/ /\ h.name = "sort" /\ archive' = (IF text = lens THEN text ELSE 0)
         /\ UNCHANGED <<staging, text, lens>>
      \/ /\ h.name = "sha" /\ UNCHANGED <<text, lens, archive>>
         /\ staging' = [staging EXCEPT ![h.arg] =
              [batch |-> IF archive = lens THEN archive ELSE 0, overflow |-> overflow]]
  BY DEF Execute
<1>. HIDE DEF h
<1>3. ASSUME NEW i \in DOMAIN queue', queue'[i] = Cmd("sha", k)
      PROVE  Hashable(i, k, b)'
  <2>1. i \in 1 .. Len(queue) - 1 /\ i + 1 \in DOMAIN queue /\ queue[i + 1] = Cmd("sha", k)
    BY <1>1, <1>3
  <2>2. Hashable(i + 1, k, b)
    BY <2>1 DEF Whole
  <2>3. /\ i > 3 => i - 3 \in 1 .. Len(queue) - 1 /\ (i - 3) + 1 = (i + 1) - 3
        /\ i > 2 => i - 2 \in 1 .. Len(queue) - 1 /\ (i - 2) + 1 = (i + 1) - 2
        /\ i > 1 => i - 1 \in 1 .. Len(queue) - 1 /\ (i - 1) + 1 = (i + 1) - 1
    <3>1. i \in Nat /\ Len(queue) \in Nat /\ i <= Len(queue) - 1
      BY <1>1, <2>1
    <3>2. (i - 3) + 1 = (i + 1) - 3 /\ (i - 2) + 1 = (i + 1) - 2 /\ (i - 1) + 1 = (i + 1) - 1
      BY <3>1
    <3>3. /\ i > 3 => i - 3 \in 1 .. Len(queue) - 1
          /\ i > 2 => i - 2 \in 1 .. Len(queue) - 1
          /\ i > 1 => i - 1 \in 1 .. Len(queue) - 1
      BY <3>1
    <3>. QED BY <3>2, <3>3
  <2>4. CASE i > 3
    <3>1. /\ queue[(i + 1) - 3] = Cmd("lens", b) /\ queue[(i + 1) - 2] = Cmd("text", k) /\ upload[k] = b
          /\ queue[(i + 1) - 1] = Cmd("sort", 0)
      <4>1. i \in Nat /\ i + 1 > 3 /\ i + 1 > 2 /\ i + 1 > 1
        BY <1>1, <2>1, <2>4
      <4>. QED BY <2>2, <4>1 DEF Hashable
    <3>2. queue'[i - 3] = queue[(i + 1) - 3] /\ queue'[i - 2] = queue[(i + 1) - 2] /\ queue'[i - 1] = queue[(i + 1) - 1]
      <4>1. i > 3 /\ i > 2 /\ i > 1
        BY <2>1, <2>4
      <4>2. /\ queue'[i - 3] = queue[(i - 3) + 1] /\ queue'[i - 2] = queue[(i - 2) + 1]
            /\ queue'[i - 1] = queue[(i - 1) + 1]
        BY <1>1, <2>3, <4>1
      <4>. QED BY <2>3, <4>1, <4>2
    <3>3. i > 3 /\ i > 2 /\ i > 1
      BY <2>1, <2>4
    <3>. QED BY <1>1, <3>1, <3>2, <3>3 DEF Hashable
  <2>5. CASE i = 3
    <3>1. /\ queue[1] = Cmd("lens", b) /\ queue'[1] = Cmd("text", k) /\ queue'[2] = Cmd("sort", 0)
          /\ upload[k] = b
      BY <1>1, <2>1, <2>2, <2>3, <2>5 DEF Hashable
    <3>2. lens' = b
      BY <1>1, <1>2, <3>1 DEF Cmd
    <3>. QED BY <1>1, <2>5, <3>1, <3>2 DEF Hashable
  <2>6. CASE i = 2
    <3>1. lens = b /\ queue[1] = Cmd("text", k) /\ queue'[1] = Cmd("sort", 0) /\ upload[k] = b
      BY <1>1, <2>1, <2>2, <2>3, <2>6 DEF Hashable
    <3>2. lens' = b /\ text' = b
      BY <1>1, <1>2, <3>1 DEF Cmd
    <3>. QED BY <2>6, <3>1, <3>2 DEF Hashable
  <2>7. CASE i = 1
    <3>1. lens = b /\ text = b /\ queue[1] = Cmd("sort", 0)
      BY <2>1, <2>2, <2>7 DEF Hashable
    <3>2. lens' = b /\ text' = b /\ archive' = b
      BY <1>1, <1>2, <3>1 DEF Cmd
    <3>. QED BY <2>7, <3>2 DEF Hashable
  <2>. QED BY <2>1, <2>4, <2>5, <2>6, <2>7
<1>4. ASSUME ~Queued(Cmd("sha", k))'
      PROVE  staging'[k].batch = b
  <2>1. CASE queue[1] = Cmd("sha", k)
    <3>1. lens = b /\ archive = b
      <4>1. Hashable(1, k, b)
        BY <1>1, <2>1 DEF Whole
      <4>. QED BY <4>1 DEF Hashable
    <3>2. staging' = [staging EXCEPT ![k] = [batch |-> b, overflow |-> overflow]]
      BY <1>1, <1>2, <2>1, <3>1 DEF Cmd
    <3>. QED BY <3>2
  <2>2. CASE queue[1] # Cmd("sha", k)
    <3>1. ~Queued(Cmd("sha", k))
      <4>. SUFFICES ASSUME NEW i \in DOMAIN queue, queue[i] = Cmd("sha", k) PROVE FALSE
        BY DEF Queued
      <4>1. i - 1 \in 1 .. Len(queue) - 1 /\ (i - 1) + 1 = i
        BY <1>1, <2>2
      <4>. QED BY <1>1, <1>4, <4>1 DEF Queued
    <3>2. staging[k].batch = b
      BY <3>1 DEF Whole
    <3>3. h.name = "sha" => h.arg # k
      <4>1. h \in Cmds
        BY <1>1, TailShift
      <4>. QED BY <1>1, <2>2, <4>1 DEF Cmd, Cmds
    <3>. QED BY <1>2, <3>2, <3>3
  <2>. QED BY <2>1, <2>2
<1>. QED BY <1>3, <1>4 DEF Whole

-----------------------------------------------------------------------------
(* The invariant                                                           *)

\* A call returns an error or not, and a set of batches.
LEMMA ReturnTypes ==
  \A e \in BOOLEAN, p \in SUBSET (0..MaxBatches) :
    [err |-> e, pows |-> p] \in [err : BOOLEAN, pows : SUBSET (0..MaxBatches)]
OBVIOUS

LEMMA InvFacts ==
  ASSUME IInv
  PROVE  /\ queue \in Seq(Cmds) /\ cur \in Buffers /\ Other \in Buffers /\ Other # cur
         /\ 1 - Other = cur /\ bi \in Buffers /\ 1 - bi \in Buffers /\ 1 - bi # bi
         /\ \A k \in Buffers : k = cur \/ k = Other
BY TwoBuffers DEF IInv, TypeOK, Cmds, Buffers

\* The invariant holds at the start.
LEMMA InitInv == Init => IInv
<1>. SUFFICES ASSUME Init PROVE IInv
  OBVIOUS
<1>1. TypeOK
  <2>1. out \in [err : BOOLEAN, pows : SUBSET (0..MaxBatches)]
    BY ReturnTypes DEF Init
  <2>2. queue \in Seq([name : {"lens", "text", "sort", "sha"}, arg : 0..MaxBatches])
    BY DEF Init
  <2>3. cur \in Buffers /\ bi \in Buffers /\ 0 \in 0..MaxBatches
    BY SpirvAssumption DEF Init, Buffers
  <2>4. staging \in [Buffers -> [batch : 0..MaxBatches, overflow : BOOLEAN]]
    BY <2>3 DEF Init, Empty
  <2>. QED BY <2>1, <2>2, <2>3, <2>4, SpirvAssumption DEF Init, TypeOK, Empty
<1>2. \A c : ~Queued(c)
  BY DEF Init, Queued
<1>3. Args /\ Uploads /\ Handles /\ Strays
  BY <1>2 DEF Init, Args, Uploads, Handles, Strays, Empty
<1>4. Calls /\ Grouping /\ Submitting /\ Flying
  BY DEF Init, Calls, Grouping, Submitting, Flying
<1>. QED BY <1>1, <1>3, <1>4 DEF IInv

\* The caller writes its next buffer, which no batch in flight came from; or it
\* begins to drain.
LEMMA CallInv == ASSUME IInv, CallSubmit \/ CallDrain PROVE IInv'
<1>. USE DEF mapVars, pendVars, deviceVars, callVars
<1>1. /\ UNCHANGED <<cur, have, mapVars, pendVars, upload, deviceVars, queue, bi, faults, errs>>
      /\ Other' = Other /\ pc = "idle"
  BY DEF CallSubmit, CallDrain, Other
<1>2. /\ \A c : Queued(c)' <=> Queued(c)
      /\ \A k \in Buffers : \A b : Whole(k, b)' <=> Whole(k, b)
  BY <1>1, Still
<1>3. CASE CallSubmit
  <2>1. /\ pc' = "prepare" /\ op' = "submit" /\ n' = made + 1 /\ made' = made + 1
        /\ n' \in Batches /\ UNCHANGED out /\ host' = [host EXCEPT ![bi] = n']
    BY <1>3, SpirvAssumption DEF CallSubmit, Batches, IInv, TypeOK
  <2>2. host \in [Buffers -> 0..MaxBatches] /\ host' \in [Buffers -> 0..MaxBatches]
        /\ host'[bi] = n' /\ host'[1 - bi] = host[1 - bi]
    <3>1. /\ host \in [Buffers -> 0..MaxBatches] /\ n' \in 0..MaxBatches
          /\ bi \in Buffers /\ 1 - bi \in Buffers /\ 1 - bi # bi
      BY <2>1, InvFacts, SpirvAssumption, SMTT(30) DEF IInv, TypeOK, Batches
    <3>. QED BY <2>1, <3>1
  <2>3. TypeOK'
    <3>1. n' \in 0..MaxBatches /\ made' \in 0..MaxBatches
      BY <2>1, SpirvAssumption DEF Batches
    <3>. QED BY <1>1, <2>1, <2>2, <3>1 DEF IInv, TypeOK
  <2>4. Args' /\ Uploads' /\ Handles' /\ Strays'
    BY <1>1, <1>2, <2>1 DEF IInv, Args, Uploads, Handles, Strays
  <2>5. Calls' /\ Grouping' /\ Submitting'
    BY <1>1, <2>1, <2>2 DEF Calls, Grouping, Submitting
  <2>6. Flying'
    <3>1. PICK o, b : o = Other /\ b = pend[Other]
      OBVIOUS
    <3>. QED BY <1>1, <1>2, <2>2, <3>1, InvFacts DEF IInv, Flying
  <2>. QED BY <2>3, <2>4, <2>5, <2>6 DEF IInv
<1>4. CASE CallDrain
  <2>1. /\ op' = "drain" /\ UNCHANGED <<n, made, host>>
        /\ IF have THEN pc' = "collect" /\ UNCHANGED out
           ELSE pc' = "idle" /\ out' = [err |-> FALSE, pows |-> {}]
    BY <1>1, <1>4 DEF CallDrain
  <2>2. TypeOK'
    <3>1. pc' \in {"idle", "collect"} /\ (out' = out \/ out' = [err |-> FALSE, pows |-> {}])
      BY <2>1
    <3>2. out' \in [err : BOOLEAN, pows : SUBSET (0..MaxBatches)]
      BY <3>1, ReturnTypes DEF IInv, TypeOK
    <3>. QED BY <1>1, <2>1, <3>1, <3>2 DEF IInv, TypeOK
  <2>3. Args' /\ Uploads' /\ Handles' /\ Strays'
    BY <1>1, <1>2, <2>1 DEF IInv, Args, Uploads, Handles, Strays, TypeOK
  <2>4. Calls' /\ Grouping' /\ Submitting'
    BY <1>1, <2>1 DEF Calls, Grouping, Submitting, IInv, TypeOK
  <2>5. Flying'
    <3>1. PICK o, b : o = Other /\ b = pend[Other]
      OBVIOUS
    <3>. QED BY <1>1, <1>2, <2>1, <3>1, InvFacts DEF IInv, Flying
  <2>. QED BY <2>2, <2>3, <2>4, <2>5 DEF IInv
<1>. QED BY <1>3, <1>4

\* A failed call leaves what is in flight alone.
FailFrame ==
  /\ UNCHANGED <<cur, have, pendVars, deviceVars, bi, callVars>>
  /\ upload'[Other] = upload[Other]
  /\ resultPending'[Other] => resultPending[Other]
  /\ pc' = "idle" /\ out' = [err |-> TRUE, pows |-> {}]
  /\ errs' \in Nat /\ faults' \in 0..MaxFaults

\* What is left of the invariant when a call fails without queueing anything.
LEMMA FailStill ==
  ASSUME IInv, FailFrame, UNCHANGED queue,
         uploadMapped' \in [Buffers -> BOOLEAN], uploadPending' \in [Buffers -> BOOLEAN],
         resultPending' \in [Buffers -> BOOLEAN], stagingBusy' \in [Buffers -> BOOLEAN],
         upload' \in [Buffers -> 0..MaxBatches],
         Uploads', Handles', Strays'
  PROVE  IInv'
<1>. USE DEF pendVars, deviceVars, callVars
<1>1. Other' = Other
  BY DEF FailFrame, Other
<1>2. TypeOK'
  <2>1. out' \in [err : BOOLEAN, pows : SUBSET (0..MaxBatches)]
    BY ReturnTypes DEF FailFrame
  <2>. QED BY <2>1 DEF FailFrame, IInv, TypeOK
<1>3. Args' /\ Calls' /\ Grouping' /\ Submitting'
  BY DEF FailFrame, IInv, Args, Calls, Grouping, Submitting
<1>4. Flying'
  <2>1. PICK o, b : o = Other /\ b = pend[Other]
    OBVIOUS
  <2>2. Whole(o, b)' <=> Whole(o, b)
    BY <2>1, Still, InvFacts DEF FailFrame
  <2>. QED BY <1>1, <2>1, <2>2 DEF FailFrame, IInv, Flying
<1>. QED BY <1>2, <1>3, <1>4 DEF IInv

\* An error is counted, unless it is Drain's.
LEMMA ErrsCount == ASSUME errs \in Nat, NEW e, NEW p, Returns(e, p) PROVE errs' \in Nat
BY DEF Returns

LEMMA FaultCount == ASSUME faults \in 0..MaxFaults, Fault PROVE faults' \in 0..MaxFaults
BY SpirvAssumption DEF Fault

\* Nothing to wait for: the call fails without touching anything.
LEMMA MissingInv == ASSUME IInv, PrepareMissing \/ CollectMissing PROVE IInv'
<1>. USE DEF mapVars, pendVars, deviceVars, callVars
<1>1. /\ UNCHANGED <<cur, have, mapVars, pendVars, upload, deviceVars, queue, bi, callVars, faults>>
      /\ Returns(TRUE, {})
  BY DEF PrepareMissing, CollectMissing
<1>2. errs' \in Nat
  BY <1>1, ErrsCount DEF IInv, TypeOK
<1>3. FailFrame
  BY <1>1, <1>2 DEF FailFrame, Returns, IInv, TypeOK
<1>4. Uploads' /\ Handles' /\ Strays'
  <2>1. \A c : Queued(c)' <=> Queued(c)
    BY <1>1, Still
  <2>2. pc' = "idle"
    BY <1>1 DEF Returns
  <2>. QED BY <1>1, <2>1, <2>2 DEF IInv, Uploads, Handles, Strays
<1>. QED BY <1>1, <1>3, <1>4, FailStill DEF IInv, TypeOK

\* The wait, the write or the unmapping of an upload buffer fails.
LEMMA PrepareFailInv == ASSUME IInv, PrepareFail PROVE IInv'
<1>. USE DEF mapVars, pendVars, deviceVars, callVars
<1>1. /\ UNCHANGED <<cur, have, resultPending, stagingBusy, pendVars, deviceVars, queue, bi, callVars>>
      /\ Returns(TRUE, {}) /\ Fault /\ pc = "prepare"
      /\ uploadPending' = [uploadPending EXCEPT ![cur] = FALSE]
  BY DEF PrepareFail
<1>2. \/ uploadPending[cur] /\ UNCHANGED <<uploadMapped, upload>>
      \/ /\ UploadReady /\ upload' = [upload EXCEPT ![cur] = n]
         /\ \E still \in BOOLEAN : uploadMapped' = [uploadMapped EXCEPT ![cur] = still]
  BY DEF PrepareFail, Build
<1>3. UploadReady => ~Queued(Cmd("text", cur))
  BY InvFacts DEF UploadReady, IInv, Uploads
<1>4. errs' \in Nat /\ faults' \in 0..MaxFaults
  BY <1>1, ErrsCount, FaultCount DEF IInv, TypeOK
<1>5. /\ uploadMapped' \in [Buffers -> BOOLEAN] /\ uploadPending' \in [Buffers -> BOOLEAN]
      /\ upload' \in [Buffers -> 0..MaxBatches]
      /\ uploadMapped'[Other] = uploadMapped[Other] /\ uploadPending'[Other] = uploadPending[Other]
      /\ upload'[Other] = upload[Other]
      /\ ~uploadPending'[cur]
      /\ uploadMapped'[cur] => ~Queued(Cmd("text", cur))
      /\ UploadReady \/ uploadMapped'[cur] = uploadMapped[cur]
  <2>1. /\ cur \in Buffers /\ Other \in Buffers /\ Other # cur /\ n \in 0..MaxBatches
        /\ uploadMapped \in [Buffers -> BOOLEAN] /\ uploadPending \in [Buffers -> BOOLEAN]
        /\ upload \in [Buffers -> 0..MaxBatches]
        /\ uploadMapped[cur] => ~Queued(Cmd("text", cur))
    BY InvFacts DEF IInv, TypeOK, Uploads
  <2>. QED BY <1>1, <1>2, <1>3, <2>1
<1>6. FailFrame
  BY <1>1, <1>4, <1>5 DEF FailFrame, Returns
<1>7. Uploads' /\ Handles' /\ Strays'
  <2>1. \A c : Queued(c)' <=> Queued(c)
    BY <1>1, Still
  <2>2. PICK c, o : c = cur /\ o = Other
    OBVIOUS
  <2>3. Uploads' /\ Handles'
    BY <1>1, <1>5, <2>1, InvFacts DEF IInv, Uploads, Handles
  <2>4. Queued(Cmd("sha", cur)) /\ ~stagingBusy[cur] => ~uploadMapped'[cur]
    BY <1>1, <1>2, <1>5, InvFacts DEF IInv, Strays, UploadReady
  <2>5. Strays'
    BY <1>1, <1>5, <2>1, <2>4, InvFacts DEF IInv, Strays, Returns
  <2>. QED BY <2>3, <2>5
<1>. QED BY <1>1, <1>5, <1>6, <1>7, FailStill DEF IInv, TypeOK

\* The upload buffer is the CPU's to write; the batch's lengths are queued.
LEMMA PrepareInv == ASSUME IInv, Prepare PROVE IInv'
<1>. USE DEF mapVars, pendVars, deviceVars, callVars
<1>1. /\ pc = "prepare" /\ pc' = "group" /\ op = "submit" /\ n \in Batches /\ host[bi] = n
      /\ UNCHANGED <<cur, have, resultPending, stagingBusy, deviceVars, bi, callVars, faults, errs, out>>
      /\ UploadReady /\ upload' = [upload EXCEPT ![cur] = n]
      /\ uploadMapped' = [uploadMapped EXCEPT ![cur] = FALSE]
      /\ uploadPending' = [uploadPending EXCEPT ![cur] = FALSE]
      /\ queue' = Append(queue, Cmd("lens", n))
      /\ pend' = [pend EXCEPT ![cur] = n]
      /\ pendInputs' = [pendInputs EXCEPT ![cur] = bi]
      /\ Other' = Other
  BY DEF Prepare, Build, IInv, Calls, Other
<1>2. /\ queue' \in Seq(Cmds) /\ Grown(queue, queue') /\ Len(queue') = Len(queue) + 1
      /\ queue' # <<>> /\ queue'[Len(queue) + 1] = Cmd("lens", n)
  BY <1>1, AddLens, InvFacts DEF IInv, TypeOK
<1>3. \A i \in DOMAIN queue' : i \in DOMAIN queue \/ queue'[i] = Cmd("lens", n)
  BY <1>2 DEF Grown
<1>4. \A k : /\ Queued(Cmd("sha", k))' <=> Queued(Cmd("sha", k))
             /\ Queued(Cmd("text", k))' <=> Queued(Cmd("text", k))
  BY <1>2, <1>3, CmdsDiffer DEF Queued, Grown
<1>5. /\ upload' \in [Buffers -> 0..MaxBatches]
      /\ uploadMapped' \in [Buffers -> BOOLEAN] /\ uploadPending' \in [Buffers -> BOOLEAN]
      /\ pend' \in [Buffers -> 0..MaxBatches] /\ pendInputs' \in [Buffers -> 0..2]
      /\ upload'[cur] = n /\ upload'[Other] = upload[Other]
      /\ pend'[cur] = n /\ pend'[Other] = pend[Other]
      /\ pendInputs'[cur] = bi /\ pendInputs'[Other] = pendInputs[Other]
      /\ ~uploadMapped'[cur] /\ uploadMapped'[Other] = uploadMapped[Other]
      /\ ~uploadPending'[cur] /\ uploadPending'[Other] = uploadPending[Other]
  <2>1. /\ cur \in Buffers /\ Other \in Buffers /\ Other # cur /\ n \in 0..MaxBatches /\ bi \in 0..2
        /\ uploadMapped \in [Buffers -> BOOLEAN] /\ uploadPending \in [Buffers -> BOOLEAN]
        /\ upload \in [Buffers -> 0..MaxBatches] /\ pend \in [Buffers -> 0..MaxBatches]
        /\ pendInputs \in [Buffers -> 0..2]
    BY InvFacts DEF IInv, TypeOK, Buffers
  <2>. QED BY <1>1, <2>1
<1>6. TypeOK'
  BY <1>1, <1>2, <1>5 DEF IInv, TypeOK, Cmds
<1>7. Args'
  BY <1>2, <1>3 DEF IInv, Args, Cmd, Grown
<1>8. Uploads' /\ Handles'
  BY <1>1, <1>4, <1>5, InvFacts DEF IInv, Uploads, Handles
<1>9. Strays'
  BY <1>1, <1>4, <1>5, InvFacts DEF IInv, Strays, UploadReady
<1>10. Calls' /\ Submitting'
  BY <1>1 DEF Calls, Submitting
<1>11. Grouping'
  BY <1>1, <1>2, <1>5 DEF Grouping, Written, LensLast
<1>12. Flying'
  <2>1. PICK o, b : o = Other /\ b = pend[Other]
    OBVIOUS
  <2>2. o \in Buffers /\ upload'[o] = upload[o] /\ UNCHANGED <<staging, text, lens, archive>>
    BY <1>1, <1>5, <2>1, InvFacts
  <2>3. \A i \in DOMAIN queue' : i \in DOMAIN queue \/ queue'[i] # Cmd("sha", o)
    BY <1>3, CmdsDiffer
  <2>4. Whole(o, b) => Whole(o, b)'
    BY <1>2, <2>2, <2>3, GrownWhole
  <2>. QED BY <1>1, <1>5, <2>1, <2>4, InvFacts DEF IInv, Flying
<1>. QED BY <1>6, <1>7, <1>8, <1>9, <1>10, <1>11, <1>12 DEF IInv

\* The whole group is its first three commands.
LEMMA GroupIsWhole == SubSeq(GroupCmds, 1, 3) = GroupCmds
<1>1. \A a, b, c : SubSeq(<<a, b, c>>, 1, 3) = <<a, b, c>>
  <2>. SUFFICES ASSUME NEW a, NEW b, NEW c PROVE SubSeq(<<a, b, c>>, 1, 3) = <<a, b, c>>
    OBVIOUS
  <2>1. <<a, b, c>> \in Seq({a, b, c}) /\ Len(<<a, b, c>>) = 3
    OBVIOUS
  <2>2. /\ SubSeq(<<a, b, c>>, 1, 3) \in Seq({a, b, c}) /\ Len(SubSeq(<<a, b, c>>, 1, 3)) = 3
        /\ \A i \in 1 .. 3 : SubSeq(<<a, b, c>>, 1, 3)[i] = <<a, b, c>>[i]
    BY <2>1
  <2>. QED BY <2>1, <2>2, SeqEqual
<1>. QED BY <1>1 DEF GroupCmds

\* What j commands of a group on buffer cur do to the queue.
Joins(j) ==
  /\ queue' \in Seq(Cmds) /\ Grown(queue, queue') /\ Len(queue') = Len(queue) + j
  /\ \A i \in DOMAIN queue' : \/ i \in DOMAIN queue
                              \/ queue'[i] \in {Cmd("text", cur), Cmd("sort", 0)}
                              \/ j = 3 /\ i = Len(queue) + 3 /\ queue'[i] = Cmd("sha", cur)

LEMMA GroupJoins ==
  ASSUME IInv, pc = "group", NEW j \in 0..3, queue' = queue \o SubSeq(GroupCmds, 1, j)
  PROVE  /\ Joins(j)
         /\ j = 3 => /\ queue'[Len(queue) + 1] = Cmd("text", cur)
                     /\ queue'[Len(queue) + 2] = Cmd("sort", 0)
                     /\ queue'[Len(queue) + 3] = Cmd("sha", cur)
<1>1. MaxBatches \in Nat \ {0}
  BY SpirvAssumption DEF IInv, Calls, Batches
<1>2. /\ queue' \in Seq(Cmds) /\ Grown(queue, queue') /\ Len(queue') = Len(queue) + j
      /\ j >= 1 => queue'[Len(queue) + 1] = Cmd("text", cur)
      /\ j >= 2 => queue'[Len(queue) + 2] = Cmd("sort", 0)
      /\ j >= 3 => queue'[Len(queue) + 3] = Cmd("sha", cur)
  BY <1>1, AddGroup, InvFacts
<1>3. ASSUME NEW i \in DOMAIN queue', i \notin DOMAIN queue
      PROVE  \/ j >= 1 /\ i = Len(queue) + 1
             \/ j >= 2 /\ i = Len(queue) + 2
             \/ j = 3 /\ i = Len(queue) + 3
  <2>1. /\ Len(queue) \in Nat /\ i \in 1 .. Len(queue) + j /\ i \notin 1 .. Len(queue)
        /\ j = 0 \/ j = 1 \/ j = 2 \/ j = 3
    BY <1>2, <1>3 DEF Grown
  <2>. QED BY <2>1
<1>4. \A i \in DOMAIN queue' : \/ i \in DOMAIN queue
                               \/ queue'[i] \in {Cmd("text", cur), Cmd("sort", 0)}
                               \/ j = 3 /\ i = Len(queue) + 3 /\ queue'[i] = Cmd("sha", cur)
  <2>. SUFFICES ASSUME NEW i \in DOMAIN queue', i \notin DOMAIN queue
                PROVE  \/ queue'[i] \in {Cmd("text", cur), Cmd("sort", 0)}
                       \/ j = 3 /\ i = Len(queue) + 3 /\ queue'[i] = Cmd("sha", cur)
    OBVIOUS
  <2>1. CASE j >= 1 /\ i = Len(queue) + 1
    BY <1>2, <2>1
  <2>2. CASE j >= 2 /\ i = Len(queue) + 2
    BY <1>2, <2>2
  <2>3. CASE j = 3 /\ i = Len(queue) + 3
    BY <1>2, <2>3
  <2>. QED BY <1>3, <2>1, <2>2, <2>3
<1>. QED BY <1>2, <1>4 DEF Joins

\* Neither buffer's old commands change, and the other buffer gets no new ones.
LEMMA JoinsQueued ==
  ASSUME IInv, NEW j \in 0..3, Joins(j), NEW o, o = Other
  PROVE  /\ Queued(Cmd("text", o))' <=> Queued(Cmd("text", o))
         /\ Queued(Cmd("sha", o))' <=> Queued(Cmd("sha", o))
         /\ Args'
<1>1. /\ o # cur /\ cur \in Buffers
      /\ \A i \in DOMAIN queue : i \in DOMAIN queue' /\ queue'[i] = queue[i]
  BY InvFacts DEF Joins, Grown
<1>2. \A i \in DOMAIN queue' : \/ i \in DOMAIN queue
                               \/ queue'[i] \in {Cmd("text", cur), Cmd("sort", 0), Cmd("sha", cur)}
  BY DEF Joins
<1>3. \A x \in {Cmd("text", cur), Cmd("sort", 0), Cmd("sha", cur)} :
        /\ x # Cmd("text", o) /\ x # Cmd("sha", o)
        /\ x.name \in {"text", "sha"} => x.arg \in Buffers
  BY <1>1 DEF Cmd
<1>4. Args'
  BY <1>1, <1>2, <1>3 DEF IInv, Args
<1>. QED BY <1>1, <1>2, <1>3, <1>4 DEF Queued

\* What is in flight is not disturbed.
LEMMA JoinsWhole ==
  ASSUME IInv, NEW j \in 0..3, Joins(j), UNCHANGED <<staging, text, lens, archive>>,
         NEW o, o = Other, upload'[o] = upload[o], NEW b, Whole(o, b)
  PROVE  Whole(o, b)'
<1>1. o \in Buffers /\ o # cur
  BY InvFacts
<1>2. \A i \in DOMAIN queue' : i \in DOMAIN queue \/ queue'[i] # Cmd("sha", o)
  BY <1>1, CmdsDiffer DEF Joins
<1>. QED BY <1>1, <1>2, GrownWhole DEF Joins

\* Part of a group is refused or fails: what reached the queue has no other
\* effect than to stay there.
LEMMA GroupFailInv == ASSUME IInv, GroupRefused \/ GroupFail PROVE IInv'
<1>. USE DEF mapVars, pendVars, deviceVars, callVars
<1>1. /\ UNCHANGED <<cur, have, uploadMapped, uploadPending, pendVars, upload, deviceVars, bi, callVars>>
      /\ Returns(TRUE, {}) /\ pc = "group" /\ (faults' = faults \/ Fault)
      /\ \E j \in 0..3 : queue' = queue \o SubSeq(GroupCmds, 1, j)
      /\ \/ UNCHANGED <<resultPending, stagingBusy>>
         \/ /\ resultPending' = [resultPending EXCEPT ![cur] = TRUE]
            /\ stagingBusy' = [stagingBusy EXCEPT ![cur] = TRUE]
  <2>1. CASE GroupRefused
    <3>1. 2 \in 0..3 /\ queue' = queue \o SubSeq(GroupCmds, 1, 2)
      BY <2>1 DEF GroupRefused
    <3>2. \E j \in 0..3 : queue' = queue \o SubSeq(GroupCmds, 1, j)
      BY <3>1
    <3>3. UNCHANGED <<resultPending, stagingBusy, faults>>
      BY <2>1 DEF GroupRefused
    <3>. QED BY <2>1, <3>2, <3>3 DEF GroupRefused
  <2>2. CASE GroupFail
    <3>1. queue' = queue \o GroupCmds => 3 \in 0..3 /\ queue' = queue \o SubSeq(GroupCmds, 1, 3)
      <4>1. 3 \in 0..3
        OBVIOUS
      <4>. QED BY <4>1, GroupIsWhole, Zenon
    <3>2. \E j \in 0..3 : queue' = queue \o SubSeq(GroupCmds, 1, j)
      BY <2>2, <3>1 DEF GroupFail
    <3>3. \/ UNCHANGED <<resultPending, stagingBusy>>
          \/ /\ resultPending' = [resultPending EXCEPT ![cur] = TRUE]
             /\ stagingBusy' = [stagingBusy EXCEPT ![cur] = TRUE]
      BY <2>2 DEF GroupFail
    <3>. QED BY <2>2, <3>2, <3>3 DEF GroupFail
  <2>. QED BY <2>1, <2>2
<1>2. PICK j \in 0..3 : queue' = queue \o SubSeq(GroupCmds, 1, j)
  BY <1>1
<1>3. Joins(j)
  BY <1>1, <1>2, GroupJoins
<1>4. /\ resultPending' \in [Buffers -> BOOLEAN] /\ stagingBusy' \in [Buffers -> BOOLEAN]
      /\ resultPending'[Other] = resultPending[Other] /\ stagingBusy'[Other] = stagingBusy[Other]
      /\ resultPending'[cur] => stagingBusy'[cur]
      /\ Other' = Other
  <2>1. /\ cur \in Buffers /\ Other \in Buffers /\ Other # cur
        /\ resultPending \in [Buffers -> BOOLEAN] /\ stagingBusy \in [Buffers -> BOOLEAN]
        /\ resultPending[cur] => stagingBusy[cur]
    BY InvFacts DEF IInv, TypeOK, Handles
  <2>2. Other' = Other
    BY <1>1 DEF Other
  <2>. QED BY <1>1, <2>1, <2>2
<1>5. errs' \in Nat /\ faults' \in 0..MaxFaults /\ pc' = "idle" /\ out' = [err |-> TRUE, pows |-> {}]
  BY <1>1, ErrsCount, FaultCount DEF IInv, TypeOK, Returns
<1>6. TypeOK'
  <2>1. out' \in [err : BOOLEAN, pows : SUBSET (0..MaxBatches)]
    BY <1>5, ReturnTypes
  <2>2. queue' \in Seq([name : {"lens", "text", "sort", "sha"}, arg : 0..MaxBatches])
    BY <1>3 DEF Joins, Cmds
  <2>. QED BY <1>1, <1>4, <1>5, <2>1, <2>2 DEF IInv, TypeOK
<1>7. /\ \A o : o = Other => /\ Queued(Cmd("text", o))' <=> Queued(Cmd("text", o))
                             /\ Queued(Cmd("sha", o))' <=> Queued(Cmd("sha", o))
      /\ Args'
  BY <1>3, JoinsQueued
<1>8. ~uploadMapped[cur] /\ ~uploadPending[cur]
  BY <1>1 DEF IInv, Grouping
<1>9. Uploads' /\ Handles' /\ Strays'
  <2>1. PICK c, o : c = cur /\ o = Other
    OBVIOUS
  <2>2. (Queued(Cmd("text", o))' <=> Queued(Cmd("text", o))) /\ (Queued(Cmd("sha", o))' <=> Queued(Cmd("sha", o)))
    BY <1>7, <2>1
  <2>3. \A k \in Buffers : k = c \/ k = o
    BY <2>1, InvFacts
  <2>4. Uploads'
    BY <1>1, <1>8, <2>1, <2>2, <2>3 DEF IInv, Uploads
  <2>5. Handles'
    BY <1>1, <1>4, <2>1, <2>3 DEF IInv, Handles
  <2>6. Strays'
    BY <1>1, <1>4, <1>5, <1>8, <2>1, <2>2, <2>3, InvFacts DEF IInv, Strays
  <2>. QED BY <2>4, <2>5, <2>6
<1>10. Calls' /\ Grouping' /\ Submitting'
  BY <1>5 DEF Calls, Grouping, Submitting
<1>11. Flying'
  <2>1. PICK o, b : o = Other /\ b = pend[Other]
    OBVIOUS
  <2>2. Whole(o, b) => Whole(o, b)'
    BY <1>1, <1>3, <2>1, JoinsWhole
  <2>. QED BY <1>1, <1>4, <2>1, <2>2 DEF IInv, Flying
<1>. QED BY <1>6, <1>7, <1>9, <1>10, <1>11 DEF IInv

\* The group is submitted: its hash will be that of the batch, nothing else is
\* on its way to its staging buffer, and what is in flight is not disturbed.
LEMMA GroupQueues ==
  ASSUME IInv, Group, NEW c, c = cur, NEW o, o = Other, NEW m, m = n
  PROVE  /\ Joins(3) /\ Args' /\ Whole(c, m)'
         /\ \A b : Whole(o, b) => Whole(o, b)'
         /\ Queued(Cmd("text", o))' <=> Queued(Cmd("text", o))
         /\ Queued(Cmd("sha", o))' <=> Queued(Cmd("sha", o))
<1>. USE DEF pendVars, deviceVars, callVars
<1>1. /\ pc = "group" /\ ~stagingBusy[cur] /\ queue' = queue \o SubSeq(GroupCmds, 1, 3)
      /\ UNCHANGED <<uploadMapped, pendVars, upload, deviceVars, callVars, faults>>
  BY GroupIsWhole DEF Group
<1>2. /\ Joins(3)
      /\ queue'[Len(queue) + 1] = Cmd("text", c) /\ queue'[Len(queue) + 2] = Cmd("sort", 0)
      /\ queue'[Len(queue) + 3] = Cmd("sha", c)
  BY <1>1, GroupJoins
<1>3. \A b : Whole(o, b) => Whole(o, b)'
  BY <1>1, <1>2, JoinsWhole
<1>4. /\ Queued(Cmd("text", o))' <=> Queued(Cmd("text", o))
      /\ Queued(Cmd("sha", o))' <=> Queued(Cmd("sha", o))
      /\ Args'
  BY <1>2, JoinsQueued
<1>5. Len(queue) \in Nat /\ DOMAIN queue' = 1 .. Len(queue) + 3 /\ DOMAIN queue = 1 .. Len(queue)
      /\ \A i \in 1 .. Len(queue) : queue'[i] = queue[i]
  BY <1>2 DEF Joins, Grown
<1>6. upload[c] = m /\ LensLast(m) /\ ~Queued(Cmd("sha", c))
  BY <1>1, InvFacts DEF IInv, Grouping, Strays
<1>7. PICK i : i = Len(queue) + 3
  OBVIOUS
<1>8. \A k \in DOMAIN queue' : queue'[k] = Cmd("sha", c) => k = i
  BY <1>2, <1>5, <1>6, <1>7, CmdsDiffer DEF Joins, Queued
<1>9. Hashable(i, c, m)'
  <2>1. i > 2 /\ i - 2 = Len(queue) + 1 /\ i > 1 /\ i - 1 = Len(queue) + 2 /\ i - 3 = Len(queue)
        /\ (i > 3 <=> Len(queue) # 0)
    BY <1>5, <1>7
  <2>2. i > 3 => queue'[i - 3] = Cmd("lens", m)
    BY <1>5, <1>6, <2>1 DEF LensLast
  <2>3. ~(i > 3) => lens' = m
    <3>1. Len(queue) = 0 => queue = <<>>
      BY InvFacts
    <3>. QED BY <1>1, <1>6, <2>1, <3>1 DEF LensLast
  <2>. QED BY <1>1, <1>2, <1>6, <2>1, <2>2, <2>3 DEF Hashable
<1>10. Queued(Cmd("sha", c))'
  BY <1>2, <1>5 DEF Queued
<1>11. Whole(c, m)'
  BY <1>8, <1>9, <1>10 DEF Whole
<1>. QED BY <1>2, <1>3, <1>4, <1>11

\* The group is submitted: with nothing in flight it now is, otherwise the
\* batch in flight is collected next.
LEMMA GroupInv == ASSUME IInv, Group PROVE IInv'
<1>. USE DEF pendVars, deviceVars, callVars
<1>1. PICK c, o, m : c = cur /\ o = Other /\ m = n
  OBVIOUS
<1>2. /\ Joins(3) /\ Args' /\ Whole(c, m)'
      /\ \A b : Whole(o, b) => Whole(o, b)'
      /\ Queued(Cmd("text", o))' <=> Queued(Cmd("text", o))
      /\ Queued(Cmd("sha", o))' <=> Queued(Cmd("sha", o))
  BY <1>1, GroupQueues
<1>3. /\ pc = "group" /\ ~stagingBusy[cur] /\ op = "submit" /\ n \in Batches /\ host[bi] = n
      /\ resultPending' = [resultPending EXCEPT ![cur] = TRUE]
      /\ stagingBusy' = [stagingBusy EXCEPT ![cur] = TRUE]
      /\ uploadPending' = [uploadPending EXCEPT ![cur] = TRUE]
      /\ UNCHANGED <<uploadMapped, pendVars, upload, deviceVars, callVars, faults>>
      /\ ~uploadMapped[cur] /\ ~uploadPending[cur] /\ pend[cur] = n /\ pendInputs[cur] = bi
  BY DEF Group, IInv, Calls, Grouping, Written
<1>4. IF have
      THEN pc' = "collect" /\ UNCHANGED <<cur, have, bi, errs, out>>
      ELSE /\ Returns(FALSE, {}) /\ pc' = "idle" /\ out' = [err |-> FALSE, pows |-> {}]
           /\ have' = TRUE /\ cur' = Other /\ bi' = 1 - bi
  BY DEF Group, Accept, Returns
<1>5. c \in Buffers /\ o \in Buffers /\ c # o /\ \A k \in Buffers : k = c \/ k = o
  BY <1>1, InvFacts
<1>6. /\ resultPending' \in [Buffers -> BOOLEAN] /\ stagingBusy' \in [Buffers -> BOOLEAN]
      /\ uploadPending' \in [Buffers -> BOOLEAN]
      /\ resultPending'[c] /\ resultPending'[o] = resultPending[o]
      /\ stagingBusy'[c] /\ stagingBusy'[o] = stagingBusy[o]
      /\ uploadPending'[o] = uploadPending[o]
  <2>1. /\ resultPending \in [Buffers -> BOOLEAN] /\ stagingBusy \in [Buffers -> BOOLEAN]
        /\ uploadPending \in [Buffers -> BOOLEAN]
    BY DEF IInv, TypeOK
  <2>. QED BY <1>1, <1>3, <1>5, <2>1
<1>7. TypeOK'
  <2>1. /\ cur' \in Buffers /\ bi' \in Buffers /\ have' \in BOOLEAN /\ pc' \in {"idle", "collect"}
        /\ out' = out \/ out' = [err |-> FALSE, pows |-> {}]
    BY <1>4, InvFacts DEF IInv, TypeOK
  <2>2. out' \in [err : BOOLEAN, pows : SUBSET (0..MaxBatches)]
    BY <2>1, ReturnTypes DEF IInv, TypeOK
  <2>3. queue' \in Seq([name : {"lens", "text", "sort", "sha"}, arg : 0..MaxBatches])
    BY <1>2 DEF Joins, Cmds
  <2>4. errs' \in Nat
    BY <1>4, ErrsCount DEF IInv, TypeOK
  <2>. QED BY <1>3, <1>6, <2>1, <2>2, <2>3, <2>4 DEF IInv, TypeOK
<1>8. Uploads' /\ Handles'
  BY <1>1, <1>2, <1>3, <1>5, <1>6 DEF IInv, Uploads, Handles
<1>9. Grouping'
  BY <1>4 DEF Grouping
<1>10. CASE have
  <2>1. cur' = c /\ Other' = o /\ pc' = "collect" /\ have' /\ UNCHANGED bi
    BY <1>1, <1>4, <1>10 DEF Other
  <2>2. Strays'
    BY <1>1, <1>2, <1>5, <1>6, <2>1 DEF IInv, Strays
  <2>3. Calls' /\ Submitting'
    BY <1>1, <1>2, <1>3, <1>6, <2>1 DEF Calls, Submitting, Written, Whole, Hashable, Queued
  <2>4. Flying'
    <3>1. PICK b : b = pend[o]
      OBVIOUS
    <3>2. Whole(o, b) => Whole(o, b)'
      BY <1>2
    <3>. QED BY <1>1, <1>3, <1>6, <1>10, <2>1, <3>1, <3>2 DEF IInv, Flying
  <2>. QED BY <1>2, <1>7, <1>8, <1>9, <2>2, <2>3, <2>4 DEF IInv
<1>11. CASE ~have
  <2>1. cur' = o /\ Other' = c /\ pc' = "idle" /\ have' /\ bi' = 1 - bi /\ 1 - bi' = bi
    BY <1>1, <1>4, <1>11, InvFacts DEF Other, Buffers
  <2>2. Strays'
    BY <1>1, <1>2, <1>5, <1>6, <1>11, <2>1 DEF IInv, Strays
  <2>3. Calls' /\ Submitting'
    BY <2>1 DEF Calls, Submitting
  <2>4. Flying'
    BY <1>1, <1>2, <1>3, <2>1 DEF Flying, Whole, Hashable, Queued
  <2>. QED BY <1>2, <1>7, <1>8, <1>9, <2>2, <2>3, <2>4 DEF IInv
<1>. QED BY <1>10, <1>11

\* Waiting for the result fails: its handle is gone, and with it every way to
\* collect the batch in flight.
LEMMA CollectFailInv == ASSUME IInv, CollectFail PROVE IInv'
<1>. USE DEF pendVars, deviceVars, callVars
<1>1. /\ pc = "collect" /\ have /\ Returns(TRUE, {}) /\ Fault
      /\ UNCHANGED <<cur, have, uploadMapped, uploadPending, pendVars, upload, deviceVars, queue, bi, callVars>>
      /\ resultPending' = [resultPending EXCEPT ![Other] = FALSE]
      /\ \E still \in BOOLEAN : stagingBusy' = [stagingBusy EXCEPT ![Other] = still]
  BY DEF CollectFail, IInv, Calls
<1>2. /\ resultPending' \in [Buffers -> BOOLEAN] /\ stagingBusy' \in [Buffers -> BOOLEAN]
      /\ ~resultPending'[Other] /\ resultPending'[cur] = resultPending[cur]
      /\ stagingBusy'[cur] = stagingBusy[cur]
  <2>1. /\ resultPending \in [Buffers -> BOOLEAN] /\ stagingBusy \in [Buffers -> BOOLEAN]
    BY DEF IInv, TypeOK
  <2>. QED BY <1>1, <2>1, InvFacts
<1>3. errs' \in Nat /\ faults' \in 0..MaxFaults
  BY <1>1, ErrsCount, FaultCount DEF IInv, TypeOK
<1>4. FailFrame
  BY <1>1, <1>2, <1>3 DEF FailFrame, Returns
<1>5. Uploads' /\ Handles' /\ Strays'
  <2>1. (\A c : Queued(c)' <=> Queued(c)) /\ pc' = "idle"
    BY <1>1, Still DEF Returns
  <2>. QED BY <1>1, <1>2, <2>1, InvFacts DEF IInv, Uploads, Handles, Strays
<1>. QED BY <1>1, <1>2, <1>4, <1>5, FailStill DEF IInv, TypeOK

\* The caller's slice still holds the batch, and the staging buffer does too.
LEMMA HashesAreOne ==
  ASSUME IInv, have, resultPending[Other], ~Queued(Cmd("sha", Other))
  PROVE  Hashes(Other) = {pend[Other]}
<1>1. /\ Whole(Other, pend[Other]) /\ host[pendInputs[Other]] = pend[Other]
  BY DEF IInv, Flying
<1>. QED BY <1>1 DEF Hashes, Whole

\* The result is collected: its staging buffer is free, and a batch submitted
\* by the same call is now the one in flight.
LEMMA CollectInv == ASSUME IInv, Collect PROVE IInv'
<1>. USE DEF pendVars, deviceVars, callVars
<1>1. PICK c, o, m : c = cur /\ o = Other /\ m = n
  OBVIOUS
<1>2. /\ pc = "collect" /\ have /\ resultPending[Other] /\ ~Queued(Cmd("sha", Other))
      /\ UNCHANGED <<uploadMapped, uploadPending, pend, upload, deviceVars, queue, callVars, faults>>
      /\ resultPending' = [resultPending EXCEPT ![Other] = FALSE]
      /\ stagingBusy' = [stagingBusy EXCEPT ![Other] = FALSE]
      /\ pendInputs' = [pendInputs EXCEPT ![Other] = 2]
      /\ IF op = "submit" THEN have' = TRUE /\ cur' = Other /\ bi' = 1 - bi
         ELSE have' = FALSE /\ UNCHANGED <<cur, bi>>
  BY DEF Collect, Accept, IInv, Calls
<1>3. Returns(FALSE, Hashes(Other)) /\ pc' = "idle" /\ out' = [err |-> FALSE, pows |-> {pend[Other]}]
  BY <1>2, HashesAreOne DEF Collect, Returns
<1>4. c \in Buffers /\ o \in Buffers /\ c # o /\ \A k \in Buffers : k = c \/ k = o
  BY <1>1, InvFacts
<1>5. /\ resultPending' \in [Buffers -> BOOLEAN] /\ stagingBusy' \in [Buffers -> BOOLEAN]
      /\ pendInputs' \in [Buffers -> 0..2]
      /\ ~resultPending'[o] /\ resultPending'[c] = resultPending[c]
      /\ ~stagingBusy'[o] /\ stagingBusy'[c] = stagingBusy[c]
      /\ pendInputs'[c] = pendInputs[c]
  <2>1. /\ resultPending \in [Buffers -> BOOLEAN] /\ stagingBusy \in [Buffers -> BOOLEAN]
        /\ pendInputs \in [Buffers -> 0..2]
    BY DEF IInv, TypeOK
  <2>. QED BY <1>1, <1>2, <1>4, <2>1
<1>6. /\ \A x : Queued(x)' <=> Queued(x)
      /\ \A k \in Buffers : \A b : Whole(k, b)' <=> Whole(k, b)
  BY <1>2, Still
<1>7. TypeOK'
  <2>1. /\ cur' \in Buffers /\ bi' \in Buffers /\ have' \in BOOLEAN
        /\ pend[Other] \in 0..MaxBatches
    BY <1>2, InvFacts DEF IInv, TypeOK
  <2>2. out' \in [err : BOOLEAN, pows : SUBSET (0..MaxBatches)]
    BY <1>3, <2>1, ReturnTypes
  <2>3. errs' \in Nat
    BY <1>3, ErrsCount DEF IInv, TypeOK
  <2>. QED BY <1>2, <1>3, <1>5, <2>1, <2>2, <2>3 DEF IInv, TypeOK
<1>8. Args' /\ Uploads' /\ Handles'
  BY <1>1, <1>2, <1>4, <1>5, <1>6 DEF IInv, Args, Uploads, Handles
<1>9. Calls' /\ Grouping' /\ Submitting'
  BY <1>3 DEF Calls, Grouping, Submitting
<1>10. CASE op = "submit"
  <2>1. /\ cur' = o /\ Other' = c /\ have' /\ bi' = 1 - bi /\ 1 - bi' = bi
        /\ resultPending[c] /\ pend[c] = m /\ pendInputs[c] = bi /\ Whole(c, m) /\ host[bi] = m
    BY <1>1, <1>2, <1>10, InvFacts DEF Other, Buffers, IInv, Submitting, Written, Calls
  <2>2. Strays'
    BY <1>1, <1>2, <1>4, <1>5, <1>6, <2>1 DEF IInv, Strays
  <2>3. Flying'
    BY <1>1, <1>2, <1>4, <1>5, <1>6, <2>1 DEF Flying, Whole, Hashable, Queued
  <2>. QED BY <1>7, <1>8, <1>9, <2>2, <2>3 DEF IInv
<1>11. CASE op # "submit"
  <2>1. cur' = c /\ ~have'
    BY <1>1, <1>2, <1>11
  <2>2. Strays'
    BY <1>1, <1>2, <1>3, <1>4, <1>5, <1>6, <2>1 DEF IInv, Strays
  <2>3. Flying'
    BY <2>1 DEF Flying
  <2>. QED BY <1>7, <1>8, <1>9, <2>2, <2>3 DEF IInv
<1>. QED BY <1>10, <1>11

\* The device works: what staging buffers will hold stays.
LEMMA ExecuteInv == ASSUME IInv, Execute PROVE IInv'
<1>. USE DEF mapVars, pendVars, callVars
<1>1. /\ UNCHANGED <<cur, have, mapVars, pendVars, upload, bi, pc, callVars, faults, errs, out>>
      /\ Other' = Other /\ queue # <<>> /\ queue' = Tail(queue)
  BY DEF Execute, Other
<1>2. /\ Len(queue) \in Nat \ {0} /\ DOMAIN queue = 1 .. Len(queue) /\ Head(queue) = queue[1]
      /\ queue[1] \in Cmds /\ 1 \in DOMAIN queue
      /\ queue' \in Seq(Cmds) /\ DOMAIN queue' = 1 .. Len(queue) - 1 /\ Len(queue') = Len(queue) - 1
      /\ \A i \in 1 .. Len(queue) - 1 : queue'[i] = queue[i + 1]
  BY <1>1, TailShift, InvFacts
<1>3. \A i \in DOMAIN queue' : i + 1 \in DOMAIN queue /\ queue'[i] = queue[i + 1]
  BY <1>2
<1>4. \A c : Queued(c)' => Queued(c)
  BY <1>3 DEF Queued
<1>5. \A k \in Buffers : \A b : Whole(k, b) => Whole(k, b)'
  BY ExecuteWhole, InvFacts DEF IInv, TypeOK
<1>6. TypeOK'
  <2>. DEFINE h == Head(queue)
  <2>1. h.name \in {"text", "sha"} => h.arg \in Buffers
    BY <1>2 DEF IInv, Args
  <2>2. h.arg \in 0..MaxBatches
    BY <1>2 DEF Cmds
  <2>3. /\ text \in 0..MaxBatches /\ lens \in 0..MaxBatches /\ archive \in 0..MaxBatches
        /\ upload \in [Buffers -> 0..MaxBatches] /\ overflow \in BOOLEAN /\ 0 \in 0..MaxBatches
        /\ staging \in [Buffers -> [batch : 0..MaxBatches, overflow : BOOLEAN]]
    BY SpirvAssumption DEF IInv, TypeOK
  <2>4. /\ text' \in 0..MaxBatches /\ lens' \in 0..MaxBatches /\ archive' \in 0..MaxBatches
        /\ overflow' \in BOOLEAN
    BY <2>1, <2>2, <2>3 DEF Execute
  <2>5. staging' \in [Buffers -> [batch : 0..MaxBatches, overflow : BOOLEAN]]
    <3>1. [batch |-> IF archive = lens THEN archive ELSE 0, overflow |-> overflow]
            \in [batch : 0..MaxBatches, overflow : BOOLEAN]
      BY <2>3
    <3>2. \/ staging' = staging
          \/ \E k \in Buffers : staging' = [staging EXCEPT ![k] =
               [batch |-> IF archive = lens THEN archive ELSE 0, overflow |-> overflow]]
      BY <2>1 DEF Execute
    <3>. QED BY <2>3, <3>1, <3>2
  <2>6. queue' \in Seq([name : {"lens", "text", "sort", "sha"}, arg : 0..MaxBatches])
    BY <1>2 DEF Cmds
  <2>. QED BY <1>1, <2>4, <2>5, <2>6 DEF IInv, TypeOK
<1>7. Args'
  BY <1>3 DEF IInv, Args
<1>8. Uploads' /\ Handles' /\ Strays'
  BY <1>1, <1>4 DEF IInv, Uploads, Handles, Strays
<1>9. Calls'
  BY <1>1 DEF IInv, Calls
<1>10. Grouping'
  <2>1. LensLast(n) => LensLast(n)'
    <3>. SUFFICES ASSUME LensLast(n) PROVE LensLast(n)'
      OBVIOUS
    <3>1. queue[Len(queue)] = Cmd("lens", n) /\ n' = n
      BY <1>1 DEF LensLast
    <3>2. CASE Len(queue) = 1
      <4>1. Head(queue).name = "lens" /\ Head(queue).arg = n
        BY <1>2, <3>1, <3>2 DEF Cmd
      <4>2. lens' = n
        BY <4>1 DEF Execute
      <4>3. queue' = <<>>
        BY <1>2, <3>2
      <4>. QED BY <3>1, <4>2, <4>3 DEF LensLast
    <3>3. CASE Len(queue) # 1
      <4>1. Len(queue) - 1 \in 1 .. Len(queue) - 1 /\ (Len(queue) - 1) + 1 = Len(queue)
        BY <1>2, <3>3
      <4>2. queue'[Len(queue')] = Cmd("lens", n) /\ queue' # <<>>
        BY <1>2, <3>1, <4>1
      <4>. QED BY <3>1, <4>2 DEF LensLast
    <3>. QED BY <3>2, <3>3
  <2>. QED BY <1>1, <2>1 DEF IInv, Grouping, Written
<1>11. Submitting' /\ Flying'
  <2>1. PICK c, o, m, b : c = cur /\ o = Other /\ m = n /\ b = pend[Other]
    OBVIOUS
  <2>2. (Whole(c, m) => Whole(c, m)') /\ (Whole(o, b) => Whole(o, b)')
    BY <1>5, <2>1, InvFacts
  <2>3. Submitting'
    BY <1>1, <2>1, <2>2 DEF IInv, Submitting, Written
  <2>4. Flying'
    BY <1>1, <2>1, <2>2 DEF IInv, Flying
  <2>. QED BY <2>3, <2>4
<1>. QED BY <1>6, <1>7, <1>8, <1>9, <1>10, <1>11 DEF IInv

\* Every step keeps the invariant.
LEMMA StepInv == IInv /\ [Next]_vars => IInv'
<1>. SUFFICES ASSUME IInv, [Next]_vars PROVE IInv'
  OBVIOUS
<1>1. CASE CallSubmit \/ CallDrain
  BY <1>1, CallInv
<1>2. CASE Prepare
  BY <1>2, PrepareInv
<1>3. CASE PrepareMissing \/ CollectMissing
  BY <1>3, MissingInv
<1>4. CASE PrepareFail
  BY <1>4, PrepareFailInv
<1>5. CASE Group
  BY <1>5, GroupInv
<1>6. CASE GroupRefused \/ GroupFail
  BY <1>6, GroupFailInv
<1>7. CASE Collect
  BY <1>7, CollectInv
<1>8. CASE CollectFail
  BY <1>8, CollectFailInv
<1>9. CASE Execute
  BY <1>9, ExecuteInv
<1>10. CASE UNCHANGED vars
  BY <1>10 DEF vars, mapVars, pendVars, deviceVars, callVars, IInv, TypeOK, Args, Uploads, Handles,
        Strays, Calls, Grouping, Submitting, Flying, Written, LensLast, Whole, Hashable, Queued, Other
<1>. QED BY <1>1, <1>2, <1>3, <1>4, <1>5, <1>6, <1>7, <1>8, <1>9, <1>10 DEF Next, Caller

LEMMA Invariance == Spec => []IInv
BY InitInv, StepInv, PTL DEF Spec

-----------------------------------------------------------------------------
(* What is proved                                                          *)

\* A batch in flight keeps its inputs in the slice its buffer refers to.
LEMMA FlyingKeeps == IInv => TypeOK /\ InputsKept
BY DEF IInv, Flying, InputsKept

UploadStep == \A k \in Buffers : upload'[k] # upload[k] => ~Queued(Cmd("text", k))

\* Only prepare writes an upload buffer, the one of the next batch, and only
\* once it is mapped.
LEMMA UploadOnlyReady == IInv /\ [Next]_vars => [UploadStep]_vars
<1>. SUFFICES ASSUME IInv, [Next]_vars, NEW k \in Buffers, upload'[k] # upload[k]
              PROVE  ~Queued(Cmd("text", k))
  BY DEF UploadStep
<1>1. Prepare \/ PrepareFail
  BY DEF Next, Caller, vars, CallSubmit, CallDrain, PrepareMissing, Group, GroupRefused, GroupFail,
         Collect, CollectMissing, CollectFail, Execute
<1>2. UploadReady /\ upload' = [upload EXCEPT ![cur] = n]
  BY <1>1 DEF Prepare, PrepareFail, Build
<1>3. k = cur
  BY <1>2 DEF IInv, TypeOK
<1>. QED BY <1>2, <1>3 DEF UploadReady, IInv, Uploads

\* Neither side of the bus overwrites what a group in flight still needs: no
\* upload buffer is written while a copy out of it is queued, and the caller's
\* slice keeps the inputs the CPU may have to hash again (spirv_stream.go
\* prepare, collect; main.go 573-603).
THEOREM BuffersAreSafe == Spec => BuffersSafe
<1>1. Spec => [](TypeOK /\ InputsKept)
  BY Invariance, FlyingKeeps, PTL
<1>2. Spec => [][UploadStep]_vars
  BY Invariance, UploadOnlyReady, PTL DEF Spec
<1>3. Spec => UploadSafe
  BY <1>2 DEF UploadSafe, UploadStep
<1>. QED BY <1>1, <1>3, PTL DEF BuffersSafe

\* The batch accepted and not yet returned.
InFlight == IF have THEN {pend[Other]} ELSE {}

LEMMA RefinesInit == Init => Pipe!StreamInit
BY DEF Init, InFlight, Pipe!StreamInit, Pipe!None

\* Every step of the streamer is a step of the pipe or leaves it alone.
LEMMA RefinesStep == IInv /\ [Next]_vars => [Pipe!StreamNext]_<<InFlight, out>>
<1>. SUFFICES ASSUME IInv, [Next]_vars
              PROVE  Pipe!StreamNext \/ UNCHANGED <<InFlight, out>>
  OBVIOUS
<1>. USE DEF mapVars, pendVars, deviceVars, callVars
<1>1. ASSUME UNCHANGED <<cur, have>>, pend'[Other] = pend[Other]
      PROVE  InFlight' = InFlight
  BY <1>1 DEF InFlight, Other
<1>2. CASE CallSubmit \/ Execute \/ UNCHANGED vars
  BY <1>1, <1>2 DEF CallSubmit, Execute, vars
<1>3. CASE CallDrain
  <2>1. UNCHANGED <<cur, have, pend>> /\ InFlight' = InFlight
    BY <1>1, <1>3 DEF CallDrain
  <2>2. CASE have
    BY <1>3, <2>1, <2>2 DEF CallDrain
  <2>3. CASE ~have
    BY <1>3, <2>1, <2>3 DEF CallDrain, InFlight, Pipe!StreamNext, Pipe!Drained, Pipe!None
  <2>. QED BY <2>2, <2>3
<1>4. CASE Prepare
  <2>1. pend'[Other] = pend[Other]
    BY <1>4, InvFacts DEF Prepare, IInv, TypeOK
  <2>. QED BY <1>1, <1>4, <2>1 DEF Prepare
<1>5. CASE \/ PrepareMissing \/ PrepareFail \/ GroupRefused \/ GroupFail
           \/ CollectMissing \/ CollectFail
  <2>1. UNCHANGED <<cur, have, pend>> /\ out' = [err |-> TRUE, pows |-> {}]
    BY <1>5 DEF PrepareMissing, PrepareFail, GroupRefused, GroupFail, CollectMissing, CollectFail, Returns
  <2>2. InFlight' = InFlight
    BY <1>1, <2>1
  <2>. QED BY <2>1, <2>2 DEF InFlight, Pipe!StreamNext, Pipe!Refused, Pipe!None
<1>6. CASE Group
  <2>1. UNCHANGED <<pend, n>> /\ n \in Batches /\ pend[cur] = n
    BY <1>6 DEF Group, IInv, Calls, Grouping, Written
  <2>2. CASE have
    BY <1>1, <1>6, <2>1, <2>2 DEF Group
  <2>3. CASE ~have
    <3>1. have' /\ Other' = cur /\ out' = [err |-> FALSE, pows |-> {}]
      BY <1>6, <2>3, InvFacts DEF Group, Accept, Returns, Other, Buffers
    <3>2. InFlight' = {n} /\ InFlight = {}
      BY <2>1, <2>3, <3>1 DEF InFlight
    <3>3. Pipe!Submitted(n)
      BY <3>1, <3>2 DEF Pipe!Submitted, InFlight
    <3>. QED BY <2>1, <3>3 DEF Pipe!StreamNext
  <2>. QED BY <2>2, <2>3
<1>7. CASE Collect
  <2>1. have /\ out' = [err |-> FALSE, pows |-> {pend[Other]}] /\ UNCHANGED <<pend, n>>
    BY <1>7, HashesAreOne DEF Collect, Returns, IInv, Calls
  <2>2. CASE op = "submit"
    <3>1. n \in Batches /\ pend[cur] = n /\ have' /\ Other' = cur
      BY <1>7, <2>2, InvFacts DEF Collect, Accept, IInv, Calls, Submitting, Written, Other, Buffers
    <3>2. InFlight' = {n} /\ InFlight = {pend[Other]}
      BY <2>1, <3>1 DEF InFlight
    <3>3. Pipe!Submitted(n)
      BY <2>1, <3>2 DEF Pipe!Submitted, InFlight
    <3>. QED BY <3>1, <3>3 DEF Pipe!StreamNext
  <2>3. CASE op # "submit"
    BY <1>7, <2>1, <2>3 DEF Collect, InFlight, Pipe!StreamNext, Pipe!Drained, Pipe!None
  <2>. QED BY <2>2, <2>3
<1>. QED BY <1>2, <1>3, <1>4, <1>5, <1>6, <1>7 DEF Next, Caller

\* The SPIR-V streamer is a pipe one batch deep: what Submit and Drain return
\* is the batch accepted before, whole, whether the GPU or the CPU hashed it,
\* also after failed calls (spirv_stream.go Submit, Drain).
THEOREM Refinement == Spec => ImplementsStreamer
BY Invariance, RefinesInit, RefinesStep, PTL DEF Spec, ImplementsStreamer, Pipe!StreamSpec, InFlight

=============================================================================

----------------------------- MODULE WgslProofs ------------------------------
(***************************************************************************)
(* Proofs about the WGSL backend: its streamer (FusedStreamer), for any    *)
(* number of calls and faults, and the suffix-array kernel that streamer   *)
(* dispatches (SaGpu, through KernelParts), for any workgroup and text.    *)
(* The streamer's buffers are safe and it implements the one-deep pipe of  *)
(* Streamer.  There is no induction over the queue: that a busy session    *)
(* has a last command is part of the invariant (Lasts).                    *)
(* The kernel's lanes meet at every barrier, its ranks are those of the    *)
(* doubled prefixes, and it ends with the suffix array.  The invariant     *)
(* (KernelInv) says what the lanes that have run the interval between two  *)
(* barriers have done there (Phase), whatever the order they took.         *)
(***************************************************************************)
EXTENDS FusedStreamer, KernelParts, Integers, FiniteSets, FiniteSetTheorems, WellFoundedInduction, TLAPS

-----------------------------------------------------------------------------
(* The streamer.                                                           *)

\* Command k of queue q is the last one for session s.
LastOf(q, s, k) ==
  /\ k \in DOMAIN q /\ q[k].session = s
  /\ \A m \in DOMAIN q : q[m].session = s => m <= k

\* When the device has executed the queue, the staging buffer of session s
\* will hold batch b.
Newest(s, b) ==
  IF Busy(s) THEN \E k \in DOMAIN queue : LastOf(queue, s, k) /\ queue[k].batch = b
  ELSE staging[s] = b

Lasts == \A s \in Sessions : Busy(s) => \E k \in DOMAIN queue : LastOf(queue, s, k)

\* A session's idea of its mapping is the device's; only the session being
\* collected is ever about to be mapped, and it is unmapped before.
Maps ==
  /\ \A s \in Sessions : saMapped[s] <=> map[s] = "mapped"
  /\ map[cur] # "pending"
  /\ map[Other] = "pending" <=> pc = "wait"
  /\ pc = "hash" => map[Other] = "mapped"
  /\ have /\ pc \in {"idle", "compute", "collect"} => map[Other] = "unmapped"

Collecting == pc \in {"collect", "wait", "hash"}

\* While a call is on its way: what is collected was accepted, and the batch
\* just submitted is the newest of its session, which stays unmapped.
Calls ==
  /\ Collecting => have
  /\ pc = "compute" => op = "submit"
  /\ pc # "idle" /\ op = "submit" => n \in Batches
  /\ Collecting /\ op = "submit" => map[cur] = "unmapped" /\ Newest(cur, n)

IInv == TypeOK /\ Maps /\ Calls /\ Lasts /\ NoWedge /\ NoCopyIntoMapped

Cmds == [session : Sessions, batch : Batches]

-----------------------------------------------------------------------------
(* The queue                                                               *)

\* The two sessions are the one written next and the other.
LEMMA TwoSessions ==
  ASSUME cur \in Sessions
  PROVE  /\ Other \in Sessions /\ Other # cur
         /\ \A s \in Sessions : s = cur \/ s = Other
BY DEF Sessions, Other

\* A session has one last command.
LEMMA LastUnique ==
  ASSUME NEW q \in Seq(Cmds), NEW s, NEW k, NEW m, LastOf(q, s, k), LastOf(q, s, m)
  PROVE  k = m
<1>1. k \in Nat /\ m \in Nat /\ k <= m /\ m <= k
  BY DEF LastOf
<1>. QED BY <1>1

\* Appending a command makes it the last of its session and leaves the last of
\* any other session alone.
LEMMA AppendLast ==
  ASSUME NEW q \in Seq(Cmds), NEW c \in Cmds, NEW s
  PROVE  LET p == Append(q, c)
         IN /\ s = c.session => LastOf(p, s, Len(q) + 1) /\ p[Len(q) + 1] = c
            /\ s # c.session =>
                 /\ \A k \in DOMAIN p : p[k].session = s => k \in DOMAIN q
                 /\ \A k \in DOMAIN q : LastOf(p, s, k) <=> LastOf(q, s, k)
            /\ \A k \in DOMAIN q : k \in DOMAIN p /\ p[k] = q[k]
<1>. DEFINE p == Append(q, c)
<1>1. /\ Len(q) \in Nat /\ DOMAIN p = 1 .. Len(q) + 1 /\ DOMAIN q = 1 .. Len(q)
      /\ p[Len(q) + 1] = c /\ \A k \in 1 .. Len(q) : p[k] = q[k]
  OBVIOUS
<1>. HIDE DEF p
<1>2. s = c.session => LastOf(p, s, Len(q) + 1)
  BY <1>1 DEF LastOf
<1>3. s # c.session => /\ \A k \in DOMAIN p : p[k].session = s => k \in DOMAIN q
                       /\ \A k \in DOMAIN q : LastOf(p, s, k) <=> LastOf(q, s, k)
  BY <1>1 DEF LastOf
<1>. QED BY <1>1, <1>2, <1>3 DEF p

\* Executing the head shifts the others by one.
LEMMA TailShift ==
  ASSUME NEW q \in Seq(Cmds), q # <<>>
  PROVE  /\ Len(q) \in Nat \ {0} /\ DOMAIN q = 1 .. Len(q) /\ Head(q) = q[1] /\ q[1] \in Cmds
         /\ Tail(q) \in Seq(Cmds) /\ DOMAIN Tail(q) = 1 .. Len(q) - 1
         /\ \A k \in 1 .. Len(q) - 1 : Tail(q)[k] = q[k + 1]
OBVIOUS

\* Executing the head, which is not the last command of session s, leaves the
\* last one.
LEMMA TailLast ==
  ASSUME NEW q \in Seq(Cmds), q # <<>>, NEW s, NEW k, LastOf(q, s, k), k # 1
  PROVE  LastOf(Tail(q), s, k - 1) /\ Tail(q)[k - 1] = q[k]
<1>1. k \in 2 .. Len(q) /\ q[k].session = s /\ \A m \in 1 .. Len(q) : q[m].session = s => m <= k
  BY TailShift DEF LastOf
<1>2. k - 1 \in 1 .. Len(q) - 1 /\ Tail(q)[k - 1] = q[k]
  <2>1. Len(q) \in Nat
    BY TailShift
  <2>2. k - 1 \in 1 .. Len(q) - 1 /\ (k - 1) + 1 = k
    BY <1>1, <2>1
  <2>. QED BY <2>2, TailShift
<1>3. ASSUME NEW m \in 1 .. Len(q) - 1, Tail(q)[m].session = s PROVE m <= k - 1
  <2>1. Len(q) \in Nat
    BY TailShift
  <2>2. m + 1 \in 1 .. Len(q) /\ Tail(q)[m] = q[m + 1]
    BY <2>1, TailShift
  <2>3. m + 1 <= k
    BY <1>1, <1>3, <2>2
  <2>. QED BY <1>1, <2>1, <2>3
<1>. QED BY <1>1, <1>2, <1>3, TailShift DEF LastOf

-----------------------------------------------------------------------------
(* What a session's staging buffer will hold                               *)

QueueOK == queue \in Seq(Cmds) /\ Lasts

\* Some batch is the newest of each session.
LEMMA NewestExists ==
  ASSUME QueueOK, NEW s \in Sessions
  PROVE  \E b : Newest(s, b)
<1>1. CASE Busy(s)
  <2>1. PICK k \in DOMAIN queue : LastOf(queue, s, k)
    BY <1>1 DEF QueueOK, Lasts
  <2>2. Newest(s, queue[k].batch)
    BY <1>1, <2>1 DEF Newest
  <2>. QED BY <2>2
<1>2. CASE ~Busy(s)
  BY <1>2 DEF Newest
<1>. QED BY <1>1, <1>2

\* The refinement mapping: what is in flight is the newest batch of the session
\* not written next.
LEMMA InFlightIs ==
  ASSUME QueueOK, have, NEW b, Newest(Other, b)
  PROVE  InFlight = {b}
<1>1. CASE Busy(Other)
  <2>1. PICK k \in DOMAIN queue : LastOf(queue, Other, k) /\ queue[k].batch = b
    BY <1>1 DEF Newest
  <2>. DEFINE Last(m) == /\ queue[m].session = Other
                         /\ \A j \in DOMAIN queue : queue[j].session = Other => j <= m
              c == CHOOSE m \in DOMAIN queue : Last(m)
  <2>2. c \in DOMAIN queue /\ Last(c)
    BY <2>1 DEF LastOf
  <2>3. c = k
    BY <2>1, <2>2, LastUnique DEF LastOf, QueueOK
  <2>. QED BY <1>1, <2>1, <2>3 DEF InFlight
<1>2. CASE ~Busy(Other)
  BY <1>2 DEF Newest, InFlight
<1>. QED BY <1>1, <1>2

\* A command for another session changes nothing for session s; one for s makes
\* its batch the newest.
LEMMA AppendNewest ==
  ASSUME QueueOK, NEW c \in Cmds, queue' = Append(queue, c), staging' = staging
  PROVE  /\ QueueOK'
         /\ \A s \in Sessions : s # c.session => (Busy(s)' <=> Busy(s))
         /\ \A s \in Sessions : \A b : s # c.session => (Newest(s, b)' <=> Newest(s, b))
         /\ Newest(c.session, c.batch)'
<1>1. queue' \in Seq(Cmds)
  BY DEF QueueOK
<1>2. /\ c.session \in Sessions /\ LastOf(queue', c.session, Len(queue) + 1)
      /\ queue'[Len(queue) + 1] = c
  BY AppendLast DEF QueueOK, Cmds
<1>3. Busy(c.session)' /\ Newest(c.session, c.batch)'
  BY <1>2 DEF Busy, Newest, LastOf
<1>4. ASSUME NEW s \in Sessions, s # c.session
      PROVE  /\ \A b : Newest(s, b)' <=> Newest(s, b)
             /\ Busy(s)' <=> Busy(s)
             /\ \A k \in DOMAIN queue : LastOf(queue', s, k) <=> LastOf(queue, s, k)
  <2>1. /\ \A k \in DOMAIN queue' : queue'[k].session = s => k \in DOMAIN queue
        /\ \A k \in DOMAIN queue : LastOf(queue', s, k) <=> LastOf(queue, s, k)
        /\ \A k \in DOMAIN queue : k \in DOMAIN queue' /\ queue'[k] = queue[k]
    BY <1>4, AppendLast DEF QueueOK
  <2>2. Busy(s)' <=> Busy(s)
    BY <2>1 DEF Busy
  <2>3. \A k : LastOf(queue', s, k) => k \in DOMAIN queue
    BY <2>1 DEF LastOf
  <2>4. \A b : Newest(s, b)' <=> Newest(s, b)
    BY <2>1, <2>2, <2>3 DEF Newest
  <2>. QED BY <2>1, <2>2, <2>4
<1>5. Lasts'
  <2>. SUFFICES ASSUME NEW s \in Sessions, Busy(s)'
                PROVE  \E k \in DOMAIN queue' : LastOf(queue', s, k)
    BY DEF Lasts
  <2>1. CASE s = c.session
    BY <1>2, <2>1 DEF LastOf
  <2>2. CASE s # c.session
    BY <1>4, <2>2 DEF QueueOK, Lasts, LastOf
  <2>. QED BY <2>1, <2>2
<1>6. QueueOK'
  BY <1>1, <1>5 DEF QueueOK
<1>. QED BY <1>3, <1>4, <1>6

\* The device executes a command: nothing changes in what staging buffers will
\* hold, and no session becomes busy.
LEMMA ExecuteNewest ==
  ASSUME QueueOK, staging \in [Sessions -> 0..MaxBatches], Execute
  PROVE  /\ QueueOK'
         /\ \A s \in Sessions : Busy(s)' => Busy(s)
         /\ \A s \in Sessions : \A b : Newest(s, b) => Newest(s, b)'
<1>1. /\ Len(queue) \in Nat \ {0} /\ DOMAIN queue = 1 .. Len(queue)
      /\ Head(queue) = queue[1] /\ queue[1].session \in Sessions
      /\ queue' \in Seq(Cmds) /\ DOMAIN queue' = 1 .. Len(queue) - 1
      /\ \A k \in 1 .. Len(queue) - 1 : queue'[k] = queue[k + 1]
  BY TailShift DEF QueueOK, Execute, Cmds
<1>2. \A k \in 1 .. Len(queue) - 1 : k + 1 \in 1 .. Len(queue)
  BY <1>1
<1>3. \A s \in Sessions : Busy(s)' => Busy(s)
  BY <1>1, <1>2 DEF Busy
<1>4. ASSUME NEW s \in Sessions, NEW k, LastOf(queue, s, k)
      PROVE  /\ k # 1 => LastOf(queue', s, k - 1) /\ queue'[k - 1] = queue[k]
             /\ k = 1 => ~Busy(s)' /\ staging'[s] = queue[k].batch
  <2>1. CASE k # 1
    BY <1>4, <2>1, TailLast DEF QueueOK, Execute
  <2>2. CASE k = 1
    <3>1. \A m \in 1 .. Len(queue) - 1 : queue'[m].session # s
      <4>. SUFFICES ASSUME NEW m \in 1 .. Len(queue) - 1, queue'[m].session = s
                    PROVE  FALSE
        OBVIOUS
      <4>1. m + 1 <= 1 /\ m \in Nat
        BY <1>1, <1>2, <1>4, <2>2 DEF LastOf
      <4>. QED BY <1>1, <4>1
    <3>2. staging'[s] = queue[1].batch
      BY <1>1, <1>4, <2>2 DEF Execute, LastOf
    <3>. QED BY <1>1, <2>2, <3>1, <3>2 DEF Busy
  <2>. QED BY <2>1, <2>2
<1>5. Lasts'
  <2>. SUFFICES ASSUME NEW s \in Sessions, Busy(s)'
                PROVE  \E k \in DOMAIN queue' : LastOf(queue', s, k)
    BY DEF Lasts
  <2>1. PICK k \in DOMAIN queue : LastOf(queue, s, k)
    BY <1>3 DEF QueueOK, Lasts
  <2>. QED BY <1>4, <2>1 DEF LastOf
<1>6. ASSUME NEW s \in Sessions, NEW b, Newest(s, b) PROVE Newest(s, b)'
  <2>1. CASE Busy(s)
    <3>1. PICK k \in DOMAIN queue : LastOf(queue, s, k) /\ queue[k].batch = b
      BY <1>6, <2>1 DEF Newest
    <3>2. CASE k # 1
      <4>1. LastOf(queue', s, k - 1) /\ queue'[k - 1].batch = b
        BY <1>4, <3>1, <3>2
      <4>. QED BY <4>1 DEF Newest, Busy, LastOf
    <3>3. CASE k = 1
      BY <1>4, <3>1, <3>3 DEF Newest
    <3>. QED BY <3>2, <3>3
  <2>2. CASE ~Busy(s)
    <3>1. queue[1].session # s
      BY <1>1, <2>2 DEF Busy
    <3>. QED BY <1>1, <1>3, <1>6, <2>2, <3>1 DEF Newest, Execute
  <2>. QED BY <2>1, <2>2
<1>. QED BY <1>1, <1>3, <1>5, <1>6 DEF QueueOK

-----------------------------------------------------------------------------
(* The invariant                                                           *)

\* A call returns an error or not, and a set of batches.
LEMMA ReturnTypes ==
  \A e \in BOOLEAN, p \in SUBSET (0..MaxBatches) :
    [err |-> e, pows |-> p] \in [err : BOOLEAN, pows : SUBSET (0..MaxBatches)]
OBVIOUS

LEMMA InvFacts ==
  ASSUME IInv
  PROVE  /\ QueueOK /\ Other \in Sessions /\ Other # cur /\ cur \in Sessions
         /\ \A s \in Sessions : s = cur \/ s = Other
BY TwoSessions DEF IInv, TypeOK, QueueOK, Cmds

\* The invariant holds at the start.
LEMMA InitInv == Init => IInv
<1>. SUFFICES ASSUME Init PROVE IInv
  OBVIOUS
<1>1. TypeOK
  <2>1. out \in [err : BOOLEAN, pows : SUBSET (0..MaxBatches)]
    BY ReturnTypes DEF Init
  <2>2. queue \in Seq([session : Sessions, batch : Batches])
    BY DEF Init
  <2>3. cur \in Sessions /\ staging \in [Sessions -> 0..MaxBatches]
    BY StreamAssumption DEF Init, Sessions
  <2>. QED BY <2>1, <2>2, <2>3, StreamAssumption, SMTT(30) DEF Init, TypeOK
<1>2. \A s \in Sessions : ~Busy(s)
  BY DEF Init, Busy
<1>3. Maps /\ Calls /\ Lasts /\ NoWedge /\ NoCopyIntoMapped
  BY <1>2 DEF Init, Maps, Calls, Collecting, Lasts, NoWedge, NoCopyIntoMapped, Sessions, Other
<1>. QED BY <1>1, <1>3 DEF IInv

\* The steps that begin a call touch neither maps nor queue.
LEMMA CallInv == ASSUME IInv, CallSubmit \/ CallDrain PROVE IInv'
<1>. USE DEF deviceVars
<1>1. UNCHANGED <<cur, have, saMapped, map, staging, queue, faults>> /\ Other' = Other
  BY DEF CallSubmit, CallDrain, Other
<1>2. /\ \A s \in Sessions : Busy(s)' <=> Busy(s)
      /\ Lasts' /\ NoCopyIntoMapped'
  BY <1>1 DEF IInv, Lasts, Busy, LastOf, NoCopyIntoMapped
<1>3. CASE CallSubmit
  <2>1. pc = "idle" /\ pc' = "compute" /\ op' = "submit" /\ n' = made + 1 /\ made' = made + 1
        /\ n' \in Batches /\ UNCHANGED out /\ faulted' = FALSE
    BY <1>3, StreamAssumption DEF CallSubmit, Batches, IInv, TypeOK
  <2>2. TypeOK'
    <3>1. n' \in 0..MaxBatches /\ made' \in 0..MaxBatches
      BY <2>1, StreamAssumption DEF Batches
    <3>. QED BY <1>1, <2>1, <3>1 DEF IInv, TypeOK
  <2>3. Maps' /\ Calls' /\ NoWedge'
    BY <1>1, <2>1 DEF IInv, Maps, Calls, Collecting, NoWedge
  <2>. QED BY <1>2, <2>2, <2>3 DEF IInv
<1>4. CASE CallDrain
  <2>1. pc = "idle" /\ op' = "drain" /\ faulted' = FALSE /\ UNCHANGED <<n, made>>
        /\ IF have THEN pc' = "collect" /\ UNCHANGED out
           ELSE pc' = "idle" /\ out' = [err |-> FALSE, pows |-> {}]
    BY <1>4 DEF CallDrain, Returns
  <2>2. TypeOK'
    <3>1. pc' \in {"idle", "collect"} /\ (out' = out \/ out' = [err |-> FALSE, pows |-> {}])
      BY <2>1
    <3>2. out' \in [err : BOOLEAN, pows : SUBSET (0..MaxBatches)]
      BY <3>1, ReturnTypes DEF IInv, TypeOK
    <3>. QED BY <1>1, <2>1, <3>1, <3>2 DEF IInv, TypeOK
  <2>3. Maps' /\ Calls' /\ NoWedge'
    BY <1>1, <2>1 DEF IInv, Maps, Calls, Collecting, NoWedge, TypeOK
  <2>. QED BY <1>2, <2>2, <2>3 DEF IInv
<1>. QED BY <1>3, <1>4

\* The session written next can always be unmapped.
LEMMA UnmapDoes ==
  ASSUME IInv, Unmap(cur)
  PROVE  /\ saMapped' \in [Sessions -> BOOLEAN] /\ ~saMapped'[cur] /\ saMapped'[Other] = saMapped[Other]
         /\ map' \in [Sessions -> {"unmapped", "pending", "mapped"}]
         /\ map'[cur] = "unmapped" /\ map'[Other] = map[Other]
<1>1. /\ saMapped \in [Sessions -> BOOLEAN] /\ cur \in Sessions /\ Other \in Sessions /\ cur # Other
      /\ map \in [Sessions -> {"unmapped", "pending", "mapped"}]
      /\ saMapped[cur] <=> map[cur] = "mapped"
      /\ map[cur] # "pending"
  BY InvFacts DEF IInv, TypeOK, Maps
<1>. QED BY <1>1 DEF Unmap

\* submitCompute, refused: the session stays unmapped, the fault is recorded.
LEMMA RefusedInv == ASSUME IInv, SubmitRefused PROVE IInv'
<1>. USE DEF callVars, faultVars
<1>1. /\ pc = "compute" /\ Unmap(cur) /\ Fault /\ pc' = "idle" /\ out' = [err |-> TRUE, pows |-> {}]
      /\ UNCHANGED <<cur, have, staging, queue, op, n, made>> /\ Other' = Other
  BY UnmapDoes DEF SubmitRefused, Returns, Other
<1>2. /\ saMapped' \in [Sessions -> BOOLEAN] /\ ~saMapped'[cur] /\ saMapped'[Other] = saMapped[Other]
      /\ map' \in [Sessions -> {"unmapped", "pending", "mapped"}]
      /\ map'[cur] = "unmapped" /\ map'[Other] = map[Other]
  BY <1>1, UnmapDoes
<1>3. TypeOK'
  BY <1>1, <1>2, StreamAssumption DEF IInv, TypeOK, Fault
<1>4. Maps'
  BY <1>1, <1>2, InvFacts DEF IInv, Maps
<1>5. Calls' /\ NoWedge'
  BY <1>1 DEF IInv, Calls, Collecting, NoWedge, Fault
<1>6. Lasts' /\ NoCopyIntoMapped'
  BY <1>1, <1>2, InvFacts DEF IInv, Lasts, LastOf, Busy, NoCopyIntoMapped
<1>. QED BY <1>3, <1>4, <1>5, <1>6 DEF IInv

\* submitCompute: the batch is now the newest of its session, which no longer
\* is mapped; the other session keeps its newest batch.
LEMMA ComputeInv ==
  ASSUME IInv, SubmitCompute, NEW c, c = cur, NEW o, o = Other, NEW m, m = n
  PROVE  /\ IInv' /\ Newest(c, m)'
         /\ \A b : Newest(o, b)' <=> Newest(o, b)
<1>. USE DEF callVars, faultVars
<1>1. /\ pc = "compute" /\ op = "submit" /\ n \in Batches /\ Unmap(cur)
      /\ queue' = Append(queue, [session |-> c, batch |-> m])
      /\ UNCHANGED <<staging, op, n, made, faults, faulted>>
      /\ IF have THEN pc' = "collect" /\ UNCHANGED <<cur, have, out>>
         ELSE pc' = "idle" /\ out' = [err |-> FALSE, pows |-> {}] /\ have' = TRUE /\ cur' = Other
  BY DEF SubmitCompute, Returns, Flip, IInv, Calls
<1>2. /\ saMapped' \in [Sessions -> BOOLEAN] /\ ~saMapped'[cur] /\ saMapped'[Other] = saMapped[Other]
      /\ map' \in [Sessions -> {"unmapped", "pending", "mapped"}]
      /\ map'[cur] = "unmapped" /\ map'[Other] = map[Other]
  BY <1>1, UnmapDoes
<1>3. [session |-> c, batch |-> m] \in Cmds /\ o \in Sessions /\ o # c /\ QueueOK
  BY <1>1, InvFacts DEF Cmds
<1>4. /\ QueueOK' /\ Newest(c, m)' /\ (Busy(o)' <=> Busy(o))
      /\ \A b : Newest(o, b)' <=> Newest(o, b)
  BY <1>1, <1>3, AppendNewest
<1>5. TypeOK'
  <2>1. /\ out' = out \/ out' = [err |-> FALSE, pows |-> {}]
        /\ cur' \in Sessions /\ have' \in BOOLEAN /\ pc' \in {"collect", "idle"}
    BY <1>1, <1>3 DEF IInv, TypeOK
  <2>2. out' \in [err : BOOLEAN, pows : SUBSET (0..MaxBatches)]
    BY <2>1, ReturnTypes DEF IInv, TypeOK
  <2>3. queue' \in Seq([session : Sessions, batch : Batches])
    BY <1>4 DEF QueueOK, Cmds
  <2>. QED BY <1>1, <1>2, <2>1, <2>2, <2>3 DEF IInv, TypeOK
<1>6. Maps' /\ Calls' /\ NoWedge'
  <2>1. CASE have
    <3>1. Other' = Other
      BY <1>1, <2>1 DEF Other
    <3>2. Maps'
      BY <1>1, <1>2, <2>1, <3>1, InvFacts DEF IInv, Maps
    <3>3. Calls' /\ NoWedge'
      BY <1>1, <1>2, <1>4, <2>1 DEF IInv, Calls, Collecting, NoWedge
    <3>. QED BY <3>2, <3>3
  <2>2. CASE ~have
    <3>1. cur' = o /\ Other' = c
      BY <1>1, <2>2, InvFacts DEF Other, Sessions
    <3>2. Maps'
      BY <1>1, <1>2, <1>3, <2>2, <3>1, InvFacts DEF IInv, Maps
    <3>3. Calls' /\ NoWedge'
      BY <1>1, <2>2 DEF Calls, Collecting, NoWedge
    <3>. QED BY <3>2, <3>3
  <2>. QED BY <2>1, <2>2
<1>7. NoCopyIntoMapped'
  BY <1>1, <1>2, <1>3, <1>4, InvFacts DEF IInv, NoCopyIntoMapped
<1>. QED BY <1>4, <1>5, <1>6, <1>7 DEF IInv, QueueOK

\* A map is asked for, or collect fails: the session being collected ends up
\* pending, or unmapped with the fault recorded.
LEMMA CollectInv == ASSUME IInv, MapAsync \/ CollectFail PROVE IInv'
<1>. USE DEF callVars, faultVars
<1>1. UNCHANGED <<cur, have, staging, queue, op, n, made>> /\ Other' = Other
  BY DEF MapAsync, CollectFail, Other
<1>2. /\ \A s \in Sessions : Busy(s)' <=> Busy(s)
      /\ Lasts' /\ \A b : Newest(cur, b) => Newest(cur, b)'
  BY <1>1 DEF IInv, Lasts, Busy, LastOf, Newest
<1>3. /\ saMapped \in [Sessions -> BOOLEAN] /\ map \in [Sessions -> {"unmapped", "pending", "mapped"}]
      /\ Collecting => have
  BY DEF IInv, TypeOK, Calls
<1>4. CASE MapAsync
  <2>1. /\ pc = "collect" /\ pc' = "wait" /\ map[Other] = "unmapped"
        /\ map' = [map EXCEPT ![Other] = "pending"] /\ UNCHANGED <<saMapped, faults, faulted, out>>
    BY <1>4 DEF MapAsync
  <2>2. TypeOK'
    BY <1>1, <2>1 DEF IInv, TypeOK
  <2>3. Maps' /\ NoCopyIntoMapped'
    BY <1>1, <1>2, <1>3, <2>1, InvFacts DEF IInv, Maps, NoCopyIntoMapped
  <2>4. Calls' /\ NoWedge'
    BY <1>1, <1>2, <1>3, <2>1, InvFacts DEF IInv, Calls, Collecting, NoWedge
  <2>. QED BY <1>2, <2>2, <2>3, <2>4 DEF IInv
<1>5. CASE CollectFail
  <2>1. /\ pc \in {"collect", "wait"} /\ pc' = "idle" /\ out' = [err |-> TRUE, pows |-> {}]
        /\ map' = [map EXCEPT ![Other] = "unmapped"]
        /\ saMapped' = [saMapped EXCEPT ![Other] = FALSE]
        /\ Fault
    BY <1>3, <1>5 DEF CollectFail, Abort, Returns, IInv, Maps, Collecting
  <2>2. TypeOK'
    <3>1. faults' \in 0..MaxFaults /\ faulted' = TRUE
      BY <2>1, StreamAssumption DEF Fault, IInv, TypeOK
    <3>2. out' \in [err : BOOLEAN, pows : SUBSET (0..MaxBatches)]
      BY <2>1, ReturnTypes
    <3>. QED BY <1>1, <2>1, <3>1, <3>2 DEF IInv, TypeOK
  <2>3. Maps' /\ NoCopyIntoMapped'
    BY <1>1, <1>2, <1>3, <2>1, InvFacts DEF IInv, Maps, NoCopyIntoMapped
  <2>4. Calls' /\ NoWedge'
    BY <1>1, <2>1 DEF IInv, Calls, Collecting, NoWedge, Fault
  <2>. QED BY <1>2, <2>2, <2>3, <2>4 DEF IInv
<1>. QED BY <1>4, <1>5

\* The map is there: the device is done with the buffer.
LEMMA MapDoneInv == ASSUME IInv, MapDone PROVE IInv'
<1>. USE DEF callVars, faultVars
<1>1. /\ UNCHANGED <<cur, have, staging, queue, op, n, made, faults, faulted, out>>
      /\ Other' = Other /\ pc = "wait" /\ pc' = "hash" /\ ~Busy(Other)
      /\ map' = [map EXCEPT ![Other] = "mapped"]
      /\ saMapped' = [saMapped EXCEPT ![Other] = TRUE]
  BY DEF MapDone, Resolved, Other
<1>2. /\ \A s \in Sessions : Busy(s)' <=> Busy(s)
      /\ Lasts' /\ \A b : Newest(cur, b) => Newest(cur, b)'
  BY <1>1 DEF IInv, Lasts, Busy, LastOf, Newest
<1>3. saMapped \in [Sessions -> BOOLEAN] /\ map \in [Sessions -> {"unmapped", "pending", "mapped"}]
  BY DEF IInv, TypeOK
<1>4. TypeOK'
  BY <1>1 DEF IInv, TypeOK
<1>5. Maps' /\ NoCopyIntoMapped'
  BY <1>1, <1>2, <1>3, InvFacts DEF IInv, Maps, NoCopyIntoMapped
<1>6. Calls' /\ NoWedge'
  BY <1>1, <1>2, <1>3, InvFacts DEF IInv, Calls, Collecting, NoWedge
<1>. QED BY <1>2, <1>4, <1>5, <1>6 DEF IInv

\* The hashes are returned: the session just submitted, if any, is the next to
\* be collected, and it is unmapped.
LEMMA HashInv == ASSUME IInv, Hash PROVE IInv'
<1>. USE DEF callVars, faultVars, deviceVars
<1>1. /\ UNCHANGED <<saMapped, map, staging, queue, op, n, made, faults, faulted>>
      /\ pc = "hash" /\ pc' = "idle" /\ out' = [err |-> FALSE, pows |-> {staging[Other]}]
      /\ have' = (op = "submit") /\ cur' = IF op = "submit" THEN Other ELSE cur
  BY DEF Hash, Returns, Flip
<1>2. /\ \A s \in Sessions : Busy(s)' <=> Busy(s)
      /\ Lasts' /\ NoCopyIntoMapped'
  BY <1>1 DEF IInv, Lasts, Busy, LastOf, NoCopyIntoMapped
<1>3. TypeOK'
  <2>1. staging[Other] \in 0..MaxBatches /\ cur' \in Sessions /\ have' \in BOOLEAN
    BY <1>1, InvFacts DEF IInv, TypeOK
  <2>2. out' \in [err : BOOLEAN, pows : SUBSET (0..MaxBatches)]
    BY <1>1, <2>1, ReturnTypes
  <2>. QED BY <1>1, <2>1, <2>2 DEF IInv, TypeOK
<1>4. Other' = IF op = "submit" THEN cur ELSE Other
  BY <1>1, InvFacts DEF Other, Sessions
<1>5. Maps'
  BY <1>1, <1>4, InvFacts DEF IInv, Maps, Calls, Collecting
<1>6. Calls' /\ NoWedge'
  BY <1>1 DEF Calls, Collecting, NoWedge
<1>. QED BY <1>2, <1>3, <1>5, <1>6 DEF IInv

\* The device works: no staging buffer's newest batch changes.
LEMMA ExecuteInv == ASSUME IInv, Execute PROVE IInv'
<1>. USE DEF callVars, faultVars
<1>1. /\ UNCHANGED <<cur, have, saMapped, map, pc, op, n, made, faults, faulted, out>>
      /\ Other' = Other
  BY DEF Execute, Other
<1>2. /\ QueueOK' /\ \A s \in Sessions : Busy(s)' => Busy(s)
      /\ \A s \in Sessions : \A b : Newest(s, b) => Newest(s, b)'
  BY ExecuteNewest, InvFacts DEF IInv, TypeOK
<1>3. TypeOK'
  <2>1. Head(queue) \in [session : Sessions, batch : Batches]
    BY TailShift, InvFacts DEF Execute, QueueOK, Cmds
  <2>2. staging' \in [Sessions -> 0..MaxBatches]
    BY <2>1, StreamAssumption DEF Execute, IInv, TypeOK, Batches
  <2>3. queue' \in Seq([session : Sessions, batch : Batches])
    BY <1>2 DEF QueueOK, Cmds
  <2>. QED BY <1>1, <2>2, <2>3 DEF IInv, TypeOK
<1>4. Maps' /\ NoWedge' /\ NoCopyIntoMapped'
  BY <1>1, <1>2 DEF IInv, Maps, NoWedge, NoCopyIntoMapped
<1>5. Calls'
  BY <1>1, <1>2, InvFacts DEF IInv, Calls, Collecting
<1>. QED BY <1>2, <1>3, <1>4, <1>5 DEF IInv, QueueOK

\* Every step keeps the invariant.
LEMMA StepInv == IInv /\ [Next]_vars => IInv'
<1>. SUFFICES ASSUME IInv, [Next]_vars PROVE IInv'
  OBVIOUS
<1>1. CASE CallSubmit \/ CallDrain
  BY <1>1, CallInv
<1>2. CASE SubmitCompute
  BY <1>2, ComputeInv
<1>3. CASE SubmitRefused
  BY <1>3, RefusedInv
<1>4. CASE MapAsync \/ CollectFail
  BY <1>4, CollectInv
<1>5. CASE MapDone
  BY <1>5, MapDoneInv
<1>6. CASE Hash
  BY <1>6, HashInv
<1>7. CASE Execute
  BY <1>7, ExecuteInv
<1>8. CASE UNCHANGED vars
  BY <1>8 DEF vars, deviceVars, callVars, faultVars, IInv, TypeOK, Maps, Calls, Collecting,
        Lasts, LastOf, Newest, Busy, NoWedge, NoCopyIntoMapped, Other
<1>. QED BY <1>1, <1>2, <1>3, <1>4, <1>5, <1>6, <1>7, <1>8 DEF Next, Caller

LEMMA Invariance == Spec => []IInv
BY InitInv, StepInv, PTL DEF Spec

\* No call fails without a fault of its own, no command that writes a mapped
\* staging buffer is ever queued, and every buffer is in one of its states
\* (fused.go submitCompute, collect).
THEOREM BuffersAreSafe == Spec => []BuffersSafe
<1>1. IInv => BuffersSafe
  BY DEF IInv, BuffersSafe
<1>. QED BY <1>1, Invariance, PTL

-----------------------------------------------------------------------------
(* The refinement                                                          *)

\* In flight is the newest batch of the session not written next, if any.
InFlightIsNewest ==
  IInv => /\ have => \E b : Newest(Other, b)
          /\ \A b : have /\ Newest(Other, b) => InFlight = {b}
          /\ ~have => InFlight = {}

LEMMA MapsToNewest == InFlightIsNewest
BY InvFacts, NewestExists, InFlightIs DEF InFlight, InFlightIsNewest

LEMMA MapsToNewestNext == InFlightIsNewest'
BY MapsToNewest, PTL

\* A step that leaves the session in flight and its newest batch alone.
LEMMA InFlightKept ==
  ASSUME IInv, IInv', UNCHANGED have, NEW o, o = Other, o = Other',
         \A b : Newest(o, b) => Newest(o, b)'
  PROVE  InFlight' = InFlight
<1>1. CASE have
  <2>1. PICK b : Newest(o, b)
    BY <1>1, MapsToNewest DEF InFlightIsNewest
  <2>2. InFlight = {b}
    BY <1>1, <2>1, MapsToNewest DEF InFlightIsNewest
  <2>3. Newest(o, b)'
    BY <2>1
  <2>4. have' /\ Newest(Other, b)'
    BY <1>1, <2>3 DEF Newest, Busy
  <2>5. InFlight' = {b}
    BY <2>4, MapsToNewestNext DEF InFlightIsNewest
  <2>. QED BY <2>2, <2>5
<1>2. CASE ~have
  BY <1>2 DEF InFlight
<1>. QED BY <1>1, <1>2

\* Steps that leave handle, queue and staging buffers alone.
LEMMA QuietKept ==
  ASSUME IInv, IInv', UNCHANGED <<cur, have, queue, staging>>
  PROVE  InFlight' = InFlight
<1>1. Other' = Other /\ \A o, b : Newest(o, b) => Newest(o, b)'
  BY DEF Other, Newest, Busy, LastOf
<1>. QED BY <1>1, InFlightKept

LEMMA RefinesInit == Init => Pipe!StreamInit
BY DEF Init, InFlight, Pipe!StreamInit, Pipe!None

\* A call that fails leaves the pipe as it was.
LEMMA FailRefines ==
  ASSUME IInv, IInv', SubmitRefused \/ CollectFail
  PROVE  Pipe!Refused
<1>1. UNCHANGED <<cur, have, queue, staging>> /\ out' = [err |-> TRUE, pows |-> {}]
  BY DEF SubmitRefused, CollectFail, Returns
<1>. QED BY <1>1, QuietKept DEF Pipe!Refused, Pipe!None

\* The first Submit of an empty pipe is accepted with its submission.
LEMMA ComputeRefines ==
  ASSUME IInv, IInv', SubmitCompute
  PROVE  Pipe!StreamNext \/ UNCHANGED <<InFlight, out>>
<1>. USE DEF callVars, faultVars
<1>1. PICK c, o, m : c = cur /\ o = Other /\ m = n
  OBVIOUS
<1>2. Newest(c, m)' /\ \A b : Newest(o, b)' <=> Newest(o, b)
  BY <1>1, ComputeInv
<1>3. CASE have
  <2>1. UNCHANGED <<cur, have, out>> /\ Other' = Other
    BY <1>3 DEF SubmitCompute, Other
  <2>. QED BY <1>1, <1>2, <2>1, InFlightKept
<1>4. CASE ~have
  <2>1. /\ op = "submit" /\ m \in Batches /\ have' /\ cur' = o
        /\ out' = [err |-> FALSE, pows |-> {}]
    BY <1>1, <1>4 DEF SubmitCompute, Returns, Flip, IInv, Calls
  <2>2. Other' = c
    BY <1>1, <2>1, InvFacts DEF Other, Sessions
  <2>3. Newest(Other, m)'
    BY <1>2, <2>2 DEF Newest, Busy
  <2>4. InFlight' = {m}
    BY <2>1, <2>3, MapsToNewestNext DEF InFlightIsNewest
  <2>5. Pipe!Submitted(m)
    BY <1>4, <2>1, <2>4 DEF Pipe!Submitted, InFlight
  <2>. QED BY <2>1, <2>5 DEF Pipe!StreamNext
<1>. QED BY <1>3, <1>4

\* The hashes returned are those in flight; the batch just submitted, if any,
\* is now.
LEMMA HashRefines == ASSUME IInv, IInv', Hash PROVE Pipe!StreamNext
<1>. USE DEF callVars, faultVars, deviceVars
<1>1. /\ UNCHANGED <<map, staging, queue, op, n>>
      /\ pc = "hash" /\ out' = [err |-> FALSE, pows |-> {staging[Other]}]
      /\ have' = (op = "submit") /\ cur' = IF op = "submit" THEN Other ELSE cur
  BY DEF Hash, Returns, Flip
<1>2. have /\ map[Other] = "mapped" /\ ~Busy(Other)
  BY <1>1, InvFacts DEF IInv, Calls, Collecting, Maps, NoCopyIntoMapped
<1>3. out'.pows = InFlight
  BY <1>1, <1>2 DEF InFlight
<1>4. CASE op = "submit"
  <2>1. PICK c, m : c = cur /\ m = n
    OBVIOUS
  <2>2. m \in Batches /\ Newest(c, m)
    BY <1>1, <1>4, <2>1 DEF IInv, Calls, Collecting
  <2>3. have'
    BY <1>1, <1>4
  <2>4. Other' = c
    BY <1>1, <1>4, <2>1, InvFacts DEF Other, Sessions
  <2>5. Newest(Other, m)'
    BY <1>1, <2>2, <2>4 DEF Newest, Busy
  <2>6. InFlight' = {m}
    BY <2>3, <2>5, MapsToNewestNext DEF InFlightIsNewest
  <2>. QED BY <1>1, <1>3, <2>2, <2>6 DEF Pipe!StreamNext, Pipe!Submitted
<1>5. CASE op # "submit"
  BY <1>1, <1>3, <1>5 DEF Pipe!StreamNext, Pipe!Drained, Pipe!None, InFlight
<1>. QED BY <1>4, <1>5

\* Every step of the streamer is a step of the pipe or leaves it alone.
LEMMA RefinesStep == IInv /\ IInv' /\ [Next]_vars => [Pipe!StreamNext]_<<InFlight, out>>
<1>. SUFFICES ASSUME IInv, IInv', [Next]_vars
              PROVE  Pipe!StreamNext \/ UNCHANGED <<InFlight, out>>
  OBVIOUS
<1>. USE DEF callVars, faultVars, deviceVars
<1>1. CASE CallSubmit \/ MapAsync \/ MapDone \/ UNCHANGED vars
  BY <1>1, QuietKept DEF CallSubmit, MapAsync, MapDone, vars
<1>2. CASE CallDrain
  <2>1. UNCHANGED <<cur, have, queue, staging>>
    BY <1>2 DEF CallDrain
  <2>2. CASE have
    BY <1>2, <2>1, <2>2, QuietKept DEF CallDrain
  <2>3. CASE ~have
    <3>1. out' = [err |-> FALSE, pows |-> {}] /\ InFlight = {} /\ InFlight' = {}
      BY <1>2, <2>1, <2>3 DEF CallDrain, Returns, InFlight
    <3>. QED BY <3>1 DEF Pipe!StreamNext, Pipe!Drained, Pipe!None
  <2>. QED BY <2>2, <2>3
<1>3. CASE SubmitCompute
  BY <1>3, ComputeRefines
<1>4. CASE SubmitRefused \/ CollectFail
  BY <1>4, FailRefines DEF Pipe!StreamNext
<1>5. CASE Hash
  BY <1>5, HashRefines
<1>6. CASE Execute
  <2>1. PICK o : o = Other
    OBVIOUS
  <2>2. UNCHANGED <<have, out>> /\ Other' = Other
    BY <1>6 DEF Execute, Other
  <2>3. \A b : Newest(o, b) => Newest(o, b)'
    BY <1>6, <2>1, ExecuteNewest, InvFacts DEF IInv, TypeOK
  <2>. QED BY <2>1, <2>2, <2>3, InFlightKept
<1>. QED BY <1>1, <1>2, <1>3, <1>4, <1>5, <1>6 DEF Next, Caller

\* The WGSL streamer is a pipe one batch deep: what Submit and Drain return is
\* the batch accepted before, whole and in order, whatever calls failed
\* (pipeline.go 261-306).
THEOREM Refinement == Spec => ImplementsStreamer
BY Invariance, RefinesInit, RefinesStep, PTL DEF Spec, ImplementsStreamer, Pipe!StreamSpec

-----------------------------------------------------------------------------
(* The kernel.  Counting by induction.                                     *)

Less == {ss \in Nat \X Nat : ss[1] < ss[2]}

\* A set with 0 that holds the successor of each member holds every number.
LEMMA Inductive ==
  ASSUME NEW S, 0 \in S, \A k \in Nat : k \in S => k + 1 \in S
  PROVE  Nat \subseteq S
  <1> SUFFICES ASSUME Nat \ S # {} PROVE FALSE
    OBVIOUS
  <1>1. IsWellFoundedOn(Less, Nat)
    BY NatLessThanWellFounded DEF OpToRel, Less
  <1>2. PICK x \in Nat \ S : \A y \in Nat \ S : ~(<<y, x>> \in Less)
    <2>1. Nat \ S \subseteq Nat
      OBVIOUS
    <2> HIDE DEF Less
    <2>. QED BY <1>1, <2>1, WFMin
  <1>3. x # 0 /\ x - 1 \in Nat
    OBVIOUS
  <1>4. <<x - 1, x>> \in Less
    BY <1>3 DEF Less
  <1>5. x - 1 \in S
    BY <1>2, <1>3, <1>4
  <1>. QED BY <1>3, <1>5

\* Sets of suffixes, slots and lanes are finite.
LEMMA Counts ==
  ASSUME NEW l \in Nat, NEW S \in SUBSET (0 .. l - 1)
  PROVE  /\ IsFiniteSet(S) /\ Cardinality(S) \in 0 .. l
         /\ Cardinality(0 .. l - 1) = l
         /\ Cardinality(S) = l => S = 0 .. l - 1
  <1>1. 0 \in Int /\ l - 1 \in Int
    OBVIOUS
  <1>2. IsFiniteSet(0 .. l - 1) /\ Cardinality(0 .. l - 1) = l
    <2>1. IsFiniteSet(0 .. l - 1) /\ Cardinality(0 .. l - 1) = IF 0 > l - 1 THEN 0 ELSE l - 1 - 0 + 1
      BY <1>1, FS_Interval
    <2>. QED BY <2>1
  <1>3. IsFiniteSet(S) /\ Cardinality(S) <= Cardinality(0 .. l - 1)
        /\ (Cardinality(0 .. l - 1) = Cardinality(S) => 0 .. l - 1 = S)
    BY <1>2, FS_Subset
  <1>4. Cardinality(S) \in Nat
    BY <1>3, FS_CardinalityType
  <1>. QED BY <1>2, <1>3, <1>4

\* A part is smaller than the whole.
LEMMA CountPart ==
  ASSUME NEW l \in Nat, NEW S \in SUBSET (0 .. l - 1), NEW R \in SUBSET S
  PROVE  /\ Cardinality(R) <= Cardinality(S)
         /\ R # S => Cardinality(R) < Cardinality(S)
  <1>1. IsFiniteSet(S) /\ Cardinality(S) \in Nat /\ Cardinality(R) \in Nat
    <2>1. R \in SUBSET (0 .. l - 1)
      OBVIOUS
    <2>. QED BY <2>1, Counts
  <1>2. Cardinality(R) <= Cardinality(S) /\ (Cardinality(S) = Cardinality(R) => S = R)
    BY <1>1, FS_Subset
  <1>. QED BY <1>1, <1>2

\* Parts that do not meet add up.
LEMMA CountSum ==
  ASSUME NEW l \in Nat, NEW S \in SUBSET (0 .. l - 1), NEW R \in SUBSET (0 .. l - 1), S \cap R = {}
  PROVE  Cardinality(S \cup R) = Cardinality(S) + Cardinality(R)
  <1>1. IsFiniteSet(S) /\ IsFiniteSet(R) /\ Cardinality(S) \in Nat /\ Cardinality(R) \in Nat
    BY Counts
  <1>2. Cardinality(S \cup R) = Cardinality(S) + Cardinality(R) - Cardinality(S \cap R)
    BY <1>1, FS_Union
  <1>3. Cardinality(S \cap R) = 0
    BY FS_EmptySet
  <1>. QED BY <1>1, <1>2, <1>3

\* One more.
LEMMA CountOne ==
  ASSUME NEW l \in Nat, NEW S \in SUBSET (0 .. l - 1), NEW x \in 0 .. l - 1, x \notin S
  PROVE  Cardinality(S \cup {x}) = Cardinality(S) + 1
  <1>1. IsFiniteSet(S)
    BY Counts
  <1>. QED BY <1>1, FS_AddElement

\* A shift changes no count.
LEMMA CountShift ==
  ASSUME NEW l \in Nat, NEW S \in SUBSET (0 .. l - 1), NEW k \in Nat
  PROVE  Cardinality({x + k : x \in S}) = Cardinality(S)
  <1> DEFINE T == {x + k : x \in S}
  <1> DEFINE f == [x \in S |-> x + k]
  <1>1. IsFiniteSet(S)
    BY Counts
  <1>2. f \in Bijection(S, T)
    <2>1. f \in [S -> T]
      OBVIOUS
    <2>2. \A x, y \in S : f[x] = f[y] => x = y
      OBVIOUS
    <2>3. \A z \in T : \E x \in S : f[x] = z
      OBVIOUS
    <2> HIDE DEF f, T
    <2>. QED BY <2>1, <2>2, <2>3 DEF Bijection, Injection, Surjection, IsInjective
  <1>3. ExistsBijection(S, T)
    BY <1>2 DEF ExistsBijection
  <1>. QED BY <1>1, <1>3, FS_Bijection

\* What is one to one on 0 .. l - 1 reaches all of it.
Injects(f, l) == /\ f \in [0 .. l - 1 -> 0 .. l - 1]
                 /\ \A i, j \in 0 .. l - 1 : f[i] = f[j] => i = j

\* An injection of the slots into the suffixes misses none of them,
LEMMA Reaches ==
  ASSUME NEW l \in Nat, NEW f, Injects(f, l), NEW x \in 0 .. l - 1
  PROVE  \E i \in 0 .. l - 1 : f[i] = x
  <1> DEFINE I == 0 .. l - 1
  <1>1. IsFiniteSet(I)
    BY Counts
  <1> HIDE DEF I
  <1>2. f \in Injection(I, I)
    BY DEF Injects, I, Injection, IsInjective
  <1>3. f \in Surjection(I, I)
    BY <1>1, <1>2, FS_Injection
  <1>. QED BY <1>3 DEF Surjection, I

Onto(f, l) == \A x \in 0 .. l - 1 : \E i \in 0 .. l - 1 : f[i] = x

\* that is, it is onto.
LEMMA ReachesAll ==
  ASSUME NEW l \in Nat, NEW f, Injects(f, l)
  PROVE  Onto(f, l)
  <1> SUFFICES ASSUME NEW x \in 0 .. l - 1 PROVE \E i \in 0 .. l - 1 : f[i] = x
    BY DEF Onto
  <1>. QED BY Reaches

\* A workgroup has two lanes at least.
LEMMA WGIs == WG \in Nat \ {0, 1}
  BY KernelAssumption DEF Kernel!SaGpuAssumption

\* Where a counting sort puts slot i, if slot j has digit g[j]: behind the slots
\* of smaller digits and those of its own digit before it.
Ahead(g, j, i) == g[j] < g[i] \/ (g[j] = g[i] /\ j < i)
Prec(g, l, i) == {j \in 0 .. l - 1 : Ahead(g, j, i)}
Pos(g, l, i) == Cardinality(Prec(g, l, i))

\* Positions are slots, all different, and in the order of digit and slot.
LEMMA PosOrder ==
  ASSUME NEW l \in Nat, NEW g \in [0 .. l - 1 -> Kernel!Lanes], NEW i \in 0 .. l - 1, NEW j \in 0 .. l - 1
  PROVE  /\ Pos(g, l, i) \in 0 .. l - 1
         /\ Ahead(g, j, i) => Pos(g, l, j) < Pos(g, l, i)
         /\ Pos(g, l, j) < Pos(g, l, i) => Ahead(g, j, i)
         /\ Pos(g, l, j) = Pos(g, l, i) => j = i
  <1> DEFINE I == 0 .. l - 1
  <1>1. \A x \in I : g[x] \in Int /\ x \in Int
    BY DEF Kernel!Lanes
  <1>2. ASSUME NEW x \in I, NEW y \in I, Ahead(g, x, y) PROVE Pos(g, l, x) < Pos(g, l, y)
    <2>1. Prec(g, l, x) \subseteq Prec(g, l, y)
      BY <1>1, <1>2 DEF Prec, Ahead
    <2>2. x \in Prec(g, l, y) /\ x \notin Prec(g, l, x)
      BY <1>1, <1>2 DEF Prec, Ahead
    <2>3. Prec(g, l, y) \in SUBSET (0 .. l - 1)
      BY DEF Prec
    <2>. QED BY <2>1, <2>2, <2>3, CountPart DEF Pos
  <1>3. \A x \in I : Pos(g, l, x) \in 0 .. l - 1
    <2> SUFFICES ASSUME NEW x \in I PROVE Pos(g, l, x) \in 0 .. l - 1
      OBVIOUS
    <2>1. Prec(g, l, x) \in SUBSET (0 .. l - 1) /\ x \notin Prec(g, l, x)
      BY <1>1 DEF Prec, Ahead
    <2>2. Cardinality(Prec(g, l, x)) \in 0 .. l /\ Cardinality(Prec(g, l, x)) # l
      BY <2>1, Counts
    <2>. QED BY <2>2 DEF Pos
  <1>4. Ahead(g, j, i) \/ Ahead(g, i, j) \/ i = j
    BY <1>1 DEF Ahead
  <1>. QED BY <1>2, <1>3, <1>4

\* What the sort makes of slots A: again all of them, in the order of digits,
\* and of slots within a digit.
Moved(a, b, g, l) == \A i \in 0 .. l - 1 : b[Pos(g, l, i)] = a[i]
Keeps(a, b, g, l) ==
  \A x, y \in 0 .. l - 1 : x < y =>
    \E i, j \in 0 .. l - 1 : a[i] = b[x] /\ a[j] = b[y] /\ Ahead(g, i, j)

\* A stable pass moves every suffix once, and keeps the order within a digit.
LEMMA MovedIs ==
  ASSUME NEW l \in Nat, NEW g \in [0 .. l - 1 -> Kernel!Lanes], NEW a, Injects(a, l),
         NEW b \in [0 .. l - 1 -> 0 .. l - 1], Moved(a, b, g, l)
  PROVE  Injects(b, l) /\ Keeps(a, b, g, l)
  <1> DEFINE I == 0 .. l - 1
  <1> DEFINE f == [i \in I |-> Pos(g, l, i)]
  <1>1. Injects(f, l)
    <2>1. \A i \in I : Pos(g, l, i) \in I
      BY PosOrder
    <2>2. \A i, j \in I : Pos(g, l, i) = Pos(g, l, j) => i = j
      BY PosOrder
    <2>. QED BY <2>1, <2>2 DEF Injects
  <1>2. \A x \in I : \E i \in I : Pos(g, l, i) = x
    <2>1. \A x \in I : \E i \in I : f[i] = x
      <3> HIDE DEF f
      <3>. QED BY <1>1, Reaches, ZenonT(40)
    <2>. QED BY <2>1
  <1>3. \A x \in I : \E i \in I : Pos(g, l, i) = x /\ b[x] = a[i]
    BY <1>2 DEF Moved
  <1>4. \A x, y \in I : b[x] = b[y] => x = y
    BY <1>3 DEF Injects
  <1>5. ASSUME NEW x \in I, NEW y \in I, x < y
        PROVE  \E i, j \in I : a[i] = b[x] /\ a[j] = b[y] /\ Ahead(g, i, j)
    <2>1. PICK i \in I : Pos(g, l, i) = x /\ b[x] = a[i]
      BY <1>3
    <2>2. PICK j \in I : Pos(g, l, j) = y /\ b[y] = a[j]
      BY <1>3
    <2>3. Ahead(g, i, j)
      BY <1>5, <2>1, <2>2, PosOrder
    <2>. QED BY <2>1, <2>2, <2>3
  <1>. QED BY <1>4, <1>5 DEF Injects, Keeps

-----------------------------------------------------------------------------
\* Digits of a rank, and orders by the first digits, the least significant
\* first, where pr says what came before.

By0(pr, x, y) == pr[x] <= pr[y]
By1(key, pr, x, y) == Kernel!Digit(key[x], 0) < Kernel!Digit(key[y], 0)
    \/ (Kernel!Digit(key[x], 0) = Kernel!Digit(key[y], 0) /\ By0(pr, x, y))
By2(key, pr, x, y) == Kernel!Digit(key[x], 1) < Kernel!Digit(key[y], 1)
    \/ (Kernel!Digit(key[x], 1) = Kernel!Digit(key[y], 1) /\ By1(key, pr, x, y))
By3(key, pr, x, y) == Kernel!Digit(key[x], 2) < Kernel!Digit(key[y], 2)
    \/ (Kernel!Digit(key[x], 2) = Kernel!Digit(key[y], 2) /\ By2(key, pr, x, y))
ByFirst(p, key, pr, x, y) ==
  CASE p = 0 -> By0(pr, x, y) [] p = 1 -> By1(key, pr, x, y)
    [] p = 2 -> By2(key, pr, x, y) [] p = 3 -> By3(key, pr, x, y)

\* One more pass compares one more digit before the others.
LEMMA ByNext ==
  ASSUME NEW p \in 0 .. 2, NEW key, NEW pr, NEW x, NEW y
  PROVE  ByFirst(p + 1, key, pr, x, y) =
           (Kernel!Digit(key[x], p) < Kernel!Digit(key[y], p)
              \/ (Kernel!Digit(key[x], p) = Kernel!Digit(key[y], p) /\ ByFirst(p, key, pr, x, y)))
  <1>1. CASE p = 0
    BY <1>1 DEF ByFirst, By1
  <1>2. CASE p = 1
    BY <1>2 DEF ByFirst, By2
  <1>3. CASE p = 2
    BY <1>3 DEF ByFirst, By3
  <1>. QED BY <1>1, <1>2, <1>3

\* Slots a hold every suffix, in that order.
Ordered(a, l, p, key, pr) ==
  /\ Injects(a, l)
  /\ \A i, j \in 0 .. l - 1 : i < j => ByFirst(p, key, pr, a[i], a[j])

\* A digit is one of the kernel's lanes.
LEMMA DigIs == ASSUME NEW v \in Nat, NEW p \in 0 .. 2 PROVE Kernel!Digit(v, p) \in Kernel!Lanes
  <1>1. Kernel!Weight(p) \in Nat \ {0}
    BY WGIs DEF Kernel!Weight
  <1>2. v \div Kernel!Weight(p) \in Nat
    BY <1>1
  <1>. QED BY <1>2, WGIs DEF Kernel!Digit, Kernel!Lanes

\* A pass orders by one digit more.
LEMMA PassOrders ==
  ASSUME NEW l \in Nat, NEW p \in 0 .. 2, NEW key, NEW pr,
         \A x \in 0 .. l - 1 : key[x] \in Nat,
         NEW a, Ordered(a, l, p, key, pr),
         NEW b \in [0 .. l - 1 -> 0 .. l - 1],
         NEW g, g = [i \in 0 .. l - 1 |-> Kernel!Digit(key[a[i]], p)], Moved(a, b, g, l)
  PROVE  Ordered(b, l, p + 1, key, pr)
  <1> DEFINE I == 0 .. l - 1
  <1>1. a \in [I -> I] /\ Injects(a, l)
    BY DEF Ordered, Injects
  <1>2. g \in [I -> Kernel!Lanes]
    BY <1>1, DigIs
  <1>3. Injects(b, l)
    BY <1>1, <1>2, MovedIs
  <1>4. ASSUME NEW x \in I, NEW y \in I, x < y PROVE ByFirst(p + 1, key, pr, b[x], b[y])
    <2>0. Keeps(a, b, g, l)
      BY <1>1, <1>2, MovedIs
    <2>1. PICK i \in I, j \in I : a[i] = b[x] /\ a[j] = b[y] /\ Ahead(g, i, j)
      BY <1>4, <2>0 DEF Keeps
    <2>2. g[i] = Kernel!Digit(key[b[x]], p) /\ g[j] = Kernel!Digit(key[b[y]], p)
      BY <2>1
    <2>3. i < j => ByFirst(p, key, pr, b[x], b[y])
      BY <2>1 DEF Ordered
    <2>. QED BY <2>1, <2>2, <2>3, ByNext DEF Ahead
  <1>. QED BY <1>3, <1>4 DEF Ordered

\* Quotient and remainder.
LEMMA DivMod ==
  ASSUME NEW v \in Nat, NEW w \in Nat \ {0}
  PROVE  v \div w \in Nat /\ v % w \in 0 .. w - 1 /\ v = w * (v \div w) + (v % w)
  OBVIOUS

\* Numbers in two parts compare by the first, then by the second.
LEMMA TwoParts ==
  ASSUME NEW w \in Nat \ {0}, NEW q \in Nat, NEW r \in 0 .. w - 1, NEW q2 \in Nat, NEW r2 \in 0 .. w - 1
  PROVE  /\ w * q + r < w * q2 + r2 <=> q < q2 \/ (q = q2 /\ r < r2)
         /\ w * q + r = w * q2 + r2 <=> q = q2 /\ r = r2
  <1>1. ASSUME NEW a \in Nat, NEW b \in Nat, a < b PROVE w * a + w <= w * b
    <2>1. PICK d \in Nat : b = a + 1 + d
      BY <1>1
    <2>2. w * b = w * a + w + w * d
      BY <2>1
    <2>3. w * d \in Nat /\ w * a \in Nat
      OBVIOUS
    <2>. QED BY <2>2, <2>3
  <1>2. w * q \in Nat /\ w * q2 \in Nat
    OBVIOUS
  <1>3. CASE q < q2
    BY <1>1, <1>2, <1>3
  <1>4. CASE q2 < q
    BY <1>1, <1>2, <1>4
  <1>5. CASE q = q2
    BY <1>2, <1>5
  <1>. QED BY <1>3, <1>4, <1>5

\* The product bounds the first part.
LEMMA FirstPart ==
  ASSUME NEW w \in Nat \ {0}, NEW k \in Nat, NEW v \in Nat, v < w * k
  PROVE  v \div w < k
  <1>1. v \div w \in Nat /\ v % w \in 0 .. w - 1 /\ v = w * (v \div w) + (v % w)
    BY DivMod
  <1>2. w * (v \div w) + (v % w) < w * k + 0
    <2>1. w * k \in Nat
      OBVIOUS
    <2>. QED BY <1>1, <2>1
  <1>. QED BY <1>1, <1>2, TwoParts

\* The three digits of a number.
LEMMA Digits ==
  ASSUME NEW v \in Nat
  PROVE  /\ Kernel!Digit(v, 0) = v % WG
         /\ Kernel!Digit(v, 1) = (v \div WG) % WG
         /\ v < WG => Kernel!Digit(v, 0) = v
         /\ v < WG * WG => Kernel!Digit(v, 1) = v \div WG
         /\ v < WG * WG * WG => /\ v \div WG = WG * Kernel!Digit(v, 2) + Kernel!Digit(v, 1)
  <1> DEFINE q == v \div WG
  <1>1. WG \in Nat \ {0} /\ WG * WG \in Nat \ {0}
    BY WGIs
  <1>2. q \in Nat /\ v % WG \in 0 .. WG - 1 /\ v = WG * q + (v % WG)
    BY <1>1, DivMod
  <1>3. q \div WG \in Nat /\ q % WG \in 0 .. WG - 1 /\ q = WG * (q \div WG) + (q % WG)
    BY <1>1, <1>2, DivMod
  <1> HIDE DEF q
  <1>4. Kernel!Digit(v, 0) = v % WG
    BY <1>1 DEF Kernel!Digit, Kernel!Weight
  <1>5. Kernel!Digit(v, 1) = q % WG
    BY DEF Kernel!Digit, Kernel!Weight, q
  <1>6. ASSUME NEW u \in Nat, u < WG PROVE u % WG = u
    BY <1>1, <1>6
  <1>7. v < WG * WG => q < WG
    BY <1>1, FirstPart DEF q
  <1>8. v \div (WG * WG) = q \div WG
    <2> DEFINE r == WG * (q % WG) + (v % WG)
    <2> DEFINE z == v \div (WG * WG)
    <2>1. v = (WG * WG) * (q \div WG) + r
      <3>1. PICK a \in Nat, b \in Nat, c \in Nat : a = q \div WG /\ b = q % WG /\ c = v % WG
        BY <1>2, <1>3
      <3>2. v = WG * (WG * a + b) + c
        BY <1>2, <1>3, <3>1
      <3>3. WG * (WG * a + b) + c = (WG * WG) * a + (WG * b + c)
        BY <1>1
      <3>. QED BY <3>1, <3>2, <3>3
    <2>2. r \in 0 .. WG * WG - 1
      <3>1. PICK b \in 0 .. WG - 1, c \in 0 .. WG - 1 : b = q % WG /\ c = v % WG
        BY <1>2, <1>3
      <3>2. WG * b + c < WG * WG + 0
        BY <1>1, <3>1, TwoParts
      <3>3. WG * b + c \in Nat
        BY <1>1, <3>1
      <3>. QED BY <1>1, <3>1, <3>2, <3>3
    <2>3. z \in Nat /\ v % (WG * WG) \in 0 .. WG * WG - 1 /\ v = (WG * WG) * z + (v % (WG * WG))
      BY <1>1, DivMod
    <2> HIDE DEF r, z
    <2>4. PICK ww \in Nat \ {0} : ww = WG * WG
      BY <1>1
    <2>5. PICK r2 \in 0 .. ww - 1 : v = ww * z + r2
      BY <2>3, <2>4
    <2>6. PICK a \in Nat : a = q \div WG
      BY <1>3
    <2>7. v = ww * a + r /\ r \in 0 .. ww - 1
      BY <2>1, <2>2, <2>4, <2>6
    <2>8. z \in Nat
      BY <2>3
    <2>9. z = a
      BY <2>5, <2>7, <2>8, TwoParts
    <2>4a. z = q \div WG
      BY <2>6, <2>9
    <2>. QED BY <2>4a DEF z
  <1>9. Kernel!Digit(v, 2) = (q \div WG) % WG
    BY <1>8 DEF Kernel!Digit, Kernel!Weight
  <1>10. v < WG * WG * WG => q \div WG < WG
    <2> SUFFICES ASSUME v < WG * WG * WG PROVE q \div WG < WG
      OBVIOUS
    <2>1. v \div (WG * WG) < WG
      BY <1>1, FirstPart
    <2>. QED BY <1>8, <2>1
  <1>. QED BY <1>2, <1>3, <1>4, <1>5, <1>6, <1>7, <1>9, <1>10 DEF q

\* As many digits as the keys have order them.
Power(p) == CASE p = 1 -> WG [] p = 2 -> WG * WG [] p = 3 -> WG * WG * WG

\* Passes enough for two keys compare the keys.
LEMMA EnoughDigits ==
  ASSUME NEW p \in 1 .. 3, NEW key, NEW pr, NEW x, NEW y, key[x] \in Nat, key[y] \in Nat,
         key[x] < Power(p), key[y] < Power(p)
  PROVE  ByFirst(p, key, pr, x, y) = (key[x] < key[y] \/ (key[x] = key[y] /\ pr[x] <= pr[y]))
  <1>1. PICK v \in Nat, w \in Nat : v = key[x] /\ w = key[y]
    OBVIOUS
  <1> DEFINE a(k) == Kernel!Digit(v, k)
  <1> DEFINE b(k) == Kernel!Digit(w, k)
  <1>2. WG \in Nat \ {0} /\ WG * WG \in Nat /\ WG * WG * WG \in Nat
    BY WGIs
  <1>3. /\ v = WG * (v \div WG) + (v % WG) /\ v \div WG \in Nat /\ v % WG \in 0 .. WG - 1
        /\ w = WG * (w \div WG) + (w % WG) /\ w \div WG \in Nat /\ w % WG \in 0 .. WG - 1
    BY <1>2, DivMod
  <1>4. \A k \in 0 .. 2 : a(k) \in 0 .. WG - 1 /\ b(k) \in 0 .. WG - 1
    BY DigIs DEF Kernel!Lanes
  <1>5. /\ v < w <=> v \div WG < w \div WG \/ (v \div WG = w \div WG /\ a(0) < b(0))
        /\ v = w <=> v \div WG = w \div WG /\ a(0) = b(0)
    <2>1. PICK q \in Nat, q2 \in Nat : q = v \div WG /\ q2 = w \div WG
      BY <1>3
    <2>2. PICK r \in 0 .. WG - 1, r2 \in 0 .. WG - 1 : r = a(0) /\ r2 = b(0)
      BY <1>4
    <2>3. v = WG * q + r /\ w = WG * q2 + r2
      BY <1>3, <2>1, <2>2, Digits
    <2>4. /\ WG * q + r < WG * q2 + r2 <=> q < q2 \/ (q = q2 /\ r < r2)
          /\ WG * q + r = WG * q2 + r2 <=> q = q2 /\ r = r2
      BY <1>2, TwoParts
    <2> HIDE DEF a, b
    <2>. QED BY <2>1, <2>2, <2>3, <2>4
  <1>6. CASE p = 1
    <2>1. a(0) = v /\ b(0) = w
      BY <1>1, <1>6, Digits DEF Power
    <2>. QED BY <1>1, <1>6, <2>1 DEF ByFirst, By1, By0
  <1>7. CASE p = 2
    <2>1. a(1) = v \div WG /\ b(1) = w \div WG
      BY <1>1, <1>7, Digits DEF Power
    <2>. QED BY <1>1, <1>4, <1>5, <1>7, <2>1 DEF ByFirst, By2, By1, By0
  <1>8. CASE p = 3
    <2>1. v \div WG = WG * a(2) + a(1) /\ w \div WG = WG * b(2) + b(1)
      BY <1>1, <1>8, Digits DEF Power
    <2>2. /\ v \div WG < w \div WG <=> a(2) < b(2) \/ (a(2) = b(2) /\ a(1) < b(1))
          /\ v \div WG = w \div WG <=> a(2) = b(2) /\ a(1) = b(1)
      <3>1. PICK q \in Nat, q2 \in Nat : q = a(2) /\ q2 = b(2)
        BY <1>4
      <3>2. PICK r \in 0 .. WG - 1, r2 \in 0 .. WG - 1 : r = a(1) /\ r2 = b(1)
        BY <1>4
      <3>3. /\ WG * q + r < WG * q2 + r2 <=> q < q2 \/ (q = q2 /\ r < r2)
            /\ WG * q + r = WG * q2 + r2 <=> q = q2 /\ r = r2
        BY <1>2, TwoParts
      <3> HIDE DEF a, b
      <3>. QED BY <2>1, <3>1, <3>2, <3>3
    <2>. QED BY <1>1, <1>4, <1>5, <1>8, <2>2 DEF ByFirst, By3, By2, By1, By0
  <1>. QED BY <1>6, <1>7, <1>8

Letter(tx, l, p, k) == IF p + k < l THEN tx[p + k] ELSE -1
Alike(tx, l, h, p, q) == \A k \in 0 .. h - 1 : Letter(tx, l, p, k) = Letter(tx, l, q, k)
Earlier(tx, l, h, p, q) ==
  \E k \in 0 .. h - 1 : Alike(tx, l, k, p, q) /\ Letter(tx, l, p, k) < Letter(tx, l, q, k)

\* What the letters of a suffix are, and where it ends.
LEMMA Letters ==
  ASSUME NEW l \in Nat, NEW tx \in [0 .. l - 1 -> Nat], NEW p \in Nat, NEW k \in Nat
  PROVE  /\ Letter(tx, l, p, k) \in Nat \cup {-1}
         /\ Letter(tx, l, p, k) = -1 <=> p + k >= l
         /\ \A h \in Nat : Letter(tx, l, p, h + k) = Letter(tx, l, p + h, k)
  <1>1. ASSUME NEW h \in Nat PROVE p + (h + k) = (p + h) + k
    OBVIOUS
  <1>. QED BY <1>1 DEF Letter

\* Prefixes are alike, or one of them is earlier, and no two of these.
LEMMA Compared ==
  ASSUME NEW l \in Nat, NEW tx \in [0 .. l - 1 -> Nat], NEW p \in Nat, NEW q \in Nat, NEW h \in Nat
  PROVE  /\ Alike(tx, l, h, p, q) \/ Earlier(tx, l, h, p, q) \/ Earlier(tx, l, h, q, p)
         /\ Alike(tx, l, h, p, q) => ~Earlier(tx, l, h, p, q) /\ ~Earlier(tx, l, h, q, p)
         /\ Earlier(tx, l, h, p, q) => ~Earlier(tx, l, h, q, p)
  <1>0. \A k \in Nat : Letter(tx, l, p, k) \in Int /\ Letter(tx, l, q, k) \in Int
    BY Letters
  <1> DEFINE S == {m \in Nat : Alike(tx, l, m, p, q) \/ Earlier(tx, l, m, p, q) \/ Earlier(tx, l, m, q, p)}
  <1>1. 0 \in S
    BY DEF Alike
  <1>2. ASSUME NEW m \in Nat, m \in S PROVE m + 1 \in S
    <2>1. CASE Earlier(tx, l, m, p, q)
      BY <2>1 DEF Earlier
    <2>2. CASE Earlier(tx, l, m, q, p)
      BY <2>2 DEF Earlier
    <2>3. CASE Alike(tx, l, m, p, q)
      <3>1. Alike(tx, l, m, q, p)
        BY <2>3 DEF Alike
      <3>2. CASE Letter(tx, l, p, m) = Letter(tx, l, q, m)
        BY <2>3, <3>2 DEF Alike
      <3>3. CASE Letter(tx, l, p, m) < Letter(tx, l, q, m)
        BY <2>3, <3>3 DEF Earlier
      <3>4. CASE Letter(tx, l, q, m) < Letter(tx, l, p, m)
        BY <3>1, <3>4 DEF Earlier
      <3>. QED BY <1>0, <3>2, <3>3, <3>4
    <2>. QED BY <1>2, <2>1, <2>2, <2>3
  <1>3. h \in S
    BY <1>1, <1>2, Inductive
  <1>4. Alike(tx, l, h, p, q) => ~Earlier(tx, l, h, p, q) /\ ~Earlier(tx, l, h, q, p)
    BY <1>0 DEF Alike, Earlier
  <1>5. ASSUME Earlier(tx, l, h, p, q), Earlier(tx, l, h, q, p) PROVE FALSE
    <2>1. PICK k \in 0 .. h - 1 : Alike(tx, l, k, p, q) /\ Letter(tx, l, p, k) < Letter(tx, l, q, k)
      BY <1>5 DEF Earlier
    <2>2. PICK j \in 0 .. h - 1 : Alike(tx, l, j, q, p) /\ Letter(tx, l, q, j) < Letter(tx, l, p, j)
      BY <1>5 DEF Earlier
    <2>3. k < j => Letter(tx, l, q, k) = Letter(tx, l, p, k)
      BY <2>2 DEF Alike
    <2>4. j < k => Letter(tx, l, p, j) = Letter(tx, l, q, j)
      BY <2>1 DEF Alike
    <2>. QED BY <1>0, <2>1, <2>2, <2>3, <2>4, SMTT(30)
  <1>. QED BY <1>3, <1>4, <1>5

\* A prefix of twice the length is two prefixes.
LEMMA TwoHalves ==
  ASSUME NEW l \in Nat, NEW tx \in [0 .. l - 1 -> Nat], NEW p \in Nat, NEW q \in Nat, NEW h \in Nat
  PROVE  Earlier(tx, l, h * 2, p, q)
           <=> \/ Earlier(tx, l, h, p, q)
               \/ Alike(tx, l, h, p, q) /\ Earlier(tx, l, h, p + h, q + h)
  <1>1. ASSUME Earlier(tx, l, h, p, q) PROVE Earlier(tx, l, h * 2, p, q)
    BY <1>1 DEF Earlier
  <1>0. \A k \in Nat : /\ Letter(tx, l, p + h, k) = Letter(tx, l, p, h + k)
                       /\ Letter(tx, l, q + h, k) = Letter(tx, l, q, h + k)
    BY Letters
  <1>2. ASSUME Alike(tx, l, h, p, q), Earlier(tx, l, h, p + h, q + h) PROVE Earlier(tx, l, h * 2, p, q)
    <2>1. PICK k \in 0 .. h - 1 : /\ Alike(tx, l, k, p + h, q + h)
                                  /\ Letter(tx, l, p + h, k) < Letter(tx, l, q + h, k)
      BY <1>2 DEF Earlier
    <2>2. h + k \in 0 .. h * 2 - 1 /\ Letter(tx, l, p, h + k) < Letter(tx, l, q, h + k)
      BY <1>0, <2>1
    <2>3. ASSUME NEW j \in 0 .. h + k - 1 PROVE Letter(tx, l, p, j) = Letter(tx, l, q, j)
      <3>1. CASE j < h
        BY <1>2, <3>1 DEF Alike
      <3>2. CASE j >= h
        <4>1. j - h \in 0 .. k - 1 /\ h + (j - h) = j
          BY <3>2
        <4>2. Letter(tx, l, p + h, j - h) = Letter(tx, l, q + h, j - h)
          BY <2>1, <4>1 DEF Alike
        <4>. QED BY <1>0, <4>1, <4>2
      <3>. QED BY <3>1, <3>2
    <2>4. Alike(tx, l, h + k, p, q)
      BY <2>3 DEF Alike
    <2>. QED BY <2>2, <2>4 DEF Earlier
  <1>3. ASSUME Earlier(tx, l, h * 2, p, q), ~Earlier(tx, l, h, p, q)
        PROVE  Alike(tx, l, h, p, q) /\ Earlier(tx, l, h, p + h, q + h)
    <2>1. PICK k \in 0 .. h * 2 - 1 : /\ Alike(tx, l, k, p, q)
                                      /\ Letter(tx, l, p, k) < Letter(tx, l, q, k)
      BY <1>3 DEF Earlier
    <2>2. k >= h
      BY <1>3, <2>1 DEF Earlier
    <2>3. Alike(tx, l, h, p, q)
      BY <2>1, <2>2 DEF Alike
    <2>4. k - h \in 0 .. h - 1 /\ h + (k - h) = k
      BY <2>2
    <2>5. Letter(tx, l, p + h, k - h) < Letter(tx, l, q + h, k - h)
      BY <1>0, <2>1, <2>4
    <2>6. ASSUME NEW j \in 0 .. k - h - 1 PROVE Letter(tx, l, p + h, j) = Letter(tx, l, q + h, j)
      <3>1. h + j \in 0 .. k - 1 /\ j \in Nat
        BY <2>2
      <3>2. Letter(tx, l, p, h + j) = Letter(tx, l, q, h + j)
        BY <2>1, <3>1 DEF Alike
      <3>. QED BY <1>0, <3>1, <3>2
    <2>7. Alike(tx, l, k - h, p + h, q + h)
      BY <2>6 DEF Alike
    <2>. QED BY <2>3, <2>4, <2>5, <2>7 DEF Earlier
  <1>. QED BY <1>1, <1>2, <1>3

-----------------------------------------------------------------------------
\* Ranks by the first h letters, and what ranks the next h.
Ranked(tx, l, h, rk) ==
  \A p, q \in 0 .. l - 1 : rk[p] < rk[q] <=> Earlier(tx, l, h, p, q)

After(rk, l, h, s) == IF s + h < l THEN rk[s + h] + 1 ELSE 0
PairLess(rk, l, h, p, q) ==
  rk[p] < rk[q] \/ (rk[p] = rk[q] /\ After(rk, l, h, p) < After(rk, l, h, q))

\* Equal ranks are equal prefixes.
LEMMA RankedSame ==
  ASSUME NEW l \in Nat, NEW tx \in [0 .. l - 1 -> Nat], NEW h \in Nat, NEW rk \in [0 .. l - 1 -> Nat],
         Ranked(tx, l, h, rk), NEW p \in 0 .. l - 1, NEW q \in 0 .. l - 1
  PROVE  rk[p] = rk[q] <=> Alike(tx, l, h, p, q)
  <1>1. rk[p] \in Nat /\ rk[q] \in Nat /\ p \in Nat /\ q \in Nat
    OBVIOUS
  <1>2. (rk[p] < rk[q] <=> Earlier(tx, l, h, p, q)) /\ (rk[q] < rk[p] <=> Earlier(tx, l, h, q, p))
    BY DEF Ranked
  <1>3. /\ Alike(tx, l, h, p, q) \/ Earlier(tx, l, h, p, q) \/ Earlier(tx, l, h, q, p)
        /\ Alike(tx, l, h, p, q) => ~Earlier(tx, l, h, p, q) /\ ~Earlier(tx, l, h, q, p)
    BY <1>1, Compared
  <1>. QED BY <1>1, <1>2, <1>3

\* Ranks of h letters order pairs as the prefixes of 2h letters are ordered.
LEMMA PairsDouble ==
  ASSUME NEW l \in Nat, NEW tx \in [0 .. l - 1 -> Nat], NEW h \in Nat \ {0}, NEW rk \in [0 .. l - 1 -> Nat],
         Ranked(tx, l, h, rk), NEW p \in 0 .. l - 1, NEW q \in 0 .. l - 1
  PROVE  PairLess(rk, l, h, p, q) <=> Earlier(tx, l, h * 2, p, q)
  <1>1. rk[p] = rk[q] <=> Alike(tx, l, h, p, q)
    BY RankedSame
  <1>2. rk[p] < rk[q] <=> Earlier(tx, l, h, p, q)
    BY DEF Ranked
  <1>3. Earlier(tx, l, h * 2, p, q)
          <=> Earlier(tx, l, h, p, q) \/ (Alike(tx, l, h, p, q) /\ Earlier(tx, l, h, p + h, q + h))
    <2>1. p \in Nat /\ q \in Nat /\ h \in Nat
      OBVIOUS
    <2>. QED BY <2>1, TwoHalves
  <1>0. \A k \in Nat : /\ Letter(tx, l, p + h, k) \in Nat \cup {-1} /\ Letter(tx, l, q + h, k) \in Nat \cup {-1}
                       /\ Letter(tx, l, p + h, k) = -1 <=> (p + h) + k >= l
                       /\ Letter(tx, l, q + h, k) = -1 <=> (q + h) + k >= l
    <2>1. p + h \in Nat /\ q + h \in Nat
      OBVIOUS
    <2>. QED BY <2>1, Letters
  <1>4. After(rk, l, h, p) < After(rk, l, h, q) <=> Earlier(tx, l, h, p + h, q + h)
    <2>1. CASE p + h < l /\ q + h < l
      <3>1. p + h \in 0 .. l - 1 /\ q + h \in 0 .. l - 1
        BY <2>1
      <3>2. rk[p + h] < rk[q + h] <=> Earlier(tx, l, h, p + h, q + h)
        BY <3>1 DEF Ranked
      <3>3. PICK u \in Nat, v \in Nat : u = rk[p + h] /\ v = rk[q + h]
        BY <3>1
      <3>4. After(rk, l, h, p) = u + 1 /\ After(rk, l, h, q) = v + 1
        BY <2>1, <3>3 DEF After
      <3>5. u < v <=> Earlier(tx, l, h, p + h, q + h)
        BY <3>2, <3>3
      <3>. QED BY <3>4, <3>5
    <2>2. CASE ~(p + h < l) /\ q + h < l
      <3>1. q + h \in 0 .. l - 1
        BY <2>2
      <3>2. After(rk, l, h, p) < After(rk, l, h, q)
        BY <2>2, <3>1 DEF After
      <3>3. Letter(tx, l, p + h, 0) = -1 /\ Letter(tx, l, q + h, 0) # -1
        BY <1>0, <2>2
      <3>4. Letter(tx, l, p + h, 0) < Letter(tx, l, q + h, 0)
        BY <1>0, <3>3
      <3>5. Alike(tx, l, 0, p + h, q + h)
        BY DEF Alike
      <3>. QED BY <3>2, <3>4, <3>5 DEF Earlier
    <2>3. CASE ~(q + h < l)
      <3>1. \A k \in 0 .. h - 1 : Letter(tx, l, q + h, k) = -1
        BY <1>0, <2>3
      <3>2. ~Earlier(tx, l, h, p + h, q + h)
        <4>1. \A k \in 0 .. h - 1 : ~(Letter(tx, l, p + h, k) < Letter(tx, l, q + h, k))
          <5> SUFFICES ASSUME NEW k \in 0 .. h - 1
                       PROVE  ~(Letter(tx, l, p + h, k) < Letter(tx, l, q + h, k))
            OBVIOUS
          <5>1. Letter(tx, l, p + h, k) \in Nat \cup {-1} /\ Letter(tx, l, q + h, k) = -1
            BY <1>0, <3>1
          <5>. QED BY <5>1
        <4>. QED BY <4>1 DEF Earlier
      <3>3. After(rk, l, h, q) = 0 /\ After(rk, l, h, p) \in Nat
        BY <2>3 DEF After
      <3>. QED BY <3>2, <3>3
    <2>. QED BY <2>1, <2>2, <2>3
  <1>. QED BY <1>1, <1>2, <1>3, <1>4 DEF PairLess

\* The bytes are the ranks of one letter.
LEMMA RankedBytes ==
  ASSUME NEW l \in Nat, NEW tx \in [0 .. l - 1 -> Nat]
  PROVE  Ranked(tx, l, 1, tx)
  <1> SUFFICES ASSUME NEW p \in 0 .. l - 1, NEW q \in 0 .. l - 1
               PROVE  tx[p] < tx[q] <=> Earlier(tx, l, 1, p, q)
    BY DEF Ranked
  <1>1. Letter(tx, l, p, 0) = tx[p] /\ Letter(tx, l, q, 0) = tx[q]
    BY DEF Letter
  <1>2. Alike(tx, l, 0, p, q)
    BY DEF Alike
  <1>3. 0 .. 1 - 1 = {0}
    OBVIOUS
  <1>. QED BY <1>1, <1>2, <1>3 DEF Earlier

\* Slots a hold every suffix, in the order of the pairs.
PairSame(rk, l, h, p, q) == rk[p] = rk[q] /\ After(rk, l, h, p) = After(rk, l, h, q)
InPairOrder(a, rk, l, h) ==
  /\ Injects(a, l)
  /\ \A i, j \in 0 .. l - 1 : i < j => PairLess(rk, l, h, a[i], a[j]) \/ PairSame(rk, l, h, a[i], a[j])

\* Slot j begins a new rank; the ranks up to slot i.
Begins(a, rk, l, h, j) == j = 0 \/ ~PairSame(rk, l, h, a[j], a[j - 1])
Begun(a, rk, l, h, i) == {j \in 0 .. i : Begins(a, rk, l, h, j)}
AllRanks(a, rk, l, h) == {j \in 0 .. l - 1 : Begins(a, rk, l, h, j)}

\* The order of pairs is strict, and transitive up to sameness.
LEMMA Pairs ==
  ASSUME NEW l \in Nat, NEW rk \in [0 .. l - 1 -> Nat], NEW h \in Nat, NEW p \in 0 .. l - 1,
         NEW q \in 0 .. l - 1
  PROVE  /\ After(rk, l, h, p) \in Nat /\ rk[p] \in Nat
         /\ PairLess(rk, l, h, p, q) => ~PairSame(rk, l, h, p, q) /\ ~PairLess(rk, l, h, q, p)
         /\ PairSame(rk, l, h, p, q) => ~PairLess(rk, l, h, q, p)
         /\ \A r \in 0 .. l - 1 :
              /\ PairSame(rk, l, h, p, q) /\ PairSame(rk, l, h, q, r) => PairSame(rk, l, h, p, r)
              /\ PairLess(rk, l, h, p, q) /\ (PairSame(rk, l, h, q, r) \/ PairLess(rk, l, h, q, r))
                   => PairLess(rk, l, h, p, r)
              /\ (PairLess(rk, l, h, p, q) \/ PairSame(rk, l, h, p, q)) /\ PairLess(rk, l, h, q, r)
                   => PairLess(rk, l, h, p, r)
  <1>1. ASSUME NEW x \in 0 .. l - 1 PROVE After(rk, l, h, x) \in Nat /\ rk[x] \in Nat
    <2>1. CASE x + h < l
      <3>1. x + h \in 0 .. l - 1
        BY <2>1
      <3>. QED BY <2>1, <3>1 DEF After
    <2>2. CASE ~(x + h < l)
      BY <2>2 DEF After
    <2>. QED BY <2>1, <2>2
  <1>. QED BY <1>1 DEF PairLess, PairSame

\* Between two slots, either no rank begins and the pairs are the same, or one
\* does and they are in order.
LEMMA Between ==
  ASSUME NEW l \in Nat, NEW rk \in [0 .. l - 1 -> Nat], NEW h \in Nat, NEW a, InPairOrder(a, rk, l, h),
         NEW i \in 0 .. l - 1, NEW j \in 0 .. l - 1, i < j
  PROVE  /\ (\A c \in i + 1 .. j : ~Begins(a, rk, l, h, c)) => PairSame(rk, l, h, a[i], a[j])
         /\ (\E c \in i + 1 .. j : Begins(a, rk, l, h, c)) => PairLess(rk, l, h, a[i], a[j])
  <1>0. \A x \in 0 .. l - 1 : a[x] \in 0 .. l - 1
    BY DEF InPairOrder, Injects
  <1>1. ASSUME \A c \in i + 1 .. j : ~Begins(a, rk, l, h, c) PROVE PairSame(rk, l, h, a[i], a[j])
    <2> DEFINE S == {m \in Nat : i + m <= j => PairSame(rk, l, h, a[i], a[i + m])}
    <2>1. 0 \in S
      BY DEF PairSame
    <2>2. ASSUME NEW m \in Nat, m \in S PROVE m + 1 \in S
      <3> SUFFICES ASSUME i + (m + 1) <= j PROVE PairSame(rk, l, h, a[i], a[i + (m + 1)])
        OBVIOUS
      <3>1. PairSame(rk, l, h, a[i], a[i + m])
        BY <2>2
      <3>2. i + (m + 1) \in i + 1 .. j /\ (i + (m + 1)) - 1 = i + m
        OBVIOUS
      <3>3. PairSame(rk, l, h, a[i + (m + 1)], a[i + m])
        BY <1>1, <3>2 DEF Begins
      <3>. QED BY <3>1, <3>3 DEF PairSame
    <2>3. Nat \subseteq S
      <3> HIDE DEF S
      <3>. QED BY <2>1, <2>2, Inductive
    <2>4. j - i \in Nat /\ i + (j - i) = j
      OBVIOUS
    <2>5. PICK d \in Nat : d = j - i /\ i + d = j
      BY <2>4
    <2>6. d \in S
      BY <2>3
    <2>. QED BY <2>5, <2>6
  <1>2. ASSUME NEW c \in i + 1 .. j, Begins(a, rk, l, h, c) PROVE PairLess(rk, l, h, a[i], a[j])
    <2>1. c - 1 \in 0 .. l - 1 /\ c \in 0 .. l - 1 /\ c - 1 < c /\ i <= c - 1 /\ c <= j
      OBVIOUS
    <2>2. PairLess(rk, l, h, a[c - 1], a[c])
      <3>1. PairLess(rk, l, h, a[c - 1], a[c]) \/ PairSame(rk, l, h, a[c - 1], a[c])
        BY <2>1 DEF InPairOrder
      <3>2. ~PairSame(rk, l, h, a[c], a[c - 1])
        BY <1>2, <2>1 DEF Begins
      <3>. QED BY <3>1, <3>2 DEF PairSame
    <2>3. PairLess(rk, l, h, a[i], a[c - 1]) \/ PairSame(rk, l, h, a[i], a[c - 1])
      <3>1. CASE i < c - 1
        BY <2>1, <3>1 DEF InPairOrder
      <3>2. CASE i = c - 1
        BY <3>2 DEF PairSame
      <3>. QED BY <2>1, <3>1, <3>2
    <2>4. PairLess(rk, l, h, a[c], a[j]) \/ PairSame(rk, l, h, a[c], a[j])
      <3>1. CASE c < j
        BY <2>1, <3>1 DEF InPairOrder
      <3>2. CASE c = j
        BY <3>2 DEF PairSame
      <3>. QED BY <2>1, <3>1, <3>2
    <2>6. PICK x \in 0 .. l - 1, y \in 0 .. l - 1, z \in 0 .. l - 1, w \in 0 .. l - 1 :
            x = a[i] /\ y = a[c - 1] /\ z = a[c] /\ w = a[j]
      BY <1>0, <2>1
    <2>5. PairLess(rk, l, h, x, z)
      <3>1. PairLess(rk, l, h, x, y) \/ PairSame(rk, l, h, x, y)
        BY <2>3, <2>6
      <3>2. PairLess(rk, l, h, y, z)
        BY <2>2, <2>6
      <3>. QED BY <3>1, <3>2, Pairs
    <2>7. PairLess(rk, l, h, z, w) \/ PairSame(rk, l, h, z, w)
      BY <2>4, <2>6
    <2>8. PairLess(rk, l, h, x, w)
      BY <2>5, <2>7, Pairs
    <2>. QED BY <2>6, <2>8
  <1>. QED BY <1>1, <1>2

\* The number of ranks begun so far ranks the suffixes by their pairs.
Numbered(a, b, rk, l, h) == \A i \in 0 .. l - 1 : b[a[i]] = Cardinality(Begun(a, rk, l, h, i))
RanksNumber(l, rk, h, a, b) ==
  /\ \A p, q \in 0 .. l - 1 : b[p] < b[q] <=> PairLess(rk, l, h, p, q)
  /\ \A i, j \in 0 .. l - 1 : i < j => b[a[i]] <= b[a[j]]
  /\ \A p \in 0 .. l - 1 : b[p] \in 0 .. Cardinality(AllRanks(a, rk, l, h))
  /\ Cardinality(AllRanks(a, rk, l, h)) \in 0 .. l
  /\ Cardinality(AllRanks(a, rk, l, h)) = l => \A p, q \in 0 .. l - 1 : b[p] = b[q] => p = q

\* Numbering the slots where the pair changes ranks the pairs.
LEMMA NumbersRank ==
  ASSUME NEW l \in Nat, NEW rk \in [0 .. l - 1 -> Nat], NEW h \in Nat, NEW a, InPairOrder(a, rk, l, h),
         NEW b \in [0 .. l - 1 -> Nat], Numbered(a, b, rk, l, h)
  PROVE  RanksNumber(l, rk, h, a, b)
  <1> DEFINE I == 0 .. l - 1
  <1>0. a \in [I -> I] /\ Injects(a, l)
    BY DEF InPairOrder, Injects
  <1>00. Onto(a, l)
    BY <1>0, ReachesAll
  <1>1. ASSUME NEW i \in I, NEW j \in I, i < j
        PROVE  /\ b[a[i]] <= b[a[j]]
               /\ b[a[i]] < b[a[j]] <=> PairLess(rk, l, h, a[i], a[j])
               /\ PairLess(rk, l, h, a[i], a[j]) \/ PairSame(rk, l, h, a[i], a[j])
    <2> DEFINE X == Begun(a, rk, l, h, i)
    <2> DEFINE Y == Begun(a, rk, l, h, j)
    <2>1. X \in SUBSET Y /\ Y \in SUBSET (0 .. l - 1)
      BY <1>1 DEF Begun
    <2>2. X = Y <=> \A c \in i + 1 .. j : ~Begins(a, rk, l, h, c)
      <3>1. ASSUME X = Y, NEW c \in i + 1 .. j PROVE ~Begins(a, rk, l, h, c)
        <4>1. c \notin X /\ c \in 0 .. j
          BY <1>1 DEF Begun
        <4>. QED BY <3>1, <4>1 DEF Begun
      <3>2. ASSUME \A c \in i + 1 .. j : ~Begins(a, rk, l, h, c) PROVE Y \subseteq X
        <4> SUFFICES ASSUME NEW c \in Y PROVE c \in X
          OBVIOUS
        <4>1. c \in 0 .. j /\ Begins(a, rk, l, h, c)
          BY DEF Begun
        <4>2. c \notin i + 1 .. j
          BY <3>2, <4>1
        <4>3. c \in 0 .. i
          BY <4>1, <4>2
        <4>. QED BY <4>1, <4>3 DEF Begun
      <3>3. (\A c \in i + 1 .. j : ~Begins(a, rk, l, h, c)) => Y \subseteq X
        BY <3>2
      <3>4. X = Y => \A c \in i + 1 .. j : ~Begins(a, rk, l, h, c)
        BY <3>1
      <3> HIDE DEF X, Y
      <3>. QED BY <2>1, <3>3, <3>4
    <2>3. b[a[i]] = Cardinality(X) /\ b[a[j]] = Cardinality(Y)
      BY DEF Numbered
    <2> HIDE DEF X, Y
    <2>4. Cardinality(X) <= Cardinality(Y) /\ (X # Y => Cardinality(X) < Cardinality(Y))
      BY <2>1, CountPart
    <2>5. Cardinality(X) \in Nat /\ Cardinality(Y) \in Nat
      <3>1. X \in SUBSET (0 .. l - 1)
        BY <2>1
      <3>. QED BY <2>1, <3>1, Counts
    <2>6. PairLess(rk, l, h, a[i], a[j]) \/ PairSame(rk, l, h, a[i], a[j])
      BY <1>1 DEF InPairOrder
    <2>7. PairLess(rk, l, h, a[i], a[j]) => ~PairSame(rk, l, h, a[i], a[j])
      BY <1>0, Pairs
    <2>10. /\ (\A c \in i + 1 .. j : ~Begins(a, rk, l, h, c)) => PairSame(rk, l, h, a[i], a[j])
           /\ (\E c \in i + 1 .. j : Begins(a, rk, l, h, c)) => PairLess(rk, l, h, a[i], a[j])
      BY <1>1, Between
    <2>11. (X = Y => PairSame(rk, l, h, a[i], a[j])) /\ (X # Y => PairLess(rk, l, h, a[i], a[j]))
      BY <2>2, <2>10
    <2> HIDE DEF I
    <2>8. CASE X = Y
      BY <2>3, <2>5, <2>7, <2>8, <2>11
    <2>9. CASE X # Y
      BY <2>3, <2>4, <2>5, <2>9, <2>11
    <2>. QED BY <2>8, <2>9
  <1>2. ASSUME NEW p \in I, NEW q \in I PROVE b[p] < b[q] <=> PairLess(rk, l, h, p, q)
    <2>1. PICK i \in I : a[i] = p
      BY <1>00 DEF Onto
    <2>2. PICK j \in I : a[j] = q
      BY <1>00 DEF Onto
    <2>3. b[p] \in Nat /\ b[q] \in Nat
      OBVIOUS
    <2>4. CASE i < j
      BY <1>1, <2>1, <2>2, <2>4
    <2>5. CASE i = j
      <3>1. p = q /\ ~(b[p] < b[q])
        BY <2>1, <2>2, <2>3, <2>5
      <3>2. ~PairLess(rk, l, h, p, p)
        BY Pairs
      <3>. QED BY <3>1, <3>2
    <2>6. CASE j < i
      <3>1. b[q] <= b[p] /\ (PairLess(rk, l, h, q, p) \/ PairSame(rk, l, h, q, p))
        BY <1>1, <2>1, <2>2, <2>6
      <3>2. ~PairLess(rk, l, h, p, q)
        BY <3>1, Pairs
      <3>. QED BY <2>3, <3>1, <3>2
    <2>. QED BY <2>4, <2>5, <2>6
  <1> DEFINE Z == AllRanks(a, rk, l, h)
  <1>3. Z \in SUBSET (0 .. l - 1)
    BY DEF AllRanks
  <1>4. Cardinality(Z) \in 0 .. l /\ (Cardinality(Z) = l => Z = 0 .. l - 1)
    BY <1>3, Counts
  <1>5. ASSUME NEW p \in I PROVE b[p] \in 0 .. Cardinality(Z)
    <2>1. PICK i \in I : a[i] = p
      BY <1>00 DEF Onto
    <2>2. b[p] = Cardinality(Begun(a, rk, l, h, i))
      BY <2>1 DEF Numbered
    <2>3. Begun(a, rk, l, h, i) \in SUBSET Z
      BY DEF Begun, AllRanks
    <2>4. Cardinality(Begun(a, rk, l, h, i)) <= Cardinality(Z)
      BY <1>3, <2>3, CountPart
    <2>. QED BY <1>4, <2>2, <2>4
  <1>6. ASSUME Cardinality(Z) = l, NEW p \in I, NEW q \in I, b[p] = b[q] PROVE p = q
    <2>1. PICK i \in I : a[i] = p
      BY <1>00 DEF Onto
    <2>2. PICK j \in I : a[j] = q
      BY <1>00 DEF Onto
    <2>3. \A c \in I : Begins(a, rk, l, h, c)
      BY <1>4, <1>6 DEF AllRanks
    <2>4. ASSUME NEW x \in I, NEW y \in I, x < y PROVE b[a[x]] < b[a[y]]
      <3>1. y \in x + 1 .. y
        BY <2>4
      <3>2. PairLess(rk, l, h, a[x], a[y])
        BY <2>3, <2>4, <3>1, Between
      <3>. QED BY <1>1, <2>4, <3>2
    <2>5. b[p] \in Nat /\ b[q] \in Nat
      OBVIOUS
    <2>6. ~(i < j)
      <3>1. i < j => b[a[i]] < b[a[j]]
        BY <2>4
      <3>2. ~(b[p] < b[q])
        BY <1>6, <2>5
      <3>. QED BY <2>1, <2>2, <3>1, <3>2
    <2>7. ~(j < i)
      <3>1. j < i => b[a[j]] < b[a[i]]
        BY <2>4
      <3>2. ~(b[q] < b[p])
        BY <1>6, <2>5
      <3>. QED BY <2>1, <2>2, <3>1, <3>2
    <2>8. i = j
      BY <2>6, <2>7
    <2>. QED BY <2>1, <2>2, <2>8
  <1>7. /\ \A p, q \in 0 .. l - 1 : b[p] < b[q] <=> PairLess(rk, l, h, p, q)
        /\ \A i, j \in 0 .. l - 1 : i < j => b[a[i]] <= b[a[j]]
        /\ \A p \in 0 .. l - 1 : b[p] \in 0 .. Cardinality(AllRanks(a, rk, l, h))
        /\ Cardinality(AllRanks(a, rk, l, h)) \in 0 .. l
        /\ Cardinality(AllRanks(a, rk, l, h)) = l => \A p, q \in 0 .. l - 1 : b[p] = b[q] => p = q
    BY <1>1, <1>2, <1>4, <1>5, <1>6
  <1> HIDE DEF Z, I
  <1>. QED BY <1>7 DEF RanksNumber

-----------------------------------------------------------------------------
\* The order of suffixes, as SuffixOrder has it.
SufLess(tx, l, p, q) ==
  \E k \in 0 .. l - 1 :
    /\ p + k <= l /\ q + k < l
    /\ \A i \in 0 .. k - 1 : tx[p + i] = tx[q + i]
    /\ p + k = l \/ tx[p + k] < tx[q + k]

\* Suffixes that differ in a prefix differ that way as a whole.
LEMMA EarlierIsLess ==
  ASSUME NEW l \in Nat, NEW tx \in [0 .. l - 1 -> Nat], NEW p \in 0 .. l - 1, NEW q \in 0 .. l - 1,
         NEW h \in Nat, Earlier(tx, l, h, p, q)
  PROVE  SufLess(tx, l, p, q)
  <1>1. PICK k \in 0 .. h - 1 : Alike(tx, l, k, p, q) /\ Letter(tx, l, p, k) < Letter(tx, l, q, k)
    BY DEF Earlier
  <1>2. k \in Nat /\ p \in Nat /\ q \in Nat
    OBVIOUS
  <1>3. \A j \in Nat : /\ Letter(tx, l, p, j) \in Nat \cup {-1} /\ Letter(tx, l, q, j) \in Nat \cup {-1}
                       /\ Letter(tx, l, p, j) = -1 <=> p + j >= l
                       /\ Letter(tx, l, q, j) = -1 <=> q + j >= l
    BY <1>2, Letters
  <1>4. q + k < l
    <2>1. Letter(tx, l, q, k) # -1
      BY <1>1, <1>2, <1>3
    <2>. QED BY <1>2, <1>3, <2>1
  <1>5. \A j \in 0 .. k - 1 : p + j < l /\ q + j < l /\ tx[p + j] = tx[q + j]
    <2> SUFFICES ASSUME NEW j \in 0 .. k - 1 PROVE p + j < l /\ q + j < l /\ tx[p + j] = tx[q + j]
      OBVIOUS
    <2>1. q + j < l /\ j \in Nat
      BY <1>4
    <2>2. Letter(tx, l, p, j) = Letter(tx, l, q, j)
      BY <1>1 DEF Alike
    <2>3. p + j < l
      BY <1>3, <2>1, <2>2
    <2>. QED BY <2>1, <2>2, <2>3 DEF Letter
  <1>6. p + k <= l
    <2>1. CASE k = 0
      BY <2>1
    <2>2. CASE k > 0
      <3>1. k - 1 \in 0 .. k - 1
        BY <2>2
      <3>2. p + (k - 1) < l
        BY <1>5, <3>1
      <3>. QED BY <3>2
    <2>. QED BY <1>2, <2>1, <2>2
  <1>7. p + k = l \/ tx[p + k] < tx[q + k]
    BY <1>1, <1>4, <1>6 DEF Letter
  <1>8. k \in 0 .. l - 1
    BY <1>2, <1>4
  <1>. QED BY <1>4, <1>5, <1>6, <1>7, <1>8 DEF SufLess

\* Ranks by as many letters as the text has tell all suffixes apart.
LEMMA LongRanks ==
  ASSUME NEW l \in Nat, NEW tx \in [0 .. l - 1 -> Nat], NEW h \in Nat, h >= l, NEW rk \in [0 .. l - 1 -> Nat],
         Ranked(tx, l, h, rk), NEW p \in 0 .. l - 1, NEW q \in 0 .. l - 1, rk[p] = rk[q]
  PROVE  p = q
  <1>1. Alike(tx, l, h, p, q)
    BY RankedSame
  <1>2. ASSUME NEW x \in 0 .. l - 1, NEW y \in 0 .. l - 1, x < y, Alike(tx, l, h, x, y) PROVE FALSE
    <2>1. l - y \in 0 .. h - 1
      BY <1>2
    <2>2. Letter(tx, l, x, l - y) = Letter(tx, l, y, l - y)
      BY <1>2, <2>1 DEF Alike
    <2>3. x \in Nat /\ y \in Nat /\ l - y \in Nat /\ x + (l - y) < l /\ y + (l - y) >= l
      BY <1>2
    <2>4. Letter(tx, l, x, l - y) # -1 /\ Letter(tx, l, y, l - y) = -1
      <3>0. PICK m \in Nat : m = l - y
        BY <2>3
      <3>1. Letter(tx, l, x, m) = -1 <=> x + m >= l
        BY <2>3, Letters
      <3>2. Letter(tx, l, y, m) = -1 <=> y + m >= l
        BY <2>3, Letters
      <3>. QED BY <2>3, <3>0, <3>1, <3>2
    <2>. QED BY <2>2, <2>4
  <1>3. Alike(tx, l, h, q, p)
    BY <1>1 DEF Alike
  <1>. QED BY <1>1, <1>2, <1>3

\* Slots in the order of ranks that tell all suffixes apart are a suffix array.
LEMMA ArrayBuilt ==
  ASSUME NEW l \in Nat, NEW tx \in [0 .. l - 1 -> Nat], NEW h \in Nat, NEW rk \in [0 .. l - 1 -> Nat],
         Ranked(tx, l, h, rk), \A p, q \in 0 .. l - 1 : rk[p] = rk[q] => p = q,
         NEW a, Injects(a, l), \A i, j \in 0 .. l - 1 : i < j => rk[a[i]] <= rk[a[j]]
  PROVE  /\ {a[i] : i \in 0 .. l - 1} = 0 .. l - 1
         /\ \A i, j \in 0 .. l - 1 : i < j => SufLess(tx, l, a[i], a[j])
  <1>1. a \in [0 .. l - 1 -> 0 .. l - 1]
    BY DEF Injects
  <1>2. \A x \in 0 .. l - 1 : \E i \in 0 .. l - 1 : a[i] = x
    <2>1. Onto(a, l)
      BY ReachesAll
    <2>. QED BY <2>1 DEF Onto
  <1>3. ASSUME NEW i \in 0 .. l - 1, NEW j \in 0 .. l - 1, i < j PROVE SufLess(tx, l, a[i], a[j])
    <2>1. PICK p \in 0 .. l - 1, q \in 0 .. l - 1 : p = a[i] /\ q = a[j]
      BY <1>1
    <2>2. p # q
      BY <1>3, <2>1 DEF Injects
    <2>3. rk[p] < rk[q]
      <3>1. rk[p] # rk[q] /\ rk[p] <= rk[q]
        BY <1>3, <2>1, <2>2
      <3>2. rk[p] \in Nat /\ rk[q] \in Nat
        OBVIOUS
      <3>. QED BY <3>1, <3>2
    <2>4. Earlier(tx, l, h, p, q)
      BY <2>3 DEF Ranked
    <2>. QED BY <2>1, <2>4, EarlierIsLess
  <1>4. {a[i] : i \in 0 .. l - 1} = 0 .. l - 1
    <2>1. ASSUME NEW x \in {a[i] : i \in 0 .. l - 1} PROVE x \in 0 .. l - 1
      BY <1>1
    <2>2. ASSUME NEW x \in 0 .. l - 1 PROVE x \in {a[i] : i \in 0 .. l - 1}
      <3>1. PICK i \in 0 .. l - 1 : a[i] = x
        BY <1>2
      <3>. QED BY <3>1
    <2>. QED BY <2>1, <2>2
  <1>. QED BY <1>3, <1>4

-----------------------------------------------------------------------------
(* The memory of the kernel for a text of l bytes.                         *)

\* The kernel counts as everyone does.
LEMMA SameCount == ASSUME NEW S PROVE Kernel!Cardinality(S) = Cardinality(S)
  BY DEF Kernel!Cardinality, Cardinality, Kernel!IsFiniteSet, IsFiniteSet

Sized(l) == l \in Nat /\ l \in 1 .. WG * WG * WG - 2
Memory(l) ==
  [sa : [0 .. l - 1 -> 0 .. l - 1], sa2 : [0 .. l - 1 -> 0 .. l - 1],
   rank : [0 .. l - 1 -> Nat], rank2 : [0 .. l - 1 -> Nat],
   hist : [Kernel!Lanes -> Nat], base : [Kernel!Lanes -> Nat], run : [Kernel!Lanes -> Nat],
   tileDigit : [Kernel!Lanes -> Nat], tileHist : [Kernel!Lanes -> Nat], scan : [Kernel!Lanes -> Nat],
   h : Nat, keySel : Nat, done : BOOLEAN, scanBase : Nat, maxRank : Nat, passes : Nat]
Registers(l) == [Kernel!Lanes -> [s : 0 .. l - 1, d : Kernel!Lanes, v : Nat]]
Places ==
  {"init", "head", "clear", "count", "base", "load", "digit", "place", "advance", "sorted", "flag", "read",
   "write", "rank", "bump", "finish", "copy", "check", "end"}
Positions ==
  [pc : Places, h : Nat \ {0}, key : {0, 1}, pass : 0 .. 3, tile : Nat, d : Nat \ {0}]

\* The place of lane u in tile q, and the lane that has an index.
LEMMA Slotted ==
  ASSUME NEW q \in Positions
  PROVE  /\ q.tile * WG \in Nat /\ (q.tile + 1) * WG = q.tile * WG + WG
  BY WGIs DEF Positions

\* Each index has a lane that owns it.
LEMMA Owner == ASSUME NEW i \in Nat PROVE i % WG \in Kernel!Lanes
  BY WGIs DEF Kernel!Lanes

\* The keys of this sort, what it comes after, and the digits of this pass.
Afters(l, m, h) == [s \in 0 .. l - 1 |-> After(m.rank, l, h, s)]
KeyOf(l, m, q) == IF q.key = 1 THEN m.rank ELSE Afters(l, m, q.h)
PriorOf(l, m, q) == IF q.key = 1 THEN Afters(l, m, q.h) ELSE [s \in 0 .. l - 1 |-> 0]
DigitsOf(l, m, q) ==
  [i \in 0 .. l - 1 |-> Kernel!Digit(KeyOf(l, m, q)[Kernel!Slots(m, q.pass)[i]], q.pass)]
Target(m, pass) == IF pass % 2 = 0 THEN m.sa2 ELSE m.sa

\* What was counted, and where it went.
SomeOf(l, g, r, d) == {i \in 0 .. l - 1 : i % WG \in r /\ g[i] = d}
AllOf(l, g, d)     == {i \in 0 .. l - 1 : g[i] = d}
Under(l, g, d)     == {i \in 0 .. l - 1 : g[i] < d}
Sooner(l, g, b, d) == {i \in 0 .. l - 1 : i < b /\ g[i] = d}
InTile(l, g, b, r, d) == {u \in r : b + u < l /\ g[b + u] = d}
Reached(b, r, i) == i < b \/ \E u \in r : i = b + u
PutTo(l, a, dst, g, b, r) == \A i \in 0 .. l - 1 : Reached(b, r, i) => dst[Pos(g, l, i)] = a[i]

\* The digits, slots and keys of a pass are of the kinds they should be.
LEMMA Digital ==
  ASSUME NEW l \in Nat, NEW m \in Memory(l), NEW q \in Positions, q.pass \in 0 .. 2
  PROVE  /\ DigitsOf(l, m, q) \in [0 .. l - 1 -> Kernel!Lanes]
         /\ Kernel!Slots(m, q.pass) \in [0 .. l - 1 -> 0 .. l - 1]
         /\ KeyOf(l, m, q) \in [0 .. l - 1 -> Nat]
         /\ Target(m, q.pass) \in [0 .. l - 1 -> 0 .. l - 1]
  <1>1. Kernel!Slots(m, q.pass) \in [0 .. l - 1 -> 0 .. l - 1]
            /\ Target(m, q.pass) \in [0 .. l - 1 -> 0 .. l - 1]
    BY DEF Kernel!Slots, Memory, Target
  <1>2. KeyOf(l, m, q) \in [0 .. l - 1 -> Nat]
    <2>1. m.rank \in [0 .. l - 1 -> Nat] /\ q.h \in Nat
      BY DEF Memory, Positions
    <2>2. \A s \in 0 .. l - 1 : After(m.rank, l, q.h, s) \in Nat
      BY <2>1, Pairs
    <2>. QED BY <2>1, <2>2 DEF KeyOf, Afters
  <1>3. PICK a \in [0 .. l - 1 -> 0 .. l - 1], key \in [0 .. l - 1 -> Nat], p \in 0 .. 2 :
          a = Kernel!Slots(m, q.pass) /\ key = KeyOf(l, m, q) /\ p = q.pass
    BY <1>1, <1>2
  <1>4. ASSUME NEW i \in 0 .. l - 1 PROVE Kernel!Digit(key[a[i]], p) \in Kernel!Lanes
    <2>1. key[a[i]] \in Nat
      OBVIOUS
    <2>. QED BY <2>1, DigIs
  <1>5. DigitsOf(l, m, q) = [i \in 0 .. l - 1 |-> Kernel!Digit(key[a[i]], p)]
    BY <1>3 DEF DigitsOf
  <1>. QED BY <1>1, <1>2, <1>4, <1>5

-----------------------------------------------------------------------------
(* The histogram.                                                          *)

\* A lane adds its own.
LEMMA CountOwn ==
  ASSUME NEW l \in Nat, NEW g, NEW r, NEW t, t \notin r, NEW d
  PROVE  Cardinality(SomeOf(l, g, r \cup {t}, d))
           = Cardinality(SomeOf(l, g, r, d)) + Cardinality({i \in {j \in 0 .. l - 1 : j % WG = t} : g[i] = d})
  <1> DEFINE X == SomeOf(l, g, r, d)
  <1> DEFINE Y == {i \in {j \in 0 .. l - 1 : j % WG = t} : g[i] = d}
  <1>1. X \in SUBSET (0 .. l - 1) /\ Y \in SUBSET (0 .. l - 1) /\ X \cap Y = {}
    BY DEF SomeOf
  <1>2. SomeOf(l, g, r \cup {t}, d) = X \cup Y
    BY DEF SomeOf
  <1> HIDE DEF X, Y
  <1>3. Cardinality(X \cup Y) = Cardinality(X) + Cardinality(Y)
    BY <1>1, CountSum
  <1>. QED BY <1>2, <1>3 DEF X, Y

\* With all lanes, all are counted.
LEMMA CountAll ==
  ASSUME NEW l \in Nat, NEW g, NEW d
  PROVE  SomeOf(l, g, Kernel!Lanes, d) = AllOf(l, g, d) /\ SomeOf(l, g, {}, d) = {}
  <1>1. \A i \in 0 .. l - 1 : i % WG \in Kernel!Lanes
    BY Owner
  <1>. QED BY <1>1 DEF SomeOf, AllOf

\* The sum of the histogram below a digit.
IsSum(f, hist) ==
  f = [e \in 0 .. WG |-> IF e = 0 THEN 0 ELSE f[e - 1] + hist[e - 1]]

\* The base of a digit grows by the slots of the digit below.
LEMMA UnderNext ==
  ASSUME NEW l \in Nat, NEW g \in [0 .. l - 1 -> Kernel!Lanes], NEW d \in Nat
  PROVE  /\ Cardinality(Under(l, g, 0)) = 0
         /\ Cardinality(Under(l, g, d + 1)) = Cardinality(Under(l, g, d)) + Cardinality(AllOf(l, g, d))
         /\ Cardinality(Under(l, g, d)) \in Nat
  <1>0. \A i \in 0 .. l - 1 : g[i] \in Nat
    BY WGIs DEF Kernel!Lanes
  <1>1. Under(l, g, 0) = {}
    BY <1>0 DEF Under
  <1>2. Cardinality(Under(l, g, 0)) = 0
    BY <1>1, FS_EmptySet
  <1> DEFINE X == Under(l, g, d)
  <1> DEFINE Y == AllOf(l, g, d)
  <1>3. X \in SUBSET (0 .. l - 1) /\ Y \in SUBSET (0 .. l - 1) /\ X \cap Y = {}
    BY <1>0 DEF Under, AllOf
  <1>4. Under(l, g, d + 1) = X \cup Y
    BY <1>0 DEF Under, AllOf
  <1> HIDE DEF X, Y
  <1>5. Cardinality(X \cup Y) = Cardinality(X) + Cardinality(Y)
    BY <1>3, CountSum
  <1>6. Cardinality(X) \in Nat
    BY <1>3, Counts
  <1>. QED BY <1>2, <1>4, <1>5, <1>6 DEF X, Y

\* Summing the histogram gives the bases.
LEMMA SumsUnder ==
  ASSUME NEW l \in Nat, NEW g \in [0 .. l - 1 -> Kernel!Lanes], NEW hist,
         \A d \in Kernel!Lanes : hist[d] = Cardinality(AllOf(l, g, d))
  PROVE  /\ \E f : IsSum(f, hist)
         /\ \A f : IsSum(f, hist) => \A d \in Kernel!Lanes : f[d] = Cardinality(Under(l, g, d))
  <1> DEFINE U(d) == Cardinality(Under(l, g, d))
  <1>0. U(0) = 0 /\ \A d \in Nat : U(d) \in Nat /\ (d \in Kernel!Lanes => U(d + 1) = U(d) + hist[d])
    BY UnderNext
  <1>1. \E f : IsSum(f, hist)
    <2> DEFINE f == [e \in 0 .. WG |-> U(e)]
    <2>1. ASSUME NEW e \in 0 .. WG PROVE f[e] = IF e = 0 THEN 0 ELSE f[e - 1] + hist[e - 1]
      <3>1. CASE e = 0
        BY <1>0, <3>1
      <3>2. CASE e # 0
        <4>1. e - 1 \in Nat /\ e - 1 \in Kernel!Lanes /\ (e - 1) + 1 = e /\ e - 1 \in 0 .. WG
          BY <3>2, WGIs DEF Kernel!Lanes
        <4>2. U(e) = U(e - 1) + hist[e - 1]
          <5>1. PICK k \in Nat : k = e - 1 /\ k \in Kernel!Lanes /\ k + 1 = e
            BY <4>1
          <5>2. U(k + 1) = U(k) + hist[k]
            BY <1>0, <5>1
          <5> HIDE DEF U
          <5>. QED BY <5>1, <5>2
        <4> HIDE DEF U
        <4>. QED BY <3>2, <4>1, <4>2
      <3>. QED BY <3>1, <3>2
    <2>2. IsSum(f, hist)
      <3> HIDE DEF U
      <3>1. f = [e \in 0 .. WG |-> f[e]]
        OBVIOUS
      <3> HIDE DEF f
      <3>. QED BY <2>1, <3>1 DEF IsSum
    <2> HIDE DEF f
    <2>. QED BY <2>2
  <1>2. ASSUME NEW f, IsSum(f, hist), NEW d \in Kernel!Lanes PROVE f[d] = U(d)
    <2> DEFINE S == {k \in Nat : k <= WG => f[k] = U(k)}
    <2>1. \A e \in 0 .. WG : f[e] = IF e = 0 THEN 0 ELSE f[e - 1] + hist[e - 1]
      BY <1>2 DEF IsSum
    <2>2. 0 \in S
      BY <1>0, <2>1, WGIs
    <2>3. ASSUME NEW k \in Nat, k \in S PROVE k + 1 \in S
      <3> SUFFICES ASSUME k + 1 <= WG PROVE f[k + 1] = U(k + 1)
        OBVIOUS
      <3>1. k \in Kernel!Lanes /\ k + 1 \in 0 .. WG /\ (k + 1) - 1 = k /\ k + 1 # 0
        BY WGIs DEF Kernel!Lanes
      <3>2. f[k] = U(k)
        BY <2>3, <3>1, WGIs
      <3>3. U(k + 1) = U(k) + hist[k]
        BY <1>0, <3>1
      <3>4. f[k + 1] = f[k] + hist[k]
        BY <2>1, <3>1
      <3> HIDE DEF U
      <3>. QED BY <3>2, <3>3, <3>4
    <2>4. Nat \subseteq S
      <3> HIDE DEF S
      <3>. QED BY <2>2, <2>3, Inductive
    <2>5. d \in Nat /\ d <= WG
      BY WGIs DEF Kernel!Lanes
    <2>. QED BY <2>4, <2>5
  <1>. QED BY <1>1, <1>2

-----------------------------------------------------------------------------
(* A tile: WG slots from slot b.                                           *)

\* The slots of digit d in a tile, one by one and together.
TileGrows(l, g, b, r, t, d) ==
  /\ Cardinality(InTile(l, g, b, r, d)) \in Nat
  /\ Cardinality(InTile(l, g, b, r \cup {t}, d))
       = Cardinality(InTile(l, g, b, r, d)) + IF b + t < l /\ g[b + t] = d THEN 1 ELSE 0

\* One more lane of a tile counts one slot more, its own.
LEMMA TileOne ==
  ASSUME NEW l \in Nat, NEW g, NEW b \in Nat, NEW r \in SUBSET Kernel!Lanes, NEW t \in Kernel!Lanes,
         t \notin r, NEW d
  PROVE  TileGrows(l, g, b, r, t, d)
  <1> DEFINE X == InTile(l, g, b, r, d)
  <1>0. WG \in Nat
    BY WGIs
  <1>1. X \in SUBSET (0 .. WG - 1) /\ t \in 0 .. WG - 1 /\ t \notin X
    BY DEF InTile, Kernel!Lanes
  <1>2. InTile(l, g, b, r \cup {t}, d) = IF b + t < l /\ g[b + t] = d THEN X \cup {t} ELSE X
    BY DEF InTile
  <1> HIDE DEF X
  <1>3. Cardinality(X \cup {t}) = Cardinality(X) + 1 /\ Cardinality(X) \in Nat
    <2>1. Cardinality(X \cup {t}) = Cardinality(X) + 1
      BY <1>0, <1>1, CountOne
    <2>2. Cardinality(X) \in 0 .. WG
      BY <1>0, <1>1, Counts
    <2>. QED BY <1>0, <2>1, <2>2
  <1>. QED BY <1>2, <1>3 DEF X, TileGrows

\* Slots b + u for lanes u of S.
LEMMA TileShift ==
  ASSUME NEW b \in Nat, NEW S \in SUBSET Kernel!Lanes
  PROVE  Cardinality({b + u : u \in S}) = Cardinality(S)
  <1>0. WG \in Nat /\ S \in SUBSET (0 .. WG - 1)
    BY WGIs DEF Kernel!Lanes
  <1>1. {b + u : u \in S} = {u + b : u \in S}
    BY <1>0
  <1>. QED BY <1>0, <1>1, CountShift

\* What lies before the next tile lies before this one, or in it.
LEMMA SoonerNext ==
  ASSUME NEW l \in Nat, NEW g, NEW b \in Nat, NEW d
  PROVE  /\ Cardinality(Sooner(l, g, b, d)) \in Nat
         /\ Cardinality(Sooner(l, g, b + WG, d))
              = Cardinality(Sooner(l, g, b, d)) + Cardinality(InTile(l, g, b, Kernel!Lanes, d))
  <1> DEFINE X == Sooner(l, g, b, d)
  <1> DEFINE S == InTile(l, g, b, Kernel!Lanes, d)
  <1> DEFINE Y == {b + u : u \in S}
  <1>0. WG \in Nat
    BY WGIs
  <1>1. S \in SUBSET Kernel!Lanes
    BY DEF InTile
  <1>2. X \in SUBSET (0 .. l - 1) /\ Y \in SUBSET (0 .. l - 1) /\ X \cap Y = {}
    BY <1>0 DEF Sooner, InTile, Kernel!Lanes
  <1>3. Sooner(l, g, b + WG, d) = X \cup Y
    <2>1. ASSUME NEW i \in Sooner(l, g, b + WG, d), i \notin X PROVE i \in Y
      <3>1. i \in 0 .. l - 1 /\ i < b + WG /\ g[i] = d /\ ~(i < b)
        BY <2>1 DEF Sooner
      <3>2. PICK u \in Nat : u = i - b
        BY <3>1
      <3>3. u \in Kernel!Lanes /\ b + u = i
        BY <1>0, <3>1, <3>2 DEF Kernel!Lanes
      <3>4. u \in S
        BY <3>1, <3>3 DEF InTile
      <3>. QED BY <3>3, <3>4
    <2>2. X \cup Y \subseteq Sooner(l, g, b + WG, d)
      BY <1>0 DEF Sooner, InTile, Kernel!Lanes
    <2> HIDE DEF Y, X
    <2>. QED BY <2>1, <2>2
  <1> HIDE DEF X, Y
  <1>4. Cardinality(X \cup Y) = Cardinality(X) + Cardinality(Y) /\ Cardinality(X) \in Nat
    <2>1. Cardinality(X \cup Y) = Cardinality(X) + Cardinality(Y)
      BY <1>2, CountSum
    <2>2. Cardinality(X) \in 0 .. l
      BY <1>2, Counts
    <2>. QED BY <2>1, <2>2
  <1> HIDE DEF S
  <1>5. Cardinality(Y) = Cardinality(S)
    BY <1>1, TileShift DEF Y
  <1>. QED BY <1>3, <1>4, <1>5 DEF X, S

\* Where a lane puts its slot.
PlacedAt(l, g, b, t, d) ==
  Pos(g, l, b + t) = Cardinality(Under(l, g, d)) + Cardinality(Sooner(l, g, b, d))
                       + Cardinality(InTile(l, g, b, 0 .. t - 1, d))

\* Base, run and the lanes before it give a lane the place of its slot.
LEMMA PlaceIs ==
  ASSUME NEW l \in Nat, NEW g \in [0 .. l - 1 -> Kernel!Lanes], NEW b \in Nat, NEW t \in Kernel!Lanes,
         b + t < l,
         NEW d, d = g[b + t]
  PROVE  PlacedAt(l, g, b, t, d)
  <1> DEFINE X == Under(l, g, d)
  <1> DEFINE Y == Sooner(l, g, b, d)
  <1> DEFINE S == InTile(l, g, b, 0 .. t - 1, d)
  <1> DEFINE Z == {b + u : u \in S}
  <1>0. WG \in Nat /\ t \in Nat /\ t < WG /\ b + t \in 0 .. l - 1
    BY WGIs DEF Kernel!Lanes
  <1>1. S \in SUBSET Kernel!Lanes
    BY <1>0 DEF InTile, Kernel!Lanes
  <1>00. \A i \in 0 .. l - 1 : g[i] \in Nat
    BY <1>0 DEF Kernel!Lanes
  <1>2. X \in SUBSET (0 .. l - 1) /\ Y \in SUBSET (0 .. l - 1) /\ X \cap Y = {}
    BY <1>00 DEF Under, Sooner
  <1>3. Z \in SUBSET (0 .. l - 1) /\ (X \cup Y) \cap Z = {}
    BY <1>0, <1>00 DEF Under, Sooner, InTile
  <1>4. Prec(g, l, b + t) = (X \cup Y) \cup Z
    <2>1. ASSUME NEW i \in Prec(g, l, b + t), i \notin X, i \notin Y PROVE i \in Z
      <3>1. i \in 0 .. l - 1 /\ i < b + t /\ g[i] = d /\ ~(i < b)
        BY <1>00, <2>1 DEF Prec, Ahead, Under, Sooner
      <3>2. PICK u \in Nat : u = i - b
        BY <3>1
      <3>3. u \in 0 .. t - 1 /\ b + u = i
        BY <1>0, <3>1, <3>2
      <3>4. u \in S
        BY <3>1, <3>3 DEF InTile
      <3>. QED BY <3>3, <3>4
    <2>2. X \subseteq Prec(g, l, b + t) /\ Y \subseteq Prec(g, l, b + t)
      BY <1>0 DEF Prec, Ahead, Under, Sooner
    <2>3. Z \subseteq Prec(g, l, b + t)
      BY <1>0 DEF Prec, Ahead, InTile
    <2> HIDE DEF X, Y, Z
    <2>. QED BY <2>1, <2>2, <2>3
  <1> HIDE DEF X, Y, Z
  <1>5. Cardinality(X \cup Y) = Cardinality(X) + Cardinality(Y)
    BY <1>2, CountSum
  <1>6. X \cup Y \in SUBSET (0 .. l - 1)
    BY <1>2
  <1>7. Cardinality((X \cup Y) \cup Z) = Cardinality(X \cup Y) + Cardinality(Z)
    BY <1>3, <1>6, CountSum, ZenonT(40)
  <1> HIDE DEF S
  <1>8. Cardinality(Z) = Cardinality(S)
    BY <1>1, TileShift DEF Z
  <1>. QED BY <1>4, <1>5, <1>7, <1>8 DEF PlacedAt, Pos, X, Y, S

-----------------------------------------------------------------------------
(* The scan of a tile of the places where ranks begin.                     *)

Starts(l, sa, rk, h, k) == k < l /\ Begins(sa, rk, l, h, k)
FirstRanks(l, sa, rk, h, b) == {k \in 0 .. l - 1 : k < b /\ Begins(sa, rk, l, h, k)}
Win(l, sa, rk, h, b, t, d) == {u \in Kernel!Lanes : u <= t /\ t < u + d /\ Starts(l, sa, rk, h, b + u)}

\* A window of twice the width is the sum of two windows.
LEMMA WindowIs ==
  ASSUME NEW l \in Nat, NEW sa, NEW rk, NEW h, NEW b \in Nat, NEW t \in Kernel!Lanes, NEW d \in Nat \ {0}
  PROVE  /\ Cardinality(Win(l, sa, rk, h, b, t, d)) \in Nat
         /\ Cardinality(Win(l, sa, rk, h, b, t, 1)) = IF Starts(l, sa, rk, h, b + t) THEN 1 ELSE 0
         /\ Cardinality(Win(l, sa, rk, h, b, t, d * 2))
              = Cardinality(Win(l, sa, rk, h, b, t, d))
                + IF t >= d THEN Cardinality(Win(l, sa, rk, h, b, t - d, d)) ELSE 0
         /\ d >= WG => Win(l, sa, rk, h, b, t, d) = Win(l, sa, rk, h, b, t, WG)
  <1> DEFINE X == Win(l, sa, rk, h, b, t, d)
  <1> DEFINE Y == Win(l, sa, rk, h, b, t - d, d)
  <1>0. WG \in Nat /\ Kernel!Lanes = 0 .. WG - 1 /\ t \in Nat
    BY WGIs DEF Kernel!Lanes
  <1>1. X \in SUBSET (0 .. WG - 1) /\ Y \in SUBSET (0 .. WG - 1) /\ X \cap Y = {}
    BY <1>0 DEF Win
  <1>2. Win(l, sa, rk, h, b, t, d * 2) = IF t >= d THEN X \cup Y ELSE X
    BY <1>0 DEF Win
  <1>3. Win(l, sa, rk, h, b, t, 1) = IF Starts(l, sa, rk, h, b + t) THEN {t} ELSE {}
    BY <1>0 DEF Win
  <1>4. d >= WG => Win(l, sa, rk, h, b, t, d) = Win(l, sa, rk, h, b, t, WG)
    BY <1>0 DEF Win
  <1> HIDE DEF X, Y
  <1>5. Cardinality(X \cup Y) = Cardinality(X) + Cardinality(Y) /\ Cardinality(X) \in Nat
    <2>1. Cardinality(X \cup Y) = Cardinality(X) + Cardinality(Y)
      BY <1>0, <1>1, CountSum, ZenonT(40)
    <2>2. Cardinality(X) \in 0 .. WG
      BY <1>0, <1>1, Counts
    <2>. QED BY <1>0, <2>1, <2>2
  <1>6. Cardinality({t}) = 1 /\ Cardinality({}) = 0
    BY FS_Singleton, FS_EmptySet
  <1>7. Cardinality(Win(l, sa, rk, h, b, t, 1)) = IF Starts(l, sa, rk, h, b + t) THEN 1 ELSE 0
    BY <1>3, <1>6
  <1>8. Cardinality(Win(l, sa, rk, h, b, t, d * 2)) = Cardinality(X) + IF t >= d THEN Cardinality(Y) ELSE 0
    BY <1>2, <1>5
  <1>9. Cardinality(X) \in Nat
    BY <1>5
  <1>. QED BY <1>4, <1>7, <1>8, <1>9 DEF X, Y

\* The scan after the ranks of earlier tiles.
LEMMA ScanAfter ==
  ASSUME NEW l \in Nat, NEW sa, NEW rk, NEW h, NEW b \in Nat, NEW t \in Kernel!Lanes
  PROVE  /\ Cardinality(FirstRanks(l, sa, rk, h, b)) \in Nat
         /\ b + t < l => Cardinality(Begun(sa, rk, l, h, b + t))
                           = Cardinality(FirstRanks(l, sa, rk, h, b)) + Cardinality(Win(l, sa, rk, h, b, t, WG))
         /\ t = WG - 1 => Cardinality(FirstRanks(l, sa, rk, h, b + WG))
                           = Cardinality(FirstRanks(l, sa, rk, h, b)) + Cardinality(Win(l, sa, rk, h, b, t, WG))
  <1> DEFINE X == FirstRanks(l, sa, rk, h, b)
  <1> DEFINE S == Win(l, sa, rk, h, b, t, WG)
  <1> DEFINE Z == {b + u : u \in S}
  <1>0. WG \in Nat /\ Kernel!Lanes = 0 .. WG - 1 /\ t \in Nat /\ t < WG
    BY WGIs DEF Kernel!Lanes
  <1>1. S \in SUBSET Kernel!Lanes
    BY DEF Win
  <1>2. X \in SUBSET (0 .. l - 1) /\ Z \in SUBSET (0 .. l - 1) /\ X \cap Z = {}
    BY <1>0 DEF FirstRanks, Win, Starts
  <1>3. ASSUME NEW i \in 0 .. l - 1, Begins(sa, rk, l, h, i), ~(i < b), i <= b + t PROVE i \in Z
    <2>1. PICK u \in Nat : u = i - b
      BY <1>3
    <2>2. u \in 0 .. WG - 1 /\ u <= t /\ t < u + WG /\ b + u = i
      BY <1>0, <1>3, <2>1
    <2>3. u \in S
      BY <1>0, <1>3, <2>2 DEF Win, Starts
    <2>. QED BY <2>2, <2>3
  <1>4. b + t < l => Begun(sa, rk, l, h, b + t) = X \cup Z
    <2> SUFFICES ASSUME b + t < l PROVE Begun(sa, rk, l, h, b + t) = X \cup Z
      OBVIOUS
    <2>1. X \cup Z \subseteq Begun(sa, rk, l, h, b + t)
      BY <1>0 DEF FirstRanks, Win, Starts, Begun
    <2>2. ASSUME NEW i \in Begun(sa, rk, l, h, b + t), i \notin X PROVE i \in Z
      <3>1. i \in 0 .. l - 1 /\ Begins(sa, rk, l, h, i) /\ i <= b + t
        BY <1>0 DEF Begun
      <3>2. ~(i < b)
        BY <2>2, <3>1 DEF FirstRanks
      <3> HIDE DEF Z
      <3>. QED BY <1>3, <3>1, <3>2
    <2> HIDE DEF X, Z
    <2>. QED BY <2>1, <2>2
  <1>5. t = WG - 1 => FirstRanks(l, sa, rk, h, b + WG) = X \cup Z
    <2> SUFFICES ASSUME t = WG - 1 PROVE FirstRanks(l, sa, rk, h, b + WG) = X \cup Z
      OBVIOUS
    <2>1. X \cup Z \subseteq FirstRanks(l, sa, rk, h, b + WG)
      BY <1>0 DEF FirstRanks, Win, Starts
    <2>2. ASSUME NEW i \in FirstRanks(l, sa, rk, h, b + WG), i \notin X PROVE i \in Z
      <3>1. i \in 0 .. l - 1 /\ Begins(sa, rk, l, h, i) /\ i <= b + t
        BY <1>0 DEF FirstRanks
      <3>2. ~(i < b)
        BY <2>2, <3>1 DEF FirstRanks
      <3> HIDE DEF Z
      <3>. QED BY <1>3, <3>1, <3>2
    <2> HIDE DEF X, Z
    <2>. QED BY <2>1, <2>2
  <1> HIDE DEF X, Z
  <1>6. Cardinality(X \cup Z) = Cardinality(X) + Cardinality(Z) /\ Cardinality(X) \in Nat
    <2>1. Cardinality(X \cup Z) = Cardinality(X) + Cardinality(Z)
      BY <1>2, CountSum
    <2>2. Cardinality(X) \in 0 .. l
      BY <1>2, Counts
    <2>. QED BY <2>1, <2>2
  <1> HIDE DEF S
  <1>7. Cardinality(Z) = Cardinality(S)
    BY <1>1, TileShift DEF Z
  <1>8. Cardinality(X \cup Z) = Cardinality(X) + Cardinality(S) /\ Cardinality(X) \in Nat
    BY <1>6, <1>7
  <1>. QED BY <1>4, <1>5, <1>8 DEF X, S

\* A step writes no fields but those of F.
Kept(m, m2, F) ==
  /\ "sa" \in F \/ m2.sa = m.sa
  /\ "sa2" \in F \/ m2.sa2 = m.sa2
  /\ "rank" \in F \/ m2.rank = m.rank
  /\ "rank2" \in F \/ m2.rank2 = m.rank2
  /\ "hist" \in F \/ m2.hist = m.hist
  /\ "base" \in F \/ m2.base = m.base
  /\ "run" \in F \/ m2.run = m.run
  /\ "tileDigit" \in F \/ m2.tileDigit = m.tileDigit
  /\ "tileHist" \in F \/ m2.tileHist = m.tileHist
  /\ "scan" \in F \/ m2.scan = m.scan
  /\ "h" \in F \/ m2.h = m.h
  /\ "keySel" \in F \/ m2.keySel = m.keySel
  /\ "done" \in F \/ m2.done = m.done
  /\ "scanBase" \in F \/ m2.scanBase = m.scanBase
  /\ "maxRank" \in F \/ m2.maxRank = m.maxRank
  /\ "passes" \in F \/ m2.passes = m.passes

\* A step that writes the slots writes nothing else.
LEMMA Put_sa ==
  ASSUME NEW l, NEW m \in Memory(l), NEW x \in [0 .. l - 1 -> 0 .. l - 1], NEW m2, m2 = [m EXCEPT !.sa = x]
  PROVE  m2 \in Memory(l) /\ m2.sa = x /\ Kept(m, m2, {"sa"})
  BY DEF Memory, Kept

\* A step that writes the slots of the other buffer writes nothing else.
LEMMA Put_sa2 ==
  ASSUME NEW l, NEW m \in Memory(l), NEW x \in [0 .. l - 1 -> 0 .. l - 1], NEW m2, m2 = [m EXCEPT !.sa2 = x]
  PROVE  m2 \in Memory(l) /\ m2.sa2 = x /\ Kept(m, m2, {"sa2"})
  BY DEF Memory, Kept

\* A step that writes the new ranks writes nothing else.
LEMMA Put_rank2 ==
  ASSUME NEW l, NEW m \in Memory(l), NEW x \in [0 .. l - 1 -> Nat], NEW m2, m2 = [m EXCEPT !.rank2 = x]
  PROVE  m2 \in Memory(l) /\ m2.rank2 = x /\ Kept(m, m2, {"rank2"})
  BY DEF Memory, Kept

\* A step that writes the histogram writes nothing else.
LEMMA Put_hist ==
  ASSUME NEW l, NEW m \in Memory(l), NEW x \in [Kernel!Lanes -> Nat], NEW m2, m2 = [m EXCEPT !.hist = x]
  PROVE  m2 \in Memory(l) /\ m2.hist = x /\ Kept(m, m2, {"hist"})
  BY DEF Memory, Kept

\* A step that writes the bases writes nothing else.
LEMMA Put_base ==
  ASSUME NEW l, NEW m \in Memory(l), NEW x \in [Kernel!Lanes -> Nat], NEW m2, m2 = [m EXCEPT !.base = x]
  PROVE  m2 \in Memory(l) /\ m2.base = x /\ Kept(m, m2, {"base"})
  BY DEF Memory, Kept

\* A step that writes the runs writes nothing else.
LEMMA Put_run ==
  ASSUME NEW l, NEW m \in Memory(l), NEW x \in [Kernel!Lanes -> Nat], NEW m2, m2 = [m EXCEPT !.run = x]
  PROVE  m2 \in Memory(l) /\ m2.run = x /\ Kept(m, m2, {"run"})
  BY DEF Memory, Kept

\* A step that writes the digits of the tile writes nothing else.
LEMMA Put_tileDigit ==
  ASSUME NEW l, NEW m \in Memory(l), NEW x \in [Kernel!Lanes -> Nat], NEW m2, m2 = [m EXCEPT !.tileDigit = x]
  PROVE  m2 \in Memory(l) /\ m2.tileDigit = x /\ Kept(m, m2, {"tileDigit"})
  BY DEF Memory, Kept

\* A step that writes the histogram of the tile writes nothing else.
LEMMA Put_tileHist ==
  ASSUME NEW l, NEW m \in Memory(l), NEW x \in [Kernel!Lanes -> Nat], NEW m2, m2 = [m EXCEPT !.tileHist = x]
  PROVE  m2 \in Memory(l) /\ m2.tileHist = x /\ Kept(m, m2, {"tileHist"})
  BY DEF Memory, Kept

\* A step that writes the partial sums writes nothing else.
LEMMA Put_scan ==
  ASSUME NEW l, NEW m \in Memory(l), NEW x \in [Kernel!Lanes -> Nat], NEW m2, m2 = [m EXCEPT !.scan = x]
  PROVE  m2 \in Memory(l) /\ m2.scan = x /\ Kept(m, m2, {"scan"})
  BY DEF Memory, Kept

\* A step that writes the key writes nothing else.
LEMMA Put_keySel ==
  ASSUME NEW l, NEW m \in Memory(l), NEW x \in Nat, NEW m2, m2 = [m EXCEPT !.keySel = x]
  PROVE  m2 \in Memory(l) /\ m2.keySel = x /\ Kept(m, m2, {"keySel"})
  BY DEF Memory, Kept

\* A step that writes the verdict writes nothing else.
LEMMA Put_done ==
  ASSUME NEW l, NEW m \in Memory(l), NEW x \in BOOLEAN, NEW m2, m2 = [m EXCEPT !.done = x]
  PROVE  m2 \in Memory(l) /\ m2.done = x /\ Kept(m, m2, {"done"})
  BY DEF Memory, Kept

\* A step that writes the carry writes nothing else.
LEMMA Put_scanBase ==
  ASSUME NEW l, NEW m \in Memory(l), NEW x \in Nat, NEW m2, m2 = [m EXCEPT !.scanBase = x]
  PROVE  m2 \in Memory(l) /\ m2.scanBase = x /\ Kept(m, m2, {"scanBase"})
  BY DEF Memory, Kept

-----------------------------------------------------------------------------
(* What holds when lanes r have run their interval at q and no other has.  *)

Rounds(l, tx, m, h) ==
  /\ Ranked(tx, l, h, m.rank)
  /\ \A p \in 0 .. l - 1 : m.rank[p] <= m.maxRank
  /\ m.maxRank + 1 < WG * WG * WG
Round(l, tx, q, m) == Rounds(l, tx, m, q.h) /\ m.h = q.h /\ m.passes = Kernel!Passes(m.maxRank)
Sorting(l, tx, q, m) ==
  /\ Round(l, tx, q, m) /\ m.keySel = q.key /\ q.pass <= m.passes
  /\ Ordered(Kernel!Slots(m, q.pass), l, q.pass, KeyOf(l, m, q), PriorOf(l, m, q))
Passing(l, tx, q, m) == Sorting(l, tx, q, m) /\ q.pass < m.passes
RanksSorted(l, sa, rk) == \A i, j \in 0 .. l - 1 : i < j => rk[sa[i]] <= rk[sa[j]]

AtInit(l, tx, q, r, m) ==
  /\ q.h = 1
  /\ \A i \in 0 .. l - 1 : i % WG \in r => m.sa[i] = i /\ m.rank[i] = tx[i]
  /\ 0 \in r => m.maxRank = WG - 1
AtHead(l, tx, q, r, m) ==
  /\ Rounds(l, tx, m, q.h) /\ Injects(m.sa, l)
  /\ q.h >= l => RanksSorted(l, m.sa, m.rank)
  /\ 0 \in r => m.h = q.h /\ m.passes = Kernel!Passes(m.maxRank) /\ m.keySel = 0
AtClear(l, tx, q, r, m) ==
  /\ Sorting(l, tx, q, m)
  /\ q.pass < m.passes => \A u \in r : m.hist[u] = 0
  /\ ~(q.pass < m.passes) =>
       /\ m.passes % 2 = 1
       /\ \A i \in 0 .. l - 1 : i % WG \in r => m.sa[i] = m.sa2[i]
AtCount(l, tx, q, r, m) ==
  /\ Passing(l, tx, q, m)
  /\ \A d \in Kernel!Lanes : m.hist[d] = Cardinality(SomeOf(l, DigitsOf(l, m, q), r, d))

Based(l, g, m) == \A d \in Kernel!Lanes : m.base[d] = Cardinality(Under(l, g, d))
Ran(l, g, b, m) == \A d \in Kernel!Lanes : m.run[d] = Cardinality(Sooner(l, g, b, d))
AtBase(l, tx, q, r, m) ==
  /\ Passing(l, tx, q, m)
  /\ \A d \in Kernel!Lanes : m.hist[d] = Cardinality(AllOf(l, DigitsOf(l, m, q), d))
  /\ 0 \in r => Based(l, DigitsOf(l, m, q), m) /\ \A d \in Kernel!Lanes : m.run[d] = 0

Tile(l, tx, q, m, r) ==
  /\ Passing(l, tx, q, m) /\ Based(l, DigitsOf(l, m, q), m)
  /\ PutTo(l, Kernel!Slots(m, q.pass), Target(m, q.pass), DigitsOf(l, m, q), q.tile * WG, r)
Taken(l, g, a, b, r, m, c) ==
  /\ \A d \in Kernel!Lanes : m.tileHist[d] = Cardinality(InTile(l, g, b, r, d))
  /\ \A u \in Kernel!Lanes : m.tileDigit[u] = IF u \in r /\ b + u < l THEN g[b + u] ELSE WG
  /\ \A u \in r : b + u < l => c[u].s = a[b + u] /\ c[u].d = g[b + u]
AtLoad(l, tx, q, r, m) ==
  /\ Tile(l, tx, q, m, {}) /\ Ran(l, DigitsOf(l, m, q), q.tile * WG, m)
  /\ \A u \in r : m.tileHist[u] = 0 /\ m.tileDigit[u] = WG
AtDigit(l, tx, q, r, m, c) ==
  /\ Tile(l, tx, q, m, {}) /\ Ran(l, DigitsOf(l, m, q), q.tile * WG, m)
  /\ Taken(l, DigitsOf(l, m, q), Kernel!Slots(m, q.pass), q.tile * WG, r, m, c)
AtPlace(l, tx, q, r, m, c) ==
  /\ Tile(l, tx, q, m, r) /\ Ran(l, DigitsOf(l, m, q), q.tile * WG, m)
  /\ Taken(l, DigitsOf(l, m, q), Kernel!Slots(m, q.pass), q.tile * WG, Kernel!Lanes, m, c)
AtAdvance(l, tx, q, r, m) ==
  /\ Tile(l, tx, q, m, Kernel!Lanes)
  /\ \A d \in Kernel!Lanes :
       /\ m.tileHist[d] = Cardinality(InTile(l, DigitsOf(l, m, q), q.tile * WG, Kernel!Lanes, d))
       /\ m.run[d] = Cardinality(Sooner(l, DigitsOf(l, m, q), q.tile * WG + IF d \in r THEN WG ELSE 0, d))

AtSorted(l, tx, q, r, m) ==
  /\ Round(l, tx, q, m) /\ Ordered(m.sa, l, m.passes, KeyOf(l, m, q), PriorOf(l, m, q))
  /\ 0 \in r => IF q.key = 0 THEN m.keySel = 1 ELSE m.scanBase = 0

-----------------------------------------------------------------------------
(* The sort, a lane at a time.                                             *)

\* A pass goes on if what it reads stays.
Same(m, m2) ==
  /\ m2.rank = m.rank /\ m2.maxRank = m.maxRank /\ m2.h = m.h /\ m2.keySel = m.keySel /\ m2.passes = m.passes

\* A sort goes on where its slots and ranks are kept.
LEMMA SortingKept ==
  ASSUME NEW l, NEW tx, NEW q, NEW m, NEW m2, Same(m, m2), Kernel!Slots(m2, q.pass) = Kernel!Slots(m, q.pass)
  PROVE  /\ DigitsOf(l, m2, q) = DigitsOf(l, m, q) /\ KeyOf(l, m2, q) = KeyOf(l, m, q)
         /\ PriorOf(l, m2, q) = PriorOf(l, m, q)
         /\ Round(l, tx, q, m2) = Round(l, tx, q, m)
         /\ Sorting(l, tx, q, m2) = Sorting(l, tx, q, m)
         /\ Passing(l, tx, q, m2) = Passing(l, tx, q, m)
  <1>1. KeyOf(l, m2, q) = KeyOf(l, m, q) /\ PriorOf(l, m2, q) = PriorOf(l, m, q)
    BY DEF KeyOf, PriorOf, Afters, Same
  <1>2. DigitsOf(l, m2, q) = DigitsOf(l, m, q)
    BY <1>1 DEF DigitsOf
  <1>3. Round(l, tx, q, m2) = Round(l, tx, q, m)
    BY DEF Round, Rounds, Same
  <1>4. Sorting(l, tx, q, m2) = Sorting(l, tx, q, m)
    BY <1>1, <1>3 DEF Sorting, Same
  <1>. QED BY <1>1, <1>2, <1>3, <1>4 DEF Passing, Same

\* There are three passes at most.
LEMMA PassingIs ==
  ASSUME NEW l \in Nat, NEW tx, NEW q \in Positions, NEW m \in Memory(l), Passing(l, tx, q, m)
  PROVE  m.passes \in 1 .. 3 /\ q.pass \in 0 .. 2
  BY DEF Passing, Sorting, Round, Kernel!Passes, Positions

\* What lane t writes of an array it shares.
Share(l, t, b, a) == [i \in 0 .. l - 1 |-> IF i % WG = t THEN b[i] ELSE a[i]]
Started(l, tx, t, m) ==
  [m EXCEPT !.sa = Share(l, t, [i \in 0 .. l - 1 |-> i], m.sa), !.rank = Share(l, t, tx, m.rank),
            !.maxRank = IF t = 0 THEN WG - 1 ELSE m.maxRank]
HeadOf(q, t, m) == IF t = 0 THEN [m EXCEPT !.h = q.h, !.passes = Kernel!Passes(m.maxRank), !.keySel = 0] ELSE m
Counting(l, g, t, hist) ==
  [d \in Kernel!Lanes |-> hist[d] + Cardinality({i \in {j \in 0 .. l - 1 : j % WG = t} : g[i] = d})]
Zeros == [d \in Kernel!Lanes |-> 0]
Cleared(l, q, t, m) ==
  IF q.pass < m.passes THEN [m EXCEPT !.hist[t] = 0] ELSE [m EXCEPT !.sa = Share(l, t, m.sa2, m.sa)]
Unders(l, g) == [d \in Kernel!Lanes |-> Cardinality(Under(l, g, d))]
BaseOf(t, f, m) == IF t = 0 THEN [m EXCEPT !.base = f, !.run = Zeros] ELSE m

Bytes(l) == [0 .. l - 1 -> Kernel!Lanes]

\* A lane fills its share of slots and ranks.
LEMMA StepInit ==
  ASSUME NEW l \in Nat, NEW tx \in Bytes(l), NEW q \in Positions, NEW m \in Memory(l),
         NEW t \in Kernel!Lanes, NEW r \in SUBSET Kernel!Lanes, AtInit(l, tx, q, r, m),
         NEW m2, m2 = Started(l, tx, t, m)
  PROVE  m2 \in Memory(l) /\ AtInit(l, tx, q, r \cup {t}, m2) /\ m2.passes = m.passes /\ m2.done = m.done
  <1>0. WG \in Nat /\ WG - 1 \in Nat /\ \A i \in 0 .. l - 1 : tx[i] \in Nat
    BY WGIs DEF Kernel!Lanes, Bytes
  <1>1. /\ m2.sa = [i \in 0 .. l - 1 |-> IF i % WG = t THEN i ELSE m.sa[i]]
        /\ m2.rank = [i \in 0 .. l - 1 |-> IF i % WG = t THEN tx[i] ELSE m.rank[i]]
        /\ m2.maxRank = IF t = 0 THEN WG - 1 ELSE m.maxRank
        /\ m2.passes = m.passes /\ m2.done = m.done
    <2>1. Share(l, t, [i \in 0 .. l - 1 |-> i], m.sa) = [i \in 0 .. l - 1 |-> IF i % WG = t THEN i ELSE m.sa[i]]
      BY DEF Share
    <2>. QED BY <2>1 DEF Memory, Started, Share
  <1>2. m2 \in Memory(l)
    <2>1. PICK x \in [0 .. l - 1 -> 0 .. l - 1], y \in [0 .. l - 1 -> Nat], z \in Nat :
            /\ x = Share(l, t, [i \in 0 .. l - 1 |-> i], m.sa) /\ y = Share(l, t, tx, m.rank)
            /\ z = IF t = 0 THEN WG - 1 ELSE m.maxRank
      BY <1>0 DEF Memory, Share
    <2>2. m2 = [m EXCEPT !.sa = x, !.rank = y, !.maxRank = z]
      BY <2>1 DEF Started
    <2>. QED BY <2>2 DEF Memory
  <1>. QED BY <1>1, <1>2 DEF AtInit

\* Lane 0 sets the round up.
LEMMA StepHead ==
  ASSUME NEW l \in Nat, NEW tx, NEW q \in Positions, NEW m \in Memory(l),
         NEW t \in Kernel!Lanes, NEW r \in SUBSET Kernel!Lanes, AtHead(l, tx, q, r, m),
         NEW m2, m2 = HeadOf(q, t, m)
  PROVE  m2 \in Memory(l) /\ AtHead(l, tx, q, r \cup {t}, m2) /\ m2.done = m.done
  <1>1. q.h \in Nat /\ Kernel!Passes(m.maxRank) \in Nat
    BY DEF Positions, Kernel!Passes
  <1>2. /\ m2.rank = m.rank /\ m2.maxRank = m.maxRank /\ m2.sa = m.sa
        /\ t = 0 => m2.h = q.h /\ m2.passes = Kernel!Passes(m.maxRank) /\ m2.keySel = 0
        /\ t # 0 => m2 = m
        /\ m2.done = m.done
    BY DEF Memory, HeadOf
  <1>3. m2 \in Memory(l)
    BY <1>1 DEF Memory, HeadOf
  <1>. QED BY <1>2, <1>3 DEF AtHead, Rounds

\* A lane clears its digit, or copies its share back after the last pass.
LEMMA StepClear ==
  ASSUME NEW l \in Nat, NEW tx, NEW q \in Positions, NEW m \in Memory(l),
         NEW t \in Kernel!Lanes, NEW r \in SUBSET Kernel!Lanes, AtClear(l, tx, q, r, m),
         NEW m2, m2 = Cleared(l, q, t, m)
  PROVE  m2 \in Memory(l) /\ AtClear(l, tx, q, r \cup {t}, m2) /\ m2.passes = m.passes /\ m2.done = m.done
  <1>1. CASE q.pass < m.passes
    <2>0. PICK x \in [Kernel!Lanes -> Nat] : x = [m.hist EXCEPT ![t] = 0]
      BY DEF Memory
    <2>1. m2 = [m EXCEPT !.hist = x]
      BY <1>1, <2>0 DEF Cleared
    <2>2. m2 \in Memory(l) /\ m2.hist = x /\ Kept(m, m2, {"hist"})
      BY <2>1, Put_hist
    <2>5. Same(m, m2) /\ m2.sa = m.sa /\ m2.sa2 = m.sa2 /\ m2.done = m.done
      BY <2>2 DEF Kept, Same
    <2>6. Kernel!Slots(m2, q.pass) = Kernel!Slots(m, q.pass) /\ Sorting(l, tx, q, m)
      BY <2>5 DEF AtClear, Kernel!Slots
    <2>3. Sorting(l, tx, q, m2)
      BY <2>5, <2>6, SortingKept
    <2>7. m.hist \in [Kernel!Lanes -> Nat] /\ \A u \in r : m.hist[u] = 0
      BY <1>1 DEF AtClear, Memory
    <2>4. \A u \in r \cup {t} : m2.hist[u] = 0
      BY <2>0, <2>2, <2>7
    <2>. QED BY <1>1, <2>2, <2>3, <2>4, <2>5 DEF AtClear, Same
  <1>2. CASE ~(q.pass < m.passes)
    <2>0. PICK x \in [0 .. l - 1 -> 0 .. l - 1] :
            x = [i \in 0 .. l - 1 |-> IF i % WG = t THEN m.sa2[i] ELSE m.sa[i]]
      BY DEF Memory
    <2>1. m2 = [m EXCEPT !.sa = x]
      BY <1>2, <2>0 DEF Share, Cleared
    <2>2. m2 \in Memory(l) /\ m2.sa = x /\ Kept(m, m2, {"sa"})
      BY <2>1, Put_sa
    <2>6. Same(m, m2) /\ m2.sa2 = m.sa2 /\ m2.done = m.done
      BY <2>2 DEF Kept, Same
    <2>7. Sorting(l, tx, q, m) /\ m.passes % 2 = 1 /\ \A i \in 0 .. l - 1 : i % WG \in r => m.sa[i] = m.sa2[i]
      BY <1>2 DEF AtClear
    <2>3. q.pass = m.passes
      <3>1. q.pass <= m.passes /\ q.pass \in Int /\ m.passes \in Int
        BY <2>7 DEF Sorting, Positions, Memory
      <3>. QED BY <1>2, <3>1
    <2>8. Kernel!Slots(m2, q.pass) = Kernel!Slots(m, q.pass)
      BY <2>3, <2>6, <2>7 DEF Kernel!Slots
    <2>4. Sorting(l, tx, q, m2)
      BY <2>6, <2>7, <2>8, SortingKept
    <2>5. \A i \in 0 .. l - 1 : i % WG \in r \cup {t} => m2.sa[i] = m2.sa2[i]
      BY <2>0, <2>2, <2>6, <2>7
    <2>. QED BY <1>2, <2>2, <2>4, <2>5, <2>6, <2>7 DEF AtClear, Same
  <1>. QED BY <1>1, <1>2

\* A lane counts the digits of its share.
LEMMA StepCount ==
  ASSUME NEW l \in Nat, NEW tx, NEW q \in Positions, NEW m \in Memory(l),
         NEW t \in Kernel!Lanes, NEW r \in SUBSET Kernel!Lanes, t \notin r, AtCount(l, tx, q, r, m),
         NEW g, g = DigitsOf(l, m, q),
         NEW m2, m2 = [m EXCEPT !.hist = Counting(l, g, t, m.hist)]
  PROVE  m2 \in Memory(l) /\ AtCount(l, tx, q, r \cup {t}, m2) /\ m2.passes = m.passes /\ m2.done = m.done
  <1>1. ASSUME NEW d \in Kernel!Lanes
        PROVE  /\ Cardinality({i \in {j \in 0 .. l - 1 : j % WG = t} : g[i] = d}) \in Nat
               /\ m.hist[d] + Cardinality({i \in {j \in 0 .. l - 1 : j % WG = t} : g[i] = d})
                    = Cardinality(SomeOf(l, g, r \cup {t}, d))
    <2>1. Cardinality(SomeOf(l, g, r \cup {t}, d))
            = Cardinality(SomeOf(l, g, r, d)) + Cardinality({i \in {j \in 0 .. l - 1 : j % WG = t} : g[i] = d})
      BY CountOwn
    <2>2. m.hist[d] = Cardinality(SomeOf(l, g, r, d))
      BY DEF AtCount
    <2>3. {i \in {j \in 0 .. l - 1 : j % WG = t} : g[i] = d} \in SUBSET (0 .. l - 1)
      OBVIOUS
    <2>4. Cardinality({i \in {j \in 0 .. l - 1 : j % WG = t} : g[i] = d}) \in 0 .. l
      BY <2>3, Counts
    <2>. QED BY <2>1, <2>2, <2>4
  <1>2. PICK hh : hh = [d \in Kernel!Lanes |-> m.hist[d]
                         + Cardinality({i \in {j \in 0 .. l - 1 : j % WG = t} : g[i] = d})]
    OBVIOUS
  <1>7. ASSUME NEW d \in Kernel!Lanes
        PROVE  hh[d] \in Nat /\ hh[d] = Cardinality(SomeOf(l, g, r \cup {t}, d))
    <2>1. m.hist[d] \in Nat
      BY DEF Memory
    <2>3. PICK c \in Nat : c = Cardinality({i \in {j \in 0 .. l - 1 : j % WG = t} : g[i] = d})
      BY <1>1
    <2>4. m.hist[d] + c = Cardinality(SomeOf(l, g, r \cup {t}, d))
      BY <1>1, <2>3
    <2>2. hh[d] = m.hist[d] + c
      BY <1>2, <2>3
    <2>. QED BY <2>1, <2>2, <2>3, <2>4
  <1>3. hh \in [Kernel!Lanes -> Nat]
    BY <1>2, <1>7
  <1>4. m2 = [m EXCEPT !.hist = hh]
    BY <1>2 DEF Counting
  <1>8. m2 \in Memory(l) /\ m2.hist = hh /\ Kept(m, m2, {"hist"})
    BY <1>3, <1>4, Put_hist
  <1>5. Same(m, m2) /\ Kernel!Slots(m2, q.pass) = Kernel!Slots(m, q.pass) /\ m2.done = m.done
    BY <1>8 DEF Kept, Same, Kernel!Slots
  <1>6. Passing(l, tx, q, m2) /\ DigitsOf(l, m2, q) = g
    BY <1>5, SortingKept DEF AtCount
  <1>. QED BY <1>5, <1>6, <1>7, <1>8 DEF AtCount, Same

\* Lane 0 sums the histogram.
LEMMA StepBase ==
  ASSUME NEW l \in Nat, NEW tx, NEW q \in Positions, NEW m \in Memory(l),
         NEW t \in Kernel!Lanes, NEW r \in SUBSET Kernel!Lanes, AtBase(l, tx, q, r, m),
         NEW f, f = Unders(l, DigitsOf(l, m, q)), NEW m2, m2 = BaseOf(t, f, m)
  PROVE  m2 \in Memory(l) /\ AtBase(l, tx, q, r \cup {t}, m2) /\ m2.passes = m.passes /\ m2.done = m.done
  <1>1. CASE t = 0
    <2>1. PICK g : g = DigitsOf(l, m, q)
      OBVIOUS
    <2>2. f \in [Kernel!Lanes -> Nat] /\ \A d \in Kernel!Lanes : f[d] = Cardinality(Under(l, g, d))
      <3>1. ASSUME NEW d \in Kernel!Lanes PROVE Cardinality(Under(l, g, d)) \in Nat
        <4>1. Under(l, g, d) \in SUBSET (0 .. l - 1)
          BY DEF Under
        <4>2. Cardinality(Under(l, g, d)) \in 0 .. l
          BY <4>1, Counts
        <4>. QED BY <4>2
      <3>. QED BY <1>1, <2>1, <3>1 DEF Unders
    <2>3. m2 = [m EXCEPT !.base = f, !.run = [d \in Kernel!Lanes |-> 0]]
      BY <1>1 DEF Zeros, BaseOf
    <2>6. PICK x \in [Kernel!Lanes -> Nat] : x = [d \in Kernel!Lanes |-> 0]
      OBVIOUS
    <2>7. PICK m1 : m1 = [m EXCEPT !.base = f]
      OBVIOUS
    <2>8. m1 \in Memory(l) /\ m1.base = f /\ Kept(m, m1, {"base"})
      BY <2>2, <2>7, Put_base
    <2>9. m2 = [m1 EXCEPT !.run = x]
      BY <2>3, <2>6, <2>7, <2>8
    <2>10. m2 \in Memory(l) /\ m2.run = x /\ Kept(m1, m2, {"run"})
      BY <2>8, <2>9, Put_run
    <2>4. /\ Same(m, m2) /\ Kernel!Slots(m2, q.pass) = Kernel!Slots(m, q.pass)
          /\ m2.hist = m.hist /\ m2.base = f /\ m2.done = m.done
      BY <2>8, <2>10 DEF Kept, Same, Kernel!Slots
    <2>5. Passing(l, tx, q, m2) /\ DigitsOf(l, m2, q) = g
      BY <2>1, <2>4, SortingKept DEF AtBase
    <2>. QED BY <2>1, <2>2, <2>4, <2>5, <2>6, <2>10 DEF AtBase, Based, Same
  <1>2. CASE t # 0
    <2>1. m2 = m
      BY <1>2 DEF BaseOf
    <2>. QED BY <1>2, <2>1 DEF AtBase
  <1>. QED BY <1>1, <1>2

\* A tile goes on, too.
LEMMA TileKept ==
  ASSUME NEW l, NEW tx, NEW q, NEW m, NEW m2, NEW r, Same(m, m2), m2.sa = m.sa, m2.sa2 = m.sa2, m2.base = m.base
  PROVE  /\ DigitsOf(l, m2, q) = DigitsOf(l, m, q)
         /\ Kernel!Slots(m2, q.pass) = Kernel!Slots(m, q.pass)
         /\ Tile(l, tx, q, m, r) => Tile(l, tx, q, m2, r)
  <1>1. Kernel!Slots(m2, q.pass) = Kernel!Slots(m, q.pass) /\ Target(m2, q.pass) = Target(m, q.pass)
    BY DEF Kernel!Slots, Target
  <1>2. DigitsOf(l, m2, q) = DigitsOf(l, m, q) /\ Passing(l, tx, q, m2) = Passing(l, tx, q, m)
    BY <1>1, SortingKept
  <1>. QED BY <1>1, <1>2 DEF Tile, Based

\* A lane clears its place in the tile.
LEMMA StepLoad ==
  ASSUME NEW l \in Nat, NEW tx, NEW q \in Positions, NEW m \in Memory(l),
         NEW t \in Kernel!Lanes, NEW r \in SUBSET Kernel!Lanes, AtLoad(l, tx, q, r, m),
         NEW m2, m2 = [m EXCEPT !.tileHist[t] = 0, !.tileDigit[t] = WG]
  PROVE  m2 \in Memory(l) /\ AtLoad(l, tx, q, r \cup {t}, m2)
  <1>0. WG \in Nat
    BY WGIs
  <1>1. PICK x \in [Kernel!Lanes -> Nat], y \in [Kernel!Lanes -> Nat] :
          x = [m.tileHist EXCEPT ![t] = 0] /\ y = [m.tileDigit EXCEPT ![t] = WG]
    BY <1>0 DEF Memory
  <1>2. PICK m1 : m1 = [m EXCEPT !.tileHist = x]
    OBVIOUS
  <1>3. m1 \in Memory(l) /\ m1.tileHist = x /\ Kept(m, m1, {"tileHist"})
    BY <1>2, Put_tileHist
  <1>4. m2 = [m1 EXCEPT !.tileDigit = y]
    BY <1>1, <1>2
  <1>5. m2 \in Memory(l) /\ m2.tileDigit = y /\ Kept(m1, m2, {"tileDigit"})
    BY <1>3, <1>4, Put_tileDigit
  <1>6. /\ Same(m, m2) /\ m2.sa = m.sa /\ m2.sa2 = m.sa2 /\ m2.base = m.base /\ m2.run = m.run
        /\ m2.tileHist = x /\ m2.tileDigit = y
    BY <1>3, <1>5 DEF Kept, Same
  <1>12. Tile(l, tx, q, m, {})
    BY DEF AtLoad
  <1>7. Tile(l, tx, q, m2, {}) /\ DigitsOf(l, m2, q) = DigitsOf(l, m, q)
    BY <1>6, <1>12, TileKept
  <1>8. Ran(l, DigitsOf(l, m2, q), q.tile * WG, m2)
    BY <1>6, <1>7 DEF AtLoad, Ran
  <1>9. \A u \in r : m.tileHist[u] = 0 /\ m.tileDigit[u] = WG
    BY DEF AtLoad
  <1>10. m.tileHist \in [Kernel!Lanes -> Nat] /\ m.tileDigit \in [Kernel!Lanes -> Nat]
    BY DEF Memory
  <1>11. \A u \in r \cup {t} : x[u] = 0 /\ y[u] = WG
    BY <1>1, <1>9, <1>10
  <1>. QED BY <1>5, <1>6, <1>7, <1>8, <1>11 DEF AtLoad

\* A lane beyond the text has no digit.
LEMMA StepDigitIdle ==
  ASSUME NEW l \in Nat, NEW tx, NEW q \in Positions, NEW m \in Memory(l), NEW c,
         NEW t \in Kernel!Lanes, NEW r \in SUBSET Kernel!Lanes, t \notin r, AtDigit(l, tx, q, r, m, c),
         ~(q.tile * WG + t < l)
  PROVE  AtDigit(l, tx, q, r \cup {t}, m, c)
  <1>1. PICK b, g, a : /\ b \in Nat /\ b = q.tile * WG
                       /\ g = DigitsOf(l, m, q) /\ a = Kernel!Slots(m, q.pass)
    BY Slotted
  <1>2. Taken(l, g, a, b, r, m, c) /\ ~(b + t < l)
    BY <1>1 DEF AtDigit
  <1>3. \A d \in Kernel!Lanes : InTile(l, g, b, r \cup {t}, d) = InTile(l, g, b, r, d)
    BY <1>2 DEF InTile
  <1>4. Taken(l, g, a, b, r \cup {t}, m, c)
    BY <1>2, <1>3 DEF Taken
  <1>. QED BY <1>1, <1>4 DEF AtDigit

Takes(t, d, m) == [m EXCEPT !.tileDigit[t] = d, !.tileHist[d] = @ + 1]
Carries(t, s, d, c) == [c EXCEPT ![t] = [c[t] EXCEPT !.s = s, !.d = d]]
DigitHere(l, m, q, t) == DigitsOf(l, m, q)[q.tile * WG + t]
SlotHere(m, q, t) == Kernel!Slots(m, q.pass)[q.tile * WG + t]

\* A lane publishes the digit of its slot and keeps its suffix.
LEMMA StepDigit ==
  ASSUME NEW l \in Nat, NEW tx, NEW q \in Positions, NEW m \in Memory(l), NEW c \in Registers(l),
         NEW t \in Kernel!Lanes, NEW r \in SUBSET Kernel!Lanes, t \notin r, AtDigit(l, tx, q, r, m, c),
         q.tile * WG + t < l,
         NEW d, d = DigitHere(l, m, q, t), NEW s, s = SlotHere(m, q, t),
         NEW m2, m2 = Takes(t, d, m), NEW c2, c2 = Carries(t, s, d, c)
  PROVE  m2 \in Memory(l) /\ c2 \in Registers(l) /\ AtDigit(l, tx, q, r \cup {t}, m2, c2)
  <1>20. PICK b, g, a : b = q.tile * WG /\ g = DigitsOf(l, m, q) /\ a = Kernel!Slots(m, q.pass)
    OBVIOUS
  <1>21. d = g[b + t] /\ s = a[b + t]
    BY <1>20 DEF DigitHere, SlotHere
  <1>0. b \in Nat /\ t \in Nat /\ b + t \in 0 .. l - 1 /\ b + t < l
    BY <1>20, Slotted, WGIs DEF Kernel!Lanes
  <1>1. Passing(l, tx, q, m) /\ Taken(l, g, a, b, r, m, c)
    BY <1>20 DEF AtDigit, Tile
  <1>2. q.pass \in 0 .. 2
    BY <1>1, PassingIs
  <1>3. g \in [0 .. l - 1 -> Kernel!Lanes] /\ a \in [0 .. l - 1 -> 0 .. l - 1]
    BY <1>2, <1>20, Digital
  <1>22. g[b + t] \in Kernel!Lanes /\ a[b + t] \in 0 .. l - 1
    BY <1>0, <1>3
  <1>4. d \in Kernel!Lanes /\ d \in Nat /\ a[b + t] \in 0 .. l - 1
    BY <1>21, <1>22, WGIs DEF Kernel!Lanes
  <1>5. m.tileHist \in [Kernel!Lanes -> Nat] /\ m.tileDigit \in [Kernel!Lanes -> Nat]
    BY DEF Memory
  <1>6. PICK x \in [Kernel!Lanes -> Nat], y \in [Kernel!Lanes -> Nat] :
          x = [m.tileHist EXCEPT ![d] = m.tileHist[d] + 1] /\ y = [m.tileDigit EXCEPT ![t] = d]
    <2>1. m.tileHist[d] + 1 \in Nat
      BY <1>4, <1>5
    <2>2. [m.tileHist EXCEPT ![d] = m.tileHist[d] + 1] \in [Kernel!Lanes -> Nat]
      BY <1>5, <2>1
    <2>3. [m.tileDigit EXCEPT ![t] = d] \in [Kernel!Lanes -> Nat]
      BY <1>4, <1>5
    <2>. QED BY <2>2, <2>3
  <1>7. PICK m1 : m1 = [m EXCEPT !.tileDigit = y]
    OBVIOUS
  <1>8. m1 \in Memory(l) /\ m1.tileDigit = y /\ Kept(m, m1, {"tileDigit"})
    BY <1>7, Put_tileDigit
  <1>9. m2 = [m1 EXCEPT !.tileHist = x]
    BY <1>6, <1>7 DEF Takes
  <1>10. m2 \in Memory(l) /\ m2.tileHist = x /\ Kept(m1, m2, {"tileHist"})
    BY <1>8, <1>9, Put_tileHist
  <1>11. /\ Same(m, m2) /\ m2.sa = m.sa /\ m2.sa2 = m.sa2 /\ m2.base = m.base /\ m2.run = m.run
         /\ m2.tileHist = x /\ m2.tileDigit = y
    BY <1>8, <1>10 DEF Kept, Same
  <1>12. Tile(l, tx, q, m2, {}) /\ DigitsOf(l, m2, q) = g /\ Kernel!Slots(m2, q.pass) = a
    <2>1. Tile(l, tx, q, m, {})
      BY DEF AtDigit
    <2>2. Tile(l, tx, q, m2, {})
      BY <1>11, <2>1, TileKept
    <2>3. DigitsOf(l, m2, q) = DigitsOf(l, m, q) /\ Kernel!Slots(m2, q.pass) = Kernel!Slots(m, q.pass)
      BY <1>11, TileKept
    <2>. QED BY <1>20, <2>1, <2>2, <2>3
  <1>13. Ran(l, g, b, m2)
    BY <1>11, <1>20 DEF AtDigit, Ran
  <1>14. c2 \in Registers(l) /\ c2[t].s = a[b + t] /\ c2[t].d = d /\ \A u \in r : c2[u] = c[u]
    <2>1. PICK y2 : y2 = [c[t] EXCEPT !.s = a[b + t], !.d = d]
      OBVIOUS
    <2>2. c \in [Kernel!Lanes -> [s : 0 .. l - 1, d : Kernel!Lanes, v : Nat]]
      BY DEF Registers
    <2>5. PICK x2 \in 0 .. l - 1 : x2 = a[b + t]
      BY <1>4
    <2>6. c[t] \in [s : 0 .. l - 1, d : Kernel!Lanes, v : Nat] /\ y2 = [c[t] EXCEPT !.s = x2, !.d = d]
      BY <2>1, <2>2, <2>5
    <2>7. PICK y1 \in [s : 0 .. l - 1, d : Kernel!Lanes, v : Nat] : y1 = c[t]
      BY <2>6
    <2>8. y2 \in [s : 0 .. l - 1, d : Kernel!Lanes, v : Nat] /\ y2.s = x2 /\ y2.d = d
      BY <1>4, <2>6, <2>7
    <2>3. y2 \in [s : 0 .. l - 1, d : Kernel!Lanes, v : Nat] /\ y2.s = a[b + t] /\ y2.d = d
      BY <2>5, <2>8
    <2>4. c2 = [c EXCEPT ![t] = y2]
      BY <1>21, <2>1 DEF Carries
    <2>. QED BY <2>2, <2>3, <2>4 DEF Registers
  <1>15. ASSUME NEW e \in Kernel!Lanes PROVE x[e] = Cardinality(InTile(l, g, b, r \cup {t}, e))
    <2>1. /\ Cardinality(InTile(l, g, b, r, e)) \in Nat
          /\ Cardinality(InTile(l, g, b, r \cup {t}, e))
               = Cardinality(InTile(l, g, b, r, e)) + IF b + t < l /\ g[b + t] = e THEN 1 ELSE 0
      <3>1. b \in Nat
        BY <1>0
      <3>2. TileGrows(l, g, b, r, t, e)
        BY <3>1, TileOne
      <3>. QED BY <3>2 DEF TileGrows
    <2>2. m.tileHist[e] = Cardinality(InTile(l, g, b, r, e))
      BY <1>1 DEF Taken
    <2>3. x[e] = IF e = d THEN m.tileHist[e] + 1 ELSE m.tileHist[e]
      BY <1>4, <1>5, <1>6
    <2>. QED BY <1>0, <1>21, <2>1, <2>2, <2>3
  <1>16. ASSUME NEW u \in Kernel!Lanes PROVE y[u] = IF u \in r \cup {t} /\ b + u < l THEN g[b + u] ELSE WG
    <2>1. m.tileDigit[u] = IF u \in r /\ b + u < l THEN g[b + u] ELSE WG
      BY <1>1 DEF Taken
    <2>2. y[u] = IF u = t THEN d ELSE m.tileDigit[u]
      BY <1>5, <1>6
    <2>. QED BY <1>0, <1>21, <2>1, <2>2
  <1>17. \A u \in r \cup {t} : b + u < l => c2[u].s = a[b + u] /\ c2[u].d = g[b + u]
    BY <1>1, <1>14, <1>21 DEF Taken
  <1>18. Taken(l, g, a, b, r \cup {t}, m2, c2)
    BY <1>11, <1>15, <1>16, <1>17 DEF Taken
  <1>. QED BY <1>10, <1>12, <1>13, <1>14, <1>18, <1>20 DEF AtDigit

\* A lane with no slot, or with one.
LEMMA StepPlaceIdle ==
  ASSUME NEW l \in Nat, NEW tx, NEW q \in Positions, NEW m \in Memory(l), NEW c,
         NEW t \in Kernel!Lanes, NEW r \in SUBSET Kernel!Lanes, AtPlace(l, tx, q, r, m, c),
         ~(q.tile * WG + t < l)
  PROVE  AtPlace(l, tx, q, r \cup {t}, m, c)
  <1>1. PICK b, g, a, e : /\ b = q.tile * WG /\ b \in Nat /\ g = DigitsOf(l, m, q)
                          /\ a = Kernel!Slots(m, q.pass) /\ e = Target(m, q.pass)
    BY Slotted
  <1>2. PutTo(l, a, e, g, b, r) /\ ~(b + t < l)
    BY <1>1 DEF AtPlace, Tile
  <1>3. PutTo(l, a, e, g, b, r \cup {t})
    BY <1>2 DEF PutTo, Reached
  <1>. QED BY <1>1, <1>3 DEF AtPlace, Tile

Before(t, d, m) == m.base[d] + m.run[d] + Cardinality({u \in 0 .. t - 1 : m.tileDigit[u] = d})
Puts(q, x, s, m) == IF q.pass % 2 = 0 THEN [m EXCEPT !.sa2[x] = s] ELSE [m EXCEPT !.sa[x] = s]

\* A lane puts its suffix where the stable order wants it, and nobody else's.
LEMMA StepPlace ==
  ASSUME NEW l \in Nat, NEW tx, NEW q \in Positions, NEW m \in Memory(l), NEW c \in Registers(l),
         NEW t \in Kernel!Lanes, NEW r \in SUBSET Kernel!Lanes, AtPlace(l, tx, q, r, m, c),
         q.tile * WG + t < l,
         NEW d, d = c[t].d,
         NEW dst, dst = Before(t, d, m), NEW s, s = c[t].s, NEW m2, m2 = Puts(q, dst, s, m)
  PROVE  m2 \in Memory(l) /\ AtPlace(l, tx, q, r \cup {t}, m2, c)
  <1>1. PICK b, g, a, e : /\ b = q.tile * WG /\ b \in Nat /\ g = DigitsOf(l, m, q)
                          /\ a = Kernel!Slots(m, q.pass) /\ e = Target(m, q.pass)
    BY Slotted
  <1>0. b \in Nat /\ t \in Nat /\ t < WG /\ WG \in Nat /\ b + t \in 0 .. l - 1 /\ b + t < l
    BY <1>1, WGIs DEF Kernel!Lanes
  <1>2. /\ Passing(l, tx, q, m) /\ Based(l, g, m) /\ PutTo(l, a, e, g, b, r) /\ Ran(l, g, b, m)
        /\ Taken(l, g, a, b, Kernel!Lanes, m, c)
    BY <1>1 DEF AtPlace, Tile
  <1>3. q.pass \in 0 .. 2
    BY <1>2, PassingIs
  <1>4. g \in [0 .. l - 1 -> Kernel!Lanes] /\ a \in [0 .. l - 1 -> 0 .. l - 1]
            /\ e \in [0 .. l - 1 -> 0 .. l - 1]
    BY <1>1, <1>3, Digital
  <1>5. c[t].s = a[b + t] /\ d = g[b + t] /\ d \in Kernel!Lanes /\ a[b + t] \in 0 .. l - 1
    BY <1>0, <1>2, <1>4 DEF Taken
  <1>6. {u \in 0 .. t - 1 : m.tileDigit[u] = d} = InTile(l, g, b, 0 .. t - 1, d)
    <2>1. \A u \in 0 .. t - 1 : m.tileDigit[u] = g[b + u] /\ b + u < l
      <3> SUFFICES ASSUME NEW u \in 0 .. t - 1 PROVE m.tileDigit[u] = g[b + u] /\ b + u < l
        OBVIOUS
      <3>1. u \in Kernel!Lanes /\ b + u < l
        BY <1>0 DEF Kernel!Lanes
      <3>. QED BY <1>2, <3>1 DEF Taken
    <2>. QED BY <2>1 DEF InTile
  <1>7. dst = Pos(g, l, b + t)
    <2>1. m.base[d] = Cardinality(Under(l, g, d)) /\ m.run[d] = Cardinality(Sooner(l, g, b, d))
      BY <1>2, <1>5 DEF Based, Ran
    <2>2. Pos(g, l, b + t) = Cardinality(Under(l, g, d)) + Cardinality(Sooner(l, g, b, d))
                            + Cardinality(InTile(l, g, b, 0 .. t - 1, d))
      <3>1. b \in Nat /\ b + t < l /\ d = g[b + t]
        BY <1>0, <1>5
      <3>2. PlacedAt(l, g, b, t, d)
        BY <1>4, <3>1, PlaceIs
      <3>. QED BY <3>2 DEF PlacedAt
    <2>. QED BY <1>6, <2>1, <2>2 DEF Before
  <1>8. dst \in 0 .. l - 1
    BY <1>0, <1>4, <1>7, PosOrder
  <1>9. PICK x \in [0 .. l - 1 -> 0 .. l - 1] : x = [e EXCEPT ![dst] = a[b + t]]
    BY <1>4, <1>5
  <1>10. /\ m2 \in Memory(l) /\ Same(m, m2) /\ m2.base = m.base /\ m2.run = m.run
         /\ m2.tileHist = m.tileHist /\ m2.tileDigit = m.tileDigit
         /\ Kernel!Slots(m2, q.pass) = a /\ Target(m2, q.pass) = x
    <2>1. CASE q.pass % 2 = 0
      <3>1. m2 = [m EXCEPT !.sa2 = x]
        BY <1>1, <1>5, <1>9, <2>1 DEF Target, Puts
      <3>2. m2 \in Memory(l) /\ m2.sa2 = x /\ Kept(m, m2, {"sa2"})
        BY <3>1, Put_sa2
      <3>. QED BY <1>1, <2>1, <3>2 DEF Kept, Same, Kernel!Slots, Target
    <2>2. CASE q.pass % 2 # 0
      <3>1. m2 = [m EXCEPT !.sa = x]
        BY <1>1, <1>5, <1>9, <2>2 DEF Target, Puts
      <3>2. m2 \in Memory(l) /\ m2.sa = x /\ Kept(m, m2, {"sa"})
        BY <3>1, Put_sa
      <3>. QED BY <1>1, <2>2, <3>2 DEF Kept, Same, Kernel!Slots, Target
    <2>. QED BY <2>1, <2>2
  <1>11. Passing(l, tx, q, m2) /\ DigitsOf(l, m2, q) = g
    BY <1>1, <1>2, <1>10, SortingKept
  <1>12. PutTo(l, a, x, g, b, r \cup {t})
    <2> SUFFICES ASSUME NEW i \in 0 .. l - 1, Reached(b, r \cup {t}, i) PROVE x[Pos(g, l, i)] = a[i]
      BY DEF PutTo
    <2>1. Pos(g, l, i) \in 0 .. l - 1 /\ (Pos(g, l, i) = dst => i = b + t)
      BY <1>0, <1>4, <1>7, PosOrder
    <2>2. CASE i = b + t
      BY <1>4, <1>7, <1>8, <1>9, <2>2
    <2>3. CASE i # b + t
      <3>1. Reached(b, r, i)
        BY <2>3 DEF Reached
      <3>2. e[Pos(g, l, i)] = a[i]
        BY <1>2, <3>1 DEF PutTo
      <3>. QED BY <1>4, <1>9, <2>1, <2>3, <3>2
    <2>. QED BY <2>2, <2>3
  <1>13. Based(l, g, m2) /\ Ran(l, g, b, m2) /\ Taken(l, g, a, b, Kernel!Lanes, m2, c)
    BY <1>2, <1>10 DEF Based, Ran, Taken
  <1>. QED BY <1>1, <1>10, <1>11, <1>12, <1>13 DEF AtPlace, Tile

\* A lane advances the run of its digit by the tile.
LEMMA StepAdvance ==
  ASSUME NEW l \in Nat, NEW tx, NEW q \in Positions, NEW m \in Memory(l),
         NEW t \in Kernel!Lanes, NEW r \in SUBSET Kernel!Lanes, t \notin r, AtAdvance(l, tx, q, r, m),
         NEW m2, m2 = [m EXCEPT !.run[t] = @ + m.tileHist[t]]
  PROVE  m2 \in Memory(l) /\ AtAdvance(l, tx, q, r \cup {t}, m2)
  <1>1. PICK b, g : b \in Nat /\ b = q.tile * WG /\ g = DigitsOf(l, m, q)
    BY Slotted
  <1>2. m.run \in [Kernel!Lanes -> Nat] /\ m.tileHist \in [Kernel!Lanes -> Nat] /\ WG \in Nat
    BY WGIs DEF Memory
  <1>3. PICK x \in [Kernel!Lanes -> Nat] : x = [m.run EXCEPT ![t] = m.run[t] + m.tileHist[t]]
    <2>1. m.run[t] + m.tileHist[t] \in Nat
      BY <1>2
    <2>. QED BY <1>2, <2>1
  <1>4. m2 = [m EXCEPT !.run = x]
    BY <1>3
  <1>5. m2 \in Memory(l) /\ m2.run = x /\ Kept(m, m2, {"run"})
    BY <1>4, Put_run
  <1>6. Same(m, m2) /\ m2.sa = m.sa /\ m2.sa2 = m.sa2 /\ m2.base = m.base /\ m2.tileHist = m.tileHist
    BY <1>5 DEF Kept, Same
  <1>7. Tile(l, tx, q, m2, Kernel!Lanes) /\ DigitsOf(l, m2, q) = g
    <2>1. Tile(l, tx, q, m, Kernel!Lanes)
      BY DEF AtAdvance
    <2>2. Tile(l, tx, q, m2, Kernel!Lanes)
      BY <1>6, <2>1, TileKept
    <2>3. DigitsOf(l, m2, q) = DigitsOf(l, m, q)
      BY <1>6, TileKept
    <2>. QED BY <1>1, <2>1, <2>2, <2>3
  <1>8. ASSUME NEW d \in Kernel!Lanes
        PROVE  x[d] = Cardinality(Sooner(l, g, b + IF d \in r \cup {t} THEN WG ELSE 0, d))
    <2>1. /\ m.tileHist[d] = Cardinality(InTile(l, g, b, Kernel!Lanes, d))
          /\ m.run[d] = Cardinality(Sooner(l, g, b + IF d \in r THEN WG ELSE 0, d))
      BY <1>1 DEF AtAdvance
    <2>2. CASE d = t
      <3>1. m.run[d] = Cardinality(Sooner(l, g, b, d))
        BY <1>1, <2>1, <2>2
      <3>2. Cardinality(Sooner(l, g, b + WG, d)) = m.run[d] + m.tileHist[d]
        BY <1>1, <2>1, <3>1, SoonerNext
      <3>. QED BY <1>2, <1>3, <2>2, <3>2
    <2>3. CASE d # t
      BY <1>2, <1>3, <2>1, <2>3
    <2>. QED BY <2>2, <2>3
  <1>. QED BY <1>1, <1>5, <1>6, <1>7, <1>8 DEF AtAdvance

\* Lane 0 turns to the next key, or to the scan.
LEMMA StepSorted ==
  ASSUME NEW l \in Nat, NEW tx, NEW q \in Positions, NEW m \in Memory(l),
         NEW t \in Kernel!Lanes, NEW r \in SUBSET Kernel!Lanes, AtSorted(l, tx, q, r, m),
         NEW m2, m2 = IF t = 0 THEN IF q.key = 0 THEN [m EXCEPT !.keySel = 1] ELSE [m EXCEPT !.scanBase = 0] ELSE m
  PROVE  m2 \in Memory(l) /\ AtSorted(l, tx, q, r \cup {t}, m2)
  <1>1. CASE t = 0
    <2>1. /\ m2 \in Memory(l) /\ m2.sa = m.sa /\ m2.rank = m.rank /\ m2.maxRank = m.maxRank /\ m2.h = m.h
          /\ m2.passes = m.passes /\ IF q.key = 0 THEN m2.keySel = 1 ELSE m2.scanBase = 0
      <3>1. CASE q.key = 0
        <4>1. m2 \in Memory(l) /\ m2.keySel = 1 /\ Kept(m, m2, {"keySel"})
          BY <1>1, <3>1, Put_keySel
        <4>. QED BY <3>1, <4>1 DEF Kept
      <3>2. CASE q.key # 0
        <4>1. m2 \in Memory(l) /\ m2.scanBase = 0 /\ Kept(m, m2, {"scanBase"})
          BY <1>1, <3>2, Put_scanBase
        <4>. QED BY <3>2, <4>1 DEF Kept
      <3>. QED BY <3>1, <3>2
    <2>2. KeyOf(l, m2, q) = KeyOf(l, m, q) /\ PriorOf(l, m2, q) = PriorOf(l, m, q)
      BY <2>1 DEF KeyOf, PriorOf, Afters
    <2>3. Round(l, tx, q, m2) = Round(l, tx, q, m)
      BY <2>1 DEF Round, Rounds
    <2>. QED BY <2>1, <2>2, <2>3 DEF AtSorted
  <1>2. CASE t # 0
    BY <1>2 DEF AtSorted
  <1>. QED BY <1>1, <1>2

-----------------------------------------------------------------------------
(* The scan and the new ranks.                                             *)

Ranking(l, tx, q, m) == Ranked(tx, l, q.h, m.rank) /\ InPairOrder(m.sa, m.rank, l, q.h)
Numbers(l, q, m, r) ==
  \A k \in 0 .. l - 1 :
    Reached(q.tile * WG, r, k) => m.rank2[m.sa[k]] = Cardinality(Begun(m.sa, m.rank, l, q.h, k))
Scanned(l, q, m, t, d) == Cardinality(Win(l, m.sa, m.rank, q.h, q.tile * WG, t, d))
Sofar(l, q, m, b) == Cardinality(FirstRanks(l, m.sa, m.rank, q.h, b))
Held(l, q, m, c, r) == \A u \in r : q.tile * WG + u < l => c[u].s = m.sa[q.tile * WG + u]

Scanning(l, tx, q, r, m) ==
  Ranking(l, tx, q, m) /\ Numbers(l, q, m, r) /\ m.scanBase = Sofar(l, q, m, q.tile * WG)
AtFlag(l, tx, q, r, m, c) ==
  /\ Scanning(l, tx, q, {}, m) /\ Held(l, q, m, c, r)
  /\ \A u \in r : m.scan[u] = Scanned(l, q, m, u, 1)
AtRead(l, tx, q, r, m, c) ==
  /\ Scanning(l, tx, q, {}, m) /\ Held(l, q, m, c, Kernel!Lanes)
  /\ \A u \in Kernel!Lanes : m.scan[u] = Scanned(l, q, m, u, q.d)
  /\ \A u \in r : c[u].v = Scanned(l, q, m, u, q.d * 2)
AtWrite(l, tx, q, r, m, c) ==
  /\ Scanning(l, tx, q, {}, m) /\ Held(l, q, m, c, Kernel!Lanes)
  /\ \A u \in Kernel!Lanes : c[u].v = Scanned(l, q, m, u, q.d * 2)
  /\ \A u \in r : m.scan[u] = Scanned(l, q, m, u, q.d * 2)
AtRank(l, tx, q, r, m, c) ==
  /\ Scanning(l, tx, q, r, m) /\ Held(l, q, m, c, Kernel!Lanes)
  /\ \A u \in Kernel!Lanes : m.scan[u] = Scanned(l, q, m, u, WG)
AtBump(l, tx, q, r, m) ==
  /\ Ranking(l, tx, q, m) /\ Numbers(l, q, m, Kernel!Lanes)
  /\ m.scanBase = Sofar(l, q, m, q.tile * WG + IF 0 \in r THEN WG ELSE 0)
  /\ \A u \in Kernel!Lanes : m.scan[u] = Scanned(l, q, m, u, WG)
AtFinish(l, tx, q, r, m) ==
  /\ Ranking(l, tx, q, m) /\ Numbered(m.sa, m.rank2, m.rank, l, q.h)
  /\ m.scanBase = Cardinality(AllRanks(m.sa, m.rank, l, q.h))
  /\ 0 \in r => m.done = (m.scanBase = l) /\ m.maxRank = m.scanBase

NewRanks(l, tx, m, h, rk) ==
  /\ Ranked(tx, l, h, rk) /\ Injects(m.sa, l) /\ RanksSorted(l, m.sa, rk)
  /\ \A p \in 0 .. l - 1 : rk[p] <= m.maxRank
  /\ m.maxRank <= l
  /\ m.done => \A p, q \in 0 .. l - 1 : rk[p] = rk[q] => p = q
AtCopy(l, tx, q, r, m) ==
  /\ NewRanks(l, tx, m, q.h * 2, m.rank2)
  /\ \A i \in 0 .. l - 1 : i % WG \in r => m.rank[i] = m.rank2[i]
AtCheck(l, tx, q, m) == NewRanks(l, tx, m, q.h * 2, m.rank)
AtEnd(l, tx, m) ==
  /\ {m.sa[i] : i \in 0 .. l - 1} = 0 .. l - 1
  /\ \A i, j \in 0 .. l - 1 : i < j => SufLess(tx, l, m.sa[i], m.sa[j])

\* A scan goes on where slots and ranks are kept.
LEMMA ScanningKept ==
  ASSUME NEW l, NEW tx, NEW q, NEW m, NEW m2, NEW c, NEW r, m2.sa = m.sa, m2.rank = m.rank
  PROVE  /\ Held(l, q, m, c, r) => Held(l, q, m2, c, r)
         /\ Ranking(l, tx, q, m) => Ranking(l, tx, q, m2)
         /\ m2.rank2 = m.rank2 /\ Numbers(l, q, m, r) => Numbers(l, q, m2, r)
         /\ m2.rank2 = m.rank2 /\ m2.scanBase = m.scanBase /\ Scanning(l, tx, q, r, m) => Scanning(l, tx, q, r, m2)
  BY DEF Scanned, Sofar, Held, Ranking, Numbers, Scanning

SetsRow(l, c, t, c2, f, x) == c2 \in Registers(l) /\ c2[t][f] = x
    /\ \A u \in Kernel!Lanes : u # t => c2[u] = c[u]

\* Setting the suffix in a lane's registers.
LEMMA SetS ==
  ASSUME NEW l, NEW c \in Registers(l), NEW t \in Kernel!Lanes, NEW s \in 0 .. l - 1,
         NEW c2, c2 = [c EXCEPT ![t] = [c[t] EXCEPT !.s = s]]
  PROVE  SetsRow(l, c, t, c2, "s", s)
  <1> DEFINE Row == [s : 0 .. l - 1, d : Kernel!Lanes, v : Nat]
  <1>1. c \in [Kernel!Lanes -> Row] /\ c[t] \in Row
    BY DEF Registers
  <1>2. PICK y \in Row : y = c[t]
    BY <1>1
  <1>3. PICK y2 : y2 = [y EXCEPT !.s = s]
    OBVIOUS
  <1>5. y2 \in Row /\ y2.s = s
    BY <1>3
  <1>7. c2 = [c EXCEPT ![t] = y2]
    BY <1>2, <1>3
  <1> HIDE DEF Row
  <1>8. c2 \in [Kernel!Lanes -> Row] /\ c2[t] = y2 /\ \A u \in Kernel!Lanes : u # t => c2[u] = c[u]
    BY <1>1, <1>5, <1>7
  <1>. QED BY <1>5, <1>8 DEF Registers, Row, SetsRow
WithV(c, t, v) == [c EXCEPT ![t] = [c[t] EXCEPT !.v = v]]
SetsV(l, c, t, c2, v) == SetsRow(l, c, t, c2, "v", v) /\ c2[t].s = c[t].s

\* Setting the partial sum in a lane's registers.
LEMMA SetV ==
  ASSUME NEW l, NEW c \in Registers(l), NEW t \in Kernel!Lanes, NEW v \in Nat,
         NEW c2, c2 = WithV(c, t, v)
  PROVE  SetsV(l, c, t, c2, v)
  <1> DEFINE Row == [s : 0 .. l - 1, d : Kernel!Lanes, v : Nat]
  <1>1. c \in [Kernel!Lanes -> Row] /\ c[t] \in Row
    BY DEF Registers
  <1>2. PICK y \in Row : y = c[t]
    BY <1>1
  <1>3. PICK y2 : y2 = [y EXCEPT !.v = v]
    OBVIOUS
  <1>5. y2 \in Row /\ y2.v = v /\ y2.s = y.s
    BY <1>3
  <1>7. c2 = [c EXCEPT ![t] = y2]
    BY <1>2, <1>3 DEF WithV
  <1> HIDE DEF Row
  <1>8. c2 \in [Kernel!Lanes -> Row] /\ c2[t] = y2 /\ \A u \in Kernel!Lanes : u # t => c2[u] = c[u]
    BY <1>1, <1>5, <1>7
  <1>. QED BY <1>2, <1>5, <1>8 DEF Registers, Row, SetsRow, SetsV

FlagOf(l, m, q, t) == IF Starts(l, m.sa, m.rank, q.h, q.tile * WG + t) THEN 1 ELSE 0
Sets(t, v, m) == [m EXCEPT !.scan[t] = v]
Slots(l, m, q, t, c) ==
  [c EXCEPT ![t] = IF q.tile * WG + t < l THEN [c[t] EXCEPT !.s = m.sa[q.tile * WG + t]] ELSE c[t]]

\* A lane flags its slot when the pair changes there.
LEMMA StepFlag ==
  ASSUME NEW l \in Nat, NEW tx, NEW q \in Positions, NEW m \in Memory(l), NEW c \in Registers(l),
         NEW t \in Kernel!Lanes, NEW r \in SUBSET Kernel!Lanes, AtFlag(l, tx, q, r, m, c),
         NEW v, v = FlagOf(l, m, q, t), NEW m2, m2 = Sets(t, v, m), NEW c2, c2 = Slots(l, m, q, t, c)
  PROVE  m2 \in Memory(l) /\ c2 \in Registers(l) /\ AtFlag(l, tx, q, r \cup {t}, m2, c2)
  <1>1. PICK b \in Nat : b = q.tile * WG
    BY Slotted
  <1>2. m.scan \in [Kernel!Lanes -> Nat] /\ v \in Nat
    BY DEF Memory, FlagOf
  <1>3. PICK x \in [Kernel!Lanes -> Nat] : x = [m.scan EXCEPT ![t] = v]
    BY <1>2
  <1>4. m2 = [m EXCEPT !.scan = x]
    BY <1>3 DEF Sets
  <1>5. m2 \in Memory(l) /\ m2.scan = x /\ Kept(m, m2, {"scan"})
    BY <1>4, Put_scan
  <1>6. m2.sa = m.sa /\ m2.rank = m.rank /\ m2.rank2 = m.rank2 /\ m2.scanBase = m.scanBase
    BY <1>5 DEF Kept
  <1>7. Scanning(l, tx, q, {}, m) /\ Held(l, q, m, c, r)
    BY DEF AtFlag
  <1>8. Scanning(l, tx, q, {}, m2)
    BY <1>6, <1>7, ScanningKept
  <1>9. v = Scanned(l, q, m, t, 1)
    <2>1. /\ Cardinality(Win(l, m.sa, m.rank, q.h, b, t, 1))
               = IF Starts(l, m.sa, m.rank, q.h, b + t) THEN 1 ELSE 0
      BY WindowIs
    <2>. QED BY <1>1, <2>1 DEF Scanned, FlagOf
  <1>10. \A u \in r \cup {t} : m2.scan[u] = Scanned(l, q, m2, u, 1)
    <2> SUFFICES ASSUME NEW u \in r \cup {t} PROVE x[u] = Scanned(l, q, m2, u, 1)
      BY <1>5
    <2>2. Scanned(l, q, m2, u, 1) = Scanned(l, q, m, u, 1)
      BY <1>6 DEF Scanned
    <2>1. u \in r => m.scan[u] = Scanned(l, q, m, u, 1)
      BY DEF AtFlag
    <2>. QED BY <1>2, <1>3, <1>9, <2>1, <2>2
  <1>11. c2 \in Registers(l) /\ Held(l, q, m, c2, r \cup {t})
    <2>1. CASE b + t < l
      <3>1. b + t \in 0 .. l - 1 /\ m.sa \in [0 .. l - 1 -> 0 .. l - 1]
        <4>1. b + t \in 0 .. l - 1
          BY <1>1, <2>1, WGIs DEF Kernel!Lanes
        <4>2. m.sa \in [0 .. l - 1 -> 0 .. l - 1]
          BY DEF Memory
        <4>. QED BY <4>1, <4>2
      <3>2. PICK s \in 0 .. l - 1 : s = m.sa[b + t]
        BY <3>1
      <3>3. c2 = [c EXCEPT ![t] = [c[t] EXCEPT !.s = s]]
        BY <1>1, <2>1, <3>2 DEF Slots
      <3>4. c2 \in Registers(l) /\ c2[t].s = s /\ \A u \in Kernel!Lanes : u # t => c2[u] = c[u]
        <4>1. SetsRow(l, c, t, c2, "s", s)
          BY <3>3, SetS
        <4>. QED BY <4>1 DEF SetsRow
      <3>. QED BY <1>1, <1>7, <3>2, <3>4 DEF Held
    <2>2. CASE ~(b + t < l)
      <3>1. c2 = [c EXCEPT ![t] = c[t]]
        BY <1>1, <2>2 DEF Slots
      <3>2. c2 = c
        BY <3>1 DEF Registers
      <3>. QED BY <1>1, <1>7, <2>2, <3>2 DEF Held
    <2>. QED BY <2>1, <2>2
  <1>12. Held(l, q, m2, c2, r \cup {t})
    BY <1>6, <1>11 DEF Held
  <1>. QED BY <1>5, <1>8, <1>10, <1>11, <1>12 DEF AtFlag

\* A lane adds the window before its own.
LEMMA StepRead ==
  ASSUME NEW l \in Nat, NEW tx, NEW q \in Positions, NEW m \in Memory(l), NEW c \in Registers(l),
         NEW t \in Kernel!Lanes, NEW r \in SUBSET Kernel!Lanes, AtRead(l, tx, q, r, m, c),
         NEW v, v = m.scan[t] + IF t >= q.d THEN m.scan[t - q.d] ELSE 0,
         NEW c2, c2 = [c EXCEPT ![t] = [c[t] EXCEPT !.v = v]]
  PROVE  c2 \in Registers(l) /\ AtRead(l, tx, q, r \cup {t}, m, c2)
  <1>1. PICK b \in Nat, d \in Nat \ {0} : b = q.tile * WG /\ d = q.d
    BY Slotted DEF Positions
  <1>2. m.scan[t] = Scanned(l, q, m, t, d) /\ m.scan[t] \in Nat
    BY <1>1 DEF AtRead, Memory
  <1>3. t >= d => m.scan[t - d] = Scanned(l, q, m, t - d, d) /\ m.scan[t - d] \in Nat
    <2> SUFFICES ASSUME t >= d PROVE m.scan[t - d] = Scanned(l, q, m, t - d, d) /\ m.scan[t - d] \in Nat
      OBVIOUS
    <2>1. t - d \in Kernel!Lanes
      BY WGIs DEF Kernel!Lanes
    <2>2. PICK u \in Kernel!Lanes : u = t - d
      BY <2>1
    <2>3. m.scan[u] = Scanned(l, q, m, u, d) /\ m.scan[u] \in Nat
      BY <1>1 DEF AtRead, Memory
    <2>. QED BY <2>2, <2>3
  <1>4. v = Scanned(l, q, m, t, d * 2) /\ v \in Nat
    <2>1. Cardinality(Win(l, m.sa, m.rank, q.h, b, t, d * 2))
              = Cardinality(Win(l, m.sa, m.rank, q.h, b, t, d))
                + IF t >= d THEN Cardinality(Win(l, m.sa, m.rank, q.h, b, t - d, d)) ELSE 0
      BY WindowIs
    <2>2. Scanned(l, q, m, t, d * 2) = Scanned(l, q, m, t, d) + IF t >= d THEN Scanned(l, q, m, t - d, d) ELSE 0
      BY <1>1, <2>1 DEF Scanned
    <2>3. v = m.scan[t] + IF t >= d THEN m.scan[t - d] ELSE 0
      BY <1>1
    <2>. QED BY <1>2, <1>3, <2>2, <2>3
  <1>7. /\ c2 \in Registers(l) /\ c2[t].v = v /\ \A u \in Kernel!Lanes : u # t => c2[u] = c[u]
        /\ c2[t].s = c[t].s
    <2>0. PICK w \in Nat : w = v
      BY <1>4
    <2>2. c2 = WithV(c, t, w)
      BY <2>0 DEF WithV
    <2>1. SetsV(l, c, t, c2, w)
      BY <2>2, SetV
    <2>. QED BY <2>0, <2>1 DEF SetsRow, SetsV
  <1>8. Held(l, q, m, c2, Kernel!Lanes)
    BY <1>7 DEF Held, AtRead
  <1>9. \A u \in r \cup {t} : c2[u].v = Scanned(l, q, m, u, q.d * 2)
    <2> SUFFICES ASSUME NEW u \in r \cup {t} PROVE c2[u].v = Scanned(l, q, m, u, q.d * 2)
      OBVIOUS
    <2>1. CASE u = t
      BY <1>1, <1>4, <1>7, <2>1
    <2>2. CASE u # t
      BY <1>7, <2>2 DEF AtRead
    <2>. QED BY <2>1, <2>2
  <1>. QED BY <1>7, <1>8, <1>9 DEF AtRead

\* A lane publishes the sum.
LEMMA StepWrite ==
  ASSUME NEW l \in Nat, NEW tx, NEW q \in Positions, NEW m \in Memory(l), NEW c \in Registers(l),
         NEW t \in Kernel!Lanes, NEW r \in SUBSET Kernel!Lanes, AtWrite(l, tx, q, r, m, c),
         NEW m2, m2 = [m EXCEPT !.scan[t] = c[t].v]
  PROVE  m2 \in Memory(l) /\ AtWrite(l, tx, q, r \cup {t}, m2, c)
  <1>1. c[t].v \in Nat /\ m.scan \in [Kernel!Lanes -> Nat]
    BY DEF Registers, Memory
  <1>2. PICK x \in [Kernel!Lanes -> Nat] : x = [m.scan EXCEPT ![t] = c[t].v]
    BY <1>1
  <1>3. m2 = [m EXCEPT !.scan = x]
    BY <1>2
  <1>4. m2 \in Memory(l) /\ m2.scan = x /\ Kept(m, m2, {"scan"})
    BY <1>3, Put_scan
  <1>5. m2.sa = m.sa /\ m2.rank = m.rank /\ m2.rank2 = m.rank2 /\ m2.scanBase = m.scanBase
    BY <1>4 DEF Kept
  <1>6. Scanning(l, tx, q, {}, m) /\ Held(l, q, m, c, Kernel!Lanes)
    BY DEF AtWrite
  <1>7. Scanning(l, tx, q, {}, m2) /\ Held(l, q, m2, c, Kernel!Lanes)
    BY <1>5, <1>6, ScanningKept
  <1>8. \A u \in Kernel!Lanes : c[u].v = Scanned(l, q, m2, u, q.d * 2)
    <2>1. \A u \in Kernel!Lanes : c[u].v = Scanned(l, q, m, u, q.d * 2)
      BY DEF AtWrite
    <2>2. \A u \in Kernel!Lanes : Scanned(l, q, m2, u, q.d * 2) = Scanned(l, q, m, u, q.d * 2)
      BY <1>5 DEF Scanned
    <2>. QED BY <2>1, <2>2
  <1>9. \A u \in r \cup {t} : x[u] = Scanned(l, q, m2, u, q.d * 2)
    <2> SUFFICES ASSUME NEW u \in r \cup {t} PROVE x[u] = Scanned(l, q, m2, u, q.d * 2)
      OBVIOUS
    <2>1. Scanned(l, q, m2, u, q.d * 2) = Scanned(l, q, m, u, q.d * 2)
      BY <1>5 DEF Scanned
    <2>2. u # t => m.scan[u] = Scanned(l, q, m, u, q.d * 2)
      BY DEF AtWrite
    <2>. QED BY <1>1, <1>2, <1>8, <2>1, <2>2
  <1>. QED BY <1>4, <1>7, <1>8, <1>9 DEF AtWrite

\* A step that writes the ranks writes nothing else.
LEMMA Put_rank ==
  ASSUME NEW l, NEW m \in Memory(l), NEW x \in [0 .. l - 1 -> Nat], NEW m2, m2 = [m EXCEPT !.rank = x]
  PROVE  m2 \in Memory(l) /\ m2.rank = x /\ Kept(m, m2, {"rank"})
  BY DEF Memory, Kept

\* A step that writes the greatest rank writes nothing else.
LEMMA Put_maxRank ==
  ASSUME NEW l, NEW m \in Memory(l), NEW x \in Nat, NEW m2, m2 = [m EXCEPT !.maxRank = x]
  PROVE  m2 \in Memory(l) /\ m2.maxRank = x /\ Kept(m, m2, {"maxRank"})
  BY DEF Memory, Kept

\* A lane beyond the text ranks nothing.
LEMMA StepRankIdle ==
  ASSUME NEW l \in Nat, NEW tx, NEW q \in Positions, NEW m \in Memory(l), NEW c,
         NEW t \in Kernel!Lanes, NEW r \in SUBSET Kernel!Lanes, AtRank(l, tx, q, r, m, c),
         ~(q.tile * WG + t < l)
  PROVE  AtRank(l, tx, q, r \cup {t}, m, c)
  <1>1. PICK b \in Nat : b = q.tile * WG
    BY Slotted
  <1>2. Numbers(l, q, m, r) /\ ~(b + t < l)
    BY <1>1 DEF AtRank, Scanning
  <1>3. Numbers(l, q, m, r \cup {t})
    BY <1>1, <1>2 DEF Numbers, Reached
  <1>. QED BY <1>3 DEF AtRank, Scanning

\* A lane ranks its suffix by the pairs that change up to it.
LEMMA StepRank ==
  ASSUME NEW l \in Nat, NEW tx, NEW q \in Positions, NEW m \in Memory(l), NEW c \in Registers(l),
         NEW t \in Kernel!Lanes, NEW r \in SUBSET Kernel!Lanes, AtRank(l, tx, q, r, m, c),
         q.tile * WG + t < l,
         NEW m2, m2 = [m EXCEPT !.rank2[c[t].s] = m.scanBase + m.scan[t]]
  PROVE  m2 \in Memory(l) /\ AtRank(l, tx, q, r \cup {t}, m2, c)
  <1>1. PICK b \in Nat, k \in 0 .. l - 1 : b = q.tile * WG /\ k = b + t
    <2>1. PICK b \in Nat : b = q.tile * WG
      BY Slotted
    <2>2. b + t \in 0 .. l - 1
      BY <2>1, WGIs DEF Kernel!Lanes
    <2>. QED BY <2>1, <2>2
  <1>2. /\ Ranking(l, tx, q, m) /\ Numbers(l, q, m, r) /\ m.scanBase = Sofar(l, q, m, b)
        /\ Held(l, q, m, c, Kernel!Lanes) /\ m.scan[t] = Scanned(l, q, m, t, WG)
    BY <1>1 DEF AtRank, Scanning
  <1>3. m.sa \in [0 .. l - 1 -> 0 .. l - 1] /\ m.rank2 \in [0 .. l - 1 -> Nat]
        /\ \A i, j \in 0 .. l - 1 : m.sa[i] = m.sa[j] => i = j
    <2>1. Injects(m.sa, l)
      BY <1>2 DEF Ranking, InPairOrder
    <2>. QED BY <2>1 DEF Injects, Memory
  <1>4. c[t].s = m.sa[k]
    BY <1>1, <1>2 DEF Held
  <1>5. PICK s \in 0 .. l - 1 : s = m.sa[k]
    BY <1>3
  <1>17. m.scanBase \in Nat /\ m.scan \in [Kernel!Lanes -> Nat]
    BY DEF Memory
  <1>6. PICK v \in Nat : v = m.scanBase + m.scan[t]
    BY <1>17
  <1>7. v = Cardinality(Begun(m.sa, m.rank, l, q.h, k))
    <2>1. b + t < l => Cardinality(Begun(m.sa, m.rank, l, q.h, b + t))
                      = Cardinality(FirstRanks(l, m.sa, m.rank, q.h, b)) + Cardinality(Win(l, m.sa, m.rank, q.h, b, t, WG))
      BY ScanAfter
    <2>2. m.scan[t] = Cardinality(Win(l, m.sa, m.rank, q.h, b, t, WG))
      BY <1>1, <1>2 DEF Scanned
    <2>3. m.scanBase = Cardinality(FirstRanks(l, m.sa, m.rank, q.h, b))
      BY <1>2 DEF Sofar
    <2>. QED BY <1>1, <1>6, <2>1, <2>2, <2>3
  <1>8. PICK x \in [0 .. l - 1 -> Nat] : x = [m.rank2 EXCEPT ![s] = v]
    BY <1>3
  <1>9. m2 = [m EXCEPT !.rank2 = x]
    BY <1>4, <1>5, <1>6, <1>8
  <1>10. m2 \in Memory(l) /\ m2.rank2 = x /\ Kept(m, m2, {"rank2"})
    BY <1>9, Put_rank2
  <1>11. m2.sa = m.sa /\ m2.rank = m.rank /\ m2.scanBase = m.scanBase /\ m2.scan = m.scan
    BY <1>10 DEF Kept
  <1>12. Numbers(l, q, m2, r \cup {t})
    <2> SUFFICES ASSUME NEW i \in 0 .. l - 1, Reached(b, r \cup {t}, i)
                 PROVE  x[m.sa[i]] = Cardinality(Begun(m.sa, m.rank, l, q.h, i))
      BY <1>1, <1>10, <1>11 DEF Numbers
    <2>1. CASE i = k
      BY <1>3, <1>5, <1>7, <1>8, <2>1
    <2>2. CASE i # k
      <3>1. Reached(b, r, i)
        BY <1>1, <2>2 DEF Reached
      <3>2. m.rank2[m.sa[i]] = Cardinality(Begun(m.sa, m.rank, l, q.h, i))
        BY <1>1, <1>2, <3>1 DEF Numbers
      <3>3. m.sa[i] # s /\ m.sa[i] \in 0 .. l - 1
        BY <1>3, <1>5, <2>2
      <3>. QED BY <1>3, <1>8, <3>2, <3>3
    <2>. QED BY <2>1, <2>2
  <1>13. Ranking(l, tx, q, m2) /\ Held(l, q, m2, c, Kernel!Lanes)
    BY <1>2, <1>11, ScanningKept
  <1>14. m2.scanBase = Sofar(l, q, m2, q.tile * WG)
    BY <1>1, <1>2, <1>11 DEF Sofar
  <1>15. \A u \in Kernel!Lanes : m2.scan[u] = Scanned(l, q, m2, u, WG)
    <2> SUFFICES ASSUME NEW u \in Kernel!Lanes PROVE m2.scan[u] = Scanned(l, q, m2, u, WG)
      OBVIOUS
    <2>1. m.scan[u] = Scanned(l, q, m, u, WG)
      BY DEF AtRank
    <2>. QED BY <1>11, <2>1 DEF Scanned
  <1>. QED BY <1>10, <1>12, <1>13, <1>14, <1>15 DEF AtRank, Scanning

\* Lane 0 carries the last sum over to the next tile.
LEMMA StepBump ==
  ASSUME NEW l \in Nat, NEW tx, NEW q \in Positions, NEW m \in Memory(l),
         NEW t \in Kernel!Lanes, NEW r \in SUBSET Kernel!Lanes, t \notin r, AtBump(l, tx, q, r, m),
         NEW m2, m2 = IF t = 0 THEN [m EXCEPT !.scanBase = m.scanBase + m.scan[WG - 1]] ELSE m
  PROVE  m2 \in Memory(l) /\ AtBump(l, tx, q, r \cup {t}, m2)
  <1>1. CASE t = 0
    <2>1. PICK b \in Nat, u \in Kernel!Lanes : b = q.tile * WG /\ u = WG - 1
      <3>1. WG - 1 \in Kernel!Lanes
        BY WGIs DEF Kernel!Lanes
      <3>. QED BY <3>1, Slotted
    <2>0. m.scanBase \in Nat /\ m.scan \in [Kernel!Lanes -> Nat]
      BY DEF Memory
    <2>2. PICK v \in Nat : v = m.scanBase + m.scan[u]
      BY <2>0
    <2>3. m2 = [m EXCEPT !.scanBase = v]
      BY <1>1, <2>1, <2>2
    <2>4. m2 \in Memory(l) /\ m2.scanBase = v /\ Kept(m, m2, {"scanBase"})
      BY <2>3, Put_scanBase
    <2>5. m2.sa = m.sa /\ m2.rank = m.rank /\ m2.rank2 = m.rank2 /\ m2.scan = m.scan
      BY <2>4 DEF Kept
    <2>6. m.scanBase = Sofar(l, q, m, b) /\ m.scan[u] = Scanned(l, q, m, u, WG)
      <3>1. m.scanBase = Sofar(l, q, m, b + IF 0 \in r THEN WG ELSE 0) /\ 0 \notin r
        BY <1>1, <2>1 DEF AtBump
      <3>. QED BY <2>1, <3>1 DEF AtBump
    <2>7. v = Sofar(l, q, m, b + WG)
      <3>1. Cardinality(FirstRanks(l, m.sa, m.rank, q.h, b + WG))
              = Cardinality(FirstRanks(l, m.sa, m.rank, q.h, b)) + Cardinality(Win(l, m.sa, m.rank, q.h, b, u, WG))
        BY <2>1, ScanAfter
      <3>. QED BY <2>1, <2>2, <2>6, <3>1 DEF Sofar, Scanned
    <2>8. m2.scanBase = Sofar(l, q, m2, q.tile * WG + IF 0 \in r \cup {t} THEN WG ELSE 0)
      BY <1>1, <2>1, <2>4, <2>5, <2>7 DEF Sofar
    <2>9. Ranking(l, tx, q, m2) /\ Numbers(l, q, m2, Kernel!Lanes)
      BY <2>5, ScanningKept DEF AtBump
    <2>10. \A w \in Kernel!Lanes : m2.scan[w] = Scanned(l, q, m2, w, WG)
      BY <2>5 DEF AtBump, Scanned
    <2>. QED BY <2>4, <2>8, <2>9, <2>10 DEF AtBump
  <1>2. CASE t # 0
    BY <1>2 DEF AtBump
  <1>. QED BY <1>1, <1>2

Finished(l, t, m) == IF t = 0 THEN [m EXCEPT !.done = m.scanBase = l, !.maxRank = m.scanBase] ELSE m

\* Lane 0 sees whether all ranks differ.
LEMMA StepFinish ==
  ASSUME NEW l \in Nat, NEW tx, NEW q \in Positions, NEW m \in Memory(l),
         NEW t \in Kernel!Lanes, NEW r \in SUBSET Kernel!Lanes, AtFinish(l, tx, q, r, m),
         NEW m2, m2 = Finished(l, t, m)
  PROVE  m2 \in Memory(l) /\ AtFinish(l, tx, q, r \cup {t}, m2)
  <1>1. CASE t = 0
    <2>1. PICK v \in Nat : v = m.scanBase
      BY DEF Memory
    <2>2. PICK d \in BOOLEAN : d = (v = l)
      OBVIOUS
    <2>3. PICK m1 : m1 = [m EXCEPT !.done = d]
      OBVIOUS
    <2>4. m1 \in Memory(l) /\ m1.done = d /\ Kept(m, m1, {"done"})
      BY <2>3, Put_done
    <2>5. m2 = [m1 EXCEPT !.maxRank = v]
      BY <1>1, <2>1, <2>2, <2>3 DEF Finished
    <2>6. m2 \in Memory(l) /\ m2.maxRank = v /\ Kept(m1, m2, {"maxRank"})
      BY <2>4, <2>5, Put_maxRank
    <2>7. /\ m2.sa = m.sa /\ m2.rank = m.rank /\ m2.rank2 = m.rank2 /\ m2.scanBase = m.scanBase
          /\ m2.done = d /\ m2.maxRank = v
      BY <2>4, <2>6 DEF Kept
    <2>8. Ranking(l, tx, q, m2)
      BY <2>7, ScanningKept DEF AtFinish
    <2>. QED BY <2>1, <2>2, <2>6, <2>7, <2>8 DEF AtFinish
  <1>2. CASE t # 0
    <2>1. m2 = m
      BY <1>2 DEF Finished
    <2>. QED BY <1>2, <2>1 DEF AtFinish
  <1>. QED BY <1>1, <1>2

\* A lane copies its share of the new ranks.
LEMMA StepCopy ==
  ASSUME NEW l \in Nat, NEW tx, NEW q \in Positions, NEW m \in Memory(l),
         NEW t \in Kernel!Lanes, NEW r \in SUBSET Kernel!Lanes, AtCopy(l, tx, q, r, m),
         NEW m2, m2 = [m EXCEPT !.rank = Share(l, t, m.rank2, m.rank)]
  PROVE  m2 \in Memory(l) /\ AtCopy(l, tx, q, r \cup {t}, m2)
  <1>1. PICK x \in [0 .. l - 1 -> Nat] :
          x = [i \in 0 .. l - 1 |-> IF i % WG = t THEN m.rank2[i] ELSE m.rank[i]]
    BY DEF Memory
  <1>2. m2 = [m EXCEPT !.rank = x]
    BY <1>1 DEF Share
  <1>3. m2 \in Memory(l) /\ m2.rank = x /\ Kept(m, m2, {"rank"})
    BY <1>2, Put_rank
  <1>4. m2.sa = m.sa /\ m2.rank2 = m.rank2 /\ m2.maxRank = m.maxRank /\ m2.done = m.done
    BY <1>3 DEF Kept
  <1>5. NewRanks(l, tx, m2, q.h * 2, m2.rank2)
    BY <1>4 DEF AtCopy, NewRanks
  <1>6. \A i \in 0 .. l - 1 : i % WG \in r => m.rank[i] = m.rank2[i]
    BY DEF AtCopy
  <1>7. \A i \in 0 .. l - 1 : i % WG \in r \cup {t} => x[i] = m.rank2[i]
    BY <1>1, <1>6
  <1>. QED BY <1>3, <1>4, <1>5, <1>7 DEF AtCopy

-----------------------------------------------------------------------------
(* From one barrier to the next: what the lanes have done together.        *)

\* Three passes reach every rank of a text.
LEMMA Cubes ==
  /\ WG + 1 <= WG * WG * WG
  /\ \A l : Sized(l) => l \in Nat /\ l \in Nat \ {0} /\ l + 1 < WG * WG * WG
  <1>1. PICK w \in Nat : w = WG /\ w >= 2
    BY WGIs
  <1>2. w * w \in Nat /\ w * w >= 2 * w
    BY <1>1
  <1>3. w * w * w \in Nat /\ w * w * w >= 2 * (w * w)
    BY <1>1
  <1>4. w + 1 <= w * w * w
    BY <1>1, <1>2, <1>3
  <1>5. PICK k \in Nat : k = WG * WG * WG
    BY <1>1, <1>3
  <1>6. ASSUME NEW l, Sized(l) PROVE l \in Nat /\ l \in Nat \ {0} /\ l + 1 < k
    BY <1>5, <1>6 DEF Sized
  <1>. QED BY <1>1, <1>4, <1>5, <1>6

\* Lane 0 is one of the lanes, and together they own every index.
LEMMA AllLanes ==
  /\ 0 \in Kernel!Lanes
  /\ \A l \in Nat : \A i \in 0 .. l - 1 : i % WG \in Kernel!Lanes
  BY WGIs, Owner DEF Kernel!Lanes

\* The bytes are ranks, and the slots hold all suffixes.
LEMMA TurnInit ==
  ASSUME NEW l \in Nat, Sized(l), NEW tx \in [0 .. l - 1 -> Kernel!Lanes], NEW q \in Positions,
         NEW m \in Memory(l),
         AtInit(l, tx, q, Kernel!Lanes, m), NEW q2 \in Positions, q2.h = q.h
  PROVE  AtHead(l, tx, q2, {}, m)
  <1>1. q.h = 1 /\ \A i \in 0 .. l - 1 : m.sa[i] = i /\ m.rank[i] = tx[i]
    BY AllLanes DEF AtInit
  <1>2. m.maxRank = WG - 1
    BY AllLanes DEF AtInit
  <1>3. m.rank \in [0 .. l - 1 -> Nat] /\ m.sa \in [0 .. l - 1 -> 0 .. l - 1]
    BY DEF Memory
  <1>4. m.rank = tx
    BY <1>1, <1>3
  <1>5. tx \in [0 .. l - 1 -> Nat] /\ \A p \in 0 .. l - 1 : tx[p] <= WG - 1
    BY WGIs DEF Kernel!Lanes
  <1>6. Ranked(tx, l, 1, m.rank)
    BY <1>4, <1>5, RankedBytes
  <1>7. m.maxRank + 1 < WG * WG * WG
    <2>1. PICK k \in Nat : k = WG * WG * WG
      BY WGIs
    <2>2. WG + 1 <= k
      BY <2>1, Cubes
    <2>. QED BY <1>2, <2>1, <2>2, WGIs
  <1>8. Rounds(l, tx, m, 1)
    BY <1>2, <1>4, <1>5, <1>6, <1>7 DEF Rounds
  <1>9. Injects(m.sa, l)
    BY <1>1, <1>3 DEF Injects
  <1>10. 1 >= l => RanksSorted(l, m.sa, m.rank)
    BY DEF RanksSorted
  <1>. QED BY <1>1, <1>8, <1>9, <1>10 DEF AtHead

Apart(rk, l) == \A p, q \in 0 .. l - 1 : rk[p] = rk[q] => p = q

\* Ranks of prefixes as long as the text are all different.
LEMMA Distinct ==
  ASSUME NEW l \in Nat, NEW tx \in [0 .. l - 1 -> Nat], NEW h \in Nat, h >= l, NEW rk \in [0 .. l - 1 -> Nat],
         Ranked(tx, l, h, rk)
  PROVE  Apart(rk, l)
  <1> SUFFICES ASSUME NEW p \in 0 .. l - 1, NEW q \in 0 .. l - 1, rk[p] = rk[q] PROVE p = q
    BY DEF Apart
  <1>. QED BY LongRanks

\* The loop is over.
LEMMA TurnOver ==
  ASSUME NEW l \in Nat, NEW tx \in [0 .. l - 1 -> Kernel!Lanes], NEW q \in Positions, NEW m \in Memory(l),
         AtHead(l, tx, q, {}, m), q.h >= l
  PROVE  AtEnd(l, tx, m)
  <1>1. PICK h \in Nat : h = q.h /\ h >= l
    BY DEF Positions
  <1>11. PICK rk \in [0 .. l - 1 -> Nat] : rk = m.rank
    BY DEF Memory
  <1>12. PICK a : a = m.sa
    OBVIOUS
  <1>2. rk = m.rank /\ a = m.sa
    BY <1>11, <1>12
  <1>3. tx \in [0 .. l - 1 -> Nat]
    BY WGIs DEF Kernel!Lanes
  <1>4. Ranked(tx, l, h, rk) /\ Injects(a, l) /\ \A i, j \in 0 .. l - 1 : i < j => rk[a[i]] <= rk[a[j]]
    BY <1>1, <1>2 DEF AtHead, Rounds, RanksSorted
  <1>5. \A p, q1 \in 0 .. l - 1 : rk[p] = rk[q1] => p = q1
    <2>1. Ranked(tx, l, h, rk) /\ h \in Nat /\ h >= l
      BY <1>1, <1>4
    <2>2. Apart(rk, l)
      BY <1>3, <2>1, Distinct
    <2>. QED BY <2>2 DEF Apart
  <1>6. /\ {a[i] : i \in 0 .. l - 1} = 0 .. l - 1
        /\ \A i, j \in 0 .. l - 1 : i < j => SufLess(tx, l, a[i], a[j])
    BY <1>3, <1>4, <1>5, ArrayBuilt
  <1>. QED BY <1>2, <1>6 DEF AtEnd

\* Before the first pass the slots need no order.
LEMMA TurnHead ==
  ASSUME NEW l \in Nat, NEW tx, NEW q \in Positions, NEW m \in Memory(l),
         AtHead(l, tx, q, Kernel!Lanes, m), NEW q2 \in Positions, q2.h = q.h, q2.key = 0, q2.pass = 0
  PROVE  Sorting(l, tx, q2, m)
  <1>1. Rounds(l, tx, m, q.h) /\ Injects(m.sa, l) /\ m.h = q.h /\ m.passes = Kernel!Passes(m.maxRank)
            /\ m.keySel = 0
    BY AllLanes DEF AtHead
  <1>2. m.passes \in Nat /\ Kernel!Slots(m, q2.pass) = m.sa
    BY DEF Memory, Kernel!Slots
  <1>3. PriorOf(l, m, q2) = [s \in 0 .. l - 1 |-> 0]
    BY DEF PriorOf
  <1>4. Ordered(m.sa, l, 0, KeyOf(l, m, q2), PriorOf(l, m, q2))
    <2>1. PICK a, key : a = m.sa /\ key = KeyOf(l, m, q2) /\ Injects(a, l)
      BY <1>1
    <2>2. PICK pr : pr = [s \in 0 .. l - 1 |-> 0]
      OBVIOUS
    <2>3. Ordered(a, l, 0, key, pr)
      BY <2>1, <2>2 DEF Ordered, Injects, ByFirst, By0
    <2>. QED BY <1>3, <2>1, <2>2, <2>3
  <1>. QED BY <1>1, <1>2, <1>4 DEF Sorting, Round

\* Where the pass loop is met: at its head, or behind it.
LEMMA TurnPassed ==
  ASSUME NEW l \in Nat, NEW tx, NEW q \in Positions, NEW m \in Memory(l),
         Sorting(l, tx, q, m), ~(q.pass < m.passes), m.passes % 2 # 1,
         NEW q2, q2.h = q.h, q2.key = q.key
  PROVE  AtSorted(l, tx, q2, {}, m)
  <1>1. q.pass \in Nat /\ m.passes \in Nat /\ q.pass <= m.passes
    BY DEF Positions, Memory, Sorting
  <1>2. q.pass = m.passes /\ Kernel!Slots(m, q.pass) = m.sa
    BY <1>1 DEF Kernel!Slots
  <1>3. KeyOf(l, m, q2) = KeyOf(l, m, q) /\ PriorOf(l, m, q2) = PriorOf(l, m, q)
    BY DEF KeyOf, PriorOf, Afters
  <1>. QED BY <1>2, <1>3 DEF AtSorted, Sorting, Round

\* The pass begins, or the sort is over with its result in sa.
LEMMA TurnClear ==
  ASSUME NEW l \in Nat, NEW tx, NEW q \in Positions, NEW m \in Memory(l),
         AtClear(l, tx, q, Kernel!Lanes, m), NEW q2, q2.h = q.h, q2.key = q.key, q2.pass = q.pass
  PROVE  /\ q.pass < m.passes => AtCount(l, tx, q2, {}, m)
         /\ ~(q.pass < m.passes) => AtSorted(l, tx, q2, {}, m)
  <1>1. /\ KeyOf(l, m, q2) = KeyOf(l, m, q) /\ PriorOf(l, m, q2) = PriorOf(l, m, q)
        /\ DigitsOf(l, m, q2) = DigitsOf(l, m, q)
    BY DEF KeyOf, PriorOf, Afters, DigitsOf
  <1>2. Sorting(l, tx, q2, m) /\ Sorting(l, tx, q, m)
    BY <1>1 DEF AtClear, Sorting, Round
  <1>3. ASSUME q.pass < m.passes PROVE AtCount(l, tx, q2, {}, m)
    <2>1. \A d \in Kernel!Lanes : m.hist[d] = 0
      BY <1>3 DEF AtClear
    <2>2. \A d \in Kernel!Lanes : Cardinality(SomeOf(l, DigitsOf(l, m, q2), {}, d)) = 0
      BY CountAll, FS_EmptySet
    <2>. QED BY <1>2, <1>3, <2>1, <2>2 DEF AtCount, Passing
  <1>4. ASSUME ~(q.pass < m.passes) PROVE AtSorted(l, tx, q2, {}, m)
    <2>1. m.passes % 2 = 1 /\ \A i \in 0 .. l - 1 : m.sa[i] = m.sa2[i]
      BY <1>4, AllLanes DEF AtClear
    <2>2. m.sa = m.sa2
      <3>1. PICK x \in [0 .. l - 1 -> 0 .. l - 1], y \in [0 .. l - 1 -> 0 .. l - 1] : x = m.sa /\ y = m.sa2
        BY DEF Memory
      <3>2. \A i \in 0 .. l - 1 : x[i] = y[i]
        BY <2>1, <3>1
      <3>3. x = y
        BY <3>2
      <3>. QED BY <3>1, <3>3
    <2>3. q.pass \in Nat /\ m.passes \in Nat /\ q.pass <= m.passes
      BY <1>2 DEF Positions, Memory, Sorting
    <2>4. q.pass = m.passes /\ Kernel!Slots(m, q.pass) = m.sa
      BY <1>4, <2>1, <2>2, <2>3 DEF Kernel!Slots
    <2>. QED BY <1>1, <1>2, <2>4 DEF AtSorted, Sorting, Round
  <1>. QED BY <1>3, <1>4

\* A pass has the keys and digits of its position.
Alike2(q, q2) == q2.h = q.h /\ q2.key = q.key /\ q2.pass = q.pass

\* A pass does not depend on where within it the lanes are.
LEMMA PassMoves ==
  ASSUME NEW l, NEW tx, NEW q, NEW m, NEW q2, Alike2(q, q2)
  PROVE  /\ DigitsOf(l, m, q2) = DigitsOf(l, m, q)
         /\ Passing(l, tx, q, m) => Passing(l, tx, q2, m)
  <1>1. /\ KeyOf(l, m, q2) = KeyOf(l, m, q) /\ PriorOf(l, m, q2) = PriorOf(l, m, q)
        /\ DigitsOf(l, m, q2) = DigitsOf(l, m, q)
    BY DEF KeyOf, PriorOf, Afters, DigitsOf, Alike2
  <1>. QED BY <1>1 DEF Sorting, Round, Passing, Alike2

\* All slots are counted.
LEMMA TurnCount ==
  ASSUME NEW l \in Nat, NEW tx, NEW q \in Positions, NEW m \in Memory(l),
         AtCount(l, tx, q, Kernel!Lanes, m), NEW q2, Alike2(q, q2)
  PROVE  AtBase(l, tx, q2, {}, m)
  <1>1. Passing(l, tx, q2, m) /\ DigitsOf(l, m, q2) = DigitsOf(l, m, q)
    BY PassMoves DEF AtCount
  <1>2. \A d \in Kernel!Lanes : m.hist[d] = Cardinality(AllOf(l, DigitsOf(l, m, q), d))
    BY CountAll DEF AtCount
  <1>. QED BY <1>1, <1>2 DEF AtBase

\* The first tile begins.
LEMMA TurnBase ==
  ASSUME NEW l \in Nat, NEW tx, NEW q \in Positions, NEW m \in Memory(l),
         AtBase(l, tx, q, Kernel!Lanes, m), NEW q2, Alike2(q, q2), q2.tile = 0
  PROVE  AtLoad(l, tx, q2, {}, m)
  <1>1. Passing(l, tx, q2, m) /\ DigitsOf(l, m, q2) = DigitsOf(l, m, q)
    BY PassMoves DEF AtBase
  <1>2. PICK g, b : g = DigitsOf(l, m, q) /\ b = q2.tile * WG /\ b = 0
    BY WGIs
  <1>3. Based(l, g, m) /\ \A d \in Kernel!Lanes : m.run[d] = 0
    BY <1>2, AllLanes DEF AtBase
  <1>4. \A i \in 0 .. l - 1 : ~(i < 0)
    OBVIOUS
  <1>5. \A d : Sooner(l, g, b, d) = {}
    BY <1>2, <1>4 DEF Sooner
  <1>6. Ran(l, g, b, m)
    BY <1>3, <1>5, FS_EmptySet DEF Ran
  <1>7. \A a, e : PutTo(l, a, e, g, b, {})
    BY <1>2, <1>4 DEF PutTo, Reached
  <1>. QED BY <1>1, <1>2, <1>3, <1>6, <1>7 DEF AtLoad, Tile

\* A tile has them too.
LEMMA TileMoves ==
  ASSUME NEW l, NEW tx, NEW q, NEW m, NEW r, NEW q2, Alike2(q, q2), q2.tile = q.tile
  PROVE  /\ DigitsOf(l, m, q2) = DigitsOf(l, m, q) /\ q2.pass = q.pass
         /\ Tile(l, tx, q, m, r) => Tile(l, tx, q2, m, r)
  <1>1. DigitsOf(l, m, q2) = DigitsOf(l, m, q) /\ q2.pass = q.pass
    BY PassMoves DEF Alike2
  <1>. QED BY <1>1, PassMoves DEF Tile

\* The tile is empty.
LEMMA TurnLoad ==
  ASSUME NEW l \in Nat, NEW tx, NEW q \in Positions, NEW m \in Memory(l), NEW c,
         AtLoad(l, tx, q, Kernel!Lanes, m), NEW q2, Alike2(q, q2), q2.tile = q.tile
  PROVE  AtDigit(l, tx, q2, {}, m, c)
  <1>1. PICK g, a, b : g = DigitsOf(l, m, q) /\ a = Kernel!Slots(m, q.pass) /\ b = q.tile * WG
    OBVIOUS
  <1>2. Tile(l, tx, q2, m, {}) /\ DigitsOf(l, m, q2) = g /\ Kernel!Slots(m, q2.pass) = a
    BY <1>1, TileMoves DEF AtLoad
  <1>3. Ran(l, g, b, m) /\ \A u \in Kernel!Lanes : m.tileHist[u] = 0 /\ m.tileDigit[u] = WG
    BY <1>1 DEF AtLoad
  <1>4. \A d : InTile(l, g, b, {}, d) = {}
    BY DEF InTile
  <1>5. Taken(l, g, a, b, {}, m, c)
    BY <1>3, <1>4, FS_EmptySet DEF Taken
  <1>. QED BY <1>1, <1>2, <1>3, <1>5 DEF AtDigit

\* The tile holds all of its digits.
LEMMA TurnDigit ==
  ASSUME NEW l \in Nat, NEW tx, NEW q \in Positions, NEW m \in Memory(l), NEW c,
         AtDigit(l, tx, q, Kernel!Lanes, m, c), NEW q2, Alike2(q, q2), q2.tile = q.tile
  PROVE  AtPlace(l, tx, q2, {}, m, c)
  <1>1. PICK g, a, b : g = DigitsOf(l, m, q) /\ a = Kernel!Slots(m, q.pass) /\ b = q.tile * WG
    OBVIOUS
  <1>2. Tile(l, tx, q2, m, {}) /\ DigitsOf(l, m, q2) = g /\ Kernel!Slots(m, q2.pass) = a
    BY <1>1, TileMoves DEF AtDigit
  <1>. QED BY <1>1, <1>2 DEF AtPlace, AtDigit

\* All of the tile is placed.
LEMMA TurnPlace ==
  ASSUME NEW l \in Nat, NEW tx, NEW q \in Positions, NEW m \in Memory(l), NEW c,
         AtPlace(l, tx, q, Kernel!Lanes, m, c), NEW q2, Alike2(q, q2), q2.tile = q.tile
  PROVE  AtAdvance(l, tx, q2, {}, m)
  <1>0. PICK b \in Nat : b = q.tile * WG
    BY Slotted
  <1>1. PICK g, a : g = DigitsOf(l, m, q) /\ a = Kernel!Slots(m, q.pass) /\ b = q.tile * WG
    BY <1>0
  <1>2. Tile(l, tx, q2, m, Kernel!Lanes) /\ DigitsOf(l, m, q2) = g /\ q2.tile * WG = b
    BY <1>1, TileMoves DEF AtPlace
  <1>3. Ran(l, g, b, m) /\ Taken(l, g, a, b, Kernel!Lanes, m, c)
    BY <1>1 DEF AtPlace
  <1>. QED BY <1>2, <1>3 DEF AtAdvance, Ran, Taken

\* The next tile, or none.
LEMMA NextTile ==
  ASSUME NEW l \in Nat, NEW q \in Positions
  PROVE  /\ q.tile + 1 < (l + WG - 1) \div WG => (q.tile + 1) * WG < l
         /\ ~(q.tile + 1 < (l + WG - 1) \div WG) => l <= (q.tile + 1) * WG
  <1>1. PICK w \in Nat \ {0}, k \in Nat \ {0} : w = WG /\ k = q.tile + 1
    BY WGIs DEF Positions
  <1>2. PICK v \in Nat : v = l + WG - 1
    BY <1>1
  <1>3. PICK d \in Nat, r \in 0 .. w - 1 : d = v \div w /\ r = v % w /\ v = w * d + r
    BY DivMod
  <1>4. l = w * d + r - w + 1
    BY <1>1, <1>2, <1>3
  <1>5. k < d => k * w < l
    <2> SUFFICES ASSUME k < d PROVE k * w < l
      OBVIOUS
    <2>1. w * d >= w * (k + 1)
      BY <1>1
    <2>2. w * (k + 1) = k * w + w
      BY <1>1
    <2>3. w * d \in Nat /\ k * w \in Nat
      BY <1>1
    <2>. QED BY <1>4, <2>1, <2>2, <2>3
  <1>6. ~(k < d) => l <= k * w
    <2> SUFFICES ASSUME k >= d PROVE l <= k * w
      BY <1>1, <1>3
    <2>1. w * d <= k * w
      BY <1>1
    <2>3. w * d \in Nat /\ k * w \in Nat
      BY <1>1
    <2>. QED BY <1>3, <1>4, <2>1, <2>3
  <1>. QED BY <1>1, <1>2, <1>3, <1>5, <1>6

\* The next tile begins, its runs advanced.
LEMMA TurnAdvance ==
  ASSUME NEW l \in Nat, NEW tx, NEW q \in Positions, NEW m \in Memory(l), NEW c,
         AtAdvance(l, tx, q, Kernel!Lanes, m), NEW q2, Alike2(q, q2), q2.tile = q.tile + 1
  PROVE  AtLoad(l, tx, q2, {}, m)
  <1>0. PICK b \in Nat : b = q.tile * WG /\ q2.tile * WG = b + WG
    BY Slotted
  <1>1. PICK g, a, e : g = DigitsOf(l, m, q) /\ a = Kernel!Slots(m, q.pass) /\ e = Target(m, q.pass)
    OBVIOUS
  <1>2. Passing(l, tx, q2, m) /\ DigitsOf(l, m, q2) = g /\ Kernel!Slots(m, q2.pass) = a
            /\ Target(m, q2.pass) = e
    BY <1>1, PassMoves DEF AtAdvance, Tile, Alike2
  <1>3. /\ PutTo(l, a, e, g, b, Kernel!Lanes) /\ Based(l, g, m)
        /\ \A d \in Kernel!Lanes : m.run[d] = Cardinality(Sooner(l, g, b + WG, d))
    BY <1>0, <1>1 DEF AtAdvance, Tile
  <1>4. PutTo(l, a, e, g, b + WG, {})
    <2>1. ASSUME NEW i \in 0 .. l - 1, Reached(b + WG, {}, i) PROVE Reached(b, Kernel!Lanes, i)
      <3>1. i < b + WG /\ WG \in Nat
        BY <2>1, WGIs DEF Reached
      <3>2. CASE i < b
        BY <3>2 DEF Reached
      <3>3. CASE ~(i < b)
        <4>1. i - b \in Kernel!Lanes /\ i = b + (i - b)
          BY <3>1, <3>3 DEF Kernel!Lanes
        <4>. QED BY <4>1 DEF Reached
      <3>. QED BY <3>2, <3>3
    <2>. QED BY <1>3, <2>1 DEF PutTo
  <1>5. Ran(l, g, b + WG, m)
    BY <1>3 DEF Ran
  <1>. QED BY <1>0, <1>2, <1>3, <1>4, <1>5 DEF AtLoad, Tile

\* The last tile ends the pass: it has moved all slots by their digits.
LEMMA TurnPass ==
  ASSUME NEW l \in Nat, NEW tx, NEW q \in Positions, NEW m \in Memory(l),
         AtAdvance(l, tx, q, Kernel!Lanes, m), l <= (q.tile + 1) * WG,
         NEW q2, q2.h = q.h, q2.key = q.key, q2.pass = q.pass + 1
  PROVE  Sorting(l, tx, q2, m)
  <1>0. PICK b \in Nat : b = q.tile * WG /\ l <= b + WG
    BY Slotted
  <1>1. Passing(l, tx, q, m)
    BY DEF AtAdvance, Tile
  <1>2. PICK p \in 0 .. 2 : p = q.pass /\ p < m.passes /\ m.passes \in 1 .. 3
    BY <1>1, PassingIs DEF Passing
  <1>3. PICK g \in [0 .. l - 1 -> Kernel!Lanes], a \in [0 .. l - 1 -> 0 .. l - 1], e \in [0 .. l - 1 -> 0 .. l - 1],
             key \in [0 .. l - 1 -> Nat] :
          /\ g = DigitsOf(l, m, q) /\ a = Kernel!Slots(m, q.pass) /\ e = Target(m, q.pass)
                    /\ key = KeyOf(l, m, q)
    BY <1>2, Digital
  <1>4. PICK pr : pr = PriorOf(l, m, q)
    OBVIOUS
  <1>5. Ordered(a, l, p, key, pr)
    BY <1>1, <1>2, <1>3, <1>4 DEF Passing, Sorting
  <1>6. g = [i \in 0 .. l - 1 |-> Kernel!Digit(key[a[i]], p)]
    BY <1>2, <1>3 DEF DigitsOf
  <1>7. PutTo(l, a, e, g, b, Kernel!Lanes)
    BY <1>0, <1>3 DEF AtAdvance, Tile
  <1>8. Moved(a, e, g, l)
    <2>1. ASSUME NEW i \in 0 .. l - 1 PROVE Reached(b, Kernel!Lanes, i)
      <3>1. i < b + WG /\ WG \in Nat
        BY <1>0, WGIs, SMTT(30)
      <3>2. CASE i < b
        BY <3>2 DEF Reached
      <3>3. CASE ~(i < b)
        <4>1. i - b \in Kernel!Lanes /\ i = b + (i - b)
          BY <3>1, <3>3 DEF Kernel!Lanes
        <4>. QED BY <4>1 DEF Reached
      <3>. QED BY <3>2, <3>3
    <2>. QED BY <1>7, <2>1 DEF PutTo, Moved
  <1>9. Ordered(e, l, p + 1, key, pr)
    <2>1. \A x \in 0 .. l - 1 : key[x] \in Nat
      OBVIOUS
    <2>. QED BY <1>5, <1>6, <1>8, <2>1, PassOrders
  <1>10. Kernel!Slots(m, q2.pass) = e
    <2>1. q2.pass = p + 1 /\ (p + 1) % 2 = 0 <=> p % 2 # 0
      BY <1>2
    <2>. QED BY <1>2, <1>3, <2>1 DEF Kernel!Slots, Target
  <1>11. KeyOf(l, m, q2) = key /\ PriorOf(l, m, q2) = pr
    BY <1>3, <1>4 DEF KeyOf, PriorOf, Afters
  <1>12. Round(l, tx, q2, m) /\ m.keySel = q2.key
    BY <1>1 DEF Passing, Sorting, Round
  <1>13. q2.pass <= m.passes /\ q2.pass = p + 1
    BY <1>2
  <1>. QED BY <1>9, <1>10, <1>11, <1>12, <1>13 DEF Sorting

-----------------------------------------------------------------------------
\* As many passes as the keys need.
LEMMA PassesEnough ==
  ASSUME NEW max \in Nat, max + 1 < WG * WG * WG
  PROVE  Kernel!Passes(max) \in 1 .. 3 /\ max + 1 < Power(Kernel!Passes(max))
  <1>1. PICK w \in Nat \ {0, 1}, w2 \in Nat, w3 \in Nat : w = WG /\ w2 = WG * WG /\ w3 = WG * WG * WG
    BY WGIs
  <1>2. max + 1 < w3
    BY <1>1
  <1>3. Kernel!Passes(max) = IF max + 1 >= w2 THEN 3 ELSE IF max + 1 >= w THEN 2 ELSE 1
    BY <1>1 DEF Kernel!Passes
  <1>4. Power(1) = w /\ Power(2) = w2 /\ Power(3) = w3
    BY <1>1 DEF Power
  <1>. QED BY <1>2, <1>3, <1>4

\* A sort orders by its keys, and equal keys by what it came after.
Finely(a, l, key, pr) ==
  \A i, j \in 0 .. l - 1 : i < j => key[a[i]] < key[a[j]] \/ (key[a[i]] = key[a[j]] /\ pr[a[i]] <= pr[a[j]])

\* After the last pass the slots are in the order of the key.
LEMMA SortedBy ==
  ASSUME NEW l \in Nat, NEW tx, NEW q \in Positions, NEW m \in Memory(l), NEW r, AtSorted(l, tx, q, r, m)
  PROVE  Injects(m.sa, l) /\ Finely(m.sa, l, KeyOf(l, m, q), PriorOf(l, m, q))
  <1>1. PICK rk \in [0 .. l - 1 -> Nat], a \in [0 .. l - 1 -> 0 .. l - 1], max \in Nat, h \in Nat :
          rk = m.rank /\ a = m.sa /\ max = m.maxRank /\ h = q.h
    BY DEF Memory, Positions
  <1>2. /\ \A p \in 0 .. l - 1 : rk[p] <= max
        /\ max + 1 < WG * WG * WG /\ m.passes = Kernel!Passes(max)
    BY <1>1 DEF AtSorted, Round, Rounds
  <1>3. PICK p \in 1 .. 3 : p = m.passes /\ max + 1 < Power(p)
    BY <1>2, PassesEnough
  <1>4. PICK key, pr : key = KeyOf(l, m, q) /\ pr = PriorOf(l, m, q)
    OBVIOUS
  <1>5. Ordered(a, l, p, key, pr)
    BY <1>1, <1>3, <1>4 DEF AtSorted
  <1>6. Power(p) \in Nat
    BY WGIs DEF Power
  <1>7. ASSUME NEW x \in 0 .. l - 1 PROVE key[x] \in Nat /\ key[x] < Power(p)
    <2>1. CASE q.key = 1
      <3>1. key[x] = rk[x]
        BY <1>1, <1>4, <2>1 DEF KeyOf
      <3>2. rk[x] <= max /\ rk[x] \in Nat
        BY <1>2
      <3>. QED BY <1>3, <1>6, <3>1, <3>2
    <2>2. CASE q.key # 1
      <3>1. key[x] = After(rk, l, h, x)
        BY <1>1, <1>4, <2>2 DEF KeyOf, Afters
      <3>2. After(rk, l, h, x) \in Nat /\ After(rk, l, h, x) <= max + 1
        <4>1. CASE x + h < l
          <5>1. PICK y \in 0 .. l - 1 : y = x + h
            BY <4>1
          <5>2. rk[y] <= max /\ rk[y] \in Nat
            BY <1>2
          <5>. QED BY <4>1, <5>1, <5>2 DEF After
        <4>2. CASE ~(x + h < l)
          BY <4>2 DEF After
        <4>. QED BY <4>1, <4>2
      <3>. QED BY <1>3, <1>6, <3>1, <3>2
    <2>. QED BY <2>1, <2>2
  <1>8. ASSUME NEW i \in 0 .. l - 1, NEW j \in 0 .. l - 1, i < j
        PROVE  key[a[i]] < key[a[j]] \/ (key[a[i]] = key[a[j]] /\ pr[a[i]] <= pr[a[j]])
    <2>1. PICK x \in 0 .. l - 1, y \in 0 .. l - 1 : x = a[i] /\ y = a[j]
      OBVIOUS
    <2>2. ByFirst(p, key, pr, x, y)
      BY <1>5, <1>8, <2>1 DEF Ordered
    <2>3. key[x] \in Nat /\ key[y] \in Nat /\ key[x] < Power(p) /\ key[y] < Power(p)
      BY <1>7
    <2>4. ByFirst(p, key, pr, x, y) = (key[x] < key[y] \/ (key[x] = key[y] /\ pr[x] <= pr[y]))
      BY <2>3, EnoughDigits
    <2>. QED BY <2>1, <2>2, <2>4
  <1>9. Finely(a, l, key, pr)
    BY <1>8 DEF Finely
  <1>. QED BY <1>1, <1>4, <1>5, <1>9 DEF Ordered

\* First by the second halves of the prefixes, then by the first.
LEMMA TurnSorted ==
  ASSUME NEW l \in Nat, NEW tx, NEW q \in Positions, NEW m \in Memory(l),
         AtSorted(l, tx, q, Kernel!Lanes, m), q.key = 0, NEW q2, q2.h = q.h, q2.key = 1, q2.pass = 0
  PROVE  Sorting(l, tx, q2, m)
  <1>11. PICK h \in Nat, rk \in [0 .. l - 1 -> Nat] : h = q.h /\ rk = m.rank
    BY DEF Positions, Memory
  <1>12. PICK a : a = m.sa
    OBVIOUS
  <1>1. h = q.h /\ a = m.sa /\ rk = m.rank
    BY <1>11, <1>12
  <1>2. Injects(a, l) /\ Finely(a, l, KeyOf(l, m, q), PriorOf(l, m, q))
    BY <1>1, SortedBy
  <1>3. PICK aft : aft = Afters(l, m, h)
    OBVIOUS
  <1>4. KeyOf(l, m, q) = aft /\ KeyOf(l, m, q2) = rk /\ PriorOf(l, m, q2) = aft
    BY <1>1, <1>3 DEF KeyOf, PriorOf
  <1>5. \A s \in 0 .. l - 1 : aft[s] \in Nat
    BY <1>1, <1>3, Pairs DEF Afters
  <1>6. Ordered(a, l, 0, rk, aft)
    <2>1. ASSUME NEW i \in 0 .. l - 1, NEW j \in 0 .. l - 1, i < j PROVE ByFirst(0, rk, aft, a[i], a[j])
      <3>1. PICK x \in 0 .. l - 1, y \in 0 .. l - 1 : x = a[i] /\ y = a[j]
        BY <1>2 DEF Injects
      <3>2. aft[x] < aft[y] \/ aft[x] = aft[y]
        BY <1>2, <1>4, <2>1, <3>1 DEF Finely
      <3>3. aft[x] <= aft[y]
        BY <1>5, <3>2
      <3>. QED BY <3>1, <3>3 DEF ByFirst, By0
    <2>. QED BY <1>2, <2>1 DEF Ordered
  <1>7. Round(l, tx, q2, m) /\ m.keySel = 1
    BY AllLanes DEF AtSorted, Round
  <1>8. Kernel!Slots(m, q2.pass) = a /\ m.passes \in Nat
    BY <1>1 DEF Kernel!Slots, Memory
  <1>. QED BY <1>4, <1>6, <1>7, <1>8 DEF Sorting

\* After both sorts the slots are in the order of the pairs.
LEMMA TurnRanks ==
  ASSUME NEW l \in Nat, NEW tx, NEW q \in Positions, NEW m \in Memory(l), NEW c,
         AtSorted(l, tx, q, Kernel!Lanes, m), q.key = 1, NEW q2, q2.h = q.h, q2.tile = 0
  PROVE  AtFlag(l, tx, q2, {}, m, c)
  <1>11. PICK h \in Nat, rk \in [0 .. l - 1 -> Nat] : h = q.h /\ rk = m.rank
    BY DEF Positions, Memory
  <1>12. PICK a : a = m.sa
    OBVIOUS
  <1>1. h = q.h /\ a = m.sa /\ rk = m.rank
    BY <1>11, <1>12
  <1>2. Injects(a, l) /\ Finely(a, l, KeyOf(l, m, q), PriorOf(l, m, q))
    BY <1>1, SortedBy
  <1>3. PICK aft : aft = Afters(l, m, h)
    OBVIOUS
  <1>4. KeyOf(l, m, q) = rk /\ PriorOf(l, m, q) = aft
    BY <1>1, <1>3 DEF KeyOf, PriorOf
  <1>5. \A s \in 0 .. l - 1 : aft[s] = After(rk, l, h, s) /\ After(rk, l, h, s) \in Nat
    <2>1. \A s \in 0 .. l - 1 : aft[s] = After(rk, l, h, s)
      BY <1>1, <1>3 DEF Afters
    <2>2. \A s \in 0 .. l - 1 : After(rk, l, h, s) \in Nat
      BY Pairs
    <2>. QED BY <2>1, <2>2
  <1>6. InPairOrder(a, rk, l, h)
    <2>1. ASSUME NEW i \in 0 .. l - 1, NEW j \in 0 .. l - 1, i < j
          PROVE  PairLess(rk, l, h, a[i], a[j]) \/ PairSame(rk, l, h, a[i], a[j])
      <3>1. PICK x \in 0 .. l - 1, y \in 0 .. l - 1 : x = a[i] /\ y = a[j]
        BY <1>2 DEF Injects
      <3>2. rk[x] < rk[y] \/ (rk[x] = rk[y] /\ aft[x] <= aft[y])
        BY <1>2, <1>4, <2>1, <3>1 DEF Finely
      <3>3. PairLess(rk, l, h, x, y) \/ PairSame(rk, l, h, x, y)
        BY <1>5, <3>2 DEF PairLess, PairSame
      <3>. QED BY <3>1, <3>3
    <2>. QED BY <1>2, <2>1 DEF InPairOrder
  <1>7. Ranked(tx, l, h, rk) /\ m.scanBase = 0
    BY <1>1, AllLanes DEF AtSorted, Round, Rounds
  <1>8. q2.tile * WG = 0
    BY WGIs
  <1>9. Numbers(l, q2, m, {})
    <2>1. \A i \in 0 .. l - 1 : ~(i < 0)
      OBVIOUS
    <2>. QED BY <1>8, <2>1 DEF Numbers, Reached
  <1>10. Sofar(l, q2, m, 0) = 0
    <2>1. FirstRanks(l, m.sa, m.rank, q2.h, 0) = {}
      BY DEF FirstRanks
    <2>. QED BY <2>1, FS_EmptySet DEF Sofar
  <1>. QED BY <1>1, <1>6, <1>7, <1>8, <1>9, <1>10 DEF AtFlag, Scanning, Ranking, Held

\* A scan has the ranks and slots of its position.
Along(q, q2) == q2.h = q.h /\ q2.tile = q.tile

\* A scan does not depend on where within it the lanes are.
LEMMA ScanMoves ==
  ASSUME NEW l, NEW tx, NEW q, NEW m, NEW c, NEW r, NEW q2, Along(q, q2)
  PROVE  /\ Scanning(l, tx, q, r, m) => Scanning(l, tx, q2, r, m)
         /\ Held(l, q, m, c, r) => Held(l, q2, m, c, r)
         /\ \A u, d : Scanned(l, q2, m, u, d) = Scanned(l, q, m, u, d)
  BY DEF Along, Scanning, Ranking, Numbers, Held, Scanned, Sofar

\* The flags are windows of width one.
LEMMA TurnFlag ==
  ASSUME NEW l \in Nat, NEW tx, NEW q \in Positions, NEW m \in Memory(l), NEW c,
         AtFlag(l, tx, q, Kernel!Lanes, m, c), NEW q2, Along(q, q2), q2.d = 1
  PROVE  AtRead(l, tx, q2, {}, m, c)
  <1>1. Scanning(l, tx, q2, {}, m) /\ Held(l, q2, m, c, Kernel!Lanes)
    BY ScanMoves DEF AtFlag
  <1>. QED BY <1>1 DEF AtFlag, AtRead, Scanned, Along

\* All have read before any writes.
LEMMA TurnRead ==
  ASSUME NEW l \in Nat, NEW tx, NEW q \in Positions, NEW m \in Memory(l), NEW c,
         AtRead(l, tx, q, Kernel!Lanes, m, c), NEW q2, Along(q, q2), q2.d = q.d
  PROVE  AtWrite(l, tx, q2, {}, m, c)
  <1>1. Scanning(l, tx, q2, {}, m) /\ Held(l, q2, m, c, Kernel!Lanes)
    BY ScanMoves DEF AtRead
  <1>. QED BY <1>1 DEF AtRead, AtWrite, Scanned, Along

\* The windows have doubled.
LEMMA TurnWrite ==
  ASSUME NEW l \in Nat, NEW tx, NEW q \in Positions, NEW m \in Memory(l), NEW c,
         AtWrite(l, tx, q, Kernel!Lanes, m, c), NEW q2, Along(q, q2), q2.d = q.d * 2
  PROVE  AtRead(l, tx, q2, {}, m, c)
  <1>1. Scanning(l, tx, q2, {}, m) /\ Held(l, q2, m, c, Kernel!Lanes)
    BY ScanMoves DEF AtWrite
  <1>. QED BY <1>1 DEF AtWrite, AtRead, Scanned, Along

\* The windows reach back to the start of the tile.
LEMMA TurnScan ==
  ASSUME NEW l \in Nat, NEW tx, NEW q \in Positions, NEW m \in Memory(l), NEW c,
         AtWrite(l, tx, q, Kernel!Lanes, m, c), ~(q.d * 2 < WG), NEW q2, Along(q, q2)
  PROVE  AtRank(l, tx, q2, {}, m, c)
  <1>1. PICK b \in Nat : b = q.tile * WG
    BY Slotted
  <1>2. PICK d \in Nat \ {0} : d = q.d * 2 /\ d >= WG
    BY WGIs DEF Positions
  <1>3. ASSUME NEW u \in Kernel!Lanes PROVE m.scan[u] = Scanned(l, q2, m, u, WG)
    <2>1. m.scan[u] = Scanned(l, q, m, u, d)
      BY <1>2 DEF AtWrite
    <2>2. Win(l, m.sa, m.rank, q.h, b, u, d) = Win(l, m.sa, m.rank, q.h, b, u, WG)
      BY <1>2, WindowIs
    <2>3. Scanned(l, q, m, u, d) = Scanned(l, q, m, u, WG)
      BY <1>1, <2>2 DEF Scanned
    <2>. QED BY <2>1, <2>3, ScanMoves
  <1>. QED BY <1>3, ScanMoves DEF AtWrite, AtRank

\* The tile is ranked.
LEMMA TurnRank ==
  ASSUME NEW l \in Nat, NEW tx, NEW q \in Positions, NEW m \in Memory(l), NEW c,
         AtRank(l, tx, q, Kernel!Lanes, m, c), NEW q2, Along(q, q2)
  PROVE  AtBump(l, tx, q2, {}, m)
  <1>1. PICK b \in Nat : b = q.tile * WG
    BY Slotted
  <1>2. Scanning(l, tx, q2, Kernel!Lanes, m) /\ \A u \in Kernel!Lanes : m.scan[u] = Scanned(l, q2, m, u, WG)
    <2>1. Scanning(l, tx, q2, Kernel!Lanes, m)
      BY ScanMoves DEF AtRank
    <2>. QED BY <2>1 DEF AtRank, Scanned, Along
  <1>3. q2.tile * WG + 0 = q2.tile * WG
    BY <1>1 DEF Along
  <1>. QED BY <1>2, <1>3 DEF AtBump, Scanning

\* The tile is in when its last lane is.
LEMMA TileIn ==
  ASSUME NEW l \in Nat, NEW b \in Nat, NEW i \in 0 .. l - 1, i < b + WG
  PROVE  Reached(b, Kernel!Lanes, i)
  <1>1. CASE i < b
    BY <1>1 DEF Reached
  <1>2. CASE ~(i < b)
    <2>1. i - b \in Kernel!Lanes /\ i = b + (i - b)
      BY <1>2, WGIs DEF Kernel!Lanes
    <2>. QED BY <2>1 DEF Reached
  <1>. QED BY <1>1, <1>2

\* The next tile begins, or all is ranked.
LEMMA TurnBump ==
  ASSUME NEW l \in Nat, NEW tx, NEW q \in Positions, NEW m \in Memory(l), NEW c,
         AtBump(l, tx, q, Kernel!Lanes, m), NEW q2, q2.h = q.h
  PROVE  /\ q2.tile = q.tile + 1 => AtFlag(l, tx, q2, {}, m, c)
         /\ l <= (q.tile + 1) * WG => AtFinish(l, tx, q2, {}, m)
  <1>1. PICK b \in Nat : b = q.tile * WG /\ (q.tile + 1) * WG = b + WG
    BY Slotted
  <1>2. /\ Ranking(l, tx, q, m) /\ m.scanBase = Sofar(l, q, m, b + WG)
        /\ \A k \in 0 .. l - 1 :
             k < b + WG => m.rank2[m.sa[k]] = Cardinality(Begun(m.sa, m.rank, l, q.h, k))
    <2>1. Numbers(l, q, m, Kernel!Lanes)
      BY DEF AtBump
    <2>2. \A k \in 0 .. l - 1 : k < b + WG => m.rank2[m.sa[k]] = Cardinality(Begun(m.sa, m.rank, l, q.h, k))
      BY <1>1, <2>1, TileIn DEF Numbers
    <2>. QED BY <1>1, <2>2, AllLanes DEF AtBump
  <1>3. Ranking(l, tx, q2, m) /\ m.scanBase = Sofar(l, q2, m, b + WG)
    BY <1>2 DEF Ranking, Sofar
  <1>4. ASSUME q2.tile = q.tile + 1 PROVE AtFlag(l, tx, q2, {}, m, c)
    <2>1. q2.tile * WG = b + WG
      BY <1>1, <1>4
    <2>2. Numbers(l, q2, m, {})
      BY <1>2, <2>1 DEF Numbers, Reached
    <2>. QED BY <1>3, <2>1, <2>2 DEF AtFlag, Scanning, Held
  <1>5. ASSUME l <= b + WG PROVE AtFinish(l, tx, q2, {}, m)
    <2>1. \A k \in 0 .. l - 1 : k < b + WG
      BY <1>5, WGIs
    <2>2. Numbered(m.sa, m.rank2, m.rank, l, q2.h)
      BY <1>2, <2>1 DEF Numbered
    <2>3. FirstRanks(l, m.sa, m.rank, q2.h, b + WG) = AllRanks(m.sa, m.rank, l, q2.h)
      BY <2>1 DEF FirstRanks, AllRanks
    <2>. QED BY <1>3, <2>2, <2>3 DEF AtFinish, Sofar
  <1>. QED BY <1>1, <1>4, <1>5

\* The numbers are the ranks of prefixes of twice the length.
LEMMA TurnFinish ==
  ASSUME NEW l \in Nat, NEW tx \in [0 .. l - 1 -> Kernel!Lanes], NEW q \in Positions, NEW m \in Memory(l),
         AtFinish(l, tx, q, Kernel!Lanes, m), NEW q2, q2.h = q.h
  PROVE  AtCopy(l, tx, q2, {}, m)
  <1>1. PICK h \in Nat \ {0}, rk \in [0 .. l - 1 -> Nat], b \in [0 .. l - 1 -> Nat],
             a \in [0 .. l - 1 -> 0 .. l - 1] :
          h = q.h /\ rk = m.rank /\ b = m.rank2 /\ a = m.sa
    BY DEF Positions, Memory
  <1>2. tx \in [0 .. l - 1 -> Nat]
    BY WGIs DEF Kernel!Lanes
  <1>3. PICK k : k = Cardinality(AllRanks(a, rk, l, h))
    OBVIOUS
  <1>4. /\ Ranked(tx, l, h, rk) /\ InPairOrder(a, rk, l, h) /\ Numbered(a, b, rk, l, h)
        /\ m.done = (k = l) /\ m.maxRank = k
    BY <1>1, <1>3, AllLanes DEF AtFinish, Ranking
  <1>8. k \in Nat
    <2>1. AllRanks(a, rk, l, h) \in SUBSET (0 .. l - 1)
      BY DEF AllRanks
    <2>2. Cardinality(AllRanks(a, rk, l, h)) \in 0 .. l
      BY <2>1, Counts
    <2>. QED BY <1>3, <2>2
  <1>5. /\ \A p, q1 \in 0 .. l - 1 : b[p] < b[q1] <=> PairLess(rk, l, h, p, q1)
        /\ \A i, j \in 0 .. l - 1 : i < j => b[a[i]] <= b[a[j]]
        /\ \A p \in 0 .. l - 1 : b[p] \in 0 .. k
        /\ k \in 0 .. l
        /\ k = l => \A p, q1 \in 0 .. l - 1 : b[p] = b[q1] => p = q1
    <2>1. InPairOrder(a, rk, l, h) /\ Numbered(a, b, rk, l, h) /\ h \in Nat
      BY <1>4
    <2>2. RanksNumber(l, rk, h, a, b)
      BY <2>1, NumbersRank
    <2>. QED BY <1>3, <2>2 DEF RanksNumber
  <1>6. Ranked(tx, l, h * 2, b)
    <2> SUFFICES ASSUME NEW p \in 0 .. l - 1, NEW q1 \in 0 .. l - 1
                 PROVE  b[p] < b[q1] <=> Earlier(tx, l, h * 2, p, q1)
      BY DEF Ranked
    <2>1. PairLess(rk, l, h, p, q1) <=> Earlier(tx, l, h * 2, p, q1)
      BY <1>2, <1>4, PairsDouble
    <2>. QED BY <1>5, <2>1
  <1>7. NewRanks(l, tx, m, h * 2, b)
    <2>1. \A p \in 0 .. l - 1 : b[p] <= k
      BY <1>5, <1>8
    <2>2. Injects(a, l) /\ RanksSorted(l, a, b)
      BY <1>4, <1>5 DEF InPairOrder, RanksSorted
    <2>3. m.done => \A p, q1 \in 0 .. l - 1 : b[p] = b[q1] => p = q1
      BY <1>4, <1>5
    <2>4. m.maxRank = k /\ k <= l
      BY <1>4, <1>5, <1>8
    <2>. QED BY <1>1, <1>6, <2>1, <2>2, <2>3, <2>4 DEF NewRanks
  <1>. QED BY <1>1, <1>7 DEF AtCopy

\* The new ranks are in place.
LEMMA TurnCopy ==
  ASSUME NEW l \in Nat, NEW tx, NEW q \in Positions, NEW m \in Memory(l),
         AtCopy(l, tx, q, Kernel!Lanes, m), NEW q2, q2.h = q.h
  PROVE  AtCheck(l, tx, q2, m)
  <1>1. PICK x \in [0 .. l - 1 -> Nat], y \in [0 .. l - 1 -> Nat] : x = m.rank /\ y = m.rank2
    BY DEF Memory
  <1>2. \A i \in 0 .. l - 1 : x[i] = y[i]
    BY <1>1, AllLanes DEF AtCopy
  <1>3. x = y
    BY <1>2
  <1>. QED BY <1>1, <1>3 DEF AtCopy, AtCheck

\* Another round with twice the letters, or the end when all ranks differ.
LEMMA TurnCheck ==
  ASSUME NEW l \in Nat, Sized(l), NEW tx \in [0 .. l - 1 -> Kernel!Lanes], NEW q \in Positions,
         NEW m \in Memory(l),
         AtCheck(l, tx, q, m), NEW q2
  PROVE  /\ q2.h = q.h * 2 => AtHead(l, tx, q2, {}, m)
         /\ m.done => AtEnd(l, tx, m)
  <1>7. q.h \in Nat
    BY DEF Positions
  <1>0. q.h * 2 \in Nat
    BY <1>7
  <1>1. PICK h \in Nat, rk \in [0 .. l - 1 -> Nat], a \in [0 .. l - 1 -> 0 .. l - 1], max \in Nat :
          h = q.h * 2 /\ rk = m.rank /\ a = m.sa /\ max = m.maxRank
    <2>1. m.rank \in [0 .. l - 1 -> Nat] /\ m.sa \in [0 .. l - 1 -> 0 .. l - 1] /\ m.maxRank \in Nat
      BY DEF Memory
    <2>. QED BY <1>0, <2>1
  <1>2. NewRanks(l, tx, m, h, rk)
    BY <1>1 DEF AtCheck
  <1>3. /\ Ranked(tx, l, h, rk) /\ Injects(a, l) /\ RanksSorted(l, a, rk)
        /\ \A p \in 0 .. l - 1 : rk[p] <= max
        /\ max <= l
        /\ m.done => \A p, q1 \in 0 .. l - 1 : rk[p] = rk[q1] => p = q1
    BY <1>1, <1>2 DEF NewRanks
  <1>4. max + 1 < WG * WG * WG
    <2>1. PICK k \in Nat : k = WG * WG * WG
      BY WGIs
    <2>2. l + 1 < k
      BY <2>1, Cubes
    <2>. QED BY <1>3, <2>1, <2>2
  <1>5. ASSUME q2.h = q.h * 2 PROVE AtHead(l, tx, q2, {}, m)
    <2>1. Rounds(l, tx, m, h)
      BY <1>1, <1>3, <1>4 DEF Rounds
    <2>. QED BY <1>1, <1>3, <1>5, <2>1 DEF AtHead
  <1>6. ASSUME m.done PROVE AtEnd(l, tx, m)
    <2>1. tx \in [0 .. l - 1 -> Nat]
      BY WGIs DEF Kernel!Lanes
    <2>2. \A i, j \in 0 .. l - 1 : i < j => rk[a[i]] <= rk[a[j]]
      BY <1>3 DEF RanksSorted
    <2>3. \A p, q1 \in 0 .. l - 1 : rk[p] = rk[q1] => p = q1
      BY <1>3, <1>6
    <2>4. /\ {a[i] : i \in 0 .. l - 1} = 0 .. l - 1
          /\ \A i, j \in 0 .. l - 1 : i < j => SufLess(tx, l, a[i], a[j])
      BY <1>3, <2>1, <2>2, <2>3, ArrayBuilt
    <2>. QED BY <1>1, <2>4 DEF AtEnd
  <1>. QED BY <1>5, <1>6

-----------------------------------------------------------------------------
(* Where the lanes meet.                                                   *)

\* What holds when lanes r have run their interval at q.
Phase(l, tx, q, r, m, c) ==
  /\ q.pc = "init" => AtInit(l, tx, q, r, m)
  /\ q.pc = "head" => AtHead(l, tx, q, r, m)
  /\ q.pc = "clear" => AtClear(l, tx, q, r, m)
  /\ q.pc = "count" => AtCount(l, tx, q, r, m)
  /\ q.pc = "base" => AtBase(l, tx, q, r, m)
  /\ q.pc = "load" => AtLoad(l, tx, q, r, m)
  /\ q.pc = "digit" => AtDigit(l, tx, q, r, m, c)
  /\ q.pc = "place" => AtPlace(l, tx, q, r, m, c)
  /\ q.pc = "advance" => AtAdvance(l, tx, q, r, m)
  /\ q.pc = "sorted" => AtSorted(l, tx, q, r, m)
  /\ q.pc = "flag" => AtFlag(l, tx, q, r, m, c)
  /\ q.pc = "read" => AtRead(l, tx, q, r, m, c)
  /\ q.pc = "write" => AtWrite(l, tx, q, r, m, c)
  /\ q.pc = "rank" => AtRank(l, tx, q, r, m, c)
  /\ q.pc = "bump" => AtBump(l, tx, q, r, m)
  /\ q.pc = "finish" => AtFinish(l, tx, q, r, m)
  /\ q.pc = "copy" => AtCopy(l, tx, q, r, m)
  /\ q.pc = "check" => AtCheck(l, tx, q, m)
  /\ q.pc = "end" => AtEnd(l, tx, m)

\* Where a lane at p meets the others: it runs on from a loop that is over if
\* no barrier follows it.
Meets(l, p, m) ==
  IF p.pc = "head" /\ p.h >= l THEN [p EXCEPT !.pc = "end"]
  ELSE IF p.pc = "clear" /\ ~(p.pass < m.passes) /\ m.passes % 2 # 1 THEN [p EXCEPT !.pc = "sorted"]
  ELSE p

\* And where it goes on behind that barrier.
Goes(q, place)         == [q EXCEPT !.pc = place]
Tiled(l, q, place, last) ==
  IF q.tile + 1 < (l + WG - 1) \div WG THEN [Goes(q, place) EXCEPT !.tile = q.tile + 1] ELSE last
Beyond(l, q, m) ==
  CASE q.pc = "init"    -> Goes(q, "head")
    [] q.pc = "head"    -> [Goes(q, "clear") EXCEPT !.key = 0, !.pass = 0]
    [] q.pc = "clear"   -> IF q.pass < m.passes THEN Goes(q, "count") ELSE Goes(q, "sorted")
    [] q.pc = "count"   -> Goes(q, "base")
    [] q.pc = "base"    -> [Goes(q, "load") EXCEPT !.tile = 0]
    [] q.pc = "load"    -> Goes(q, "digit")
    [] q.pc = "digit"   -> Goes(q, "place")
    [] q.pc = "place"   -> Goes(q, "advance")
    [] q.pc = "advance" -> Tiled(l, q, "load", [Goes(q, "clear") EXCEPT !.pass = q.pass + 1])
    [] q.pc = "sorted"  -> IF q.key = 0 THEN [Goes(q, "clear") EXCEPT !.key = 1, !.pass = 0]
                           ELSE [Goes(q, "flag") EXCEPT !.tile = 0]
    [] q.pc = "flag"    -> [Goes(q, "read") EXCEPT !.d = 1]
    [] q.pc = "read"    -> Goes(q, "write")
    [] q.pc = "write"   -> IF q.d * 2 < WG THEN [Goes(q, "read") EXCEPT !.d = q.d * 2] ELSE Goes(q, "rank")
    [] q.pc = "rank"    -> Goes(q, "bump")
    [] q.pc = "bump"    -> Tiled(l, q, "flag", Goes(q, "finish"))
    [] q.pc = "finish"  -> Goes(q, "copy")
    [] q.pc = "copy"    -> Goes(q, "check")
    [] q.pc = "check"   -> IF m.done THEN Goes(q, "end") ELSE [Goes(q, "head") EXCEPT !.h = q.h * 2]

\* All have come to p, and none has run its interval.
Lands(l, tx, p, m, c) ==
  /\ p \in Positions /\ Meets(l, p, m) \in Positions
  /\ Phase(l, tx, Meets(l, p, m), {}, m, c)
  /\ p.pc = "head" => Ranked(tx, l, p.h, m.rank)

\* Going to a place changes nothing else.
LEMMA ToIs ==
  ASSUME NEW q \in Positions, NEW place \in Places
  PROVE  /\ Goes(q, place) \in Positions /\ Goes(q, place).pc = place /\ Goes(q, place).h = q.h
         /\ Goes(q, place).key = q.key /\ Goes(q, place).pass = q.pass /\ Goes(q, place).tile = q.tile
         /\ Goes(q, place).d = q.d
  BY DEF Positions, Goes

\* Behind most barriers no loop can be over.
LEMMA LandsAt ==
  ASSUME NEW l, NEW tx, NEW m, NEW c, NEW p \in Positions, p.pc # "head", p.pc # "clear",
         Phase(l, tx, p, {}, m, c)
  PROVE  Lands(l, tx, p, m, c)
  BY DEF Lands, Meets

\* The doubling may be over at the head of its loop,
LEMMA LandsHead ==
  ASSUME NEW l \in Nat, NEW tx \in [0 .. l - 1 -> Kernel!Lanes], NEW m \in Memory(l), NEW c,
         NEW p \in Positions, p.pc = "head", AtHead(l, tx, p, {}, m)
  PROVE  Lands(l, tx, p, m, c)
  <1>1. Ranked(tx, l, p.h, m.rank)
    BY DEF AtHead, Rounds
  <1>2. CASE p.h >= l
    <2>1. Meets(l, p, m) = Goes(p, "end") /\ "end" \in Places
      BY <1>2 DEF Meets, Goes, Places
    <2>2. Meets(l, p, m) \in Positions /\ Meets(l, p, m).pc = "end"
      BY <2>1, ToIs
    <2>3. AtEnd(l, tx, m)
      BY <1>2, TurnOver
    <2>. QED BY <1>1, <2>2, <2>3 DEF Lands, Phase
  <1>3. CASE ~(p.h >= l)
    BY <1>1, <1>3 DEF Lands, Phase, Meets
  <1>. QED BY <1>2, <1>3

\* and the passes at the head of theirs.
LEMMA LandsClear ==
  ASSUME NEW l \in Nat, NEW tx, NEW m \in Memory(l), NEW c, NEW p \in Positions, p.pc = "clear",
         Sorting(l, tx, p, m)
  PROVE  Lands(l, tx, p, m, c)
  <1>1. CASE ~(p.pass < m.passes) /\ m.passes % 2 # 1
    <2>1. Meets(l, p, m) = Goes(p, "sorted") /\ "sorted" \in Places
      BY <1>1 DEF Meets, Goes, Places
    <2>2. /\ Meets(l, p, m) \in Positions /\ Meets(l, p, m).pc = "sorted" /\ Meets(l, p, m).h = p.h
          /\ Meets(l, p, m).key = p.key
      BY <2>1, ToIs
    <2>3. AtSorted(l, tx, Meets(l, p, m), {}, m)
      BY <1>1, <2>2, TurnPassed
    <2>. QED BY <2>2, <2>3 DEF Lands, Phase
  <1>2. CASE ~(~(p.pass < m.passes) /\ m.passes % 2 # 1)
    <2>3. m.passes \in Nat
      BY DEF Memory
    <2>1. m.passes % 2 \in {0, 1}
      BY <2>3
    <2>2. AtClear(l, tx, p, {}, m)
      BY <1>2, <2>1 DEF AtClear
    <2>. QED BY <1>2, <2>2 DEF Lands, Phase, Meets
  <1>. QED BY <1>1, <1>2

\* From "count".
LEMMA FromCount ==
  ASSUME NEW l \in Nat, Sized(l), NEW tx \in [0 .. l - 1 -> Kernel!Lanes], NEW q \in Positions,
         NEW m \in Memory(l),
         NEW c, Phase(l, tx, q, Kernel!Lanes, m, c), q.pc = "count", Meets(l, q, m) = q
  PROVE  Lands(l, tx, Beyond(l, q, m), m, c)
  <1>1. PICK p \in Positions : p = Beyond(l, q, m) /\ p.pc = "base" /\ p.h = q.h /\ p.key = q.key
            /\ p.pass = q.pass
            /\ p.tile = q.tile /\ p.d = q.d
    <2>1. Beyond(l, q, m) = Goes(q, "base") /\ "base" \in Places
      BY DEF Beyond, Places
    <2>. QED BY <2>1, ToIs
  <1>2. AtCount(l, tx, q, Kernel!Lanes, m)
    BY DEF Phase
  <1>3. Alike2(q, p)
    BY <1>1 DEF Alike2
  <1>4. AtBase(l, tx, p, {}, m)
    BY <1>1, <1>2, <1>3, TurnCount
  <1>. QED BY <1>1, <1>4, LandsAt DEF Phase

\* From "load".
LEMMA FromLoad ==
  ASSUME NEW l \in Nat, Sized(l), NEW tx \in [0 .. l - 1 -> Kernel!Lanes], NEW q \in Positions,
         NEW m \in Memory(l),
         NEW c, Phase(l, tx, q, Kernel!Lanes, m, c), q.pc = "load", Meets(l, q, m) = q
  PROVE  Lands(l, tx, Beyond(l, q, m), m, c)
  <1>1. PICK p \in Positions : p = Beyond(l, q, m) /\ p.pc = "digit" /\ p.h = q.h /\ p.key = q.key
            /\ p.pass = q.pass
            /\ p.tile = q.tile /\ p.d = q.d
    <2>1. Beyond(l, q, m) = Goes(q, "digit") /\ "digit" \in Places
      BY DEF Beyond, Places
    <2>. QED BY <2>1, ToIs
  <1>2. AtLoad(l, tx, q, Kernel!Lanes, m)
    BY DEF Phase
  <1>3. Alike2(q, p)
    BY <1>1 DEF Alike2
  <1>4. AtDigit(l, tx, p, {}, m, c)
    BY <1>1, <1>2, <1>3, TurnLoad
  <1>. QED BY <1>1, <1>4, LandsAt DEF Phase

\* From "digit".
LEMMA FromDigit ==
  ASSUME NEW l \in Nat, Sized(l), NEW tx \in [0 .. l - 1 -> Kernel!Lanes], NEW q \in Positions,
         NEW m \in Memory(l),
         NEW c, Phase(l, tx, q, Kernel!Lanes, m, c), q.pc = "digit", Meets(l, q, m) = q
  PROVE  Lands(l, tx, Beyond(l, q, m), m, c)
  <1>1. PICK p \in Positions : p = Beyond(l, q, m) /\ p.pc = "place" /\ p.h = q.h /\ p.key = q.key
            /\ p.pass = q.pass
            /\ p.tile = q.tile /\ p.d = q.d
    <2>1. Beyond(l, q, m) = Goes(q, "place") /\ "place" \in Places
      BY DEF Beyond, Places
    <2>. QED BY <2>1, ToIs
  <1>2. AtDigit(l, tx, q, Kernel!Lanes, m, c)
    BY DEF Phase
  <1>3. Alike2(q, p)
    BY <1>1 DEF Alike2
  <1>4. AtPlace(l, tx, p, {}, m, c)
    BY <1>1, <1>2, <1>3, TurnDigit
  <1>. QED BY <1>1, <1>4, LandsAt DEF Phase

\* From "place".
LEMMA FromPlace ==
  ASSUME NEW l \in Nat, Sized(l), NEW tx \in [0 .. l - 1 -> Kernel!Lanes], NEW q \in Positions,
         NEW m \in Memory(l),
         NEW c, Phase(l, tx, q, Kernel!Lanes, m, c), q.pc = "place", Meets(l, q, m) = q
  PROVE  Lands(l, tx, Beyond(l, q, m), m, c)
  <1>1. PICK p \in Positions : p = Beyond(l, q, m) /\ p.pc = "advance" /\ p.h = q.h /\ p.key = q.key
            /\ p.pass = q.pass
            /\ p.tile = q.tile /\ p.d = q.d
    <2>1. Beyond(l, q, m) = Goes(q, "advance") /\ "advance" \in Places
      BY DEF Beyond, Places
    <2>. QED BY <2>1, ToIs
  <1>2. AtPlace(l, tx, q, Kernel!Lanes, m, c)
    BY DEF Phase
  <1>3. Alike2(q, p)
    BY <1>1 DEF Alike2
  <1>4. AtAdvance(l, tx, p, {}, m)
    BY <1>1, <1>2, <1>3, TurnPlace
  <1>. QED BY <1>1, <1>4, LandsAt DEF Phase

\* From "read".
LEMMA FromRead ==
  ASSUME NEW l \in Nat, Sized(l), NEW tx \in [0 .. l - 1 -> Kernel!Lanes], NEW q \in Positions,
         NEW m \in Memory(l),
         NEW c, Phase(l, tx, q, Kernel!Lanes, m, c), q.pc = "read", Meets(l, q, m) = q
  PROVE  Lands(l, tx, Beyond(l, q, m), m, c)
  <1>1. PICK p \in Positions : p = Beyond(l, q, m) /\ p.pc = "write" /\ p.h = q.h /\ p.key = q.key
            /\ p.pass = q.pass
            /\ p.tile = q.tile /\ p.d = q.d
    <2>1. Beyond(l, q, m) = Goes(q, "write") /\ "write" \in Places
      BY DEF Beyond, Places
    <2>. QED BY <2>1, ToIs
  <1>2. AtRead(l, tx, q, Kernel!Lanes, m, c)
    BY DEF Phase
  <1>3. Along(q, p)
    BY <1>1 DEF Along
  <1>4. AtWrite(l, tx, p, {}, m, c)
    BY <1>1, <1>2, <1>3, TurnRead
  <1>. QED BY <1>1, <1>4, LandsAt DEF Phase

\* From "rank".
LEMMA FromRank ==
  ASSUME NEW l \in Nat, Sized(l), NEW tx \in [0 .. l - 1 -> Kernel!Lanes], NEW q \in Positions,
         NEW m \in Memory(l),
         NEW c, Phase(l, tx, q, Kernel!Lanes, m, c), q.pc = "rank", Meets(l, q, m) = q
  PROVE  Lands(l, tx, Beyond(l, q, m), m, c)
  <1>1. PICK p \in Positions : p = Beyond(l, q, m) /\ p.pc = "bump" /\ p.h = q.h /\ p.key = q.key
            /\ p.pass = q.pass
            /\ p.tile = q.tile /\ p.d = q.d
    <2>1. Beyond(l, q, m) = Goes(q, "bump") /\ "bump" \in Places
      BY DEF Beyond, Places
    <2>. QED BY <2>1, ToIs
  <1>2. AtRank(l, tx, q, Kernel!Lanes, m, c)
    BY DEF Phase
  <1>3. Along(q, p)
    BY <1>1 DEF Along
  <1>4. AtBump(l, tx, p, {}, m)
    BY <1>1, <1>2, <1>3, TurnRank
  <1>. QED BY <1>1, <1>4, LandsAt DEF Phase

\* From "finish".
LEMMA FromFinish ==
  ASSUME NEW l \in Nat, Sized(l), NEW tx \in [0 .. l - 1 -> Kernel!Lanes], NEW q \in Positions,
         NEW m \in Memory(l),
         NEW c, Phase(l, tx, q, Kernel!Lanes, m, c), q.pc = "finish", Meets(l, q, m) = q
  PROVE  Lands(l, tx, Beyond(l, q, m), m, c)
  <1>1. PICK p \in Positions : p = Beyond(l, q, m) /\ p.pc = "copy" /\ p.h = q.h /\ p.key = q.key
            /\ p.pass = q.pass
            /\ p.tile = q.tile /\ p.d = q.d
    <2>1. Beyond(l, q, m) = Goes(q, "copy") /\ "copy" \in Places
      BY DEF Beyond, Places
    <2>. QED BY <2>1, ToIs
  <1>2. AtFinish(l, tx, q, Kernel!Lanes, m)
    BY DEF Phase
  <1>4. AtCopy(l, tx, p, {}, m)
    BY <1>1, <1>2, TurnFinish
  <1>. QED BY <1>1, <1>4, LandsAt DEF Phase

\* From "copy".
LEMMA FromCopy ==
  ASSUME NEW l \in Nat, Sized(l), NEW tx \in [0 .. l - 1 -> Kernel!Lanes], NEW q \in Positions,
         NEW m \in Memory(l),
         NEW c, Phase(l, tx, q, Kernel!Lanes, m, c), q.pc = "copy", Meets(l, q, m) = q
  PROVE  Lands(l, tx, Beyond(l, q, m), m, c)
  <1>1. PICK p \in Positions : p = Beyond(l, q, m) /\ p.pc = "check" /\ p.h = q.h /\ p.key = q.key
            /\ p.pass = q.pass
            /\ p.tile = q.tile /\ p.d = q.d
    <2>1. Beyond(l, q, m) = Goes(q, "check") /\ "check" \in Places
      BY DEF Beyond, Places
    <2>. QED BY <2>1, ToIs
  <1>2. AtCopy(l, tx, q, Kernel!Lanes, m)
    BY DEF Phase
  <1>4. AtCheck(l, tx, p, m)
    BY <1>1, <1>2, TurnCopy
  <1>. QED BY <1>1, <1>4, LandsAt DEF Phase

GoesTile(q, place, v) == [Goes(q, place) EXCEPT !.tile = v]
GoesKey(q, place, v) == [Goes(q, place) EXCEPT !.key = v, !.pass = 0]
GoesPass(q, place, v) == [Goes(q, place) EXCEPT !.pass = v]
GoesD(q, place, v) == [Goes(q, place) EXCEPT !.d = v]
GoesH(q, place, v) == [Goes(q, place) EXCEPT !.h = v]

\* Going to a tile,
LEMMA ToTile ==
  ASSUME NEW q \in Positions, NEW place \in Places, NEW v \in Nat
  PROVE  LET p == GoesTile(q, place, v) IN p \in Positions /\ p.pc = place /\ p.h = q.h /\ p.key = q.key
           /\ p.pass = q.pass /\ p.tile = v /\ p.d = q.d
  <1>1. PICK g \in Positions : g = Goes(q, place) /\ g.pc = place /\ g.h = q.h /\ g.key = q.key
            /\ g.pass = q.pass /\ g.tile = q.tile /\ g.d = q.d
    BY ToIs
  <1>2. PICK p : p = [g EXCEPT !.tile = v]
    OBVIOUS
  <1>3. p \in Positions /\ p.pc = place /\ p.h = q.h /\ p.key = q.key /\ p.pass = q.pass /\ p.tile = v
            /\ p.d = q.d
    BY <1>1, <1>2 DEF Positions
  <1>4. p = GoesTile(q, place, v)
    BY <1>1, <1>2 DEF GoesTile
  <1>. QED BY <1>3, <1>4

\* to a key,
LEMMA ToKey ==
  ASSUME NEW q \in Positions, NEW place \in Places, NEW v \in {0, 1}
  PROVE  LET p == GoesKey(q, place, v) IN p \in Positions /\ p.pc = place /\ p.h = q.h /\ p.key = v
           /\ p.pass = 0 /\ p.tile = q.tile /\ p.d = q.d
  <1>1. PICK g \in Positions : g = Goes(q, place) /\ g.pc = place /\ g.h = q.h /\ g.key = q.key
            /\ g.pass = q.pass /\ g.tile = q.tile /\ g.d = q.d
    BY ToIs
  <1>2. PICK p \in Positions : p = [g EXCEPT !.key = v] /\ p.pc = place /\ p.h = q.h /\ p.key = v
            /\ p.pass = q.pass /\ p.tile = q.tile /\ p.d = q.d
    <2>1. PICK p : p = [g EXCEPT !.key = v]
      OBVIOUS
    <2>. QED BY <1>1, <2>1 DEF Positions
  <1>6. 0 \in 0 .. 3
    OBVIOUS
  <1>4. PICK p2 : p2 = [p EXCEPT !.pass = 0]
    OBVIOUS
  <1>3. p2 \in Positions /\ p2.pc = place /\ p2.h = q.h /\ p2.key = v /\ p2.pass = 0 /\ p2.tile = q.tile
            /\ p2.d = q.d
    BY <1>2, <1>4, <1>6 DEF Positions
  <1>5. p2 = GoesKey(q, place, v)
    BY <1>1, <1>2, <1>4 DEF GoesKey
  <1>. QED BY <1>3, <1>5

\* to a pass,
LEMMA ToPass ==
  ASSUME NEW q \in Positions, NEW place \in Places, NEW v \in 0 .. 3
  PROVE  LET p == GoesPass(q, place, v) IN p \in Positions /\ p.pc = place /\ p.h = q.h /\ p.key = q.key
           /\ p.pass = v /\ p.tile = q.tile /\ p.d = q.d
  <1>1. PICK g \in Positions : g = Goes(q, place) /\ g.pc = place /\ g.h = q.h /\ g.key = q.key
            /\ g.pass = q.pass /\ g.tile = q.tile /\ g.d = q.d
    BY ToIs
  <1>2. PICK p : p = [g EXCEPT !.pass = v]
    OBVIOUS
  <1>3. p \in Positions /\ p.pc = place /\ p.h = q.h /\ p.key = q.key /\ p.pass = v /\ p.tile = q.tile
            /\ p.d = q.d
    BY <1>1, <1>2 DEF Positions
  <1>4. p = GoesPass(q, place, v)
    BY <1>1, <1>2 DEF GoesPass
  <1>. QED BY <1>3, <1>4

\* to a distance of the scan,
LEMMA ToD ==
  ASSUME NEW q \in Positions, NEW place \in Places, NEW v \in Nat \ {0}
  PROVE  LET p == GoesD(q, place, v) IN p \in Positions /\ p.pc = place /\ p.h = q.h /\ p.key = q.key
           /\ p.pass = q.pass /\ p.tile = q.tile /\ p.d = v
  <1>1. PICK g \in Positions : g = Goes(q, place) /\ g.pc = place /\ g.h = q.h /\ g.key = q.key
            /\ g.pass = q.pass /\ g.tile = q.tile /\ g.d = q.d
    BY ToIs
  <1>2. PICK p : p = [g EXCEPT !.d = v]
    OBVIOUS
  <1>3. p \in Positions /\ p.pc = place /\ p.h = q.h /\ p.key = q.key /\ p.pass = q.pass
            /\ p.tile = q.tile /\ p.d = v
    BY <1>1, <1>2 DEF Positions
  <1>4. p = GoesD(q, place, v)
    BY <1>1, <1>2 DEF GoesD
  <1>. QED BY <1>3, <1>4

\* to a number of letters.
LEMMA ToH ==
  ASSUME NEW q \in Positions, NEW place \in Places, NEW v \in Nat \ {0}
  PROVE  LET p == GoesH(q, place, v) IN p \in Positions /\ p.pc = place /\ p.h = v /\ p.key = q.key
           /\ p.pass = q.pass /\ p.tile = q.tile /\ p.d = q.d
  <1>1. PICK g \in Positions : g = Goes(q, place) /\ g.pc = place /\ g.h = q.h /\ g.key = q.key
            /\ g.pass = q.pass /\ g.tile = q.tile /\ g.d = q.d
    BY ToIs
  <1>2. PICK p : p = [g EXCEPT !.h = v]
    OBVIOUS
  <1>3. p \in Positions /\ p.pc = place /\ p.h = v /\ p.key = q.key /\ p.pass = q.pass
            /\ p.tile = q.tile /\ p.d = q.d
    BY <1>1, <1>2 DEF Positions
  <1>4. p = GoesH(q, place, v)
    BY <1>1, <1>2 DEF GoesH
  <1>. QED BY <1>3, <1>4

\* From "init".  Behind the barrier the lanes find what the next interval needs.
LEMMA FromInit ==
  ASSUME NEW l \in Nat, Sized(l), NEW tx \in [0 .. l - 1 -> Kernel!Lanes], NEW q \in Positions,
         NEW m \in Memory(l),
         NEW c, Phase(l, tx, q, Kernel!Lanes, m, c), q.pc = "init", Meets(l, q, m) = q
  PROVE  Lands(l, tx, Beyond(l, q, m), m, c)
  <1>1. PICK p \in Positions : p = Beyond(l, q, m) /\ p.pc = "head" /\ p.h = q.h /\ p.key = q.key
            /\ p.pass = q.pass /\ p.tile = q.tile /\ p.d = q.d
    <2>1. Beyond(l, q, m) = Goes(q, "head") /\ "head" \in Places
      BY DEF Beyond, Tiled, Places
    <2>. QED BY <2>1, ToIs
  <1>2. AtInit(l, tx, q, Kernel!Lanes, m)
    BY DEF Phase
  <1>3. AtHead(l, tx, p, {}, m)
    BY <1>1, <1>2, TurnInit
  <1>. QED BY <1>1, <1>3, LandsHead

\* From "head".
LEMMA FromHead ==
  ASSUME NEW l \in Nat, Sized(l), NEW tx \in [0 .. l - 1 -> Kernel!Lanes], NEW q \in Positions,
         NEW m \in Memory(l),
         NEW c, Phase(l, tx, q, Kernel!Lanes, m, c), q.pc = "head", Meets(l, q, m) = q
  PROVE  Lands(l, tx, Beyond(l, q, m), m, c)
  <1>1. PICK p \in Positions : p = Beyond(l, q, m) /\ p.pc = "clear" /\ p.h = q.h /\ p.key = 0
            /\ p.pass = 0 /\ p.tile = q.tile /\ p.d = q.d
    <2>1. Beyond(l, q, m) = GoesKey(q, "clear", 0) /\ "clear" \in Places
      BY DEF Beyond, Tiled, Places, GoesKey
    <2>5. "clear" \in Places
      BY DEF Places
    <2>2. PICK v : v = 0 /\ v \in {0, 1}
      BY SMT
    <2>6. v \in {0, 1}
      BY <2>2
    <2>3. PICK p : p = GoesKey(q, "clear", v)
      OBVIOUS
    <2>4. p \in Positions /\ p.pc = "clear" /\ p.h = q.h /\ p.key = v /\ p.pass = 0 /\ p.tile = q.tile
              /\ p.d = q.d
      BY <2>5, <2>6, <2>3, ToKey
    <2>. QED BY <2>1, <2>2, <2>3, <2>4
  <1>2. AtHead(l, tx, q, Kernel!Lanes, m)
    BY DEF Phase
  <1>3. Sorting(l, tx, p, m)
    BY <1>1, <1>2, TurnHead
  <1>. QED BY <1>1, <1>3, LandsClear

\* From "clear".
LEMMA FromClear ==
  ASSUME NEW l \in Nat, Sized(l), NEW tx \in [0 .. l - 1 -> Kernel!Lanes], NEW q \in Positions,
         NEW m \in Memory(l),
         NEW c, Phase(l, tx, q, Kernel!Lanes, m, c), q.pc = "clear", Meets(l, q, m) = q
  PROVE  Lands(l, tx, Beyond(l, q, m), m, c)
  <1>1. AtClear(l, tx, q, Kernel!Lanes, m)
    BY DEF Phase
  <1>2. CASE q.pass < m.passes
    <2>1. PICK p \in Positions : p = Beyond(l, q, m) /\ p.pc = "count" /\ p.h = q.h /\ p.key = q.key
              /\ p.pass = q.pass /\ p.tile = q.tile /\ p.d = q.d
      <3>1. Beyond(l, q, m) = Goes(q, "count") /\ "count" \in Places
        BY <1>2 DEF Beyond, Tiled, Places
      <3>. QED BY <3>1, ToIs
    <2>2. AtCount(l, tx, p, {}, m)
      BY <1>1, <1>2, <2>1, TurnClear
    <2>. QED BY <2>1, <2>2, LandsAt DEF Phase
  <1>3. CASE ~(q.pass < m.passes)
    <2>1. PICK p \in Positions : p = Beyond(l, q, m) /\ p.pc = "sorted" /\ p.h = q.h /\ p.key = q.key
              /\ p.pass = q.pass /\ p.tile = q.tile /\ p.d = q.d
      <3>1. Beyond(l, q, m) = Goes(q, "sorted") /\ "sorted" \in Places
        BY <1>3 DEF Beyond, Tiled, Places
      <3>. QED BY <3>1, ToIs
    <2>2. AtSorted(l, tx, p, {}, m)
      BY <1>1, <1>3, <2>1, TurnClear
    <2>. QED BY <2>1, <2>2, LandsAt DEF Phase
  <1>. QED BY <1>2, <1>3

\* From "base".
LEMMA FromBase ==
  ASSUME NEW l \in Nat, Sized(l), NEW tx \in [0 .. l - 1 -> Kernel!Lanes], NEW q \in Positions,
         NEW m \in Memory(l),
         NEW c, Phase(l, tx, q, Kernel!Lanes, m, c), q.pc = "base", Meets(l, q, m) = q
  PROVE  Lands(l, tx, Beyond(l, q, m), m, c)
  <1>1. PICK p \in Positions : p = Beyond(l, q, m) /\ p.pc = "load" /\ p.h = q.h /\ p.key = q.key
            /\ p.pass = q.pass /\ p.tile = 0 /\ p.d = q.d
    <2>1. Beyond(l, q, m) = GoesTile(q, "load", 0) /\ "load" \in Places
      BY DEF Beyond, Tiled, Places, GoesTile
    <2>5. "load" \in Places
      BY DEF Places
    <2>2. PICK v : v = 0 /\ v \in Nat
      BY SMT
    <2>6. v \in Nat
      BY <2>2
    <2>3. PICK p : p = GoesTile(q, "load", v)
      OBVIOUS
    <2>4. p \in Positions /\ p.pc = "load" /\ p.h = q.h /\ p.key = q.key /\ p.pass = q.pass
              /\ p.tile = v /\ p.d = q.d
      BY <2>5, <2>6, <2>3, ToTile
    <2>. QED BY <2>1, <2>2, <2>3, <2>4
  <1>2. AtBase(l, tx, q, Kernel!Lanes, m)
    BY DEF Phase
  <1>3. Alike2(q, p)
    BY <1>1 DEF Alike2
  <1>4. AtLoad(l, tx, p, {}, m)
    BY <1>1, <1>2, <1>3, TurnBase
  <1>. QED BY <1>1, <1>4, LandsAt DEF Phase

\* From "advance".
LEMMA FromAdvance ==
  ASSUME NEW l \in Nat, Sized(l), NEW tx \in [0 .. l - 1 -> Kernel!Lanes], NEW q \in Positions,
         NEW m \in Memory(l),
         NEW c, Phase(l, tx, q, Kernel!Lanes, m, c), q.pc = "advance", Meets(l, q, m) = q
  PROVE  Lands(l, tx, Beyond(l, q, m), m, c)
  <1>1. AtAdvance(l, tx, q, Kernel!Lanes, m)
    BY DEF Phase
  <1>2. CASE q.tile + 1 < (l + WG - 1) \div WG
    <2>1. PICK p \in Positions : p = Beyond(l, q, m) /\ p.pc = "load" /\ p.h = q.h /\ p.key = q.key
              /\ p.pass = q.pass /\ p.tile = q.tile + 1 /\ p.d = q.d
      <3>1. Beyond(l, q, m) = GoesTile(q, "load", q.tile + 1) /\ "load" \in Places
        BY <1>2 DEF Beyond, Tiled, Places, GoesTile
      <3>5. "load" \in Places
        BY DEF Places
      <3>2. PICK v : v = q.tile + 1 /\ v \in Nat
        BY DEF Positions
      <3>6. v \in Nat
        BY <3>2
      <3>3. PICK p : p = GoesTile(q, "load", v)
        OBVIOUS
      <3>4. p \in Positions /\ p.pc = "load" /\ p.h = q.h /\ p.key = q.key /\ p.pass = q.pass
                /\ p.tile = v /\ p.d = q.d
        BY <3>5, <3>6, <3>3, ToTile
      <3>. QED BY <3>1, <3>2, <3>3, <3>4
    <2>2. Alike2(q, p)
      BY <2>1 DEF Alike2
    <2>3. AtLoad(l, tx, p, {}, m)
      BY <1>1, <2>1, <2>2, TurnAdvance
    <2>. QED BY <2>1, <2>3, LandsAt DEF Phase
  <1>3. CASE ~(q.tile + 1 < (l + WG - 1) \div WG)
    <2>0. q.pass + 1 \in 0 .. 3
      <3>1. Passing(l, tx, q, m)
        BY <1>1 DEF AtAdvance, Tile
      <3>2. q.pass \in 0 .. 2
        BY <3>1, PassingIs
      <3>. QED BY <3>2
    <2>1. PICK p \in Positions : p = Beyond(l, q, m) /\ p.pc = "clear" /\ p.h = q.h /\ p.key = q.key
              /\ p.pass = q.pass + 1 /\ p.tile = q.tile /\ p.d = q.d
      <3>1. Beyond(l, q, m) = GoesPass(q, "clear", q.pass + 1) /\ "clear" \in Places
        BY <1>3 DEF Beyond, Tiled, Places, GoesPass
      <3>5. "clear" \in Places
        BY DEF Places
      <3>2. PICK v : v = q.pass + 1 /\ v \in 0 .. 3
        BY <2>0 
      <3>6. v \in 0 .. 3
        BY <3>2
      <3>3. PICK p : p = GoesPass(q, "clear", v)
        OBVIOUS
      <3>4. p \in Positions /\ p.pc = "clear" /\ p.h = q.h /\ p.key = q.key /\ p.pass = v
                /\ p.tile = q.tile /\ p.d = q.d
        BY <3>5, <3>6, <3>3, ToPass, ZenonT(40)
      <3>. QED BY <3>1, <3>2, <3>3, <3>4
    <2>2. l <= (q.tile + 1) * WG
      BY <1>3, NextTile
    <2>3. Sorting(l, tx, p, m)
      BY <1>1, <2>1, <2>2, TurnPass
    <2>. QED BY <2>1, <2>3, LandsClear
  <1>. QED BY <1>2, <1>3

\* From "sorted".
LEMMA FromSorted ==
  ASSUME NEW l \in Nat, Sized(l), NEW tx \in [0 .. l - 1 -> Kernel!Lanes], NEW q \in Positions,
         NEW m \in Memory(l),
         NEW c, Phase(l, tx, q, Kernel!Lanes, m, c), q.pc = "sorted", Meets(l, q, m) = q
  PROVE  Lands(l, tx, Beyond(l, q, m), m, c)
  <1>1. AtSorted(l, tx, q, Kernel!Lanes, m)
    BY DEF Phase
  <1>2. CASE q.key = 0
    <2>1. PICK p \in Positions : p = Beyond(l, q, m) /\ p.pc = "clear" /\ p.h = q.h /\ p.key = 1
              /\ p.pass = 0 /\ p.tile = q.tile /\ p.d = q.d
      <3>1. Beyond(l, q, m) = GoesKey(q, "clear", 1) /\ "clear" \in Places
        BY <1>2 DEF Beyond, Tiled, Places, GoesKey
      <3>5. "clear" \in Places
        BY DEF Places
      <3>2. PICK v : v = 1 /\ v \in {0, 1}
        BY SMT
      <3>6. v \in {0, 1}
        BY <3>2
      <3>3. PICK p : p = GoesKey(q, "clear", v)
        OBVIOUS
      <3>4. p \in Positions /\ p.pc = "clear" /\ p.h = q.h /\ p.key = v /\ p.pass = 0 /\ p.tile = q.tile
                /\ p.d = q.d
        BY <3>5, <3>6, <3>3, ToKey
      <3>. QED BY <3>1, <3>2, <3>3, <3>4
    <2>2. Sorting(l, tx, p, m)
      BY <1>1, <1>2, <2>1, TurnSorted
    <2>. QED BY <2>1, <2>2, LandsClear
  <1>3. CASE q.key # 0
    <2>1. PICK p \in Positions : p = Beyond(l, q, m) /\ p.pc = "flag" /\ p.h = q.h /\ p.key = q.key
              /\ p.pass = q.pass /\ p.tile = 0 /\ p.d = q.d
      <3>1. Beyond(l, q, m) = GoesTile(q, "flag", 0) /\ "flag" \in Places
        BY <1>3 DEF Beyond, Tiled, Places, GoesTile
      <3>5. "flag" \in Places
        BY DEF Places
      <3>2. PICK v : v = 0 /\ v \in Nat
        BY SMT
      <3>6. v \in Nat
        BY <3>2
      <3>3. PICK p : p = GoesTile(q, "flag", v)
        OBVIOUS
      <3>4. p \in Positions /\ p.pc = "flag" /\ p.h = q.h /\ p.key = q.key /\ p.pass = q.pass
                /\ p.tile = v /\ p.d = q.d
        BY <3>5, <3>6, <3>3, ToTile
      <3>. QED BY <3>1, <3>2, <3>3, <3>4
    <2>2. q.key = 1
      BY <1>3 DEF Positions
    <2>3. AtFlag(l, tx, p, {}, m, c)
      BY <1>1, <2>1, <2>2, TurnRanks
    <2>. QED BY <2>1, <2>3, LandsAt DEF Phase
  <1>. QED BY <1>2, <1>3

\* From "flag".
LEMMA FromFlag ==
  ASSUME NEW l \in Nat, Sized(l), NEW tx \in [0 .. l - 1 -> Kernel!Lanes], NEW q \in Positions,
         NEW m \in Memory(l),
         NEW c, Phase(l, tx, q, Kernel!Lanes, m, c), q.pc = "flag", Meets(l, q, m) = q
  PROVE  Lands(l, tx, Beyond(l, q, m), m, c)
  <1>1. PICK p \in Positions : p = Beyond(l, q, m) /\ p.pc = "read" /\ p.h = q.h /\ p.key = q.key
            /\ p.pass = q.pass /\ p.tile = q.tile /\ p.d = 1
    <2>1. Beyond(l, q, m) = GoesD(q, "read", 1) /\ "read" \in Places
      BY DEF Beyond, Tiled, Places, GoesD
    <2>5. "read" \in Places
      BY DEF Places
    <2>2. PICK v : v = 1 /\ v \in Nat \ {0}
      BY SMT
    <2>6. v \in Nat \ {0}
      BY <2>2
    <2>3. PICK p : p = GoesD(q, "read", v)
      OBVIOUS
    <2>4. p \in Positions /\ p.pc = "read" /\ p.h = q.h /\ p.key = q.key /\ p.pass = q.pass
              /\ p.tile = q.tile /\ p.d = v
      BY <2>5, <2>6, <2>3, ToD
    <2>. QED BY <2>1, <2>2, <2>3, <2>4
  <1>2. AtFlag(l, tx, q, Kernel!Lanes, m, c)
    BY DEF Phase
  <1>3. Along(q, p)
    BY <1>1 DEF Along
  <1>4. AtRead(l, tx, p, {}, m, c)
    BY <1>1, <1>2, <1>3, TurnFlag
  <1>. QED BY <1>1, <1>4, LandsAt DEF Phase

\* From "write".
LEMMA FromWrite ==
  ASSUME NEW l \in Nat, Sized(l), NEW tx \in [0 .. l - 1 -> Kernel!Lanes], NEW q \in Positions,
         NEW m \in Memory(l),
         NEW c, Phase(l, tx, q, Kernel!Lanes, m, c), q.pc = "write", Meets(l, q, m) = q
  PROVE  Lands(l, tx, Beyond(l, q, m), m, c)
  <1>1. AtWrite(l, tx, q, Kernel!Lanes, m, c)
    BY DEF Phase
  <1>2. CASE q.d * 2 < WG
    <2>0. q.d * 2 \in Nat \ {0}
      <3>1. PICK d \in Nat \ {0} : d = q.d
        BY DEF Positions
      <3>2. d * 2 \in Nat \ {0}
        OBVIOUS
      <3>. QED BY <3>1, <3>2
    <2>1. PICK p \in Positions : p = Beyond(l, q, m) /\ p.pc = "read" /\ p.h = q.h /\ p.key = q.key
              /\ p.pass = q.pass /\ p.tile = q.tile /\ p.d = q.d * 2
      <3>1. Beyond(l, q, m) = GoesD(q, "read", q.d * 2) /\ "read" \in Places
        BY <1>2 DEF Beyond, Tiled, Places, GoesD
      <3>5. "read" \in Places
        BY DEF Places
      <3>2. PICK v : v = q.d * 2 /\ v \in Nat \ {0}
        BY <2>0 
      <3>6. v \in Nat \ {0}
        BY <3>2
      <3>3. PICK p : p = GoesD(q, "read", v)
        OBVIOUS
      <3>4. p \in Positions /\ p.pc = "read" /\ p.h = q.h /\ p.key = q.key /\ p.pass = q.pass
                /\ p.tile = q.tile /\ p.d = v
        BY <3>5, <3>6, <3>3, ToD
      <3>. QED BY <3>1, <3>2, <3>3, <3>4
    <2>2. Along(q, p)
      BY <2>1 DEF Along
    <2>3. AtRead(l, tx, p, {}, m, c)
      BY <1>1, <2>1, <2>2, TurnWrite
    <2>. QED BY <2>1, <2>3, LandsAt DEF Phase
  <1>3. CASE ~(q.d * 2 < WG)
    <2>1. PICK p \in Positions : p = Beyond(l, q, m) /\ p.pc = "rank" /\ p.h = q.h /\ p.key = q.key
              /\ p.pass = q.pass /\ p.tile = q.tile /\ p.d = q.d
      <3>1. Beyond(l, q, m) = Goes(q, "rank") /\ "rank" \in Places
        BY <1>3 DEF Beyond, Tiled, Places
      <3>. QED BY <3>1, ToIs
    <2>2. Along(q, p)
      BY <2>1 DEF Along
    <2>3. AtRank(l, tx, p, {}, m, c)
      BY <1>1, <1>3, <2>2, TurnScan
    <2>. QED BY <2>1, <2>3, LandsAt DEF Phase
  <1>. QED BY <1>2, <1>3

\* From "bump".
LEMMA FromBump ==
  ASSUME NEW l \in Nat, Sized(l), NEW tx \in [0 .. l - 1 -> Kernel!Lanes], NEW q \in Positions,
         NEW m \in Memory(l),
         NEW c, Phase(l, tx, q, Kernel!Lanes, m, c), q.pc = "bump", Meets(l, q, m) = q
  PROVE  Lands(l, tx, Beyond(l, q, m), m, c)
  <1>1. AtBump(l, tx, q, Kernel!Lanes, m)
    BY DEF Phase
  <1>2. CASE q.tile + 1 < (l + WG - 1) \div WG
    <2>1. PICK p \in Positions : p = Beyond(l, q, m) /\ p.pc = "flag" /\ p.h = q.h /\ p.key = q.key
              /\ p.pass = q.pass /\ p.tile = q.tile + 1 /\ p.d = q.d
      <3>1. Beyond(l, q, m) = GoesTile(q, "flag", q.tile + 1) /\ "flag" \in Places
        BY <1>2 DEF Beyond, Tiled, Places, GoesTile
      <3>5. "flag" \in Places
        BY DEF Places
      <3>2. PICK v : v = q.tile + 1 /\ v \in Nat
        BY DEF Positions
      <3>6. v \in Nat
        BY <3>2
      <3>3. PICK p : p = GoesTile(q, "flag", v)
        OBVIOUS
      <3>4. p \in Positions /\ p.pc = "flag" /\ p.h = q.h /\ p.key = q.key /\ p.pass = q.pass
                /\ p.tile = v /\ p.d = q.d
        BY <3>5, <3>6, <3>3, ToTile
      <3>. QED BY <3>1, <3>2, <3>3, <3>4
    <2>2. AtFlag(l, tx, p, {}, m, c)
      BY <1>1, <2>1, TurnBump
    <2>. QED BY <2>1, <2>2, LandsAt DEF Phase
  <1>3. CASE ~(q.tile + 1 < (l + WG - 1) \div WG)
    <2>1. PICK p \in Positions : p = Beyond(l, q, m) /\ p.pc = "finish" /\ p.h = q.h /\ p.key = q.key
              /\ p.pass = q.pass /\ p.tile = q.tile /\ p.d = q.d
      <3>1. Beyond(l, q, m) = Goes(q, "finish") /\ "finish" \in Places
        BY <1>3 DEF Beyond, Tiled, Places
      <3>. QED BY <3>1, ToIs
    <2>2. l <= (q.tile + 1) * WG
      BY <1>3, NextTile
    <2>3. AtFinish(l, tx, p, {}, m)
      BY <1>1, <2>1, <2>2, TurnBump
    <2>. QED BY <2>1, <2>3, LandsAt DEF Phase
  <1>. QED BY <1>2, <1>3

\* From "check".
LEMMA FromCheck ==
  ASSUME NEW l \in Nat, Sized(l), NEW tx \in [0 .. l - 1 -> Kernel!Lanes], NEW q \in Positions,
         NEW m \in Memory(l),
         NEW c, Phase(l, tx, q, Kernel!Lanes, m, c), q.pc = "check", Meets(l, q, m) = q
  PROVE  Lands(l, tx, Beyond(l, q, m), m, c)
  <1>1. AtCheck(l, tx, q, m)
    BY DEF Phase
  <1>2. CASE m.done
    <2>1. PICK p \in Positions : p = Beyond(l, q, m) /\ p.pc = "end" /\ p.h = q.h /\ p.key = q.key
              /\ p.pass = q.pass /\ p.tile = q.tile /\ p.d = q.d
      <3>1. Beyond(l, q, m) = Goes(q, "end") /\ "end" \in Places
        BY <1>2 DEF Beyond, Tiled, Places
      <3>. QED BY <3>1, ToIs
    <2>2. AtEnd(l, tx, m)
      BY <1>1, <1>2, TurnCheck
    <2>. QED BY <2>1, <2>2, LandsAt DEF Phase
  <1>3. CASE ~m.done
    <2>0. q.h * 2 \in Nat \ {0}
      <3>1. PICK h \in Nat \ {0} : h = q.h
        BY DEF Positions
      <3>2. h * 2 \in Nat \ {0}
        OBVIOUS
      <3>. QED BY <3>1, <3>2
    <2>1. PICK p \in Positions : p = Beyond(l, q, m) /\ p.pc = "head" /\ p.h = q.h * 2 /\ p.key = q.key
              /\ p.pass = q.pass /\ p.tile = q.tile /\ p.d = q.d
      <3>1. Beyond(l, q, m) = GoesH(q, "head", q.h * 2) /\ "head" \in Places
        BY <1>3 DEF Beyond, Tiled, Places, GoesH
      <3>5. "head" \in Places
        BY DEF Places
      <3>2. PICK v : v = q.h * 2 /\ v \in Nat \ {0}
        BY <2>0 
      <3>6. v \in Nat \ {0}
        BY <3>2
      <3>3. PICK p : p = GoesH(q, "head", v)
        OBVIOUS
      <3>4. p \in Positions /\ p.pc = "head" /\ p.h = v /\ p.key = q.key /\ p.pass = q.pass
                /\ p.tile = q.tile /\ p.d = q.d
        BY <3>5, <3>6, <3>3, ToH
      <3>. QED BY <3>1, <3>2, <3>3, <3>4
    <2>2. AtHead(l, tx, p, {}, m)
      BY <1>1, <2>1, TurnCheck
    <2>. QED BY <2>1, <2>2, LandsHead
  <1>. QED BY <1>2, <1>3

\* All lanes come to the next barrier.
LEMMA AllLand ==
  ASSUME NEW l \in Nat, Sized(l), NEW tx \in [0 .. l - 1 -> Kernel!Lanes], NEW q \in Positions,
         NEW m \in Memory(l),
         NEW c, Phase(l, tx, q, Kernel!Lanes, m, c), q.pc # "end", Meets(l, q, m) = q
  PROVE  Lands(l, tx, Beyond(l, q, m), m, c)
  <1>1. q.pc \in Places
    BY DEF Positions
  <1>2. CASE q.pc = "init"
    BY <1>2, FromInit
  <1>3. CASE q.pc = "head"
    BY <1>3, FromHead
  <1>4. CASE q.pc = "clear"
    BY <1>4, FromClear
  <1>5. CASE q.pc = "count"
    BY <1>5, FromCount
  <1>6. CASE q.pc = "base"
    BY <1>6, FromBase
  <1>7. CASE q.pc = "load"
    BY <1>7, FromLoad
  <1>8. CASE q.pc = "digit"
    BY <1>8, FromDigit
  <1>9. CASE q.pc = "place"
    BY <1>9, FromPlace
  <1>10. CASE q.pc = "advance"
    BY <1>10, FromAdvance
  <1>11. CASE q.pc = "sorted"
    BY <1>11, FromSorted
  <1>12. CASE q.pc = "flag"
    BY <1>12, FromFlag
  <1>13. CASE q.pc = "read"
    BY <1>13, FromRead
  <1>14. CASE q.pc = "write"
    BY <1>14, FromWrite
  <1>15. CASE q.pc = "rank"
    BY <1>15, FromRank
  <1>16. CASE q.pc = "bump"
    BY <1>16, FromBump
  <1>17. CASE q.pc = "finish"
    BY <1>17, FromFinish
  <1>18. CASE q.pc = "copy"
    BY <1>18, FromCopy
  <1>19. CASE q.pc = "check"
    BY <1>19, FromCheck
  <1>. QED BY <1>1, <1>2, <1>3, <1>4, <1>5, <1>6, <1>7, <1>8, <1>9, <1>10, <1>11, <1>12, <1>13, <1>14,
            <1>15, <1>16, <1>17, <1>18, <1>19 DEF Places

-----------------------------------------------------------------------------
(* The kernel's own steps.                                                 *)

\* Lane t has still to run its interval at q.
Ready(l, tx, q, t) ==
  /\ Sized(l) /\ Kernel!n = l /\ kernelText = tx /\ tx \in [0 .. l - 1 -> Kernel!Lanes]
  /\ q \in Positions /\ t \in Kernel!Lanes /\ t \notin ran /\ at[t] = q /\ Meets(l, q, shared) = q
  /\ shared \in Memory(l) /\ reg \in Registers(l) /\ ran \in SUBSET Kernel!Lanes
  /\ Phase(l, tx, q, ran, shared, reg)

\* It has run it.
Done(l, tx, q, t) ==
  /\ q.pc # "end" /\ shared' \in Memory(l) /\ reg' \in Registers(l)
  /\ Phase(l, tx, q, ran \cup {t}, shared', reg')
  /\ q.pc = "head" \/ shared'.passes = shared.passes
  /\ q.pc = "finish" \/ shared'.done = shared.done
  /\ at' = [at EXCEPT ![t] = Beyond(l, q, shared)]
  /\ ran' = IF ran \cup {t} = Kernel!Lanes THEN {} ELSE ran \cup {t}
  /\ UNCHANGED kernelText

\* A lane that keeps its registers.
LEMMA RowStays ==
  ASSUME NEW l, NEW c \in Registers(l), NEW t PROVE [c EXCEPT ![t] = c[t]] = c
  BY DEF Registers

\* A lane that runs its interval comes to the barrier.
LEMMA Ends ==
  ASSUME NEW l, NEW tx, NEW q, NEW t, NEW m, m = shared, NEW m2 \in Memory(l), NEW row, NEW p,
         NEW c2 \in Registers(l), c2 = [reg EXCEPT ![t] = row], p = Beyond(l, q, m),
         Kernel!Wait(t, m2, row, p), q.pc # "end", Phase(l, tx, q, ran \cup {t}, m2, c2),
         q.pc = "head" \/ m2.passes = m.passes, q.pc = "finish" \/ m2.done = m.done
  PROVE  Done(l, tx, q, t)
  BY DEF Done, Kernel!Wait, Kernel!Goes

\* Suffixes and slots.
LEMMA Indices ==
  ASSUME NEW l, NEW tx, NEW q, NEW t, Ready(l, tx, q, t)
  PROVE  /\ l \in Nat /\ Kernel!Index = 0 .. l - 1 /\ Kernel!n = l
         /\ \A i \in 0 .. l - 1 : i \in Kernel!Own(t) <=> i % WG = t
         /\ Kernel!Own(t) = {i \in 0 .. l - 1 : i % WG = t}
         /\ Kernel!nTiles = (l + WG - 1) \div WG
         /\ Kernel!Slot(t) = q.tile * WG + t
  BY DEF Ready, Sized, Kernel!Index, Kernel!Own, Kernel!nTiles, Kernel!Slot

\* The digits that lane t looks at.
LEMMA DigitIs ==
  ASSUME NEW l, NEW tx, NEW q, NEW t, Ready(l, tx, q, t), NEW m, m = shared, Passing(l, tx, q, m)
  PROVE  \A i \in 0 .. l - 1 : Kernel!DigitAt(t, i) = DigitsOf(l, m, q)[i]
  <1> SUFFICES ASSUME NEW i \in 0 .. l - 1 PROVE Kernel!DigitAt(t, i) = DigitsOf(l, m, q)[i]
    OBVIOUS
  <1>1. l \in Nat /\ Kernel!n = l /\ at[t] = q /\ m \in Memory(l) /\ q \in Positions
    BY DEF Ready, Sized
  <1>2. q.pass \in 0 .. 2
    BY <1>1, PassingIs
  <1>3. PICK s \in 0 .. l - 1 : s = Kernel!Slots(m, q.pass)[i]
    <2>1. Kernel!Slots(m, q.pass) \in [0 .. l - 1 -> 0 .. l - 1]
      BY <1>1, <1>2, Digital
    <2>. QED BY <2>1
  <1>4. m.keySel = q.key /\ m.h = q.h
    BY DEF Passing, Sorting, Round
  <1>5. Kernel!Second(m, s, m.h) = Afters(l, m, q.h)[s]
    BY <1>1, <1>4 DEF Kernel!Second, Afters, After
  <1>6. Kernel!Key(m, s) = KeyOf(l, m, q)[s]
    BY <1>4, <1>5 DEF Kernel!Key, KeyOf
  <1>7. Kernel!DigitAt(t, i) = Kernel!Digit(Kernel!Key(m, s), q.pass)
    BY <1>1, <1>3 DEF Kernel!DigitAt
  <1>8. DigitsOf(l, m, q)[i] = Kernel!Digit(KeyOf(l, m, q)[s], q.pass)
    BY <1>3 DEF DigitsOf
  <1>. QED BY <1>6, <1>7, <1>8

\* Start is the lane's interval.
LEMMA DoStart ==
  ASSUME NEW l, NEW tx, NEW q, NEW t, Ready(l, tx, q, t), Kernel!Start(t)
  PROVE  Done(l, tx, q, t)
  <1>1. PICK m \in Memory(l), c \in Registers(l), r \in SUBSET Kernel!Lanes : m = shared /\ c = reg /\ r = ran
    BY DEF Ready
  <1>2. /\ q.pc = "init" /\ q.pc # "end" /\ q \in Positions /\ t \in Kernel!Lanes /\ t \notin r
        /\ l \in Nat /\ tx \in [0 .. l - 1 -> Kernel!Lanes] /\ at[t] = q
    BY <1>1, Indices DEF Ready, Kernel!Start, Kernel!Lane
  <1>3. AtInit(l, tx, q, r, m)
    BY <1>1, <1>2 DEF Ready, Phase
  <1>4. PICK m2 : m2 = Started(l, tx, t, m)
    OBVIOUS
  <1>5. m2 \in Memory(l) /\ AtInit(l, tx, q, r \cup {t}, m2) /\ m2.passes = m.passes /\ m2.done = m.done
    <2>1. l \in Nat /\ q \in Positions /\ t \in Kernel!Lanes
      BY <1>2
    <2>2. tx \in Bytes(l)
      BY <1>2 DEF Bytes
    <2>. QED BY <2>1, <2>2, <1>3, <1>4, StepInit
  <1>7. m2 = [shared EXCEPT !.sa = [i \in Kernel!Index |-> IF i \in Kernel!Own(t) THEN i ELSE @[i]],
                            !.rank = [i \in Kernel!Index |-> IF i \in Kernel!Own(t) THEN kernelText[i] ELSE @[i]],
                            !.maxRank = IF t = 0 THEN WG - 1 ELSE @]
    <2>1. kernelText = tx /\ Kernel!Index = 0 .. l - 1 /\ \A i \in 0 .. l - 1 : i \in Kernel!Own(t) <=> i % WG = t
      BY Indices DEF Ready
    <2>2. /\ Share(l, t, [i \in 0 .. l - 1 |-> i], m.sa)
               = [i \in Kernel!Index |-> IF i \in Kernel!Own(t) THEN i ELSE m.sa[i]]
          /\ Share(l, t, tx, m.rank)
               = [i \in Kernel!Index |-> IF i \in Kernel!Own(t) THEN kernelText[i] ELSE m.rank[i]]
      BY <2>1 DEF Share
    <2>. QED BY <1>1, <1>4, <2>2 DEF Memory, Started
  <1>8. Kernel!Wait(t, m2, c[t], Goes(q, "head"))
    BY <1>1, <1>2, <1>7 DEF Kernel!Start, Kernel!To, Goes
  <1>9. Beyond(l, q, m) = Goes(q, "head")
    BY <1>2 DEF Beyond
  <1>10. Phase(l, tx, q, r \cup {t}, m2, c)
    BY <1>2, <1>5 DEF Phase
  <1>. QED BY <1>1, <1>2, <1>5, <1>8, <1>9, <1>10, Ends, RowStays

\* LoopHead is the lane's interval.
LEMMA DoLoopHead ==
  ASSUME NEW l, NEW tx, NEW q, NEW t, Ready(l, tx, q, t), Kernel!LoopHead(t)
  PROVE  Done(l, tx, q, t)
  <1>1. PICK m \in Memory(l), c \in Registers(l), r \in SUBSET Kernel!Lanes : m = shared /\ c = reg /\ r = ran
    BY DEF Ready
  <1>2. /\ q.pc = "head" /\ q.pc # "end" /\ q \in Positions /\ t \in Kernel!Lanes /\ t \notin r
        /\ l \in Nat /\ tx \in [0 .. l - 1 -> Kernel!Lanes] /\ at[t] = q
    BY <1>1, Indices DEF Ready, Kernel!LoopHead, Kernel!Lane
  <1>3. AtHead(l, tx, q, r, m)
    BY <1>1, <1>2 DEF Ready, Phase
  <1>4. PICK m2 : m2 = HeadOf(q, t, m)
    OBVIOUS
  <1>5. m2 \in Memory(l) /\ AtHead(l, tx, q, r \cup {t}, m2) /\ m2.done = m.done
    BY <1>2, <1>3, <1>4, StepHead
  <1>6. ~(q.h >= l)
    <2>1. Meets(l, q, m) = q
      BY <1>1 DEF Ready
    <2>2. ASSUME q.h >= l PROVE Meets(l, q, m).pc = "end"
      <3>1. Meets(l, q, m) = Goes(q, "end") /\ "end" \in Places
        BY <1>2, <2>2 DEF Meets, Goes, Places
      <3>. QED BY <1>2, <3>1, ToIs
    <2>. QED BY <1>2, <2>1, <2>2
  <1>7. PICK p : p = [Goes(q, "clear") EXCEPT !.key = 0, !.pass = 0]
    OBVIOUS
  <1>8. Kernel!Wait(t, m2, c[t], p)
    <2>1. Kernel!n = l
      BY Indices
    <2>. QED BY <1>1, <1>2, <1>4, <1>6, <1>7, <2>1 DEF Kernel!LoopHead, Kernel!To, Goes, HeadOf
  <1>9. Beyond(l, q, m) = p
    BY <1>2, <1>7 DEF Beyond
  <1>10. Phase(l, tx, q, r \cup {t}, m2, c)
    BY <1>2, <1>5 DEF Phase
  <1>. QED BY <1>1, <1>2, <1>5, <1>8, <1>9, <1>10, Ends, RowStays

\* Clear is the lane's interval.
LEMMA DoClear ==
  ASSUME NEW l, NEW tx, NEW q, NEW t, Ready(l, tx, q, t), Kernel!Clear(t)
  PROVE  Done(l, tx, q, t)
  <1>1. PICK m \in Memory(l), c \in Registers(l), r \in SUBSET Kernel!Lanes : m = shared /\ c = reg /\ r = ran
    BY DEF Ready
  <1>2. /\ q.pc = "clear" /\ q.pc # "end" /\ q \in Positions /\ t \in Kernel!Lanes /\ t \notin r
        /\ l \in Nat /\ tx \in [0 .. l - 1 -> Kernel!Lanes] /\ at[t] = q
    BY <1>1, Indices DEF Ready, Kernel!Clear, Kernel!Lane
  <1>3. AtClear(l, tx, q, r, m)
    BY <1>1, <1>2 DEF Ready, Phase
  <1>4. PICK m2 : m2 = Cleared(l, q, t, m)
    OBVIOUS
  <1>5. m2 \in Memory(l) /\ AtClear(l, tx, q, r \cup {t}, m2) /\ m2.passes = m.passes /\ m2.done = m.done
    BY <1>2, <1>3, <1>4, StepClear
  <1>6. Share(l, t, m.sa2, m.sa) = [i \in Kernel!Index |-> IF i \in Kernel!Own(t) THEN m.sa2[i] ELSE m.sa[i]]
    <2>1. Kernel!Index = 0 .. l - 1 /\ \A i \in 0 .. l - 1 : i \in Kernel!Own(t) <=> i % WG = t
      BY Indices
    <2>. QED BY <2>1 DEF Share
  <1>7. PICK p : p = IF q.pass < m.passes THEN Goes(q, "count") ELSE Goes(q, "sorted")
    OBVIOUS
  <1>8. Kernel!Wait(t, m2, c[t], p)
    <2>1. ~(q.pass < m.passes) => m.passes % 2 = 1
      BY <1>3 DEF AtClear
    <2>2. ~(q.pass < m.passes) => m2 = [m EXCEPT !.sa = [i \in Kernel!Index |-> IF i \in Kernel!Own(t) THEN m.sa2[i] ELSE @[i]]]
      BY <1>4, <1>6 DEF Cleared
    <2>3. q.pass < m.passes => m2 = [m EXCEPT !.hist[t] = 0]
      BY <1>4 DEF Cleared
    <2>4. CASE q.pass < m.passes
      BY <1>1, <1>2, <1>7, <2>3, <2>4 DEF Kernel!Clear, Kernel!To, Goes
    <2>5. CASE ~(q.pass < m.passes)
      BY <1>1, <1>2, <1>7, <2>1, <2>2, <2>5 DEF Kernel!Clear, Kernel!To, Goes
    <2>. QED BY <2>4, <2>5
  <1>9. Beyond(l, q, m) = p
    BY <1>2, <1>7 DEF Beyond
  <1>10. Phase(l, tx, q, r \cup {t}, m2, c)
    BY <1>2, <1>5 DEF Phase
  <1>. QED BY <1>1, <1>2, <1>5, <1>8, <1>9, <1>10, Ends, RowStays

\* Count is the lane's interval.
LEMMA DoCount ==
  ASSUME NEW l, NEW tx, NEW q, NEW t, Ready(l, tx, q, t), Kernel!Count(t)
  PROVE  Done(l, tx, q, t)
  <1>1. PICK m \in Memory(l), c \in Registers(l), r \in SUBSET Kernel!Lanes : m = shared /\ c = reg /\ r = ran
    BY DEF Ready
  <1>2. /\ q.pc = "count" /\ q.pc # "end" /\ q \in Positions /\ t \in Kernel!Lanes /\ t \notin r
        /\ l \in Nat /\ tx \in [0 .. l - 1 -> Kernel!Lanes] /\ at[t] = q
    BY <1>1, Indices DEF Ready, Kernel!Count, Kernel!Lane
  <1>3. AtCount(l, tx, q, r, m)
    BY <1>1, <1>2 DEF Ready, Phase
  <1>4. PICK m2, g : m2 = [m EXCEPT !.hist = Counting(l, g, t, m.hist)] /\ g = DigitsOf(l, m, q)
    OBVIOUS
  <1>5. m2 \in Memory(l) /\ AtCount(l, tx, q, r \cup {t}, m2) /\ m2.passes = m.passes /\ m2.done = m.done
    BY <1>2, <1>3, <1>4, StepCount
  <1>6. Counting(l, g, t, m.hist)
          = [d \in Kernel!Lanes |-> m.hist[d] + Kernel!Cardinality({i \in Kernel!Own(t) : Kernel!DigitAt(t, i) = d})]
    <2>1. \A i \in 0 .. l - 1 : Kernel!DigitAt(t, i) = g[i]
      BY <1>1, <1>3, <1>4, DigitIs DEF AtCount
    <2>2. Kernel!Own(t) = {i \in 0 .. l - 1 : i % WG = t}
      BY Indices
    <2>3. \A d : {i \in Kernel!Own(t) : Kernel!DigitAt(t, i) = d} = {i \in {j \in 0 .. l - 1 : j % WG = t} : g[i] = d}
      BY <2>1, <2>2
    <2>4. \A d : Kernel!Cardinality({i \in Kernel!Own(t) : Kernel!DigitAt(t, i) = d})
                  = Cardinality({i \in {j \in 0 .. l - 1 : j % WG = t} : g[i] = d})
      BY <2>3, SameCount
    <2>. QED BY <2>4 DEF Counting
  <1>8. Kernel!Wait(t, m2, c[t], Goes(q, "base"))
    <2>1. m2 = [shared EXCEPT !.hist = [d \in Kernel!Lanes |-> @[d]
                                + Kernel!Cardinality({i \in Kernel!Own(t) : Kernel!DigitAt(t, i) = d})]]
      BY <1>1, <1>4, <1>6
    <2>. QED BY <1>1, <1>2, <2>1 DEF Kernel!Count, Kernel!To, Goes
  <1>9. Beyond(l, q, m) = Goes(q, "base")
    BY <1>2 DEF Beyond
  <1>10. Phase(l, tx, q, r \cup {t}, m2, c)
    BY <1>2, <1>5 DEF Phase
  <1>. QED BY <1>1, <1>2, <1>5, <1>8, <1>9, <1>10, Ends, RowStays

\* Base is the lane's interval.
LEMMA DoBase ==
  ASSUME NEW l, NEW tx, NEW q, NEW t, Ready(l, tx, q, t), Kernel!Base(t)
  PROVE  Done(l, tx, q, t)
  <1>1. PICK m \in Memory(l), c \in Registers(l), r \in SUBSET Kernel!Lanes : m = shared /\ c = reg /\ r = ran
    BY DEF Ready
  <1>2. /\ q.pc = "base" /\ q.pc # "end" /\ q \in Positions /\ t \in Kernel!Lanes /\ t \notin r
        /\ l \in Nat /\ tx \in [0 .. l - 1 -> Kernel!Lanes] /\ at[t] = q
    BY <1>1, Indices DEF Ready, Kernel!Base, Kernel!Lane
  <1>3. AtBase(l, tx, q, r, m)
    BY <1>1, <1>2 DEF Ready, Phase
  <1>4. PICK g \in [0 .. l - 1 -> Kernel!Lanes] : g = DigitsOf(l, m, q)
    <2>1. q.pass \in 0 .. 2
      BY <1>2, <1>3, PassingIs DEF AtBase
    <2>. QED BY <1>2, <2>1, Digital
  <1>6. PICK f : f = [d \in Kernel!Lanes |-> Kernel!Below(d)]
    OBVIOUS
  <1>7. f = Unders(l, g)
    <2>1. PICK hist : hist = m.hist
      OBVIOUS
    <2>2. \A d \in Kernel!Lanes : hist[d] = Cardinality(AllOf(l, g, d))
      BY <1>3, <1>4, <2>1 DEF AtBase
    <2>3. PICK sum : sum = CHOOSE h : IsSum(h, hist)
      OBVIOUS
    <2>4. /\ \E h : IsSum(h, hist)
          /\ \A h : IsSum(h, hist) => \A d \in Kernel!Lanes : h[d] = Cardinality(Under(l, g, d))
      BY <1>2, <2>2, SumsUnder
    <2>5. \A d \in Kernel!Lanes : sum[d] = Cardinality(Under(l, g, d))
      BY <2>3, <2>4
    <2>6. \A d : Kernel!Below(d) = sum[d]
      BY <1>1, <2>1, <2>3 DEF Kernel!Below, IsSum
    <2>. QED BY <1>6, <2>5, <2>6 DEF Unders
  <1>5. PICK m2 : m2 = BaseOf(t, f, m)
    OBVIOUS
  <1>11. m2 \in Memory(l) /\ AtBase(l, tx, q, r \cup {t}, m2) /\ m2.passes = m.passes /\ m2.done = m.done
    <2>1. l \in Nat /\ q \in Positions /\ t \in Kernel!Lanes
      BY <1>2
    <2>2. f = Unders(l, DigitsOf(l, m, q))
      BY <1>4, <1>7
    <2>. QED BY <2>1, <2>2, <1>3, <1>5, StepBase
  <1>12. PICK p : p = [Goes(q, "load") EXCEPT !.tile = 0]
    OBVIOUS
  <1>8. Kernel!Wait(t, m2, c[t], p)
    BY <1>1, <1>2, <1>5, <1>6, <1>12 DEF Kernel!Base, Kernel!To, Goes, Zeros, BaseOf
  <1>9. Beyond(l, q, m) = p
    BY <1>2, <1>12 DEF Beyond
  <1>10. Phase(l, tx, q, r \cup {t}, m2, c)
    BY <1>2, <1>11 DEF Phase
  <1>. QED BY <1>1, <1>2, <1>8, <1>9, <1>10, <1>11, Ends, RowStays

\* Load is the lane's interval.
LEMMA DoLoad ==
  ASSUME NEW l, NEW tx, NEW q, NEW t, Ready(l, tx, q, t), Kernel!Load(t)
  PROVE  Done(l, tx, q, t)
  <1>1. PICK m \in Memory(l), c \in Registers(l), r \in SUBSET Kernel!Lanes : m = shared /\ c = reg /\ r = ran
    BY DEF Ready
  <1>2. /\ q.pc = "load" /\ q.pc # "end" /\ q \in Positions /\ t \in Kernel!Lanes /\ t \notin r
        /\ l \in Nat /\ tx \in [0 .. l - 1 -> Kernel!Lanes] /\ at[t] = q
    BY <1>1, Indices DEF Ready, Kernel!Load, Kernel!Lane
  <1>3. AtLoad(l, tx, q, r, m)
    BY <1>1, <1>2 DEF Ready, Phase
  <1>4. PICK m2 : m2 = [m EXCEPT !.tileHist[t] = 0, !.tileDigit[t] = WG]
    OBVIOUS
  <1>5. m2 \in Memory(l) /\ AtLoad(l, tx, q, r \cup {t}, m2)
    BY <1>2, <1>3, <1>4, StepLoad
  <1>6. m2.passes = m.passes /\ m2.done = m.done
    BY <1>4 DEF Memory
  <1>8. Kernel!Wait(t, m2, c[t], Goes(q, "digit"))
    BY <1>1, <1>2, <1>4 DEF Kernel!Load, Kernel!To, Goes, Kernel!NoDigit
  <1>9. Beyond(l, q, m) = Goes(q, "digit")
    BY <1>2 DEF Beyond
  <1>10. Phase(l, tx, q, r \cup {t}, m2, c)
    BY <1>2, <1>5 DEF Phase
  <1>. QED BY <1>1, <1>2, <1>5, <1>6, <1>8, <1>9, <1>10, Ends, RowStays

\* TakeDigit is the lane's interval.
LEMMA DoTakeDigit ==
  ASSUME NEW l, NEW tx, NEW q, NEW t, Ready(l, tx, q, t), Kernel!TakeDigit(t)
  PROVE  Done(l, tx, q, t)
  <1>1. PICK m \in Memory(l), c \in Registers(l), r \in SUBSET Kernel!Lanes : m = shared /\ c = reg /\ r = ran
    BY DEF Ready
  <1>2. /\ q.pc = "digit" /\ q.pc # "end" /\ q \in Positions /\ t \in Kernel!Lanes /\ t \notin r
        /\ l \in Nat /\ tx \in [0 .. l - 1 -> Kernel!Lanes] /\ at[t] = q
    BY <1>1, Indices DEF Ready, Kernel!TakeDigit, Kernel!Lane
  <1>3. AtDigit(l, tx, q, r, m, c)
    BY <1>1, <1>2 DEF Ready, Phase
  <1>4. Kernel!Slot(t) = q.tile * WG + t /\ Kernel!n = l
    BY Indices
  <1>5. CASE ~(q.tile * WG + t < l)
    <2>1. AtDigit(l, tx, q, r \cup {t}, m, c)
      BY <1>2, <1>3, <1>5, StepDigitIdle
    <2>2. Kernel!Wait(t, m, c[t], Goes(q, "place"))
      BY <1>1, <1>2, <1>4, <1>5 DEF Kernel!TakeDigit, Kernel!To, Goes
    <2>3. Beyond(l, q, m) = Goes(q, "place")
      BY <1>2 DEF Beyond
    <2>4. Phase(l, tx, q, r \cup {t}, m, c)
      BY <1>2, <2>1 DEF Phase
    <2>. QED BY <1>1, <1>2, <2>2, <2>3, <2>4, Ends, RowStays
  <1>6. CASE q.tile * WG + t < l
    <2>1. PICK d : d = DigitHere(l, m, q, t)
      OBVIOUS
    <2>2. PICK s : s = SlotHere(m, q, t)
      OBVIOUS
    <2>3. PICK m2 : m2 = Takes(t, d, m)
      OBVIOUS
    <2>4. PICK c2 : c2 = Carries(t, s, d, c)
      OBVIOUS
    <2>5. m2 \in Memory(l) /\ c2 \in Registers(l) /\ AtDigit(l, tx, q, r \cup {t}, m2, c2)
      BY <1>2, <1>3, <1>6, <2>1, <2>2, <2>3, <2>4, StepDigit
    <2>6. m2.passes = m.passes /\ m2.done = m.done
      BY <2>3 DEF Memory, Takes
    <2>7. Kernel!DigitAt(t, q.tile * WG + t) = d
      <3>1. Passing(l, tx, q, m)
        BY <1>3 DEF AtDigit, Tile
      <3>2. q.tile * WG + t \in 0 .. l - 1
        <4>1. q.tile * WG \in Nat /\ t \in Nat
          BY <1>2, Slotted, WGIs DEF Kernel!Lanes
        <4>. QED BY <1>2, <1>6, <4>1
      <3>3. \A i \in 0 .. l - 1 : Kernel!DigitAt(t, i) = DigitsOf(l, m, q)[i]
        BY <1>1, <3>1, DigitIs
      <3>. QED BY <2>1, <3>2, <3>3 DEF DigitHere
    <2>8. Kernel!Wait(t, m2, [c[t] EXCEPT !.s = s, !.d = d], Goes(q, "place"))
      BY <1>1, <1>2, <1>4, <1>6, <2>2, <2>3, <2>7 DEF SlotHere, Takes, Kernel!TakeDigit, Kernel!To, Goes
    <2>9. Beyond(l, q, m) = Goes(q, "place")
      BY <1>2 DEF Beyond
    <2>10. Phase(l, tx, q, r \cup {t}, m2, c2)
      BY <1>2, <2>5 DEF Phase
    <2>. QED BY <1>1, <1>2, <2>4, <2>5, <2>6, <2>8, <2>9, <2>10, Ends DEF Carries
  <1>. QED BY <1>5, <1>6

\* Place is the lane's interval.
LEMMA DoPlace ==
  ASSUME NEW l, NEW tx, NEW q, NEW t, Ready(l, tx, q, t), Kernel!Place(t)
  PROVE  Done(l, tx, q, t)
  <1>1. PICK m \in Memory(l), c \in Registers(l), r \in SUBSET Kernel!Lanes : m = shared /\ c = reg /\ r = ran
    BY DEF Ready
  <1>2. /\ q.pc = "place" /\ q.pc # "end" /\ q \in Positions /\ t \in Kernel!Lanes /\ t \notin r
        /\ l \in Nat /\ tx \in [0 .. l - 1 -> Kernel!Lanes] /\ at[t] = q
    BY <1>1, Indices DEF Ready, Kernel!Place, Kernel!Lane
  <1>3. AtPlace(l, tx, q, r, m, c)
    BY <1>1, <1>2 DEF Ready, Phase
  <1>4. Kernel!Slot(t) = q.tile * WG + t /\ Kernel!n = l
    BY Indices
  <1>7. q.tile * WG + t \in Nat
    <2>1. q.tile * WG \in Nat /\ t \in Nat
      BY <1>2, Slotted, WGIs DEF Kernel!Lanes
    <2>. QED BY <2>1
  <1>5. CASE ~(q.tile * WG + t < l)
    <2>1. AtPlace(l, tx, q, r \cup {t}, m, c)
      BY <1>2, <1>3, <1>5, StepPlaceIdle
    <2>2. Kernel!Wait(t, m, c[t], Goes(q, "advance"))
      BY <1>1, <1>2, <1>4, <1>5, <1>7 DEF Kernel!Place, Kernel!To, Goes
    <2>3. Beyond(l, q, m) = Goes(q, "advance")
      BY <1>2 DEF Beyond
    <2>4. Phase(l, tx, q, r \cup {t}, m, c)
      BY <1>2, <2>1 DEF Phase
    <2>. QED BY <1>1, <1>2, <2>2, <2>3, <2>4, Ends, RowStays
  <1>6. CASE q.tile * WG + t < l
    <2>1. PICK d : d = c[t].d
      OBVIOUS
    <2>2. PICK dst, s : dst = Before(t, d, m) /\ s = c[t].s
      OBVIOUS
    <2>3. PICK m2 : m2 = Puts(q, dst, s, m)
      OBVIOUS
    <2>5. m2 \in Memory(l) /\ AtPlace(l, tx, q, r \cup {t}, m2, c)
      BY <1>2, <1>3, <1>6, <2>1, <2>2, <2>3, StepPlace
    <2>6. m2.passes = m.passes /\ m2.done = m.done
      BY <2>3 DEF Memory, Puts
    <2>7. dst = m.base[d] + m.run[d] + Kernel!Cardinality({u \in 0 .. t - 1 : m.tileDigit[u] = d})
      BY <2>2, SameCount DEF Before
    <2>8. Kernel!Wait(t, m2, c[t], Goes(q, "advance"))
      BY <1>1, <1>2, <1>4, <1>6, <1>7, <2>1, <2>2, <2>3, <2>7, SMTT(30) DEF Puts, Kernel!Place, Kernel!To, Goes
    <2>9. Beyond(l, q, m) = Goes(q, "advance")
      BY <1>2 DEF Beyond
    <2>10. Phase(l, tx, q, r \cup {t}, m2, c)
      BY <1>2, <2>5 DEF Phase
    <2>. QED BY <1>1, <1>2, <2>5, <2>6, <2>8, <2>9, <2>10, Ends, RowStays
  <1>. QED BY <1>5, <1>6

\* Advance is the lane's interval.
LEMMA DoAdvance ==
  ASSUME NEW l, NEW tx, NEW q, NEW t, Ready(l, tx, q, t), Kernel!Advance(t)
  PROVE  Done(l, tx, q, t)
  <1>1. PICK m \in Memory(l), c \in Registers(l), r \in SUBSET Kernel!Lanes : m = shared /\ c = reg /\ r = ran
    BY DEF Ready
  <1>2. /\ q.pc = "advance" /\ q.pc # "end" /\ q \in Positions /\ t \in Kernel!Lanes /\ t \notin r
        /\ l \in Nat /\ tx \in [0 .. l - 1 -> Kernel!Lanes] /\ at[t] = q
    BY <1>1, Indices DEF Ready, Kernel!Advance, Kernel!Lane
  <1>3. AtAdvance(l, tx, q, r, m)
    BY <1>1, <1>2 DEF Ready, Phase
  <1>4. PICK m2 : m2 = [m EXCEPT !.run[t] = @ + m.tileHist[t]]
    OBVIOUS
  <1>5. m2 \in Memory(l) /\ AtAdvance(l, tx, q, r \cup {t}, m2)
    BY <1>2, <1>3, <1>4, StepAdvance, ZenonT(40)
  <1>6. m2.passes = m.passes /\ m2.done = m.done
    BY <1>4 DEF Memory
  <1>7. /\ Goes(q, "load").tile = q.tile /\ Goes(q, "clear").pass = q.pass
        /\ Kernel!nTiles = (l + WG - 1) \div WG
    <2>1. "load" \in Places /\ "clear" \in Places
      BY DEF Places
    <2>. QED BY <1>2, <2>1, ToIs, Indices
  <1>11. PICK p : p = Tiled(l, q, "load", [Goes(q, "clear") EXCEPT !.pass = q.pass + 1])
    OBVIOUS
  <1>8. Kernel!Wait(t, m2, c[t], p)
    BY <1>1, <1>2, <1>4, <1>7, <1>11 DEF Kernel!Advance, Kernel!To, Goes, Tiled
  <1>9. Beyond(l, q, m) = p
    BY <1>2, <1>11 DEF Beyond
  <1>10. Phase(l, tx, q, r \cup {t}, m2, c)
    BY <1>2, <1>5 DEF Phase
  <1>. QED BY <1>1, <1>2, <1>5, <1>6, <1>8, <1>9, <1>10, Ends, RowStays

\* Sorted is the lane's interval.
LEMMA DoSorted ==
  ASSUME NEW l, NEW tx, NEW q, NEW t, Ready(l, tx, q, t), Kernel!Sorted(t)
  PROVE  Done(l, tx, q, t)
  <1>1. PICK m \in Memory(l), c \in Registers(l), r \in SUBSET Kernel!Lanes : m = shared /\ c = reg /\ r = ran
    BY DEF Ready
  <1>2. /\ q.pc = "sorted" /\ q.pc # "end" /\ q \in Positions /\ t \in Kernel!Lanes /\ t \notin r
        /\ l \in Nat /\ tx \in [0 .. l - 1 -> Kernel!Lanes] /\ at[t] = q
    BY <1>1, Indices DEF Ready, Kernel!Sorted, Kernel!Lane
  <1>3. AtSorted(l, tx, q, r, m)
    BY <1>1, <1>2 DEF Ready, Phase
  <1>4. PICK m2 : m2 = IF t = 0
                       THEN IF q.key = 0 THEN [m EXCEPT !.keySel = 1] ELSE [m EXCEPT !.scanBase = 0]
                       ELSE m
    OBVIOUS
  <1>5. m2 \in Memory(l) /\ AtSorted(l, tx, q, r \cup {t}, m2)
    BY <1>2, <1>3, <1>4, StepSorted, ZenonT(40)
  <1>6. m2.passes = m.passes /\ m2.done = m.done
    BY <1>4 DEF Memory
  <1>7. PICK p : p = IF q.key = 0 THEN [Goes(q, "clear") EXCEPT !.key = 1, !.pass = 0]
                     ELSE [Goes(q, "flag") EXCEPT !.tile = 0]
    OBVIOUS
  <1>8. Kernel!Wait(t, m2, c[t], p)
    <2>1. CASE q.key = 0
      BY <1>1, <1>2, <1>4, <1>7, <2>1 DEF Kernel!Sorted, Kernel!Only, Kernel!To, Goes
    <2>2. CASE q.key # 0
      BY <1>1, <1>2, <1>4, <1>7, <2>2 DEF Kernel!Sorted, Kernel!Only, Kernel!To, Goes
    <2>. QED BY <2>1, <2>2
  <1>9. Beyond(l, q, m) = p
    BY <1>2, <1>7 DEF Beyond
  <1>10. Phase(l, tx, q, r \cup {t}, m2, c)
    BY <1>2, <1>5 DEF Phase
  <1>. QED BY <1>1, <1>2, <1>5, <1>6, <1>8, <1>9, <1>10, Ends, RowStays

\* Flag is the lane's interval.
LEMMA DoFlag ==
  ASSUME NEW l, NEW tx, NEW q, NEW t, Ready(l, tx, q, t), Kernel!Flag(t)
  PROVE  Done(l, tx, q, t)
  <1>1. PICK m \in Memory(l), c \in Registers(l), r \in SUBSET Kernel!Lanes : m = shared /\ c = reg /\ r = ran
    BY DEF Ready
  <1>2. /\ q.pc = "flag" /\ q.pc # "end" /\ q \in Positions /\ t \in Kernel!Lanes /\ t \notin r
        /\ l \in Nat /\ tx \in [0 .. l - 1 -> Kernel!Lanes] /\ at[t] = q
    BY <1>1, Indices DEF Ready, Kernel!Flag, Kernel!Lane
  <1>3. AtFlag(l, tx, q, r, m, c)
    BY <1>1, <1>2 DEF Ready, Phase
  <1>4. PICK k : k = q.tile * WG + t
    OBVIOUS
  <1>11. Kernel!Slot(t) = k /\ Kernel!n = l /\ q.h \in Nat /\ k \in Nat
    <2>1. q.tile * WG \in Nat /\ t \in Nat
      BY <1>2, Slotted, WGIs DEF Kernel!Lanes
    <2>2. k \in Nat
      BY <1>4, <2>1
    <2>. QED BY <1>2, <1>4, <2>2, Indices DEF Positions
  <1>12. PICK v : v = FlagOf(l, m, q, t)
    OBVIOUS
  <1>13. v = IF k < l /\ Kernel!Changes(k, q.h) THEN 1 ELSE 0
    <2>1. \A s : Kernel!Second(m, s, q.h) = After(m.rank, l, q.h, s)
      BY <1>11 DEF Kernel!Second, After
    <2>2. Kernel!Changes(k, q.h) <=> Begins(m.sa, m.rank, l, q.h, k)
      BY <1>1, <2>1 DEF Kernel!Changes, Begins, PairSame
    <2>. QED BY <1>4, <1>12, <2>2 DEF Starts, FlagOf
  <1>14. PICK m2 : m2 = Sets(t, v, m)
    OBVIOUS
  <1>15. PICK c2 : c2 = Slots(l, m, q, t, c)
    OBVIOUS
  <1>5. m2 \in Memory(l) /\ c2 \in Registers(l) /\ AtFlag(l, tx, q, r \cup {t}, m2, c2)
    BY <1>2, <1>3, <1>12, <1>14, <1>15, StepFlag
  <1>6. m2.passes = m.passes /\ m2.done = m.done
    BY <1>14 DEF Memory, Sets
  <1>7. PICK p, row : /\ p = [Goes(q, "read") EXCEPT !.d = 1]
                      /\ row = IF k < l THEN [c[t] EXCEPT !.s = m.sa[k]] ELSE c[t]
    OBVIOUS
  <1>8. Kernel!Wait(t, m2, row, p)
    BY <1>1, <1>2, <1>7, <1>11, <1>13, <1>14 DEF Sets, Kernel!Flag, Kernel!To, Goes
  <1>9. Beyond(l, q, m) = p
    BY <1>2, <1>7 DEF Beyond
  <1>10. Phase(l, tx, q, r \cup {t}, m2, c2)
    BY <1>2, <1>5 DEF Phase
  <1>16. c2 = [c EXCEPT ![t] = row]
    BY <1>4, <1>7, <1>15 DEF Slots
  <1>. QED BY <1>1, <1>2, <1>5, <1>6, <1>8, <1>9, <1>10, <1>16, Ends

\* Read is the lane's interval.
LEMMA DoRead ==
  ASSUME NEW l, NEW tx, NEW q, NEW t, Ready(l, tx, q, t), Kernel!Read(t)
  PROVE  Done(l, tx, q, t)
  <1>1. PICK m \in Memory(l), c \in Registers(l), r \in SUBSET Kernel!Lanes : m = shared /\ c = reg /\ r = ran
    BY DEF Ready
  <1>2. /\ q.pc = "read" /\ q.pc # "end" /\ q \in Positions /\ t \in Kernel!Lanes /\ t \notin r
        /\ l \in Nat /\ tx \in [0 .. l - 1 -> Kernel!Lanes] /\ at[t] = q
    BY <1>1, Indices DEF Ready, Kernel!Read, Kernel!Lane
  <1>3. AtRead(l, tx, q, r, m, c)
    BY <1>1, <1>2 DEF Ready, Phase
  <1>4. PICK v, row : v = m.scan[t] + (IF t >= q.d THEN m.scan[t - q.d] ELSE 0) /\ row = [c[t] EXCEPT !.v = v]
    OBVIOUS
  <1>7. PICK c2 : c2 = [c EXCEPT ![t] = [c[t] EXCEPT !.v = v]]
    OBVIOUS
  <1>5. c2 \in Registers(l) /\ AtRead(l, tx, q, r \cup {t}, m, c2)
    BY <1>2, <1>3, <1>4, <1>7, StepRead
  <1>8. Kernel!Wait(t, m, row, Goes(q, "write"))
    BY <1>1, <1>2, <1>4 DEF Kernel!Read, Kernel!To, Goes
  <1>9. Beyond(l, q, m) = Goes(q, "write")
    BY <1>2 DEF Beyond
  <1>10. Phase(l, tx, q, r \cup {t}, m, c2)
    BY <1>2, <1>5 DEF Phase
  <1>. QED BY <1>1, <1>2, <1>4, <1>5, <1>7, <1>8, <1>9, <1>10, Ends

\* WriteScan is the lane's interval.
LEMMA DoWriteScan ==
  ASSUME NEW l, NEW tx, NEW q, NEW t, Ready(l, tx, q, t), Kernel!WriteScan(t)
  PROVE  Done(l, tx, q, t)
  <1>1. PICK m \in Memory(l), c \in Registers(l), r \in SUBSET Kernel!Lanes : m = shared /\ c = reg /\ r = ran
    BY DEF Ready
  <1>2. /\ q.pc = "write" /\ q.pc # "end" /\ q \in Positions /\ t \in Kernel!Lanes /\ t \notin r
        /\ l \in Nat /\ tx \in [0 .. l - 1 -> Kernel!Lanes] /\ at[t] = q
    BY <1>1, Indices DEF Ready, Kernel!WriteScan, Kernel!Lane
  <1>3. AtWrite(l, tx, q, r, m, c)
    BY <1>1, <1>2 DEF Ready, Phase
  <1>4. PICK m2 : m2 = [m EXCEPT !.scan[t] = c[t].v]
    OBVIOUS
  <1>5. m2 \in Memory(l) /\ AtWrite(l, tx, q, r \cup {t}, m2, c)
    BY <1>2, <1>3, <1>4, StepWrite
  <1>6. m2.passes = m.passes /\ m2.done = m.done
    BY <1>4 DEF Memory
  <1>7. Goes(q, "read").d = q.d
    BY <1>2, ToIs DEF Places
  <1>11. PICK p : p = IF q.d * 2 < WG THEN [Goes(q, "read") EXCEPT !.d = q.d * 2] ELSE Goes(q, "rank")
    OBVIOUS
  <1>8. Kernel!Wait(t, m2, c[t], p)
    BY <1>1, <1>2, <1>4, <1>7, <1>11 DEF Kernel!WriteScan, Kernel!To, Goes
  <1>9. Beyond(l, q, m) = p
    BY <1>2, <1>11 DEF Beyond
  <1>10. Phase(l, tx, q, r \cup {t}, m2, c)
    BY <1>2, <1>5 DEF Phase
  <1>. QED BY <1>1, <1>2, <1>5, <1>6, <1>8, <1>9, <1>10, Ends, RowStays

\* Rank is the lane's interval.
LEMMA DoRank ==
  ASSUME NEW l, NEW tx, NEW q, NEW t, Ready(l, tx, q, t), Kernel!Rank(t)
  PROVE  Done(l, tx, q, t)
  <1>1. PICK m \in Memory(l), c \in Registers(l), r \in SUBSET Kernel!Lanes : m = shared /\ c = reg /\ r = ran
    BY DEF Ready
  <1>2. /\ q.pc = "rank" /\ q.pc # "end" /\ q \in Positions /\ t \in Kernel!Lanes /\ t \notin r
        /\ l \in Nat /\ tx \in [0 .. l - 1 -> Kernel!Lanes] /\ at[t] = q
    BY <1>1, Indices DEF Ready, Kernel!Rank, Kernel!Lane
  <1>3. AtRank(l, tx, q, r, m, c)
    BY <1>1, <1>2 DEF Ready, Phase
  <1>4. Kernel!Slot(t) = q.tile * WG + t /\ Kernel!n = l
    BY Indices
  <1>5. CASE ~(q.tile * WG + t < l)
    <2>1. AtRank(l, tx, q, r \cup {t}, m, c)
      BY <1>2, <1>3, <1>5, StepRankIdle
    <2>2. Kernel!Wait(t, m, c[t], Goes(q, "bump"))
      BY <1>1, <1>2, <1>4, <1>5 DEF Kernel!Rank, Kernel!To, Goes
    <2>3. Beyond(l, q, m) = Goes(q, "bump")
      BY <1>2 DEF Beyond
    <2>4. Phase(l, tx, q, r \cup {t}, m, c)
      BY <1>2, <2>1 DEF Phase
    <2>. QED BY <1>1, <1>2, <2>2, <2>3, <2>4, Ends, RowStays
  <1>6. CASE q.tile * WG + t < l
    <2>3. PICK m2 : m2 = [m EXCEPT !.rank2[c[t].s] = m.scanBase + m.scan[t]]
      OBVIOUS
    <2>5. m2 \in Memory(l) /\ AtRank(l, tx, q, r \cup {t}, m2, c)
      BY <1>2, <1>3, <1>6, <2>3, StepRank
    <2>6. m2.passes = m.passes /\ m2.done = m.done
      BY <2>3 DEF Memory
    <2>8. Kernel!Wait(t, m2, c[t], Goes(q, "bump"))
      BY <1>1, <1>2, <1>4, <1>6, <2>3 DEF Kernel!Rank, Kernel!To, Goes
    <2>9. Beyond(l, q, m) = Goes(q, "bump")
      BY <1>2 DEF Beyond
    <2>10. Phase(l, tx, q, r \cup {t}, m2, c)
      BY <1>2, <2>5 DEF Phase
    <2>. QED BY <1>1, <1>2, <2>5, <2>6, <2>8, <2>9, <2>10, Ends, RowStays
  <1>. QED BY <1>5, <1>6

\* Bump is the lane's interval.
LEMMA DoBump ==
  ASSUME NEW l, NEW tx, NEW q, NEW t, Ready(l, tx, q, t), Kernel!Bump(t)
  PROVE  Done(l, tx, q, t)
  <1>1. PICK m \in Memory(l), c \in Registers(l), r \in SUBSET Kernel!Lanes : m = shared /\ c = reg /\ r = ran
    BY DEF Ready
  <1>2. /\ q.pc = "bump" /\ q.pc # "end" /\ q \in Positions /\ t \in Kernel!Lanes /\ t \notin r
        /\ l \in Nat /\ tx \in [0 .. l - 1 -> Kernel!Lanes] /\ at[t] = q
    BY <1>1, Indices DEF Ready, Kernel!Bump, Kernel!Lane
  <1>3. AtBump(l, tx, q, r, m)
    BY <1>1, <1>2 DEF Ready, Phase
  <1>4. PICK m2 : m2 = IF t = 0 THEN [m EXCEPT !.scanBase = m.scanBase + m.scan[WG - 1]] ELSE m
    OBVIOUS
  <1>5. m2 \in Memory(l) /\ AtBump(l, tx, q, r \cup {t}, m2)
    BY <1>2, <1>3, <1>4, StepBump
  <1>6. m2.passes = m.passes /\ m2.done = m.done
    BY <1>4 DEF Memory
  <1>7. /\ Goes(q, "flag").tile = q.tile /\ Goes(q, "finish").pass = q.pass
        /\ Kernel!nTiles = (l + WG - 1) \div WG
    <2>1. "flag" \in Places /\ "finish" \in Places
      BY DEF Places
    <2>. QED BY <1>2, <2>1, ToIs, Indices
  <1>11. PICK p : p = Tiled(l, q, "flag", Goes(q, "finish"))
    OBVIOUS
  <1>8. Kernel!Wait(t, m2, c[t], p)
    BY <1>1, <1>2, <1>4, <1>7, <1>11 DEF Kernel!Bump, Kernel!To, Goes, Tiled, Kernel!Only
  <1>9. Beyond(l, q, m) = p
    BY <1>2, <1>11 DEF Beyond
  <1>10. Phase(l, tx, q, r \cup {t}, m2, c)
    BY <1>2, <1>5 DEF Phase
  <1>. QED BY <1>1, <1>2, <1>5, <1>6, <1>8, <1>9, <1>10, Ends, RowStays

\* Finish is the lane's interval.
LEMMA DoFinish ==
  ASSUME NEW l, NEW tx, NEW q, NEW t, Ready(l, tx, q, t), Kernel!Finish(t)
  PROVE  Done(l, tx, q, t)
  <1>1. PICK m \in Memory(l), c \in Registers(l), r \in SUBSET Kernel!Lanes : m = shared /\ c = reg /\ r = ran
    BY DEF Ready
  <1>2. /\ q.pc = "finish" /\ q.pc # "end" /\ q \in Positions /\ t \in Kernel!Lanes /\ t \notin r
        /\ l \in Nat /\ tx \in [0 .. l - 1 -> Kernel!Lanes] /\ at[t] = q
    BY <1>1, Indices DEF Ready, Kernel!Finish, Kernel!Lane
  <1>3. AtFinish(l, tx, q, r, m)
    BY <1>1, <1>2 DEF Ready, Phase
  <1>4. PICK m2 : m2 = Finished(l, t, m)
    OBVIOUS
  <1>5. m2 \in Memory(l) /\ AtFinish(l, tx, q, r \cup {t}, m2)
    BY <1>2, <1>3, <1>4, StepFinish
  <1>6. m2.passes = m.passes
    BY <1>4 DEF Memory, Finished
  <1>7. Kernel!n = l
    BY Indices
  <1>8. Kernel!Wait(t, m2, c[t], Goes(q, "copy"))
    BY <1>1, <1>2, <1>4, <1>7 DEF Kernel!Finish, Kernel!To, Goes, Finished
  <1>9. Beyond(l, q, m) = Goes(q, "copy")
    BY <1>2 DEF Beyond
  <1>10. Phase(l, tx, q, r \cup {t}, m2, c)
    BY <1>2, <1>5 DEF Phase
  <1>. QED BY <1>1, <1>2, <1>5, <1>6, <1>8, <1>9, <1>10, Ends, RowStays

\* Copy is the lane's interval.
LEMMA DoCopy ==
  ASSUME NEW l, NEW tx, NEW q, NEW t, Ready(l, tx, q, t), Kernel!Copy(t)
  PROVE  Done(l, tx, q, t)
  <1>1. PICK m \in Memory(l), c \in Registers(l), r \in SUBSET Kernel!Lanes : m = shared /\ c = reg /\ r = ran
    BY DEF Ready
  <1>2. /\ q.pc = "copy" /\ q.pc # "end" /\ q \in Positions /\ t \in Kernel!Lanes /\ t \notin r
        /\ l \in Nat /\ tx \in [0 .. l - 1 -> Kernel!Lanes] /\ at[t] = q
    BY <1>1, Indices DEF Ready, Kernel!Copy, Kernel!Lane
  <1>3. AtCopy(l, tx, q, r, m)
    BY <1>1, <1>2 DEF Ready, Phase
  <1>4. PICK m2 : m2 = [m EXCEPT !.rank = Share(l, t, m.rank2, m.rank)]
    OBVIOUS
  <1>5. m2 \in Memory(l) /\ AtCopy(l, tx, q, r \cup {t}, m2)
    BY <1>2, <1>3, <1>4, StepCopy
  <1>6. m2.passes = m.passes /\ m2.done = m.done
    BY <1>4 DEF Memory
  <1>7. m2 = [shared EXCEPT !.rank = [i \in Kernel!Index |-> IF i \in Kernel!Own(t) THEN shared.rank2[i] ELSE @[i]]]
    <2>1. Kernel!Index = 0 .. l - 1 /\ \A i \in 0 .. l - 1 : i \in Kernel!Own(t) <=> i % WG = t
      BY Indices
    <2>2. Share(l, t, m.rank2, m.rank)
               = [i \in Kernel!Index |-> IF i \in Kernel!Own(t) THEN m.rank2[i] ELSE m.rank[i]]
      BY <2>1 DEF Share
    <2>. QED BY <1>1, <1>4, <2>2
  <1>8. Kernel!Wait(t, m2, c[t], Goes(q, "check"))
    BY <1>1, <1>2, <1>7 DEF Kernel!Copy, Kernel!To, Goes
  <1>9. Beyond(l, q, m) = Goes(q, "check")
    BY <1>2 DEF Beyond
  <1>10. Phase(l, tx, q, r \cup {t}, m2, c)
    BY <1>2, <1>5 DEF Phase
  <1>. QED BY <1>1, <1>2, <1>5, <1>6, <1>8, <1>9, <1>10, Ends, RowStays

\* Check is the lane's interval.
LEMMA DoCheck ==
  ASSUME NEW l, NEW tx, NEW q, NEW t, Ready(l, tx, q, t), Kernel!Check(t)
  PROVE  Done(l, tx, q, t)
  <1>1. PICK m \in Memory(l), c \in Registers(l), r \in SUBSET Kernel!Lanes : m = shared /\ c = reg /\ r = ran
    BY DEF Ready
  <1>2. /\ q.pc = "check" /\ q.pc # "end" /\ q \in Positions /\ t \in Kernel!Lanes /\ t \notin r
        /\ l \in Nat /\ tx \in [0 .. l - 1 -> Kernel!Lanes] /\ at[t] = q
    BY <1>1, Indices DEF Ready, Kernel!Check, Kernel!Lane
  <1>3. AtCheck(l, tx, q, m)
    BY <1>1, <1>2 DEF Ready, Phase
  <1>7. Goes(q, "head").h = q.h
    BY <1>2, ToIs DEF Places
  <1>11. PICK p : p = IF m.done THEN Goes(q, "end") ELSE [Goes(q, "head") EXCEPT !.h = q.h * 2]
    OBVIOUS
  <1>8. Kernel!Wait(t, m, c[t], p)
    BY <1>1, <1>2, <1>7, <1>11 DEF Kernel!Check, Kernel!To, Goes
  <1>9. Beyond(l, q, m) = p
    BY <1>2, <1>11 DEF Beyond
  <1>10. Phase(l, tx, q, r \cup {t}, m, c)
    BY <1>2, <1>3 DEF Phase
  <1>. QED BY <1>1, <1>2, <1>8, <1>9, <1>10, Ends, RowStays

\* All lanes come from p: those that wait are past the barrier, the others at p
\* or behind a loop that was over there.
From(l, p, m, a, r) ==
  /\ \A u \in Kernel!Lanes :
       IF u \in r THEN a[u] = Beyond(l, Meets(l, p, m), m) ELSE a[u] = p \/ a[u] = Meets(l, p, m)
  /\ r # {} => Meets(l, p, m).pc # "end"

Lanewise(l, tx, m, c, a, r) ==
  /\ Sized(l) /\ tx \in Bytes(l) /\ m \in Memory(l) /\ c \in Registers(l)
  /\ a = [u \in Kernel!Lanes |-> a[u]] /\ r \in SUBSET Kernel!Lanes
  /\ \E p \in Positions :
       /\ From(l, p, m, a, r) /\ Phase(l, tx, Meets(l, p, m), r, m, c)
       /\ p.pc = "head" => Ranked(tx, l, p.h, m.rank)

KernelInv == \E l : Kernel!n = l /\ Lanewise(l, kernelText, shared, reg, at, ran)

\* A lane that has run on meets the others where it is.
LEMMA MeetsOnce ==
  ASSUME NEW l, NEW p \in Positions, NEW m
  PROVE  /\ Meets(l, p, m) \in Positions
         /\ Meets(l, Meets(l, p, m), m) = Meets(l, p, m)
         /\ Meets(l, p, m).pc = "head" => Meets(l, p, m) = p
         /\ p.pc = "head" /\ Meets(l, p, m).pc # "end" => Meets(l, p, m) = p
  <1>1. CASE p.pc = "head" /\ p.h >= l
    BY <1>1 DEF Meets, Positions, Places
  <1>2. CASE p.pc = "clear" /\ ~(p.pass < m.passes) /\ m.passes % 2 # 1
    BY <1>2 DEF Meets, Positions, Places
  <1>3. CASE Meets(l, p, m) = p
    BY <1>3
  <1>. QED BY <1>1, <1>2, <1>3 DEF Meets

\* A step of lane t runs on without a barrier.
RunsOn(l, t) ==
  /\ at' = [at EXCEPT ![t] = Meets(l, at[t], shared)]
  /\ UNCHANGED <<shared, reg, ran, kernelText>>

\* A lane that steps does not wait.
LEMMA Guards ==
  ASSUME NEW t, Kernel!LaneStep(t)
  PROVE  /\ t \notin ran
         /\ at[t].pc = "head" => Kernel!LoopHead(t)
         /\ at[t].pc = "clear" => Kernel!Clear(t)
  <1> USE DEF Kernel!Lane
  <1>2. CASE Kernel!Start(t)
    BY <1>2 DEF Kernel!Start
  <1>3. CASE Kernel!LoopHead(t)
    BY <1>3 DEF Kernel!LoopHead
  <1>4. CASE Kernel!Clear(t)
    BY <1>4 DEF Kernel!Clear
  <1>5. CASE Kernel!Count(t)
    BY <1>5 DEF Kernel!Count
  <1>6. CASE Kernel!Base(t)
    BY <1>6 DEF Kernel!Base
  <1>7. CASE Kernel!Load(t)
    BY <1>7 DEF Kernel!Load
  <1>8. CASE Kernel!TakeDigit(t)
    BY <1>8 DEF Kernel!TakeDigit
  <1>9. CASE Kernel!Place(t)
    BY <1>9 DEF Kernel!Place
  <1>10. CASE Kernel!Advance(t)
    BY <1>10 DEF Kernel!Advance
  <1>11. CASE Kernel!Sorted(t)
    BY <1>11 DEF Kernel!Sorted
  <1>12. CASE Kernel!Flag(t)
    BY <1>12 DEF Kernel!Flag
  <1>13. CASE Kernel!Read(t)
    BY <1>13 DEF Kernel!Read
  <1>14. CASE Kernel!WriteScan(t)
    BY <1>14 DEF Kernel!WriteScan
  <1>15. CASE Kernel!Rank(t)
    BY <1>15 DEF Kernel!Rank
  <1>16. CASE Kernel!Bump(t)
    BY <1>16 DEF Kernel!Bump
  <1>17. CASE Kernel!Finish(t)
    BY <1>17 DEF Kernel!Finish
  <1>18. CASE Kernel!Copy(t)
    BY <1>18 DEF Kernel!Copy
  <1>19. CASE Kernel!Check(t)
    BY <1>19 DEF Kernel!Check
  <1>. QED BY <1>2, <1>3, <1>4, <1>5, <1>6, <1>7, <1>8, <1>9, <1>10, <1>11, <1>12, <1>13, <1>14, <1>15,
              <1>16, <1>17, <1>18, <1>19 DEF Kernel!LaneStep

\* A lane runs on, or runs the interval that the others run.
LEMMA LaneDoes ==
  ASSUME NEW l, Kernel!n = l, Lanewise(l, kernelText, shared, reg, at, ran), NEW t \in Kernel!Lanes,
         Kernel!LaneStep(t)
  PROVE  RunsOn(l, t) \/ (Meets(l, at[t], shared) = at[t] /\ Done(l, kernelText, at[t], t))
  <1>1. PICK p \in Positions : From(l, p, shared, at, ran) /\ Phase(l, kernelText, Meets(l, p, shared), ran, shared, reg)
    BY DEF Lanewise
  <1>2. PICK q : q = at[t]
    OBVIOUS
  <1>3. t \notin ran /\ (q.pc = "head" => Kernel!LoopHead(t)) /\ (q.pc = "clear" => Kernel!Clear(t))
    BY <1>2, Guards
  <1>4. q = p \/ q = Meets(l, p, shared)
    BY <1>1, <1>2, <1>3 DEF From
  <1>5. q \in Positions
    BY <1>4, MeetsOnce
  <1>6. CASE Meets(l, q, shared) = q
    <2>1. q = Meets(l, p, shared)
      BY <1>4, <1>6
    <2>2. Ready(l, kernelText, q, t)
      BY <1>1, <1>2, <1>3, <1>5, <1>6, <2>1 DEF Ready, Lanewise, Bytes
    <2>3. Done(l, kernelText, q, t)
      BY <2>2, DoStart, DoLoopHead, DoClear, DoCount, DoBase, DoLoad, DoTakeDigit, DoPlace, DoAdvance,
                DoSorted, DoFlag, DoRead, DoWriteScan, DoRank, DoBump, DoFinish, DoCopy, DoCheck DEF Kernel!LaneStep
    <2>. QED BY <1>2, <1>6, <2>3
  <1>7. CASE Meets(l, q, shared) # q
    <2>0. [reg EXCEPT ![t] = reg[t]] = reg
      BY RowStays DEF Lanewise
    <2>1. CASE q.pc = "head" /\ q.h >= l
      BY <1>2, <1>3, <2>0, <2>1 DEF Kernel!LoopHead, Kernel!Runs, Kernel!Goes, Kernel!To, RunsOn, Meets
    <2>2. CASE q.pc = "clear" /\ ~(q.pass < shared.passes) /\ shared.passes % 2 # 1
      BY <1>2, <1>3, <2>0, <2>2 DEF Kernel!Clear, Kernel!Runs, Kernel!Goes, Kernel!To, RunsOn, Meets
    <2>. QED BY <1>7, <2>1, <2>2 DEF Meets
  <1>. QED BY <1>6, <1>7

\* What the lanes read to run on stays as they run.
LEMMA Steady ==
  ASSUME NEW l, NEW q, NEW m, NEW m2, q.pc = "head" \/ m2.passes = m.passes, q.pc = "finish" \/ m2.done = m.done
  PROVE  /\ Beyond(l, q, m2) = Beyond(l, q, m)
         /\ Meets(l, q, m) = q => Meets(l, q, m2) = q
  BY DEF Beyond, Meets

\* A lane that runs on from a loop that is over keeps all in step.
LEMMA RunOnStep ==
  ASSUME NEW l, NEW tx, NEW m, NEW c, NEW a, NEW r, Lanewise(l, tx, m, c, a, r),
         NEW t \in Kernel!Lanes, t \notin r, NEW a2, a2 = [a EXCEPT ![t] = Meets(l, a[t], m)]
  PROVE  Lanewise(l, tx, m, c, a2, r)
  <1>1. PICK p \in Positions : /\ From(l, p, m, a, r) /\ Phase(l, tx, Meets(l, p, m), r, m, c)
                               /\ p.pc = "head" => Ranked(tx, l, p.h, m.rank)
    BY DEF Lanewise
  <1>2. PICK q : q = Meets(l, p, m)
    OBVIOUS
  <1>3. Meets(l, a[t], m) = q
    BY <1>1, <1>2, MeetsOnce DEF From
  <1>4. a2 = [a EXCEPT ![t] = q] /\ a = [u \in Kernel!Lanes |-> a[u]]
    BY <1>3 DEF Lanewise
  <1>5. \A u \in Kernel!Lanes : a2[u] = IF u = t THEN q ELSE a[u]
    BY <1>4
  <1>6. a2 = [u \in Kernel!Lanes |-> a2[u]]
    BY <1>4
  <1>7. From(l, p, m, a2, r)
    BY <1>1, <1>2, <1>5 DEF From
  <1>. QED BY <1>1, <1>6, <1>7 DEF Lanewise

Waiting(r, t) == IF r \cup {t} = Kernel!Lanes THEN {} ELSE r \cup {t}
Steadily(q, m, m2) == (q.pc = "head" \/ m2.passes = m.passes) /\ (q.pc = "finish" \/ m2.done = m.done)
Passes(l, a, t, m) == [a EXCEPT ![t] = Beyond(l, a[t], m)]

\* So does one that comes to the barrier, the last one letting all through.
LEMMA ArriveStep ==
  ASSUME NEW l, NEW tx, NEW m, NEW c, NEW a, NEW r, Lanewise(l, tx, m, c, a, r),
         NEW t \in Kernel!Lanes, t \notin r, NEW q, q = a[t], Meets(l, q, m) = q, q.pc # "end",
         NEW m2 \in Memory(l), NEW c2 \in Registers(l), Phase(l, tx, q, r \cup {t}, m2, c2),
         Steadily(q, m, m2), NEW a2, a2 = Passes(l, a, t, m), NEW r2, r2 = Waiting(r, t)
  PROVE  Lanewise(l, tx, m2, c2, a2, r2)
  <1>1. PICK p \in Positions : From(l, p, m, a, r)
    BY DEF Lanewise
  <1>2. q = Meets(l, p, m)
    BY <1>1 DEF From
  <1>3. q \in Positions /\ (q.pc = "head" => q = p)
    BY <1>1, <1>2, MeetsOnce
  <1>4. PICK b : b = Beyond(l, q, m)
    OBVIOUS
  <1>5. Beyond(l, q, m2) = b /\ Meets(l, q, m2) = q
    BY <1>4, Steady DEF Steadily
  <1>6. a2 = [a EXCEPT ![t] = b] /\ a = [u \in Kernel!Lanes |-> a[u]]
    BY <1>4 DEF Lanewise, Passes
  <1>7. \A u \in Kernel!Lanes : a2[u] = IF u = t THEN b ELSE a[u]
    BY <1>6
  <1>8. a2 = [u \in Kernel!Lanes |-> a2[u]]
    BY <1>6
  <1>9. Sized(l) /\ tx \in Bytes(l) /\ r \in SUBSET Kernel!Lanes /\ l \in Nat
    BY DEF Lanewise, Sized
  <1>10. CASE r \cup {t} = Kernel!Lanes
    <2>1. r2 = {}
      BY <1>10 DEF Waiting
    <2>2. \A u \in Kernel!Lanes : a2[u] = b
      BY <1>1, <1>2, <1>4, <1>7, <1>10 DEF From
    <2>3. Lands(l, tx, b, m2, c2)
      <3>1. PICK x \in [0 .. l - 1 -> Kernel!Lanes] : x = tx
        BY <1>9 DEF Bytes
      <3>2. Phase(l, x, q, Kernel!Lanes, m2, c2)
        BY <1>10, <3>1
      <3>3. Lands(l, x, Beyond(l, q, m2), m2, c2)
        BY <1>3, <1>5, <1>9, <3>2, AllLand
      <3>. QED BY <1>5, <3>1, <3>3
    <2>4. b \in Positions /\ From(l, b, m2, a2, r2)
      BY <2>1, <2>2, <2>3 DEF From, Lands
    <2>5. Phase(l, tx, Meets(l, b, m2), r2, m2, c2) /\ (b.pc = "head" => Ranked(tx, l, b.h, m2.rank))
      BY <2>1, <2>3 DEF Lands
    <2>. QED BY <1>8, <1>9, <2>1, <2>4, <2>5 DEF Lanewise
  <1>11. CASE r \cup {t} # Kernel!Lanes
    <2>1. r2 = r \cup {t} /\ r2 \in SUBSET Kernel!Lanes
      BY <1>9, <1>11 DEF Waiting
    <2>2. Meets(l, p, m2) = q
      BY <1>2, <1>3 DEF Meets, Steadily
    <2>3. From(l, p, m2, a2, r2)
      BY <1>1, <1>2, <1>4, <1>5, <1>7, <2>1, <2>2 DEF From
    <2>4. p.pc = "head" => Ranked(tx, l, p.h, m2.rank)
      <3>1. p.pc = "head" => q = p
        BY <1>1, <1>2, MeetsOnce
      <3>2. q.pc = "head" => AtHead(l, tx, q, r \cup {t}, m2)
        BY DEF Phase
      <3>. QED BY <3>1, <3>2 DEF AtHead, Rounds
    <2>. QED BY <1>1, <1>8, <1>9, <2>1, <2>2, <2>3, <2>4 DEF Lanewise
  <1>. QED BY <1>10, <1>11

\* Every step of a lane keeps the invariant.
LEMMA KernelNext == ASSUME KernelInv, Kernel!Next PROVE KernelInv'
  <1>1. PICK l : Kernel!n = l /\ Lanewise(l, kernelText, shared, reg, at, ran)
    BY DEF KernelInv
  <1>2. PICK t \in Kernel!Lanes : Kernel!LaneStep(t)
    BY DEF Kernel!Next
  <1>3. t \notin ran /\ (RunsOn(l, t) \/ (Meets(l, at[t], shared) = at[t] /\ Done(l, kernelText, at[t], t)))
    BY <1>1, <1>2, Guards, LaneDoes
  <1>4. PICK tx, m, c, a, r, q : tx = kernelText /\ m = shared /\ c = reg /\ a = at /\ r = ran /\ q = at[t]
    OBVIOUS
  <1>5. PICK m2, c2, a2, r2 : m2 = shared' /\ c2 = reg' /\ a2 = at' /\ r2 = ran'
    OBVIOUS
  <1>6. kernelText' = tx
    BY <1>3, <1>4 DEF RunsOn, Done
  <1>7. Lanewise(l, tx, m, c, a, r)
    BY <1>1, <1>4
  <1>8. Lanewise(l, tx, m2, c2, a2, r2)
    <2>1. CASE RunsOn(l, t)
      <3>1. m2 = m /\ c2 = c /\ r2 = r /\ a2 = [a EXCEPT ![t] = Meets(l, a[t], m)]
        BY <1>4, <1>5, <2>1 DEF RunsOn
      <3>2. Lanewise(l, tx, m, c, a2, r)
        BY <1>2, <1>3, <1>4, <1>7, <3>1, RunOnStep
      <3>. QED BY <3>1, <3>2
    <2>2. CASE ~RunsOn(l, t)
      <3>1. Done(l, tx, q, t)
        BY <1>3, <1>4, <2>2
      <3>2. /\ q.pc # "end" /\ m2 \in Memory(l) /\ c2 \in Registers(l) /\ Phase(l, tx, q, r \cup {t}, m2, c2)
            /\ Steadily(q, m, m2) /\ a2 = Passes(l, a, t, m) /\ r2 = Waiting(r, t)
        BY <1>4, <1>5, <3>1 DEF Done, Steadily, Passes, Waiting
      <3>3. Meets(l, q, m) = q
        BY <1>3, <1>4, <2>2
      <3>4. t \in Kernel!Lanes /\ t \notin r /\ q = a[t]
        BY <1>2, <1>3, <1>4
      <3>. QED BY <1>7, <3>2, <3>3, <3>4, ArriveStep
    <2>. QED BY <2>1, <2>2
  <1>9. Kernel!n' = l
    BY <1>1, <1>4, <1>6 DEF Kernel!n
  <1>10. Lanewise(l, kernelText', shared', reg', at', ran')
    BY <1>5, <1>6, <1>8
  <1>. QED BY <1>9, <1>10 DEF KernelInv

\* All lanes start together.
LEMMA KernelInit == ASSUME Kernel!Init PROVE KernelInv
  <1>1. PICK l \in 1 .. WG * WG * WG - 2 : kernelText \in [0 .. l - 1 -> 0 .. WG - 1]
    BY KernelAssumption DEF Kernel!Init, Kernel!SaGpuAssumption
  <1>2. l \in Nat \ {0} /\ Sized(l) /\ kernelText \in Bytes(l) /\ 0 \in Kernel!Lanes
    BY <1>1, WGIs DEF Sized, Bytes, Kernel!Lanes
  <1>3. Kernel!n = l
    <2>1. DOMAIN kernelText = 0 .. l - 1
      BY <1>1
    <2>2. Cardinality(0 .. l - 1) = l
      BY <1>2, Counts
    <2>. QED BY <2>1, <2>2, SameCount DEF Kernel!n
  <1>4. Kernel!Index = 0 .. l - 1 /\ 0 \in 0 .. l - 1
    BY <1>2, <1>3 DEF Kernel!Index
  <1>5. shared \in Memory(l)
    BY <1>2, <1>4 DEF Kernel!Init, Memory
  <1>6. reg \in Registers(l)
    BY <1>2, <1>4 DEF Kernel!Init, Registers
  <1>7. PICK p : p = [pc |-> "init", h |-> 1, key |-> 0, pass |-> 0, tile |-> 0, d |-> 1]
    OBVIOUS
  <1>8. p \in Positions /\ p.pc = "init" /\ p.h = 1
    BY <1>7 DEF Positions, Places
  <1>9. at = [t \in Kernel!Lanes |-> p] /\ ran = {}
    BY <1>7 DEF Kernel!Init
  <1>10. Meets(l, p, shared) = p
    BY <1>8 DEF Meets
  <1>11. From(l, p, shared, at, ran) /\ at = [u \in Kernel!Lanes |-> at[u]]
    BY <1>9 DEF From
  <1>12. Phase(l, kernelText, p, ran, shared, reg)
    BY <1>8, <1>9 DEF Phase, AtInit
  <1>. QED BY <1>2, <1>3, <1>5, <1>6, <1>8, <1>9, <1>10, <1>11, <1>12 DEF KernelInv, Lanewise

\* So does stuttering.
LEMMA KernelStays == KernelInv /\ [Kernel!Next]_(Kernel!vars) => KernelInv'
  <1>1. ASSUME KernelInv, UNCHANGED Kernel!vars PROVE KernelInv'
    BY <1>1 DEF KernelInv, Kernel!vars, Kernel!n
  <1>. QED BY <1>1, KernelNext

\* Lanes that wait do so behind the same barrier.
LEMMA InStep == ASSUME KernelInv PROVE Kernel!BarriersUniform
  <1> SUFFICES ASSUME NEW t \in ran, NEW u \in Kernel!Lanes
               PROVE  /\ u \in ran => at[u] = at[t]
                      /\ at[u].pc = "end" => at[t].pc = "end"
    BY DEF Kernel!BarriersUniform
  <1>1. PICK l : \E p \in Positions : From(l, p, shared, at, ran) /\ ran \in SUBSET Kernel!Lanes
    BY DEF KernelInv, Lanewise
  <1>4. PICK p \in Positions : From(l, p, shared, at, ran)
    BY <1>1
  <1>2. at[t] = Beyond(l, Meets(l, p, shared), shared) /\ Meets(l, p, shared).pc # "end"
    BY <1>1, <1>4 DEF From
  <1>3. p.pc # "end"
    BY <1>2 DEF Meets
  <1>. QED BY <1>1, <1>2, <1>3, <1>4 DEF From

\* All lanes at the head of the loop, or at the end, and none waiting.
LEMMA AllAt ==
  ASSUME NEW l, Lanewise(l, kernelText, shared, reg, at, ran), NEW place, Kernel!Together(place)
  PROVE  \E p \in Positions :
           /\ Phase(l, kernelText, Meets(l, p, shared), {}, shared, reg)
           /\ p.pc = "head" => Ranked(kernelText, l, p.h, shared.rank)
           /\ at[0].pc = place /\ (at[0] = p \/ at[0] = Meets(l, p, shared))
  <1>1. PICK p \in Positions :
           /\ From(l, p, shared, at, ran)
           /\ Phase(l, kernelText, Meets(l, p, shared), ran, shared, reg)
           /\ p.pc = "head" => Ranked(kernelText, l, p.h, shared.rank)
    BY DEF Lanewise
  <1>2. 0 \in Kernel!Lanes /\ ran = {}
    BY AllLanes DEF Kernel!Together, Lanewise
  <1>3. at[0].pc = place /\ (at[0] = p \/ at[0] = Meets(l, p, shared))
    BY <1>1, <1>2 DEF Kernel!Together, From
  <1>. QED BY <1>1, <1>2, <1>3

\* Between rounds the ranks are those of the prefixes.
LEMMA RanksAre == ASSUME KernelInv PROVE Kernel!RanksArePrefixes
  <1>1. PICK l : Kernel!n = l /\ Lanewise(l, kernelText, shared, reg, at, ran)
    BY DEF KernelInv
  <1>5. SUFFICES ASSUME Kernel!Together("head"), NEW i \in Kernel!Index, NEW j \in Kernel!Index
                 PROVE  shared.rank[i] < shared.rank[j] <=> Earlier(kernelText, Kernel!n, at[0].h, i, j)
    BY DEF Kernel!RanksArePrefixes, Earlier, Alike, Letter
  <1>2. Kernel!Together("head")
    BY <1>5
  <1>3. PICK p \in Positions :
           /\ p.pc = "head" => Ranked(kernelText, l, p.h, shared.rank)
           /\ at[0].pc = "head" /\ (at[0] = p \/ at[0] = Meets(l, p, shared))
    BY <1>1, <1>2, AllAt
  <1>4. at[0] = p
    BY <1>3, MeetsOnce
  <1>. QED BY <1>1, <1>3, <1>4 DEF Ranked, Kernel!Index

\* At the end the slots are the suffix array.
LEMMA SortsAre == ASSUME KernelInv PROVE Kernel!SuffixArrayBuilt
  <1>1. PICK l : Kernel!n = l /\ Lanewise(l, kernelText, shared, reg, at, ran)
    BY DEF KernelInv
  <1>2. SUFFICES ASSUME Kernel!Together("end")
                 PROVE  /\ {shared.sa[k] : k \in Kernel!Index} = Kernel!Index
                        /\ Kernel!InSuffixOrder(kernelText, Kernel!n, [k \in 1 .. Kernel!n |-> shared.sa[k - 1]])
    BY DEF Kernel!SuffixArrayBuilt
  <1>3. PICK p \in Positions :
           /\ Phase(l, kernelText, Meets(l, p, shared), {}, shared, reg)
           /\ at[0].pc = "end" /\ (at[0] = p \/ at[0] = Meets(l, p, shared))
    BY <1>1, <1>2, AllAt
  <1>4. Meets(l, p, shared).pc = "end"
    <2>1. p.pc = "end" => Meets(l, p, shared) = p
      BY DEF Meets
    <2>. QED BY <1>3, <2>1
  <1>5. AtEnd(l, kernelText, shared)
    BY <1>3, <1>4 DEF Phase
  <1>6. Kernel!Index = 0 .. l - 1 /\ l \in Nat /\ Kernel!n = l
    BY <1>1 DEF Kernel!Index, Lanewise, Sized
  <1>7. PICK ps : ps = [k \in 1 .. l |-> shared.sa[k - 1]]
    OBVIOUS
  <1>8. Len(ps) = l
    BY <1>6, <1>7
  <1>9. ASSUME NEW i \in 1 .. l - 1 PROVE Kernel!SuffixLessIn(kernelText, l, ps[i], ps[i + 1])
    <2>1. i - 1 \in 0 .. l - 1 /\ i \in 0 .. l - 1 /\ i - 1 < i /\ (i + 1) - 1 = i
      BY <1>6
    <2>2. ps[i] = shared.sa[i - 1] /\ ps[i + 1] = shared.sa[i]
      BY <1>6, <1>7, <2>1
    <2>3. SufLess(kernelText, l, shared.sa[i - 1], shared.sa[i])
      BY <1>5, <2>1 DEF AtEnd
    <2>. QED BY <2>2, <2>3 DEF SufLess, Kernel!SuffixLessIn
  <1>10. Kernel!InSuffixOrder(kernelText, l, ps)
    BY <1>8, <1>9 DEF Kernel!InSuffixOrder
  <1>. QED BY <1>5, <1>6, <1>7, <1>10 DEF AtEnd

\* A workgroup of any number of lanes, on any text of bytes it can rank in three
\* passes, its lanes in any order between two barriers: lanes that wait do so at
\* the same barrier of the same round, pass and tile, none leaves while others
\* wait, and before every round the ranks are those of the prefixes of h letters
\* (sa_gpu.wgsl).
THEOREM KernelInStep == Kernel!Spec => []RoundsInStep
  <1>1. KernelInv => RoundsInStep
    BY InStep, RanksAre DEF RoundsInStep
  <1>. QED BY <1>1, KernelInit, KernelStays, PTL DEF Kernel!Spec

\* When all lanes have left the kernel, its slots are the suffix array of the
\* text: every suffix once, in order, the shorter first where one begins the
\* other (sa_gpu.wgsl).
THEOREM KernelBuilds == Kernel!Spec => []KernelSorts
  <1>1. KernelInv => KernelSorts
    BY SortsAre DEF KernelSorts
  <1>. QED BY <1>1, KernelInit, KernelStays, PTL DEF Kernel!Spec
=============================================================================

-------------------------- MODULE ShareGateProofs ---------------------------
(***************************************************************************)
(* First the client's own guarantees, for any number of connections, any   *)
(* backoff bounds and any shares, with nothing assumed of the mailbox's    *)
(* capacity.  Then what the steps of module ShareGate, which holds the     *)
(* client, keep for any batch size, mailbox capacity, set of hashes and    *)
(* number of connections; MineLoopProofs and StreamLoopProofs add the      *)
(* steps of the two loops.                                                 *)
(***************************************************************************)
EXTENDS ShareGate, FiniteSetTheorems, SequenceTheorems, TLAPS

-----------------------------------------------------------------------------
(* The client.                                                             *)

Done == {c \in Conns : wpc[c] = "done"}

\* The connections: those to come have no writer, those before the current one
\* have lost theirs, and so has the current one outside read and join.
Writers ==
  \A c \in Conns :
    /\ wpc[c] = "none" <=> c > conn
    /\ c < conn => wpc[c] = "done"
    /\ c = conn /\ rpc \notin {"read", "join"} => wpc[c] = "done"

\* A writer is only ever released on a socket that is closed.
Sockets ==
  /\ rpc \in {"read", "join"} => conn # 0
  /\ \A c \in Conns : connDone[c] => sock[c] = "closed" /\ c <= conn

\* A writer holds a share exactly while it writes it.
Holds == \A c \in Conns : wpc[c] = "write" <=> held[c] # NoShare

IInv == ClientTypeOK /\ Writers /\ Sockets /\ Holds /\ NoZombieLink

-----------------------------------------------------------------------------
\* The invariant holds at the start.
LEMMA InitInv == ClientInit => IInv
<1>. SUFFICES ASSUME ClientInit PROVE IInv
  OBVIOUS
<1>1. ClientTypeOK
  <2>1. sock \in [Conns -> {"none", "open", "closed"}]
    BY DEF ClientInit
  <2>2. connDone \in [Conns -> BOOLEAN]
    BY DEF ClientInit
  <2>3. wpc \in [Conns -> {"none", "select", "write", "done"}]
    BY DEF ClientInit
  <2>4. held \in [Conns -> Shares \cup {NoShare}]
    BY DEF ClientInit
  <2>5. conn \in 0..MaxConns /\ backoff \in InitialBackoff..MaxBackoff /\ SendFails \in Nat
    BY ClientAssumption DEF ClientInit
  <2>6. submits \in Seq(Shares) /\ sent \in Seq(Shares) /\ lost \subseteq Shares
    BY DEF ClientInit
  <2>. QED BY <2>1, <2>2, <2>3, <2>4, <2>5, <2>6 DEF ClientInit, ClientTypeOK
<1>2. Writers /\ Sockets /\ Holds /\ NoZombieLink
  BY ClientAssumption DEF ClientInit, Writers, Sockets, Holds, NoZombieLink, Conns
<1>. QED BY <1>1, <1>2 DEF IInv

\* Steps of Run and of the reader that touch no connection.
LEMMA LoopInv ==
  ASSUME IInv, Run \/ DialFail \/ Served \/ BackoffCancel \/ BackoffExpire \/ ReadJob
  PROVE  IInv'
<1>. USE DEF IInv, ClientTypeOK, Writers, Sockets, Holds, NoZombieLink
<1>1. CASE Run
  BY <1>1 DEF Run
<1>2. CASE DialFail
  BY <1>2 DEF DialFail
<1>3. CASE Served
  BY <1>3, ClientAssumption DEF Served
<1>4. CASE BackoffCancel
  BY <1>4 DEF BackoffCancel
<1>5. CASE BackoffExpire
  <2>1. backoff' \in InitialBackoff..MaxBackoff
    BY <1>5, ClientAssumption DEF BackoffExpire, Doubled
  <2>. QED BY <1>5, <2>1 DEF BackoffExpire
<1>6. CASE ReadJob
  BY <1>6 DEF ReadJob
<1>. QED BY <1>1, <1>2, <1>3, <1>4, <1>5, <1>6

\* A connection comes up: it is the next one, and its writer the only live one.
LEMMA DialInv == ASSUME IInv, DialOK PROVE IInv'
<1>. USE DEF DialOK, Conns
<1>1. conn + 1 \in Conns /\ conn' = conn + 1 /\ conn \in Nat
  BY ClientAssumption DEF IInv, ClientTypeOK
<1>2. ClientTypeOK'
  <2>1. sock' \in [Conns -> {"none", "open", "closed"}]
    BY DEF IInv, ClientTypeOK
  <2>2. wpc' \in [Conns -> {"none", "select", "write", "done"}]
    BY DEF IInv, ClientTypeOK
  <2>3. conn' \in 0..MaxConns
    BY <1>1, ClientAssumption
  <2>. QED BY <2>1, <2>2, <2>3 DEF IInv, ClientTypeOK
<1>3. Writers'
  <2>. SUFFICES ASSUME NEW c \in Conns
                PROVE  /\ wpc'[c] = "none" <=> c > conn'
                       /\ c < conn' => wpc'[c] = "done"
    BY <1>1 DEF Writers
  <2>1. CASE c = conn + 1
    BY <1>1, <2>1 DEF IInv, ClientTypeOK
  <2>2. CASE c # conn + 1
    <3>1. wpc'[c] = wpc[c] /\ c \in Nat
      BY <1>1, <2>2 DEF IInv, ClientTypeOK
    <3>2. CASE c < conn
      BY <1>1, <3>1, <3>2 DEF IInv, Writers
    <3>3. CASE c = conn
      BY <1>1, <3>1, <3>3 DEF IInv, Writers
    <3>4. CASE c > conn
      BY <1>1, <2>2, <3>1, <3>4 DEF IInv, Writers
    <3>. QED BY <1>1, <3>1, <3>2, <3>3, <3>4
  <2>. QED BY <2>1, <2>2
<1>4. Sockets' /\ Holds' /\ NoZombieLink'
  <2>1. ~connDone[conn + 1]
    BY <1>1 DEF IInv, Sockets
  <2>2. \A c \in Conns : c # conn + 1 => wpc'[c] = wpc[c] /\ sock'[c] = sock[c]
    BY <1>1 DEF IInv, ClientTypeOK
  <2>. QED BY <1>1, <2>1, <2>2 DEF IInv, ClientTypeOK, Writers, Sockets, Holds, NoZombieLink
<1>. QED BY <1>2, <1>3, <1>4 DEF IInv

\* The reader gives up: socket closed, writer released.
LEMMA ReadFailInv == ASSUME IInv, ReadFail PROVE IInv'
<1>. USE DEF ReadFail, Release
<1>1. conn \in Conns
  BY ClientAssumption DEF IInv, ClientTypeOK, Sockets, Conns
<1>2. ClientTypeOK'
  <2>1. sock' \in [Conns -> {"none", "open", "closed"}]
    BY DEF IInv, ClientTypeOK
  <2>2. connDone' \in [Conns -> BOOLEAN]
    BY DEF IInv, ClientTypeOK
  <2>. QED BY <2>1, <2>2 DEF IInv, ClientTypeOK, linkVars
<1>3. Writers'
  BY DEF IInv, Writers
<1>4. \A c \in Conns : sock'[c] = IF c = conn THEN "closed" ELSE sock[c]
  BY DEF IInv, ClientTypeOK
<1>5. Sockets'
  <2>1. \A c \in Conns : connDone'[c] => connDone[c] \/ c = conn
    BY DEF IInv, ClientTypeOK
  <2>2. conn \in Nat
    BY <1>1, ClientAssumption DEF Conns
  <2>. QED BY <1>1, <1>4, <2>1, <2>2 DEF IInv, Sockets
<1>6. Holds' /\ NoZombieLink'
  BY <1>4 DEF IInv, Holds, NoZombieLink
<1>. QED BY <1>2, <1>3, <1>5, <1>6 DEF IInv

\* The writer is gone: connectAndServe returns.
LEMMA JoinInv == ASSUME IInv, Join PROVE IInv'
BY DEF Join, WriterJoined, IInv, ClientTypeOK, Writers, Sockets, Holds, NoZombieLink

\* A writer's steps: it stops only on a closed socket.
LEMMA WriterInv == ASSUME IInv, NEW c \in Conns, Writer(c) PROVE IInv'
<1>1. wpc[c] \in {"select", "write"}
  BY DEF Writer, WriterCancel, WriterReleased, WriterTake, WriteOK, WriteFail
<1>2. c = conn /\ rpc \in {"read", "join"}
  <2>1. c \in Nat /\ conn \in Nat
    BY ClientAssumption DEF IInv, ClientTypeOK, Conns
  <2>. QED BY <1>1, <2>1 DEF IInv, Writers
<1>3. UNCHANGED <<cancelled, linkVars, connDone>>
  BY DEF Writer, WriterCancel, WriterReleased, WriterTake, WriteOK, WriteFail
<1>4. \/ wpc' = wpc
      \/ wpc' = [wpc EXCEPT ![c] = "select"]
      \/ wpc' = [wpc EXCEPT ![c] = "write"]
      \/ wpc' = [wpc EXCEPT ![c] = "done"] /\ sock'[c] = "closed"
  BY DEF Writer, WriterCancel, WriterReleased, WriterTake, WriteOK, WriteFail,
         AfterWriteFail, IInv, ClientTypeOK, Sockets
<1>5. sock' = sock \/ sock' = [sock EXCEPT ![c] = "closed"]
  BY DEF Writer, WriterCancel, WriterReleased, WriterTake, WriteOK, WriteFail,
         AfterWriteFail
<1>6. wpc[c] = "write" => held[c] \in Shares
  BY DEF IInv, ClientTypeOK, Holds
<1>7. /\ held' \in [Conns -> Shares \cup {NoShare}]
      /\ \A d \in Conns : d # c => held'[d] = held[d]
      /\ wpc'[c] = "write" <=> held'[c] # NoShare
      /\ submits' \in Seq(Shares)
  <2>1. CASE WriterTake(c)
    <3>1. Head(submits) \in Shares /\ Tail(submits) \in Seq(Shares)
      BY <2>1 DEF WriterTake, IInv, ClientTypeOK
    <3>. QED BY <2>1, <3>1, ClientAssumption DEF WriterTake, IInv, ClientTypeOK
  <2>2. CASE WriteOK(c) \/ WriteFail(c)
    BY <2>2 DEF WriteOK, WriteFail, AfterWriteFail, GiveUpShare, IInv, ClientTypeOK
  <2>3. CASE WriterCancel(c) \/ WriterReleased(c)
    BY <2>3 DEF WriterCancel, WriterReleased, IInv, ClientTypeOK, Holds
  <2>. QED BY <2>1, <2>2, <2>3 DEF Writer
<1>8. SendFails' \in Nat /\ sent' \in Seq(Shares) /\ lost' \subseteq Shares
  <2>1. CASE WriteOK(c)
    BY <1>6, <2>1 DEF WriteOK, IInv, ClientTypeOK
  <2>2. CASE WriteFail(c)
    BY <1>6, <2>2 DEF WriteFail, IInv, ClientTypeOK
  <2>3. CASE WriterCancel(c) \/ WriterReleased(c) \/ WriterTake(c)
    BY <2>3 DEF WriterCancel, WriterReleased, WriterTake, IInv, ClientTypeOK
  <2>. QED BY <2>1, <2>2, <2>3 DEF Writer
<1>9. ClientTypeOK'
  <2>1. wpc' \in [Conns -> {"none", "select", "write", "done"}]
    BY <1>4 DEF IInv, ClientTypeOK
  <2>2. sock' \in [Conns -> {"none", "open", "closed"}]
    BY <1>5 DEF IInv, ClientTypeOK
  <2>. QED BY <1>3, <1>7, <1>8, <2>1, <2>2 DEF IInv, ClientTypeOK, linkVars
<1>10. /\ \A d \in Conns : d # c => wpc'[d] = wpc[d] /\ sock'[d] = sock[d]
       /\ wpc'[c] # "none"
       /\ wpc'[c] = "done" => sock'[c] = "closed"
       /\ sock[c] = "closed" => sock'[c] = "closed"
  BY <1>1, <1>4, <1>5 DEF IInv, ClientTypeOK
<1>11. Writers'
  <2>1. c \in Nat /\ conn \in Nat
    BY ClientAssumption DEF IInv, ClientTypeOK, Conns
  <2>. QED BY <1>2, <1>3, <1>10, <2>1 DEF IInv, Writers, linkVars
<1>12. Sockets' /\ Holds' /\ NoZombieLink'
  BY <1>3, <1>7, <1>10 DEF IInv, Sockets, Holds, NoZombieLink, linkVars
<1>. QED BY <1>9, <1>11, <1>12 DEF IInv

\* Ctrl-C and the mine loop touch no connection.
LEMMA OutsideInv == ASSUME IInv, Cancel \/ (\E s \in Shares : Enqueue(s)) PROVE IInv'
<1>1. CASE Cancel
  BY <1>1 DEF Cancel, linkVars, IInv, ClientTypeOK, Writers, Sockets, Holds, NoZombieLink
<1>2. CASE \E s \in Shares : Enqueue(s)
  BY <1>2 DEF Enqueue, linkVars, IInv, ClientTypeOK, Writers, Sockets, Holds, NoZombieLink
<1>. QED BY <1>1, <1>2

\* Every step of the client, in whatever specification it is taken, keeps the
\* invariant.
LEMMA ClientStepInv == ASSUME IInv, ClientStep \/ ReadJob PROVE IInv'
BY LoopInv, DialInv, ReadFailInv, JoinInv, WriterInv, OutsideInv DEF ClientStep, Reader

\* So does every step of the specification.
LEMMA StepInv == IInv /\ [ClientNext]_clientVars => IInv'
<1>. SUFFICES ASSUME IInv, [ClientNext]_clientVars PROVE IInv'
  OBVIOUS
<1>1. CASE ClientNext
  BY <1>1, ClientStepInv, OutsideInv DEF ClientNext
<1>2. CASE UNCHANGED clientVars
  BY <1>2 DEF clientVars, linkVars, IInv, ClientTypeOK, Writers, Sockets, Holds,
              NoZombieLink
<1>. QED BY <1>1, <1>2

\* The invariant is an invariant.
THEOREM Invariance == ClientSpec => []IInv
BY InitInv, StepInv, PTL DEF ClientSpec

\* Every variable of the client keeps its type; the backoff stays in its range.
THEOREM TypeCorrect == ClientSpec => []ClientTypeOK
<1>. IInv => ClientTypeOK
  BY DEF IInv
<1>. QED BY Invariance, PTL

\* "The sole goroutine writing data frames": across any number of reconnects
\* only the current connection has a live writer.
THEOREM SoleWriter == ClientSpec => []OneWriter
<1>1. IInv => OneWriter
  <2>. SUFFICES ASSUME IInv, NEW c \in Conns, Live(c)
                PROVE  c = conn /\ rpc \in {"read", "join"}
    BY DEF OneWriter
  <2>1. c \in Nat /\ conn \in Nat
    BY ClientAssumption DEF IInv, ClientTypeOK, Conns
  <2>. QED BY <2>1 DEF IInv, Writers, Live
<1>. QED BY <1>1, Invariance, PTL

\* A link whose writer stopped is closed (client.go:137-141).
THEOREM NoHalfDeadLink == ClientSpec => []NoZombieLink
<1>. IInv => NoZombieLink
  BY DEF IInv
<1>. QED BY Invariance, PTL

-----------------------------------------------------------------------------
(* Counting: every send failure is paid for by a connection. *)

LossInv == IInv /\ LossPerLink

\* The connections that are over are finitely many.
LEMMA DoneFinite == IsFiniteSet(Done) /\ Cardinality(Done) \in Nat
<1>1. IsFiniteSet(Conns)
  BY ClientAssumption, FS_Interval DEF Conns
<1>2. IsFiniteSet(Done)
  BY <1>1, FS_Subset DEF Done
<1>. QED BY <1>2, FS_CardinalityType

\* Only a failed write adds to SendFails, and it ends its connection.
LEMMA FailCosts == ASSUME IInv, NEW c \in Conns, WriteFail(c), LossPerLink PROVE LossPerLink'
<1>1. Done' = Done \cup {c} /\ c \notin Done
  BY DEF Done, WriteFail, AfterWriteFail, IInv, ClientTypeOK
<1>2. Cardinality(Done') = Cardinality(Done) + 1
  BY <1>1, DoneFinite, FS_AddElement
<1>. QED BY <1>2, DoneFinite DEF LossPerLink, Done, WriteFail, IInv, ClientTypeOK

\* No other step adds to SendFails, and none brings a connection back.
LEMMA OverStaysOver ==
  ASSUME IInv, LossPerLink, SendFails' = SendFails, Done \subseteq Done'
  PROVE  LossPerLink'
<1>1. IsFiniteSet(Done')
  <2>1. IsFiniteSet(Conns)
    BY ClientAssumption, FS_Interval DEF Conns
  <2>. QED BY <2>1, FS_Subset DEF Done
<1>2. Cardinality(Done) <= Cardinality(Done') /\ Cardinality(Done') \in Nat
  BY <1>1, FS_Subset, FS_CardinalityType
<1>. QED BY <1>2, DoneFinite DEF LossPerLink, Done, IInv, ClientTypeOK

\* Those other steps, one by one.
LEMMA OtherSteps ==
  ASSUME IInv, [ClientNext]_clientVars, ~ \E c \in Conns : WriteFail(c)
  PROVE  SendFails' = SendFails /\ Done \subseteq Done'
<1>1. CASE wpc' = wpc /\ SendFails' = SendFails
  BY <1>1 DEF Done
<1>2. CASE DialOK
  <2>1. wpc[conn + 1] # "done"
    BY <1>2, ClientAssumption DEF DialOK, IInv, ClientTypeOK, Writers, Conns
  <2>. QED BY <1>2, <2>1 DEF DialOK, Done, IInv, ClientTypeOK
<1>3. CASE \E c \in Conns : Writer(c)
  <2>. PICK c \in Conns : Writer(c)
    BY <1>3
  <2>. QED BY DEF Writer, WriterCancel, WriterReleased, WriterTake, WriteOK, Done,
                  IInv, ClientTypeOK
<1>4. CASE Run \/ DialFail \/ ReadFail \/ Join \/ Served \/ BackoffCancel
           \/ BackoffExpire \/ ReadJob \/ Cancel \/ \E s \in Shares : Enqueue(s)
  BY <1>1, <1>4 DEF Run, DialFail, ReadFail, Join, Served, BackoffCancel, BackoffExpire,
                    ReadJob, Cancel, Enqueue
<1>5. CASE UNCHANGED clientVars
  BY <1>1, <1>5 DEF clientVars
<1>. QED BY <1>2, <1>3, <1>4, <1>5 DEF ClientNext, ClientStep, Reader

\* A dead link costs at most the one share its writer held.
THEOREM LossBounded == ClientSpec => []LossPerLink
<1>1. ClientInit => LossInv
  <2>1. ClientInit => SendFails <= Cardinality(Done)
    BY DoneFinite DEF ClientInit
  <2>. QED BY <2>1, InitInv DEF LossInv, LossPerLink, Done
<1>2. LossInv /\ [ClientNext]_clientVars => LossInv'
  BY StepInv, FailCosts, OverStaysOver, OtherSteps DEF LossInv
<1>3. LossInv => LossPerLink
  BY DEF LossInv
<1>. QED BY <1>1, <1>2, <1>3, PTL DEF ClientSpec

-----------------------------------------------------------------------------
(* Order: a share's way through mailbox and writer to the wire. *)

\* The only connection that may hold a share is the current one.
LEMMA OnlyCurrentHolds ==
  ASSUME IInv, NEW c \in Conns, wpc[c] # "none", wpc[c] # "done"
  PROVE  c = conn /\ conn # 0
<1>1. c \in Nat /\ c # 0 /\ conn \in Nat
  BY ClientAssumption DEF IInv, ClientTypeOK, Conns
<1>. QED BY <1>1 DEF IInv, Writers

LEMMA TrailTypes ==
  ASSUME IInv
  PROVE  InHand \in Seq(Shares) /\ sent \in Seq(Shares) /\ submits \in Seq(Shares)
<1>1. CASE conn = 0 \/ held[conn] = NoShare
  BY <1>1 DEF InHand, IInv, ClientTypeOK
<1>2. CASE conn # 0 /\ held[conn] # NoShare
  <2>1. conn \in Conns
    BY <1>2, ClientAssumption DEF IInv, ClientTypeOK, Conns
  <2>2. held[conn] \in Shares
    BY <1>2, <2>1 DEF IInv, ClientTypeOK
  <2>. QED BY <1>2, <2>2 DEF InHand, IInv, ClientTypeOK
<1>. QED BY <1>1, <1>2

\* Taking the head of the mailbox, and putting it on the wire, keeps the order.
LEMMA TakeHead ==
  ASSUME NEW S, NEW a \in Seq(S), NEW c \in Seq(S), c # <<>>
  PROVE  a \o <<Head(c)>> \o Tail(c) = a \o <<>> \o c
<1>1. Head(c) \in S /\ Tail(c) \in Seq(S) /\ <<Head(c)>> \in Seq(S)
  BY HeadTailProperties
<1>2. <<Head(c)>> \o Tail(c) = c
  <2>1. /\ <<Head(c)>> \o Tail(c) \in Seq(S) /\ Len(<<Head(c)>>) = 1
        /\ Len(<<Head(c)>> \o Tail(c)) = 1 + Len(Tail(c))
        /\ \A k \in 1 .. 1 + Len(Tail(c)) :
             (<<Head(c)>> \o Tail(c))[k] = IF k <= 1 THEN Head(c) ELSE Tail(c)[k - 1]
    BY <1>1, ConcatProperties
  <2>2. /\ Len(c) \in Nat \ {0} /\ Len(Tail(c)) = Len(c) - 1 /\ Head(c) = c[1]
        /\ \A k \in 1 .. Len(c) - 1 : Tail(c)[k] = c[k + 1]
    BY HeadTailProperties
  <2>3. ASSUME NEW k \in 1 .. Len(c) PROVE (<<Head(c)>> \o Tail(c))[k] = c[k]
    <3>1. CASE k = 1
      BY <2>1, <2>2, <3>1
    <3>2. CASE k # 1
      <4>1. k - 1 \in 1 .. Len(c) - 1 /\ (k - 1) + 1 = k /\ k \in 1 .. 1 + Len(Tail(c)) /\ ~(k <= 1)
        BY <2>2, <3>2
      <4>. QED BY <2>1, <2>2, <4>1
    <3>. QED BY <3>1, <3>2
  <2>4. Len(<<Head(c)>> \o Tail(c)) = Len(c)
    BY <2>1, <2>2
  <2>. QED BY <2>1, <2>3, <2>4, SeqEqual
<1>3. a \o <<Head(c)>> \o Tail(c) = a \o (<<Head(c)>> \o Tail(c))
  BY <1>1, ConcatAssociative
<1>4. a \o <<>> = a
  BY ConcatEmptySeq
<1>. QED BY <1>2, <1>3, <1>4

LEMMA PutOnWire ==
  ASSUME NEW S, NEW a \in Seq(S), NEW x \in S, NEW c \in Seq(S)
  PROVE  Append(a, x) \o <<>> \o c = a \o <<x>> \o c
<1>1. Append(a, x) = a \o <<x>> /\ Append(a, x) \in Seq(S)
  <2>1. <<x>> \in Seq(S) /\ Len(<<x>>) = 1 /\ <<x>>[1] = x /\ Len(a) \in Nat
    OBVIOUS
  <2>2. /\ a \o <<x>> \in Seq(S) /\ Len(a \o <<x>>) = Len(a) + 1
        /\ \A k \in 1 .. Len(a) + 1 : (a \o <<x>>)[k] = IF k <= Len(a) THEN a[k] ELSE <<x>>[k - Len(a)]
    BY <2>1, ConcatProperties
  <2>3. /\ Append(a, x) \in Seq(S) /\ Len(Append(a, x)) = Len(a) + 1
        /\ \A k \in 1 .. Len(a) : Append(a, x)[k] = a[k]
        /\ Append(a, x)[Len(a) + 1] = x
    OBVIOUS
  <2>4. ASSUME NEW k \in 1 .. Len(a) + 1 PROVE Append(a, x)[k] = (a \o <<x>>)[k]
    <3>1. CASE k <= Len(a)
      BY <2>1, <2>2, <2>3, <3>1
    <3>2. CASE ~(k <= Len(a))
      <4>1. k = Len(a) + 1 /\ k - Len(a) = 1
        BY <2>1, <3>2
      <4>. QED BY <2>1, <2>2, <2>3, <3>2, <4>1
    <3>. QED BY <3>1, <3>2
  <2>. QED BY <2>2, <2>3, <2>4, SeqEqual
<1>. QED BY <1>1, ConcatEmptySeq

LEMMA JoinEnd ==
  ASSUME NEW S, NEW a \in Seq(S), NEW h \in Seq(S), NEW c \in Seq(S), NEW x \in S
  PROVE  a \o h \o Append(c, x) = Append(a \o h \o c, x)
<1>. DEFINE ah == a \o h
<1>1. ah \in Seq(S)
  BY ConcatProperties
<1>. HIDE DEF ah
<1>2. /\ ah \o c \in Seq(S) /\ Len(ah \o c) = Len(ah) + Len(c)
      /\ \A k \in 1 .. Len(ah) + Len(c) : (ah \o c)[k] = IF k <= Len(ah) THEN ah[k] ELSE c[k - Len(ah)]
  BY <1>1, ConcatProperties
<1>3. /\ Append(c, x) \in Seq(S) /\ Len(Append(c, x)) = Len(c) + 1
      /\ \A k \in 1 .. Len(c) : Append(c, x)[k] = c[k]
      /\ Append(c, x)[Len(c) + 1] = x
      /\ Len(c) \in Nat /\ Len(ah) \in Nat
  BY <1>1
<1>4. /\ ah \o Append(c, x) \in Seq(S) /\ Len(ah \o Append(c, x)) = Len(ah) + Len(c) + 1
      /\ \A k \in 1 .. Len(ah) + Len(c) + 1 :
           (ah \o Append(c, x))[k] = IF k <= Len(ah) THEN ah[k] ELSE Append(c, x)[k - Len(ah)]
  <2>. DEFINE bx == Append(c, x)
  <2>1. bx \in Seq(S) /\ Len(bx) = Len(c) + 1
    BY <1>3
  <2>. HIDE DEF bx
  <2>2. /\ ah \o bx \in Seq(S) /\ Len(ah \o bx) = Len(ah) + Len(bx)
        /\ \A k \in 1 .. Len(ah) + Len(bx) :
             (ah \o bx)[k] = IF k <= Len(ah) THEN ah[k] ELSE bx[k - Len(ah)]
    BY <1>1, <2>1, ConcatProperties
  <2>3. Len(ah) + Len(bx) = Len(ah) + Len(c) + 1
    BY <1>3, <2>1
  <2>. QED BY <2>2, <2>3 DEF bx
<1>. DEFINE t == ah \o c
<1>5. /\ Append(t, x) \in Seq(S) /\ Len(Append(t, x)) = Len(t) + 1
      /\ \A k \in 1 .. Len(t) : Append(t, x)[k] = t[k]
      /\ Append(t, x)[Len(t) + 1] = x
  <2>1. t \in Seq(S)
    BY <1>2
  <2>. HIDE DEF t
  <2>. QED BY <2>1
<1>6. ASSUME NEW k \in 1 .. Len(ah) + Len(c) + 1 PROVE (ah \o Append(c, x))[k] = Append(t, x)[k]
  <2>1. CASE k <= Len(ah)
    BY <1>2, <1>3, <1>4, <1>5, <2>1
  <2>2. CASE ~(k <= Len(ah)) /\ k <= Len(ah) + Len(c)
    <3>1. k - Len(ah) \in 1 .. Len(c) /\ k \in 1 .. Len(ah) + Len(c)
      BY <1>3, <2>2
    <3>. QED BY <1>2, <1>3, <1>4, <1>5, <2>2, <3>1
  <2>3. CASE ~(k <= Len(ah) + Len(c))
    <3>1. k = Len(ah) + Len(c) + 1 /\ k - Len(ah) = Len(c) + 1 /\ ~(k <= Len(ah))
      BY <1>3, <2>3
    <3>. QED BY <1>2, <1>3, <1>4, <1>5, <3>1
  <2>. QED BY <2>1, <2>2, <2>3
<1>. QED BY <1>2, <1>4, <1>5, <1>6, SeqEqual DEF ah

\* What a step may do to the trail.
TrailStep ==
  \/ Trail' = Trail /\ SendFails' = SendFails
  \/ (\E s \in Shares : Trail' = Append(Trail, s)) /\ SendFails' = SendFails
  \/ InHand # <<>> /\ Trail' = sent \o submits /\ SendFails' = SendFails + 1

\* A writer takes a share, writes it, or fails to.
LEMMA WriterTrail == ASSUME IInv, NEW c \in Conns, Writer(c) PROVE TrailStep
<1>1. conn' = conn /\ c = conn /\ conn # 0 /\ conn \in Conns
  <2>1. wpc[c] \in {"select", "write"} /\ conn' = conn
    BY DEF Writer, WriterCancel, WriterReleased, WriterTake, WriteOK, WriteFail, linkVars
  <2>. QED BY <2>1, OnlyCurrentHolds
<1>2. held \in [Conns -> Shares \cup {NoShare}] /\ (wpc[c] = "write" <=> held[c] # NoShare)
  BY DEF IInv, ClientTypeOK, Holds
<1>3. CASE WriterCancel(c) \/ WriterReleased(c)
  BY <1>1, <1>3 DEF WriterCancel, WriterReleased, TrailStep, Trail, InHand
<1>4. CASE WriterTake(c)
  <2>1. Head(submits) \in Shares
    BY <1>4, TrailTypes, HeadTailProperties DEF WriterTake
  <2>2. InHand = <<>> /\ InHand' = <<Head(submits)>> /\ submits' = Tail(submits) /\ sent' = sent
    BY <1>1, <1>2, <1>4, <2>1, ClientAssumption DEF WriterTake, InHand
  <2>3. Trail' = sent \o <<Head(submits)>> \o Tail(submits) /\ Trail = sent \o <<>> \o submits
    BY <2>2 DEF Trail
  <2>4. Trail' = Trail
    BY <1>4, <2>3, TakeHead, TrailTypes DEF WriterTake
  <2>. QED BY <1>4, <2>4 DEF WriterTake, TrailStep
<1>5. CASE WriteOK(c)
  <2>1. InHand = <<held[c]>> /\ held[c] \in Shares
    BY <1>1, <1>2, <1>5 DEF WriteOK, InHand
  <2>2. InHand' = <<>> /\ submits' = submits /\ sent' = Append(sent, held[c])
    BY <1>1, <1>2, <1>5 DEF WriteOK, InHand
  <2>3. Trail' = Append(sent, held[c]) \o <<>> \o submits /\ Trail = sent \o <<held[c]>> \o submits
    BY <2>1, <2>2 DEF Trail
  <2>4. Trail' = Trail
    BY <2>1, <2>3, PutOnWire, TrailTypes
  <2>. QED BY <1>5, <2>4 DEF WriteOK, TrailStep
<1>6. CASE WriteFail(c)
  <2>1. InHand = <<held[c]>>
    BY <1>1, <1>2, <1>6 DEF WriteFail, InHand
  <2>2. InHand' = <<>> /\ submits' = submits /\ sent' = sent
    BY <1>1, <1>2, <1>6 DEF WriteFail, GiveUpShare, InHand
  <2>3. Trail' = sent \o submits
    BY <2>2, ConcatEmptySeq, TrailTypes DEF Trail
  <2>4. InHand # <<>> /\ SendFails' = SendFails + 1
    BY <1>6, <2>1 DEF WriteFail
  <2>. QED BY <2>3, <2>4 DEF TrailStep
<1>. QED BY <1>3, <1>4, <1>5, <1>6 DEF Writer

\* A new connection holds nothing, and the one before it let go of its share.
LEMMA DialTrail == ASSUME IInv, DialOK PROVE TrailStep
<1>1. UNCHANGED <<sent, submits, held, SendFails>> /\ conn' = conn + 1 /\ conn + 1 \in Conns
  BY ClientAssumption DEF DialOK, IInv, ClientTypeOK, Conns
<1>2. held[conn + 1] = NoShare
  <2>1. wpc[conn + 1] # "write"
    BY <1>1, ClientAssumption DEF IInv, Writers, ClientTypeOK
  <2>. QED BY <1>1, <2>1 DEF IInv, Holds
<1>3. conn = 0 \/ held[conn] = NoShare
  <2>1. conn # 0 => conn \in Conns
    BY ClientAssumption DEF IInv, ClientTypeOK, Conns
  <2>2. conn # 0 => wpc[conn] = "done"
    BY <2>1 DEF DialOK, IInv, Writers
  <2>. QED BY <2>1, <2>2 DEF IInv, Holds
<1>. QED BY <1>1, <1>2, <1>3 DEF InHand, Trail, TrailStep

LEMMA StepTrail == IInv /\ [ClientNext]_clientVars => [TrailStep]_clientVars
<1>. SUFFICES ASSUME IInv, [ClientNext]_clientVars PROVE TrailStep
  OBVIOUS
<1>1. CASE UNCHANGED <<conn, held, sent, submits, SendFails>>
  BY <1>1 DEF TrailStep, Trail, InHand
<1>2. CASE \/ Run \/ DialFail \/ ReadFail \/ Join \/ Served \/ BackoffCancel
           \/ BackoffExpire \/ ReadJob \/ Cancel \/ UNCHANGED clientVars
  BY <1>1, <1>2 DEF Run, DialFail, ReadFail, Join, Served, BackoffCancel, BackoffExpire,
                    ReadJob, Cancel, clientVars, linkVars
<1>3. CASE DialOK
  BY <1>3, DialTrail
<1>4. CASE \E c \in Conns : Writer(c)
  BY <1>4, WriterTrail
<1>5. CASE \E s \in Shares : Enqueue(s)
  <2>. PICK s \in Shares : Enqueue(s)
    BY <1>5
  <2>1. InHand' = InHand /\ sent' = sent /\ submits' = Append(submits, s) /\ SendFails' = SendFails
    BY DEF Enqueue, linkVars, InHand
  <2>2. Trail' = Append(Trail, s)
    BY <2>1, JoinEnd, TrailTypes DEF Trail
  <2>. QED BY <2>1, <2>2 DEF TrailStep
<1>. QED BY <1>2, <1>3, <1>4, <1>5 DEF ClientNext, ClientStep, Reader

\* The mailbox, the writer's hand and the wire together are a queue that loses
\* nothing but the shares SendFails counts (client.go:97-146).
THEOREM QueueKept == ClientSpec => SharesKeepOrder
<1>1. ClientSpec => [][TrailStep]_clientVars
  BY Invariance, StepTrail, PTL DEF ClientSpec
<1>. QED BY <1>1 DEF TrailStep, SharesKeepOrder

-----------------------------------------------------------------------------
(* The gate, the job cell and the daemon.                                  *)

\* Of the jobs p pushed so far, x is a snapshot of some epoch's: its work, and
\* the target of the difficulty that came with it.
Of(x, p) ==
  /\ x.epoch \in DOMAIN p
  /\ x.work = p[x.epoch].work
  /\ x.target = ComputeTarget(p[x.epoch].diff)

Solution(s, p) ==
  /\ s.epoch \in DOMAIN p
  /\ s.work = p[s.epoch].work
  /\ s.cpu * p[s.epoch].diff <= HashSpace

InSubmit == mpc \in {"submit", "wait"}

\* The cell holds the job of the newest epoch.
JobsInv ==
  /\ Len(pushed) = cell.epoch /\ cell.epoch <= MaxEpoch
  /\ cell.epoch = MaxEpoch => tip.work = cell.work
  /\ cell.epoch > 0 => Of(cell, pushed)
  /\ cell.epoch = 0 => cell.work = NoWork /\ cell.target = 0

\* The loop's snapshot and the batch at the gate are of some epoch.
CtxInv ==
  /\ snap.epoch > 0 => Of(snap, pushed)
  /\ b # NoBatch => Of(b, pushed)
  /\ mpc = "gate" \/ InSubmit => b # NoBatch

\* The share being submitted, and every one submitted, is a solution.
ShareInv ==
  /\ InSubmit => sub \in Shares /\ Solution(sub, pushed)
  /\ OnlySolutionsSubmitted

GInv == IInv /\ GateTypeOK /\ JobsInv /\ CtxInv /\ ShareInv

-----------------------------------------------------------------------------
(* Arithmetic *)

\* Integer division rounds down.
LEMMA DivBound ==
  ASSUME NEW h \in Nat, NEW d \in Nat \ {0}
  PROVE  (h \div d) \in Nat /\ (h \div d) * d <= h
OBVIOUS

\* Multiplication by a number is monotone.
LEMMA Mono ==
  ASSUME NEW x \in Nat, NEW y \in Nat, NEW d \in Nat, x <= y
  PROVE  x * d <= y * d
OBVIOUS

\* ComputeTarget returns a number.
LEMMA TargetType == \A d \in Nat : ComputeTarget(d) \in Nat
BY HashSpaceAssumption DEF ComputeTarget

\* A hash that meets the target of a difficulty solves that difficulty.
LEMMA TargetSolves ==
  ASSUME NEW d \in Nat \ {0}, NEW pow \in Nat, MeetsTarget(pow, ComputeTarget(d))
  PROVE  pow * d <= HashSpace
<1>1. CASE d = 1
  BY <1>1, HashSpaceAssumption DEF MeetsTarget, ComputeTarget
<1>2. CASE d # 1
  <2>1. pow <= HashSpace \div d
    BY <1>2 DEF MeetsTarget, ComputeTarget
  <2>2. (HashSpace \div d) \in Nat /\ (HashSpace \div d) * d <= HashSpace
    BY DivBound, HashSpaceAssumption
  <2>3. pow * d <= (HashSpace \div d) * d
    BY <2>1, <2>2, Mono
  <2>4. pow * d \in Nat /\ (HashSpace \div d) * d \in Nat
    BY <2>2
  <2>. QED BY <2>2, <2>3, <2>4, HashSpaceAssumption
<1>. QED BY <1>1, <1>2

\* And a hash that solves a difficulty meets its target.
LEMMA SolutionMeets ==
  ASSUME NEW d \in Nat \ {0}, NEW pow \in 0..(HashSpace - 1), pow * d <= HashSpace
  PROVE  MeetsTarget(pow, ComputeTarget(d))
<1>1. CASE d = 1
  BY <1>1, HashSpaceAssumption DEF MeetsTarget, ComputeTarget
<1>2. CASE d # 1
  <2> DEFINE q == HashSpace \div d
  <2>1. q \in Nat /\ HashSpace < q * d + d
    BY HashSpaceAssumption
  <2>2. ASSUME q < pow PROVE FALSE
    <3>1. (q + 1) * d <= pow * d
      BY <2>1, <2>2, HashSpaceAssumption, Mono
    <3>2. (q + 1) * d = q * d + d /\ q * d \in Nat /\ pow * d \in Nat
      BY <2>1, HashSpaceAssumption
    <3>. QED BY <2>1, <3>1, <3>2, HashSpaceAssumption
  <2>. QED BY <1>2, <2>1, <2>2, HashSpaceAssumption DEF MeetsTarget, ComputeTarget
<1>. QED BY <1>1, <1>2

\* Row numbers of different batches fit the identities of shares.
LEMMA RowId ==
  ASSUME NEW no \in 1..MaxBatches, NEW k \in Rows
  PROVE  (no - 1) * BatchSize + k \in ShareIds
<1>. USE GateAssumption DEF Rows, ShareIds
<1>1. PICK m \in Nat : MaxBatches = no + m
  <2>1. MaxBatches - no \in Nat
    OBVIOUS
  <2>. QED BY <2>1
<1>2. MaxBatches * BatchSize = no * BatchSize + m * BatchSize /\ m * BatchSize \in Nat
  BY <1>1
<1>3. (no - 1) * BatchSize = no * BatchSize - BatchSize /\ (no - 1) * BatchSize \in Nat
  OBVIOUS
<1>. QED BY <1>2, <1>3

-----------------------------------------------------------------------------
(* The link *)

\* What the client does with shares neither makes nor alters one.
LEMMA QueuedShrinks ==
  ASSUME IInv, ClientStep \/ ReadJob
  PROVE  Queued' \subseteq Queued
<1>1. CASE UNCHANGED <<submits, sent, lost, held>>
  BY <1>1 DEF Queued, InRange
<1>2. CASE \E c \in Conns : Writer(c)
  <2>. PICK c \in Conns : Writer(c)
    BY <1>2
  <2>0. /\ submits \in Seq(Shares) /\ sent \in Seq(Shares)
        /\ held \in [Conns -> Shares \cup {NoShare}]
        /\ wpc[c] = "write" => held[c] # NoShare
    BY DEF IInv, ClientTypeOK, Holds
  <2>1. CASE WriterCancel(c) \/ WriterReleased(c)
    BY <1>1, <2>1 DEF WriterCancel, WriterReleased
  <2>2. CASE WriterTake(c)
    <3>1. InRange(Tail(submits)) \cup {Head(submits)} \subseteq InRange(submits)
      BY <2>0, <2>2 DEF WriterTake, InRange
    <3>2. {held'[d] : d \in {e \in Conns : held'[e] # NoShare}}
            \subseteq {held[d] : d \in {e \in Conns : held[e] # NoShare}} \cup {Head(submits)}
      BY <2>0, <2>2 DEF WriterTake
    <3>. QED BY <2>2, <3>1, <3>2 DEF WriterTake, Queued, InRange
  <2>3. CASE WriteOK(c) \/ WriteFail(c)
    <3>1. held[c] \in {held[d] : d \in {e \in Conns : held[e] # NoShare}}
      BY <2>0, <2>3 DEF WriteOK, WriteFail
    <3>2. InRange(Append(sent, held[c])) \subseteq InRange(sent) \cup {held[c]}
      BY <2>0 DEF InRange
    <3>3. {held'[d] : d \in {e \in Conns : held'[e] # NoShare}}
            \subseteq {held[d] : d \in {e \in Conns : held[e] # NoShare}}
      BY <2>0, <2>3 DEF WriteOK, WriteFail
    <3>. QED BY <2>3, <3>1, <3>2, <3>3 DEF WriteOK, WriteFail, GiveUpShare, Queued, InRange
  <2>. QED BY <2>1, <2>2, <2>3 DEF Writer
<1>3. CASE Reader \/ Cancel \/ ReadJob
  BY <1>1, <1>3 DEF Reader, Run, DialFail, DialOK, ReadFail, Join, Served,
                    BackoffCancel, BackoffExpire, Cancel, ReadJob
<1>. QED BY <1>2, <1>3 DEF ClientStep

\* Steps that leave the client alone.
LEMMA ClientKept == ASSUME IInv, UNCHANGED clientVars PROVE IInv' /\ Queued' = Queued
<1>1. IInv'
  BY DEF clientVars, linkVars, IInv, ClientTypeOK, Writers, Sockets, Holds, NoZombieLink
<1>2. Queued' = Queued
  BY DEF clientVars, Queued, InRange
<1>. QED BY <1>1, <1>2

\* A push that is appended changes no earlier job.
LEMMA Appended ==
  ASSUME NEW p \in Seq(Templates), NEW t \in Templates, NEW x
  PROVE  /\ Of(x, p) => Of(x, Append(p, t))
         /\ Solution(x, p) => Solution(x, Append(p, t))
<1>1. \A e \in DOMAIN p : e \in DOMAIN Append(p, t) /\ Append(p, t)[e] = p[e]
  OBVIOUS
<1>. QED BY <1>1 DEF Of, Solution

\* OnlySolutionsSubmitted in terms of Solution.
LEMMA Solutions == OnlySolutionsSubmitted <=> \A s \in Queued : Solution(s, pushed)
BY DEF OnlySolutionsSubmitted, Solution

\* Client steps that install no job.
LEMMA LinkInv == ASSUME GInv, Link(ClientStep) PROVE GInv'
<1>. USE DEF Link, jobVars, gateVars, counters
<1>1. IInv' /\ Queued' \subseteq Queued
  BY ClientStepInv, QueuedShrinks DEF GInv
<1>2. GateTypeOK' /\ JobsInv'
  BY DEF GInv, GateTypeOK, JobsInv, Of
<1>3. CtxInv'
  BY DEF GInv, CtxInv, InSubmit, Of
<1>4. ShareInv'
  BY <1>1, Solutions DEF GInv, ShareInv, InSubmit, OnlySolutionsSubmitted, Solution
<1>. QED BY <1>1, <1>2, <1>3, <1>4 DEF GInv

\* The daemon turns to another job.
LEMMA RotateInv == ASSUME GInv, Rotate PROVE GInv'
<1>. USE DEF Rotate, gateVars, counters
<1>1. IInv' /\ Queued' = Queued
  BY ClientKept DEF GInv
<1>2. GateTypeOK'
  BY DEF GInv, GateTypeOK
<1>3. JobsInv'
  BY DEF GInv, JobsInv, Of
<1>4. CtxInv'
  BY DEF GInv, CtxInv, InSubmit, Of
<1>5. ShareInv'
  BY <1>1 DEF GInv, ShareInv, InSubmit, OnlySolutionsSubmitted, Solution
<1>. QED BY <1>1, <1>2, <1>3, <1>4, <1>5 DEF GInv

\* A push that brings new work.
LEMMA NewJobInv == ASSUME GInv, OnJob, tip.work # cell.work PROVE GInv'
<1>1. /\ cell \in Cells /\ tip \in Templates /\ pushed \in Seq(Templates)
      /\ tip.diff \in Nat /\ ComputeTarget(tip.diff) \in Nat
      /\ cell.epoch \in Nat /\ Len(pushed) = cell.epoch /\ cell.epoch < MaxEpoch
  <2>1. /\ cell \in Cells /\ tip \in Templates /\ pushed \in Seq(Templates)
        /\ Len(pushed) = cell.epoch /\ cell.epoch <= MaxEpoch /\ cell.epoch # MaxEpoch
    BY DEF GInv, GateTypeOK, JobsInv
  <2>2. tip.diff \in Nat /\ cell.epoch \in Nat
    BY <2>1, CellAssumption DEF Cells, Templates
  <2>3. ComputeTarget(tip.diff) \in Nat
    BY <2>2, TargetType
  <2>4. cell.epoch < MaxEpoch
    BY <2>1, <2>2, CellAssumption
  <2>. QED BY <2>1, <2>2, <2>3, <2>4
<1>2. cell' = [work |-> tip.work, target |-> ComputeTarget(tip.diff), epoch |-> cell.epoch + 1]
  BY DEF OnJob, SetJob
<1>3. cell' # cell
  BY <1>1, <1>2
<1>4. pushed' = Append(pushed, tip) /\ UNCHANGED <<tip, snap, gateVars>> /\ ReadJob
  BY <1>3 DEF OnJob
<1>5. /\ pushed' \in Seq(Templates) /\ Len(pushed') = cell.epoch + 1
      /\ cell.epoch + 1 \in DOMAIN pushed' /\ pushed'[cell.epoch + 1] = tip
  BY <1>1, <1>4
<1>6. IInv' /\ Queued' \subseteq Queued
  BY <1>4, ClientStepInv, QueuedShrinks DEF GInv
<1>7. \A x : /\ Of(x, pushed) => Of(x, pushed')
             /\ Solution(x, pushed) => Solution(x, pushed')
  BY <1>1, <1>4, Appended
<1>8. GateTypeOK'
  <2>1. cell' \in Cells
    BY <1>1, <1>2 DEF Cells, Templates
  <2>. QED BY <1>4, <1>5, <2>1 DEF GInv, GateTypeOK, gateVars, counters
<1>9. JobsInv'
  <2>1. Of(cell', pushed')
    BY <1>2, <1>5 DEF Of
  <2>. QED BY <1>1, <1>2, <1>4, <1>5, <2>1, CellAssumption DEF JobsInv
<1>10. CtxInv'
  BY <1>4, <1>7 DEF GInv, CtxInv, InSubmit, gateVars
<1>11. ShareInv'
  <2>1. \A s \in Queued' : Solution(s, pushed')
    BY <1>6, <1>7, Solutions DEF GInv, ShareInv
  <2>2. OnlySolutionsSubmitted'
    BY <2>1 DEF OnlySolutionsSubmitted, Solution
  <2>. QED BY <1>4, <1>7, <2>2 DEF GInv, ShareInv, InSubmit, gateVars
<1>. QED BY <1>6, <1>8, <1>9, <1>10, <1>11 DEF GInv

\* A push of the current work, whatever its difficulty.
LEMMA SameJobInv == ASSUME GInv, OnJob, tip.work = cell.work PROVE GInv'
<1>. USE DEF gateVars, counters
<1>1. UNCHANGED <<tip, cell, pushed, snap, gateVars>> /\ ReadJob
  BY DEF OnJob, SetJob
<1>2. IInv' /\ Queued' \subseteq Queued
  BY <1>1, ClientStepInv, QueuedShrinks DEF GInv
<1>3. GateTypeOK' /\ JobsInv'
  BY <1>1 DEF GInv, GateTypeOK, JobsInv, Of
<1>4. CtxInv'
  BY <1>1 DEF GInv, CtxInv, InSubmit, Of
<1>5. ShareInv'
  BY <1>1, <1>2, Solutions DEF GInv, ShareInv, InSubmit, OnlySolutionsSubmitted, Solution
<1>. QED BY <1>2, <1>3, <1>4, <1>5 DEF GInv

\* The daemon and the link keep the invariant.
LEMMA EnvironmentInv == ASSUME GInv, Environment PROVE GInv'
BY LinkInv, RotateInv, NewJobInv, SameJobInv DEF Environment

-----------------------------------------------------------------------------
(* The gate and submitShare *)

\* A step of the mine loop that touches neither link nor jobs nor batch, and
\* after which no share is being submitted.
LEMMA QuietInv ==
  ASSUME GInv, GateTypeOK', UNCHANGED <<clientVars, jobVars, snap, b>>,
         mpc' = "gate" => b # NoBatch, ~InSubmit'
  PROVE  GInv'
<1>1. IInv' /\ Queued' = Queued
  BY ClientKept DEF GInv
<1>2. JobsInv' /\ CtxInv'
  BY DEF GInv, JobsInv, CtxInv, Of, jobVars
<1>3. ShareInv'
  BY <1>1 DEF GInv, ShareInv, OnlySolutionsSubmitted, jobVars
<1>. QED BY <1>1, <1>2, <1>3 DEF GInv

\* On to the next row.
LEMMA NextRowType ==
  ASSUME i \in Rows, NextRow
  PROVE  i' \in Rows /\ mpc' \in {"gate", "done"}
BY GateAssumption DEF Rows, NextRow

\* So do the rows that do not pass the gate.
LEMMA GateInvs ==
  ASSUME GInv, NEW r \in Candidates, GateMiss(r) \/ GateRotated(r) \/ GateMiscompute(r)
  PROVE  GInv'
<1>. USE DEF counters
<1>1. UNCHANGED <<clientVars, jobVars, snap, b>> /\ b # NoBatch /\ ~InSubmit'
  BY DEF GateMiss, GateRotated, GateMiscompute, NextRow, GInv, CtxInv, InSubmit
<1>2. i \in Rows /\ 1 \in Rows
  BY GateAssumption DEF GInv, GateTypeOK, Rows
<1>3. i' \in Rows
  BY <1>2, NextRowType DEF GateMiss, GateRotated, GateMiscompute
<1>4. CASE GateMiss(r)
  <2>1. GateTypeOK'
    BY <1>3, <1>4 DEF GateMiss, GInv, GateTypeOK, jobVars
  <2>. QED BY <1>1, <2>1, QuietInv
<1>5. CASE GateRotated(r)
  <2>1. GateTypeOK'
    BY <1>3, <1>5 DEF GateRotated, GInv, GateTypeOK, jobVars
  <2>. QED BY <1>1, <2>1, QuietInv
<1>6. CASE GateMiscompute(r)
  <2>1. GateTypeOK'
    BY <1>3, <1>6 DEF GateMiscompute, GInv, GateTypeOK, jobVars
  <2>. QED BY <1>1, <2>1, QuietInv
<1>. QED BY <1>4, <1>5, <1>6

\* A context of some epoch has a real epoch number.
LEMMA BatchInRange ==
  ASSUME GInv, b # NoBatch
  PROVE  /\ b \in BatchCtxs /\ Of(b, pushed)
         /\ pushed[b.epoch].work \in Works /\ pushed[b.epoch].diff \in Nat \ {0}
<1>1. b \in BatchCtxs /\ Of(b, pushed) /\ pushed \in Seq(Templates)
  BY DEF GInv, GateTypeOK, CtxInv
<1>2. pushed[b.epoch] \in Templates
  BY <1>1 DEF Of
<1>. QED BY <1>1, <1>2, CellAssumption DEF Templates

\* What passes the gate is a solution of the job it was hashed for, and of the
\* difficulty pushed with that job.
LEMMA GateSubmitInv == ASSUME GInv, NEW r \in Candidates, GateSubmit(r) PROVE GInv'
<1>1. b # NoBatch /\ mpc' = "submit" /\ sub' = Share(r)
      /\ UNCHANGED <<clientVars, jobVars, snap, b>>
  BY DEF GateSubmit, GInv, CtxInv
<1>2. /\ b \in BatchCtxs /\ Of(b, pushed)
      /\ pushed[b.epoch].work \in Works /\ pushed[b.epoch].diff \in Nat \ {0}
  BY <1>1, BatchInRange
<1>3. r.cpu \in Pows /\ r.cpu \in Nat /\ r.gpu = r.cpu /\ MeetsTarget(r.cpu, b.target)
  <2>1. r.cpu \in Pows /\ r.gpu = r.cpu /\ MeetsTarget(r.cpu, b.target)
    BY DEF GateSubmit, Meets, RehashOK, Candidates
  <2>2. r.cpu \in 0..(HashSpace - 1)
    BY <2>1, GateAssumption
  <2>3. r.cpu \in Nat
    BY <2>2, HashSpaceAssumption
  <2>. QED BY <2>1, <2>3
<1>4. Share(r) \in Shares
  <2>1. b.no \in 1..MaxBatches /\ b.work \in Works /\ b.epoch \in 1..MaxEpoch /\ i \in Rows
    BY <1>2 DEF BatchCtxs, GInv, GateTypeOK
  <2>2. (b.no - 1) * BatchSize + i \in ShareIds
    BY <2>1, RowId
  <2>. QED BY <1>3, <2>1, <2>2, GateAssumption DEF Share
<1>5. Solution(Share(r), pushed)
  <2>1. MeetsTarget(r.cpu, ComputeTarget(pushed[b.epoch].diff))
    BY <1>2, <1>3 DEF Of
  <2>2. r.cpu * pushed[b.epoch].diff <= HashSpace
    BY <1>2, <1>3, <2>1, TargetSolves
  <2>. QED BY <1>2, <2>2 DEF Solution, Of, Share
<1>6. IInv' /\ Queued' = Queued
  BY <1>1, ClientKept DEF GInv
<1>7. GateTypeOK'
  BY <1>1, <1>4 DEF GateSubmit, GInv, GateTypeOK, jobVars
<1>8. JobsInv' /\ CtxInv'
  BY <1>1 DEF GInv, JobsInv, CtxInv, Of, jobVars
<1>9. ShareInv'
  BY <1>1, <1>4, <1>5, <1>6 DEF GInv, ShareInv, OnlySolutionsSubmitted, jobVars
<1>. QED BY <1>6, <1>7, <1>8, <1>9 DEF GInv

\* At the gate of either loop the target is the pushed difficulty's.
LEMMA GateExact == ASSUME GInv PROVE GateIsExact
<1>. SUFFICES ASSUME mpc = "gate"
              PROVE  /\ b.epoch \in DOMAIN pushed
                     /\ \A pow \in Pows : MeetsTarget(pow, b.target) <=> pow * pushed[b.epoch].diff <= HashSpace
  BY DEF GateIsExact
<1>1. Of(b, pushed)
  BY DEF GInv, CtxInv
<1>2. pushed[b.epoch].diff \in Nat \ {0}
  <2>1. b.epoch \in DOMAIN pushed
    BY <1>1 DEF Of
  <2>2. pushed \in Seq(Templates)
    BY DEF GInv, GateTypeOK
  <2>3. pushed[b.epoch] \in Templates
    BY <2>1, <2>2
  <2>. QED BY <2>3, CellAssumption DEF Templates
<1>3. ASSUME NEW pow \in Pows
      PROVE  MeetsTarget(pow, b.target) <=> pow * pushed[b.epoch].diff <= HashSpace
  <2>1. pow \in 0..(HashSpace - 1) /\ pow \in Nat
    BY GateAssumption, HashSpaceAssumption
  <2>. QED BY <1>1, <1>2, <2>1, TargetSolves, SolutionMeets DEF Of
<1>. QED BY <1>1, <1>3 DEF Of

\* The share enters the mailbox.
LEMMA SendInv == ASSUME GInv, Send PROVE GInv'
<1>1. /\ Enqueue(sub) /\ NextRow /\ sub' = NoShare
      /\ UNCHANGED <<jobVars, snap, b, reprobed>>
      /\ InSubmit /\ sub \in Shares /\ Solution(sub, pushed) /\ b # NoBatch
  BY DEF Send, Return, GInv, ShareInv, CtxInv, InSubmit
<1>2. IInv'
  BY <1>1, OutsideInv DEF GInv
<1>3. Queued' \subseteq Queued \cup {sub}
  <2>1. submits \in Seq(Shares)
    BY DEF GInv, IInv, ClientTypeOK
  <2>2. InRange(Append(submits, sub)) \subseteq InRange(submits) \cup {sub}
    BY <1>1, <2>1 DEF InRange
  <2>. QED BY <1>1, <2>2 DEF Enqueue, Queued, InRange
<1>4. i' \in Rows /\ mpc' \in {"gate", "done"}
  BY <1>1, NextRowType DEF GInv, GateTypeOK
<1>5. GateTypeOK'
  BY <1>1, <1>4 DEF Send, GInv, GateTypeOK, jobVars
<1>6. JobsInv' /\ CtxInv'
  BY <1>1, <1>4 DEF GInv, JobsInv, CtxInv, InSubmit, Of, jobVars
<1>7. ShareInv'
  <2>1. \A s \in Queued' : Solution(s, pushed)
    BY <1>1, <1>3, Solutions DEF GInv, ShareInv
  <2>. QED BY <1>1, <1>4, <2>1 DEF ShareInv, OnlySolutionsSubmitted, Solution, InSubmit, jobVars
<1>. QED BY <1>2, <1>5, <1>6, <1>7 DEF GInv

\* So does submitShare, whichever way it ends.
LEMMA SubmitShareInv == ASSUME GInv, SubmitShare PROVE GInv'
<1>1. CASE Send
  BY <1>1, SendInv
<1>2. CASE Backpressure
  <2>1. IInv' /\ Queued' = Queued
    BY <1>2, ClientKept DEF Backpressure, GInv
  <2>2. GateTypeOK'
    BY <1>2 DEF Backpressure, GInv, GateTypeOK, jobVars, counters
  <2>3. JobsInv' /\ CtxInv'
    BY <1>2 DEF Backpressure, GInv, JobsInv, CtxInv, InSubmit, Of, jobVars
  <2>4. ShareInv'
    BY <1>2, <2>1 DEF Backpressure, GInv, ShareInv, InSubmit, OnlySolutionsSubmitted, jobVars
  <2>. QED BY <2>1, <2>2, <2>3, <2>4 DEF GInv
<1>3. CASE Abandon \/ WaitCancelled
  <2>1. /\ UNCHANGED <<clientVars, jobVars, snap, b, reprobed>> /\ NextRow /\ sub' = NoShare
        /\ b # NoBatch
    BY <1>3 DEF Abandon, WaitCancelled, Return, GInv, CtxInv, InSubmit
  <2>2. i' \in Rows /\ mpc' \in {"gate", "done"}
    BY <2>1, NextRowType DEF GInv, GateTypeOK
  <2>3. GateTypeOK'
    BY <1>3, <2>1, <2>2 DEF Abandon, WaitCancelled, GInv, GateTypeOK, jobVars
  <2>. QED BY <2>1, <2>2, <2>3, QuietInv DEF InSubmit
<1>. QED BY <1>1, <1>2, <1>3 DEF SubmitShare

\* Every step both loops share.
LEMMA SharedInv ==
  ASSUME GInv, Environment \/ SubmitShare \/ \E r \in Candidates : Gate(r)
  PROVE  GInv'
BY EnvironmentInv, SubmitShareInv, GateInvs, GateSubmitInv DEF Gate

-----------------------------------------------------------------------------
(* Late shares *)

\* Once a share of this batch was queued late the batch is stale for good, and
\* the gate lets no second one through.
LateInv ==
  /\ late \in {0, 1}
  /\ late = 1 => b # NoBatch /\ b.epoch < cell.epoch /\ ~InSubmit
  /\ mpc \in {"job", "hash", "drain"} => late = 0

\* It bounds the late shares of a batch.
LEMMA LateSafe == LateInv => AtMostOneLate
BY DEF LateInv, AtMostOneLate

\* Epochs only grow.
LEMMA EpochGrows ==
  ASSUME GInv, Environment
  PROVE  cell'.epoch >= cell.epoch /\ UNCHANGED <<mpc, b, late>>
<1>1. cell.epoch \in Nat
  BY DEF GInv, GateTypeOK, Cells
<1>2. CASE OnJob
  BY <1>1, <1>2 DEF OnJob, SetJob, gateVars, counters
<1>3. CASE Rotate \/ Link(ClientStep)
  BY <1>1, <1>3 DEF Rotate, Link, jobVars, gateVars, counters
<1>. QED BY <1>2, <1>3 DEF Environment

\* Every step the loops share keeps it.
LEMMA LateStep ==
  ASSUME GInv, LateInv, Environment \/ SubmitShare \/ \E r \in Candidates : Gate(r)
  PROVE  LateInv'
<1>1. cell.epoch \in Nat /\ (b # NoBatch => b.epoch \in Nat /\ b.epoch <= cell.epoch)
  <2>1. cell.epoch \in Nat /\ Len(pushed) = cell.epoch /\ pushed \in Seq(Templates)
    BY DEF GInv, GateTypeOK, JobsInv, Cells
  <2>. QED BY <2>1 DEF GInv, CtxInv, Of
<1>2. CASE Environment
  <2>1. cell'.epoch \in Nat
    BY <1>2, EnvironmentInv DEF GInv, GateTypeOK, Cells
  <2>. QED BY <1>1, <1>2, <2>1, EpochGrows DEF LateInv, InSubmit
<1>3. CASE Send
  <2>1. late = 0 /\ b # NoBatch /\ UNCHANGED <<b, cell>>
        /\ late' = (IF Fresh THEN 0 ELSE 1) /\ mpc' \in {"gate", "done"}
    BY <1>3 DEF Send, Return, NextRow, GInv, CtxInv, InSubmit, LateInv, jobVars
  <2>. QED BY <1>1, <2>1 DEF LateInv, InSubmit, Fresh
<1>4. CASE Backpressure
  BY <1>4 DEF Backpressure, LateInv, InSubmit, jobVars, counters
<1>5. CASE Abandon \/ WaitCancelled
  BY <1>5 DEF Abandon, WaitCancelled, Return, NextRow, LateInv, InSubmit, jobVars
<1>6. CASE \E r \in Candidates : GateSubmit(r)
  <2>1. late = 0
    BY <1>1, <1>6 DEF GateSubmit, GateFresh, Fresh, LateInv
  <2>. QED BY <1>6, <2>1 DEF GateSubmit, LateInv, jobVars
<1>7. CASE \E r \in Candidates : GateMiss(r) \/ GateRotated(r) \/ GateMiscompute(r)
  BY <1>7 DEF GateMiss, GateRotated, GateMiscompute, NextRow, LateInv, InSubmit,
              jobVars, counters
<1>. QED BY <1>2, <1>3, <1>4, <1>5, <1>6, <1>7 DEF SubmitShare, Gate

-----------------------------------------------------------------------------
(* Counting shares *)

Holders == {c \in Conns : held[c] # NoShare}
Traffic == Len(submits) + Cardinality(Holders) + Len(sent) + SendFails

\* The writers' hands can be counted.
LEMMA HoldersFinite == IsFiniteSet(Holders) /\ Cardinality(Holders) \in Nat
<1>1. IsFiniteSet(Conns)
  BY ClientAssumption, FS_Interval DEF Conns
<1>2. IsFiniteSet(Holders)
  BY <1>1, FS_Subset DEF Holders
<1>. QED BY <1>2, FS_CardinalityType

\* The client moves shares along; it neither makes nor loses count of one.
LEMMA TrafficKept == ASSUME IInv, ClientStep \/ ReadJob PROVE Traffic' = Traffic
<1>1. CASE UNCHANGED <<submits, sent, held, SendFails>>
  BY <1>1 DEF Traffic, Holders
<1>2. CASE \E c \in Conns : Writer(c)
  <2>. PICK c \in Conns : Writer(c)
    BY <1>2
  <2>0. /\ submits \in Seq(Shares) /\ sent \in Seq(Shares) /\ SendFails \in Nat
        /\ held \in [Conns -> Shares \cup {NoShare}] /\ NoShare \notin Shares
        /\ wpc[c] = "write" <=> c \in Holders
        /\ Cardinality(Holders) \in Nat
    BY ClientAssumption, HoldersFinite DEF IInv, ClientTypeOK, Holds, Holders
  <2>1. CASE WriterCancel(c) \/ WriterReleased(c)
    BY <1>1, <2>1 DEF WriterCancel, WriterReleased
  <2>2. CASE WriterTake(c)
    <3>1. submits # <<>> /\ Head(submits) \in Shares /\ Len(submits') = Len(submits) - 1
      BY <2>0, <2>2 DEF WriterTake
    <3>2. Holders' = Holders \cup {c} /\ c \notin Holders
      BY <2>0, <2>2, <3>1 DEF WriterTake, Holders
    <3>3. Cardinality(Holders') = Cardinality(Holders) + 1
      BY <3>2, HoldersFinite, FS_AddElement
    <3>4. Len(submits) \in Nat /\ Len(sent) \in Nat
      BY <2>0
    <3>. QED BY <2>0, <2>2, <3>1, <3>3, <3>4 DEF WriterTake, Traffic
  <2>3. CASE WriteOK(c) \/ WriteFail(c)
    <3>1. Holders' = Holders \ {c} /\ c \in Holders
      BY <2>0, <2>3 DEF WriteOK, WriteFail, Holders
    <3>2. Cardinality(Holders') = Cardinality(Holders) - 1
      BY <3>1, HoldersFinite, FS_RemoveElement
    <3>3. Len(submits) \in Nat /\ Len(sent) \in Nat
      BY <2>0
    <3>4. CASE WriteOK(c)
      <4>1. Len(sent') = Len(sent) + 1
        BY <2>0, <3>4 DEF WriteOK
      <4>2. UNCHANGED <<submits, SendFails>>
        BY <3>4 DEF WriteOK
      <4>3. SendFails \in Nat /\ Cardinality(Holders) \in Nat
        BY <2>0
      <4>. QED BY <3>2, <3>3, <4>1, <4>2, <4>3 DEF Traffic
    <3>5. CASE WriteFail(c)
      <4>1. UNCHANGED <<submits, sent>> /\ SendFails' = SendFails + 1
        BY <3>5 DEF WriteFail, GiveUpShare
      <4>2. SendFails \in Nat /\ Cardinality(Holders) \in Nat
        BY <2>0
      <4>. QED BY <3>2, <3>3, <4>1, <4>2 DEF Traffic
    <3>. QED BY <2>3, <3>4, <3>5
  <2>. QED BY <2>1, <2>2, <2>3 DEF Writer
<1>3. CASE Reader \/ Cancel \/ ReadJob
  BY <1>1, <1>3 DEF Reader, Run, DialFail, DialOK, ReadFail, Join, Served,
                    BackoffCancel, BackoffExpire, Cancel, ReadJob
<1>. QED BY <1>2, <1>3 DEF ClientStep

\* SharesAccounted in terms of Traffic.
LEMMA Accounted ==
  SharesAccounted <=>
    /\ found = Submitted + Stale + cut + (IF InSubmit THEN 1 ELSE 0)
    /\ Submitted = Traffic
BY DEF SharesAccounted, InSubmit, Traffic, Holders

\* Steps that count no share.
LEMMA UncountedStep ==
  ASSUME SharesAccounted, UNCHANGED <<found, Submitted, Stale, cut>>,
         InSubmit' <=> InSubmit, Traffic' = Traffic
  PROVE  SharesAccounted'
BY Accounted DEF SharesAccounted, InSubmit, Traffic, Holders

\* Every step the loops share keeps the accounts.
LEMMA AccountStep ==
  ASSUME GInv, SharesAccounted, Environment \/ SubmitShare \/ \E r \in Candidates : Gate(r)
  PROVE  SharesAccounted'
<1>0. found \in Nat /\ Submitted \in Nat /\ Stale \in Nat /\ cut \in Nat
  BY DEF GInv, GateTypeOK
<1>00. ASSUME UNCHANGED clientVars PROVE Traffic' = Traffic
  BY <1>00 DEF clientVars, Traffic, Holders
<1>1. CASE Environment
  <2>1. UNCHANGED <<found, Submitted, Stale, cut, mpc>>
    BY <1>1 DEF Environment, Rotate, OnJob, Link, gateVars, counters
  <2>2. Traffic' = Traffic
    BY <1>1, <1>00, TrafficKept DEF Environment, Rotate, OnJob, Link, GInv
  <2>. QED BY <2>1, <2>2, UncountedStep DEF InSubmit
<1>2. CASE Send
  <2>1. /\ found' = found /\ Stale' = Stale /\ cut' = cut /\ Submitted' = Submitted + 1
        /\ InSubmit /\ ~InSubmit' /\ Enqueue(sub)
    BY <1>2 DEF Send, Return, NextRow, InSubmit
  <2>2. Traffic' = Traffic + 1
    <3>1. submits \in Seq(Shares) /\ sub \in Shares
      BY <2>1 DEF GInv, IInv, ClientTypeOK, ShareInv
    <3>2. Len(submits') = Len(submits) + 1 /\ Len(submits) \in Nat
      BY <2>1, <3>1 DEF Enqueue
    <3>3. Len(sent) \in Nat /\ SendFails \in Nat
      BY DEF GInv, IInv, ClientTypeOK
    <3>4. UNCHANGED <<sent, held, SendFails>>
      BY <2>1 DEF Enqueue
    <3>. QED BY <3>2, <3>3, <3>4, HoldersFinite DEF Traffic, Holders
  <2>3. found = Submitted + Stale + cut + 1 /\ Submitted = Traffic
    BY <2>1, Accounted
  <2>4. found' = Submitted' + Stale' + cut' + 0 /\ Submitted' = Traffic'
    BY <1>0, <2>1, <2>2, <2>3
  <2>. QED BY <2>1, <2>4 DEF SharesAccounted, InSubmit, Traffic, Holders
<1>3. CASE Backpressure
  <2>1. UNCHANGED <<found, Submitted, Stale, cut>> /\ InSubmit /\ InSubmit'
    BY <1>3 DEF Backpressure, InSubmit, counters
  <2>. QED BY <1>00, <1>3, <2>1, UncountedStep DEF Backpressure
<1>4. CASE Abandon \/ WaitCancelled
  <2>1. /\ \/ Stale' = Stale + 1 /\ cut' = cut
           \/ Stale' = Stale /\ cut' = cut + 1
        /\ UNCHANGED <<clientVars, found, Submitted>> /\ InSubmit /\ ~InSubmit'
    BY <1>0, <1>4 DEF Abandon, WaitCancelled, Return, NextRow, InSubmit
  <2>2. found = Submitted + Stale + cut + 1 /\ Submitted = Traffic /\ Traffic' = Traffic
    BY <1>00, <2>1, Accounted
  <2>3. found' = found /\ Submitted' = Submitted
    BY <2>1
  <2>4. Submitted + Stale' + cut' + 0 = Submitted + Stale + cut + 1
    BY <1>0, <2>1
  <2>. QED BY <2>1, <2>2, <2>3, <2>4 DEF SharesAccounted, InSubmit, Traffic, Holders
<1>5. CASE \E r \in Candidates : GateSubmit(r)
  <2>1. /\ found' = found + 1 /\ UNCHANGED <<clientVars, Submitted, Stale, cut>>
        /\ ~InSubmit /\ InSubmit'
    BY <1>5 DEF GateSubmit, InSubmit
  <2>2. found = Submitted + Stale + cut + 0 /\ Submitted = Traffic /\ Traffic' = Traffic
    BY <1>00, <2>1, Accounted
  <2>3. found' = Submitted' + Stale' + cut' + 1 /\ Submitted' = Traffic'
    BY <1>0, <2>1, <2>2
  <2>. QED BY <2>1, <2>3 DEF SharesAccounted, InSubmit, Traffic, Holders
<1>6. CASE \E r \in Candidates : GateMiss(r) \/ GateRotated(r) \/ GateMiscompute(r)
  <2>1. UNCHANGED <<clientVars, found, Submitted, Stale, cut>> /\ ~InSubmit /\ ~InSubmit'
    BY <1>6 DEF GateMiss, GateRotated, GateMiscompute, NextRow, InSubmit, counters
  <2>. QED BY <1>00, <2>1, UncountedStep
<1>. QED BY <1>1, <1>2, <1>3, <1>4, <1>5, <1>6 DEF SubmitShare, Gate

-----------------------------------------------------------------------------
(* What both loops keep, and the steps of a loop as the gate sees them *)

SInv == GInv /\ LateInv /\ SharesAccounted

\* The invariant of both loops holds at the start.
LEMMA GateInitInv == GateInit => SInv
<1>. SUFFICES ASSUME GateInit PROVE SInv
  OBVIOUS
<1>. USE DEF GateInit, ClientInit, CellInit, EmptyCell
<1>1. IInv
  BY InitInv
<1>2. GateTypeOK
  <2>1. /\ cell \in Cells /\ snap \in Cells /\ i \in Rows
        /\ tip \in Templates /\ pushed \in Seq(Templates)
    BY GateAssumption DEF Cells, Rows
  <2>. QED BY <2>1 DEF GateTypeOK
<1>3. JobsInv
  BY CellAssumption, GateAssumption DEF JobsInv
<1>4. CtxInv
  BY DEF CtxInv, InSubmit
<1>5. Queued = {}
  BY DEF Queued, InRange
<1>6. ShareInv
  BY <1>5 DEF ShareInv, InSubmit, OnlySolutionsSubmitted
<1>7. LateInv
  BY DEF LateInv
<1>8. SharesAccounted
  <2>1. Holders = {}
    BY DEF Holders
  <2>2. Cardinality(Holders) = 0
    BY <2>1, FS_EmptySet
  <2>. QED BY <2>2 DEF SharesAccounted, Holders
<1>. QED BY <1>1, <1>2, <1>3, <1>4, <1>6, <1>7, <1>8 DEF SInv, GInv

\* The steps the loops share keep it.
LEMMA SharedStep ==
  ASSUME SInv, Environment \/ SubmitShare \/ \E r \in Candidates : Gate(r)
  PROVE  SInv'
BY SharedInv, LateStep, AccountStep DEF SInv

\* A step of the loop outside processBatch; it may take a snapshot.
LEMMA IdleStep ==
  ASSUME SInv, UNCHANGED <<clientVars, jobVars, b, i, sub, reprobed, counters>>,
         snap' = snap \/ snap' = cell,
         mpc \in {"job", "hash", "drain"},
         mpc' \in {"job", "hash", "drain", "done", "exit", "fatal"}
  PROVE  SInv'
<1>. USE DEF SInv, jobVars, counters
<1>1. IInv' /\ Queued' = Queued
  BY ClientKept DEF GInv
<1>2. GateTypeOK'
  BY DEF GInv, GateTypeOK
<1>3. JobsInv' /\ CtxInv'
  BY DEF GInv, JobsInv, CtxInv, InSubmit, Of
<1>4. ShareInv'
  BY <1>1 DEF GInv, ShareInv, InSubmit, OnlySolutionsSubmitted
<1>5. LateInv'
  BY DEF LateInv, InSubmit
<1>6. SharesAccounted'
  <2>1. Traffic' = Traffic /\ ~InSubmit /\ ~InSubmit'
    BY DEF Traffic, Holders, clientVars, InSubmit
  <2>. QED BY <2>1, UncountedStep
<1>. QED BY <1>1, <1>2, <1>3, <1>4, <1>5, <1>6 DEF GInv

\* processBatch is called with the context of some epoch.
LEMMA ProcessStep ==
  ASSUME SInv, UNCHANGED <<clientVars, jobVars, snap>>, mpc \in {"job", "hash", "drain"},
         NEW ctx \in BatchCtxs, Of(ctx, pushed), ProcessBatch(ctx)
  PROVE  SInv'
<1>. USE DEF SInv, jobVars
<1>0. ctx # NoBatch /\ b' = ctx /\ mpc' \in {"gate", "done"}
  BY DEF BatchCtxs, NoBatch, ProcessBatch
<1>1. IInv' /\ Queued' = Queued
  BY ClientKept DEF GInv
<1>2. GateTypeOK'
  <2>1. TotalHashes' \in Nat /\ i' \in Rows
    BY GateAssumption DEF ProcessBatch, Rows, GInv, GateTypeOK
  <2>. QED BY <1>0, <2>1 DEF ProcessBatch, GInv, GateTypeOK
<1>3. JobsInv' /\ CtxInv'
  BY <1>0 DEF GInv, JobsInv, CtxInv, InSubmit, Of
<1>4. ShareInv'
  BY <1>0, <1>1 DEF GInv, ShareInv, InSubmit, OnlySolutionsSubmitted
<1>5. LateInv'
  BY <1>0 DEF ProcessBatch, LateInv
<1>6. SharesAccounted'
  <2>1. Traffic' = Traffic /\ ~InSubmit /\ ~InSubmit'
    BY <1>0 DEF Traffic, Holders, clientVars, InSubmit
  <2>. QED BY <2>1, UncountedStep DEF ProcessBatch
<1>. QED BY <1>1, <1>2, <1>3, <1>4, <1>5, <1>6 DEF GInv

\* processBatch has returned.
LEMMA LeaveStep ==
  ASSUME SInv, UNCHANGED <<clientVars, jobVars, snap>>, mpc = "done", LeaveBatch,
         mpc' \in {"job", "exit"}
  PROVE  SInv'
<1>. USE DEF SInv, jobVars, LeaveBatch
<1>1. IInv' /\ Queued' = Queued
  BY ClientKept DEF GInv
<1>2. GateTypeOK'
  BY DEF GInv, GateTypeOK
<1>3. JobsInv' /\ CtxInv'
  BY DEF GInv, JobsInv, CtxInv, InSubmit, Of
<1>4. ShareInv'
  BY <1>1 DEF GInv, ShareInv, InSubmit, OnlySolutionsSubmitted
<1>5. LateInv'
  BY DEF LateInv
<1>6. SharesAccounted'
  <2>1. Traffic' = Traffic /\ ~InSubmit /\ ~InSubmit'
    BY DEF Traffic, Holders, clientVars, InSubmit
  <2>. QED BY <2>1, UncountedStep
<1>. QED BY <1>1, <1>2, <1>3, <1>4, <1>5, <1>6 DEF GInv

\* Nothing happens.
LEMMA StutterStep == ASSUME SInv, UNCHANGED <<flowVars, snap>> PROVE SInv'
<1>. USE DEF SInv, flowVars, jobVars, gateVars, counters
<1>1. IInv' /\ Queued' = Queued
  BY ClientKept DEF GInv
<1>2. GateTypeOK' /\ JobsInv'
  BY DEF GInv, GateTypeOK, JobsInv, Of
<1>3. CtxInv' /\ LateInv'
  BY DEF GInv, CtxInv, InSubmit, Of, LateInv
<1>4. ShareInv'
  BY <1>1 DEF GInv, ShareInv, InSubmit, OnlySolutionsSubmitted
<1>5. SharesAccounted'
  <2>1. Traffic' = Traffic /\ InSubmit' = InSubmit
    BY DEF Traffic, Holders, clientVars, InSubmit
  <2>. QED BY <2>1, UncountedStep
<1>. QED BY <1>1, <1>2, <1>3, <1>4, <1>5 DEF GInv

=============================================================================

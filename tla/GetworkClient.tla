--------------------------- MODULE GetworkClient ----------------------------
(***************************************************************************)
(* internal/getwork/client.go: Run dials and serves one connection after   *)
(* another; connectAndServe is the reader and starts one writer goroutine  *)
(* per connection, which drains the submit mailbox into the socket.  Every *)
(* connection keeps its own socket, connDone channel and writer, so that   *)
(* two connections could overlap if the code let them.  The network and    *)
(* the daemon are the environment: a dial, a read or a write on an open    *)
(* socket may fail at any time (refused, reset, read or write deadline).   *)
(* Shares are their identity here; module ShareGate gives them content.    *)
(***************************************************************************)
EXTENDS Naturals, Sequences, FiniteSets

CONSTANTS MaxConns,        \* bound on the connections established
          InitialBackoff,
          MaxBackoff,
          Shares,          \* values that travel through the mailbox
          NoShare

ASSUME ClientAssumption ==
  /\ MaxConns \in Nat
  /\ InitialBackoff \in Nat /\ MaxBackoff \in Nat /\ InitialBackoff <= MaxBackoff
  /\ NoShare \notin Shares

VARIABLES
  cancelled,     \* root context: Ctrl-C
  rpc,           \* Run/reader: "run","dial","read","join","served","backoff","exit"
  conn,          \* connections established so far; the last one is current
  sock,          \* per connection: "none", "open", "closed"
  connDone,      \* per connection: channel closed by the reader
  wpc,           \* per connection, its writer: "none","select","write","done"
  held,          \* per connection: the share its writer has taken
  Connected, SendFails, backoff,
  jobs,          \* the current connection delivered a job (jobs > 0)
  submits,       \* the mailbox, a channel
  sent,          \* history: shares WriteJSON accepted, in order
  lost           \* history: shares whose WriteJSON failed

linkVars   == <<rpc, conn, backoff, jobs, Connected>>
clientVars == <<cancelled, linkVars, sock, connDone, wpc, held, SendFails,
                submits, sent, lost>>

Conns == 1..MaxConns

ClientInit ==
  /\ cancelled = FALSE /\ rpc = "run" /\ conn = 0
  /\ sock = [c \in Conns |-> "none"]
  /\ connDone = [c \in Conns |-> FALSE]
  /\ wpc = [c \in Conns |-> "none"]
  /\ held = [c \in Conns |-> NoShare]
  /\ Connected = FALSE /\ SendFails = 0
  /\ backoff = InitialBackoff /\ jobs = FALSE
  /\ submits = <<>> /\ sent = <<>> /\ lost = {}

-----------------------------------------------------------------------------
(* Run and the reader *)

Run ==
  /\ rpc = "run"
  /\ rpc' = IF cancelled THEN "exit" ELSE "dial"
  /\ UNCHANGED <<cancelled, conn, backoff, jobs, Connected, sock, connDone, wpc,
                 held, SendFails, submits, sent, lost>>

DialFail ==
  /\ rpc = "dial"
  /\ rpc' = "served" /\ jobs' = FALSE
  /\ UNCHANGED <<cancelled, conn, backoff, Connected, sock, connDone, wpc, held,
                 SendFails, submits, sent, lost>>

\* The connection is up: Connected is set and the writer goroutine started.
DialOK ==
  /\ rpc = "dial" /\ conn < MaxConns
  /\ conn' = conn + 1
  /\ sock' = [sock EXCEPT ![conn + 1] = "open"]
  /\ wpc' = [wpc EXCEPT ![conn + 1] = "select"]
  /\ Connected' = TRUE /\ jobs' = FALSE /\ rpc' = "read"
  /\ UNCHANGED <<cancelled, backoff, connDone, held, SendFails, submits, sent, lost>>

\* ReadJSON returned a frame; it may have been buffered before the socket was
\* closed.  OnJob runs in the reader, before the next read.
ReadJob ==
  /\ rpc = "read"
  /\ jobs' = TRUE
  /\ UNCHANGED <<cancelled, rpc, conn, backoff, Connected, sock, connDone, wpc,
                 held, SendFails, submits, sent, lost>>

\* (mutant) the reader gives up without closing connDone
Release_Never == UNCHANGED connDone

Release == connDone' = [connDone EXCEPT ![conn] = TRUE]

\* ReadJSON failed: close the socket, release the writer.
ReadFail ==
  /\ rpc = "read"
  /\ sock' = [sock EXCEPT ![conn] = "closed"]
  /\ Release
  /\ rpc' = "join"
  /\ UNCHANGED <<cancelled, conn, backoff, jobs, Connected, wpc, held, SendFails,
                 submits, sent, lost>>

\* (mutant) connectAndServe returns without waiting for its writer
WriterJoined_NoWait == TRUE

WriterJoined == wpc[conn] = "done"

\* <-writerDone, then the deferred Connected.Store(false) and conn.Close().
Join ==
  /\ rpc = "join" /\ WriterJoined
  /\ Connected' = FALSE /\ rpc' = "served"
  /\ UNCHANGED <<cancelled, conn, backoff, jobs, sock, connDone, wpc, held,
                 SendFails, submits, sent, lost>>

\* Back in Run: a link that delivered a job is redialled at once.
Served ==
  /\ rpc = "served"
  /\ rpc' = IF cancelled THEN "exit" ELSE IF jobs THEN "run" ELSE "backoff"
  /\ backoff' = IF jobs /\ ~cancelled THEN InitialBackoff ELSE backoff
  /\ UNCHANGED <<cancelled, conn, jobs, Connected, sock, connDone, wpc, held,
                 SendFails, submits, sent, lost>>

BackoffCancel ==
  /\ rpc = "backoff" /\ cancelled
  /\ rpc' = "exit"
  /\ UNCHANGED <<cancelled, conn, backoff, jobs, Connected, sock, connDone, wpc,
                 held, SendFails, submits, sent, lost>>

Doubled == IF 2 * backoff > MaxBackoff THEN MaxBackoff ELSE 2 * backoff

BackoffExpire ==
  /\ rpc = "backoff"
  /\ backoff' = Doubled
  /\ rpc' = "run"
  /\ UNCHANGED <<cancelled, conn, jobs, Connected, sock, connDone, wpc, held,
                 SendFails, submits, sent, lost>>

-----------------------------------------------------------------------------
(* The writer of connection c.  Its select takes any ready branch. *)

\* Ctrl-C: the writer closes the connection, which ends the blocked read.
WriterCancel(c) ==
  /\ wpc[c] = "select" /\ cancelled
  /\ sock' = [sock EXCEPT ![c] = "closed"]
  /\ wpc' = [wpc EXCEPT ![c] = "done"]
  /\ UNCHANGED <<cancelled, linkVars, connDone, held, SendFails, submits, sent, lost>>

WriterReleased(c) ==
  /\ wpc[c] = "select" /\ connDone[c]
  /\ wpc' = [wpc EXCEPT ![c] = "done"]
  /\ UNCHANGED <<cancelled, linkVars, sock, connDone, held, SendFails, submits,
                 sent, lost>>

WriterTake(c) ==
  /\ wpc[c] = "select" /\ submits # <<>>
  /\ held' = [held EXCEPT ![c] = Head(submits)]
  /\ submits' = Tail(submits)
  /\ wpc' = [wpc EXCEPT ![c] = "write"]
  /\ UNCHANGED <<cancelled, linkVars, sock, connDone, SendFails, sent, lost>>

WriteOK(c) ==
  /\ wpc[c] = "write" /\ sock[c] = "open"
  /\ sent' = Append(sent, held[c])
  /\ held' = [held EXCEPT ![c] = NoShare]
  /\ wpc' = [wpc EXCEPT ![c] = "select"]
  /\ UNCHANGED <<cancelled, linkVars, sock, connDone, SendFails, submits, lost>>

\* (mutant) the writer keeps going on the same connection after a failed write
AfterWriteFail_KeepGoing(c) ==
  wpc' = [wpc EXCEPT ![c] = "select"] /\ sock' = sock

\* (mutant) the writer stops but leaves the socket to the reader
AfterWriteFail_SocketLeftOpen(c) ==
  wpc' = [wpc EXCEPT ![c] = "done"] /\ sock' = sock

AfterWriteFail(c) ==
  /\ sock' = [sock EXCEPT ![c] = "closed"]
  /\ wpc' = [wpc EXCEPT ![c] = "done"]

\* (mutant) the writer puts the share back for the next connection
GiveUpShare_Requeues(c) == submits' = Append(submits, held[c])

\* A share whose write failed is gone: it is not put back in the mailbox.
GiveUpShare(c) == UNCHANGED submits

WriteFail(c) ==
  /\ wpc[c] = "write"
  /\ SendFails' = SendFails + 1
  /\ lost' = lost \cup {held[c]}
  /\ held' = [held EXCEPT ![c] = NoShare]
  /\ GiveUpShare(c) /\ AfterWriteFail(c)
  /\ UNCHANGED <<cancelled, linkVars, connDone, sent>>

-----------------------------------------------------------------------------
\* Ctrl-C.
Cancel ==
  /\ ~cancelled /\ cancelled' = TRUE
  /\ UNCHANGED <<linkVars, sock, connDone, wpc, held, SendFails, submits, sent, lost>>

Reader == Run \/ DialFail \/ DialOK \/ ReadFail \/ Join \/ Served
          \/ BackoffCancel \/ BackoffExpire

Writer(c) == WriterCancel(c) \/ WriterReleased(c) \/ WriterTake(c)
             \/ WriteOK(c) \/ WriteFail(c)

\* The mine loop's side of the mailbox: a share is sent on the channel.
Enqueue(s) ==
  /\ submits' = Append(submits, s)
  /\ UNCHANGED <<cancelled, linkVars, sock, connDone, wpc, held, SendFails, sent, lost>>

\* Every step of the client but the delivery of a job.
ClientStep == Reader \/ (\E c \in Conns : Writer(c)) \/ Cancel

ClientNext == ClientStep \/ ReadJob \/ \E s \in Shares : Enqueue(s)

ClientSpec == ClientInit /\ [][ClientNext]_clientVars

\* Every blocking call of the goroutines returns: dials, reads and writes have
\* deadlines, timers fire.  A socket closed locally yields a finite number of
\* buffered frames, then an error; an open one may deliver jobs for ever.
ClientFairness ==
  /\ WF_clientVars(Run \/ DialFail \/ DialOK \/ Join \/ Served)
  /\ WF_clientVars(BackoffCancel \/ BackoffExpire)
  /\ WF_clientVars(ReadFail /\ sock[conn] = "closed")
  /\ \A c \in Conns : WF_clientVars(Writer(c))

-----------------------------------------------------------------------------
\* Types of the client's state; doubling up to the cap keeps the backoff between
\* its first value and maxBackoff (client.go:82).
ClientTypeOK ==
  /\ cancelled \in BOOLEAN /\ Connected \in BOOLEAN /\ jobs \in BOOLEAN
  /\ rpc \in {"run", "dial", "read", "join", "served", "backoff", "exit"}
  /\ conn \in 0..MaxConns
  /\ sock \in [Conns -> {"none", "open", "closed"}]
  /\ connDone \in [Conns -> BOOLEAN]
  /\ wpc \in [Conns -> {"none", "select", "write", "done"}]
  /\ held \in [Conns -> Shares \cup {NoShare}]
  /\ SendFails \in Nat /\ backoff \in InitialBackoff..MaxBackoff
  /\ submits \in Seq(Shares) /\ sent \in Seq(Shares) /\ lost \subseteq Shares

Live(c) == wpc[c] \in {"select", "write"}

\* At most one writer goroutine writes data frames: the one of the current
\* connection ("the sole goroutine writing data frames", client.go:115).
OneWriter == \A c \in Conns : Live(c) => c = conn /\ rpc \in {"read", "join"}

\* No half-dead link: a writer that stopped has had its socket closed, so the
\* reader cannot go on taking jobs over a link that submits nothing.
NoZombieLink == \A c \in Conns : wpc[c] = "done" => sock[c] = "closed"

\* A broken link costs at most the one share its writer held: SendFails never
\* exceeds the number of links that are over (client.go:137-141).
LossPerLink == SendFails <= Cardinality({c \in Conns : wpc[c] = "done"})

\* The shares the client was ever given and has not counted as failures, in the
\* order they reach the wire: those sent, the one a writer holds, the mailbox.
InHand == IF conn = 0 \/ held[conn] = NoShare THEN <<>> ELSE <<held[conn]>>
Trail  == sent \o InHand \o submits

\* Shares reach the wire in the order they were queued and at most once, across
\* any number of reconnects: a share joins the trail at its end, and none leaves
\* it or changes places, but for the one in hand when its write fails, counted.
SharesKeepOrder ==
  [][\/ Trail' = Trail /\ SendFails' = SendFails
     \/ (\E s \in Shares : Trail' = Append(Trail, s)) /\ SendFails' = SendFails
     \/ InHand # <<>> /\ Trail' = sent \o submits /\ SendFails' = SendFails + 1]_clientVars

\* A link that died is torn down and redialled, even when no share is queued
\* to wake the writer (client.go:115-120).
Redials == rpc = "join" ~> rpc \in {"dial", "exit"}

\* After Ctrl-C the client returns and its writers with it.
ShutsDown == cancelled ~> rpc = "exit" /\ \A c \in Conns : ~Live(c)

\* So Run is never stuck: not on a dead link, and not when it should end.
NeverStuck == Redials /\ ShutsDown

=============================================================================

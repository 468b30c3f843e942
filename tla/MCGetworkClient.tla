-------------------------- MODULE MCGetworkClient ---------------------------
(* The client on its own: a producer that stands for submitShare puts the  *)
(* shares 1, 2, ... into a mailbox of MailboxCap slots.                    *)
EXTENDS GetworkClient

CONSTANTS MailboxCap, MaxShares

VARIABLE made     \* shares put into the mailbox

vars == <<clientVars, made>>

Produce ==
  /\ made < MaxShares /\ Len(submits) < MailboxCap
  /\ made' = made + 1 /\ Enqueue(made + 1)

Init == ClientInit /\ made = 0

Next ==
  \/ (ClientStep \/ ReadJob) /\ UNCHANGED made
  \/ Produce

Spec == Init /\ [][Next]_vars /\ ClientFairness

=============================================================================

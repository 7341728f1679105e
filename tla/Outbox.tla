------------------------------- MODULE Outbox -------------------------------
(***************************************************************************)
(* What the outgoing side of a session promises its caller: one line of    *)
(* messages, joined at the back and left at the front.  The first `sent'   *)
(* of them are on the wire; they leave together, answered or rejected.     *)
(* How messages are batched, retransmitted and sized is left open.         *)
(***************************************************************************)
EXTENDS Integers, Sequences

CONSTANT Message

VARIABLES
    line,   \* the messages accepted and not yet settled, oldest first
    sent    \* how many of them, from the front, are on the wire

vars == <<line, sent>>

Init == line = <<>> /\ sent = 0

\* A message joins at the back, and goes out at once only if nobody waits.
Accept ==
    /\ \E m \in Message : line' = Append(line, m)
    /\ \/ sent' = sent
       \/ sent = Len(line) /\ sent' = sent + 1

Ship ==
    /\ sent' \in sent + 1 .. Len(line)
    /\ UNCHANGED line

\* Everything on the wire is settled, and what waits may move up.
Settle ==
    /\ line' = SubSeq(line, sent + 1, Len(line))
    /\ sent' \in 0 .. Len(line')

\* A restarted session finds a former run's batch: it goes before the others.
Restore ==
    /\ sent = 0
    /\ line' \in Seq(Message)
    /\ \E n \in 0 .. Len(line') :
         /\ line = SubSeq(line', n + 1, Len(line'))
         /\ sent' \in n .. Len(line')

GiveUp == line' = <<>> /\ sent' = 0

Next == Accept \/ Ship \/ Settle \/ Restore \/ GiveUp

Spec == Init /\ [][Next]_vars
=============================================================================

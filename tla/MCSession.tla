------------------------------ MODULE MCSession ------------------------------
(* Values shared by the instances of Session.                              *)
EXTENDS Session

CONSTANTS a, b, d1, q1, q2, s1, s2, Capacity

\* How many messages a statement holds.
MCFits(recipients, messages) == recipients # {} /\ Len(messages) <= Capacity

\* All requests come from one device: a later one supersedes an earlier one.
MCSender(q) == d1

\* What the peer's requests may look like.
Readable(q) == {"readable"}
Damaged(q) == IF q = q2 THEN {"malformed", "opaque"} ELSE {"readable"}

\* A clock behind every floor, and one that a second session finds ahead of
\* all the first drew.
StuckClock(n) == 0
TickingClock(n) == 10 * n

\* Every message is as large as the other.
Interchangeable == Permutations(Message)
=============================================================================

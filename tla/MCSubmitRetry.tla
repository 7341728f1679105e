---------------------------- MODULE MCSubmitRetry ----------------------------
(* A session's submission, retried without limit while it is live, and two *)
(* bounded ones; the last shares a channel with the session's.  The store  *)
(* holds an old statement on that channel and has room for no other.       *)
EXTENDS SubmitRetry

CONSTANTS session, outbox, chat, c1, c2

MCChannelOf(w) == IF w = outbox THEN c2 ELSE c1
MCAttempts(w) == IF w = session THEN 1 ELSE 0
MCPriorityAttempts(w) == IF w = session THEN Unbounded ELSE IF w = outbox THEN 1 ELSE 0
MCFound(c) == IF c = c1 THEN 2 ELSE 0
=============================================================================

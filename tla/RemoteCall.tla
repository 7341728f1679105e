----------------------------- MODULE RemoteCall -----------------------------
(***************************************************************************)
(* What a request over the transport promises, without frames, handshakes  *)
(* or abort signals: a call that was made is answered at most once, and it *)
(* ends either with the answer that was given or in the caller's own hands *)
(* (it was never sent, or the caller withdrew it).                         *)
(***************************************************************************)
EXTENDS Naturals

CONSTANT Call

VARIABLES
    state,      \* "idle", "open", "answered" or "dropped"
    given       \* how many answers the host has given

calls == <<state, given>>

Init ==
    /\ state = [c \in Call |-> "idle"]
    /\ given = [c \in Call |-> 0]

Open(c) ==
    /\ state[c] = "idle"
    /\ state' = [state EXCEPT ![c] = "open"]
    /\ UNCHANGED given

\* The host may answer a call that was dropped in the meantime.
Answer(c) ==
    /\ state[c] # "idle" /\ given[c] = 0
    /\ given' = [given EXCEPT ![c] = 1]
    /\ UNCHANGED state

Settle(c) ==
    /\ state[c] = "open" /\ given[c] = 1
    /\ state' = [state EXCEPT ![c] = "answered"]
    /\ UNCHANGED given

Drop(c) ==
    /\ state[c] \in {"idle", "open"}
    /\ state' = [state EXCEPT ![c] = "dropped"]
    /\ UNCHANGED given

Next == \E c \in Call : Open(c) \/ Answer(c) \/ Settle(c) \/ Drop(c)

Spec == Init /\ [][Next]_calls
=============================================================================

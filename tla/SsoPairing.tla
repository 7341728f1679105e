----------------------------- MODULE SsoPairing -----------------------------
(* Pairing a wallet (auth/impl.ts): authenticate and abortAuthentication,    *)
(* the exchange over the statement store beneath (v2/service.ts, v2/state.ts)*)
(* and the device identity it runs under (deviceIdentityStore.ts).  A flow   *)
(* that was aborted ends later, beside its successor.                        *)
(*                                                                          *)
(* An answer on the pairing topic is a statement of its own, "pending",      *)
(* "success", "failed" or unreadable; the channel carries one at a time.     *)
EXTENDS Naturals, Sequences, FiniteSets

CONSTANTS
    MaxFlows,   \* bound: flows of authenticate
    MaxAnswers  \* bound: answers to the pairing topic

ASSUME PairingAssumption == {MaxFlows, MaxAnswers} \subseteq Nat

VARIABLES
    result,     \* authResult: its flow, 0 for none
    handle,     \* abortHandle: its flow, 0 for none
    progress,   \* pairingStatus: its step
    shownBy,    \* the flow that wrote it last, 0 after a reset by abortAuthentication
    flows,      \* per flow so far its stage, state$, the answer it handled last, whether
                \* it was aborted, and whether before its success
    answers,    \* the answers so far, the last of which is in the channel
    marker,     \* lastProcessedHandshakeStatement
    sessions,   \* flows whose session was persisted
    crossed     \* an aborted flow ended beside its successor

answerVars == <<answers, marker>>
shownVars == <<result, handle, progress, shownBy>>
pairingVars == <<shownVars, flows, answerVars, sessions, crossed>>

Answer == {"pending", "success", "failed", "unreadable"}

PairingInit ==
    /\ result = 0 /\ handle = 0 /\ progress = "none" /\ shownBy = 0
    /\ flows = <<>> /\ answers = <<>> /\ marker = 0
    /\ sessions = {} /\ crossed = FALSE

IsFlow(i, stage) == i \in DOMAIN flows /\ flows[i].stage = stage

Shows(step, i) == progress' = step /\ shownBy' = i

-----------------------------------------------------------------------------
(* v2/state.ts and v2/service.ts                                           *)

Terminal(state) == state \in {"success", "failed"}

\* advance: forward only, and nothing after the end.
Advance(state, next) == IF Terminal(state) THEN state ELSE next

\* What the subscription or a poll can hand over: the answer in the channel,
\* or an older one that has been on its way.
Handed(n) == n \in DOMAIN answers

\* handleStatement, up to the state it leads to: what was handled last is
\* skipped, anything else becomes the marker, readable or not.
IsNew(i, n) == flows[i].last # n

NextState(i, n) == IF answers[n] = "unreadable" THEN flows[i].state ELSE Advance(flows[i].state, answers[n])

-----------------------------------------------------------------------------
(* auth/impl.ts                                                            *)

\* authenticate: a flow there is is shared.
Authenticate ==
    /\ result = 0 /\ Len(flows) < MaxFlows
    /\ flows' = Append(flows, [stage |-> "loading", state |-> "submitted", last |-> 0,
                              aborted |-> FALSE, stopped |-> FALSE])
    /\ result' = Len(flows) + 1 /\ handle' = Len(flows) + 1 /\ Shows("initial", Len(flows) + 1)
    /\ UNCHANGED <<answerVars, sessions, crossed>>

\* Mutant of Loaded: an abort while the identity was loaded is overlooked.
LoadedAnyway(i) ==
    /\ IsFlow(i, "loading")
    /\ flows' = [flows EXCEPT ![i].stage = "pairing", ![i].last = marker, ![i].aborted = FALSE]
    /\ Shows("pairing", i)
    /\ UNCHANGED <<result, handle, answerVars, sessions, crossed>>

\* The identity and the marker are there: an aborted flow ends with null,
\* any other starts the exchange.
Loaded(i) ==
    /\ IsFlow(i, "loading")
    /\ IF flows[i].aborted
         THEN flows' = [flows EXCEPT ![i].stage = "null"] /\ UNCHANGED shownVars
         ELSE /\ flows' = [flows EXCEPT ![i].stage = "pairing", ![i].last = marker]
              /\ Shows("pairing", i) /\ UNCHANGED <<result, handle>>
    /\ UNCHANGED <<answerVars, sessions, crossed>>

LoadFails(i) ==
    /\ IsFlow(i, "loading") /\ flows' = [flows EXCEPT ![i].stage = "error"]
    /\ UNCHANGED <<shownVars, answerVars, sessions, crossed>>

\* An answer is handled: the first success goes on to be persisted, a failure
\* ends the flow, pending is shown.
Handle(i, n) ==
    /\ IsFlow(i, "pairing") /\ ~flows[i].aborted /\ Handed(n) /\ IsNew(i, n)
    /\ LET next == NextState(i, n) IN
       /\ marker' = n
       /\ flows' = [flows EXCEPT ![i].last = n, ![i].state = next,
                                 ![i].stage = CASE next = "success" -> "succeeded"
                                                [] next = "failed" -> "error"
                                                [] OTHER -> "pairing"]
       /\ IF next = "pending" /\ flows[i].state # "pending" THEN Shows("pending", i)
          ELSE UNCHANGED <<progress, shownBy>>
    /\ UNCHANGED <<result, handle, answers, sessions, crossed>>

\* Mutant of Persisted: a flow may be resolved before its session is stored.
PersistedFirst(i) ==
    /\ IsFlow(i, "succeeded")
    /\ flows' = [flows EXCEPT ![i].stage = "session"]
    /\ UNCHANGED <<shownVars, answerVars, sessions, crossed>>

\* persistAndNotify, which an abort does not stop, and which can fail at each
\* step, after the session was stored as well (onAuthSuccess).
Persisted(i) ==
    /\ IsFlow(i, "succeeded")
    /\ \/ flows' = [flows EXCEPT ![i].stage = "session"] /\ sessions' = sessions \cup {i}
       \/ flows' = [flows EXCEPT ![i].stage = "error"] /\ sessions' \in {sessions, sessions \cup {i}}
    /\ UNCHANGED <<shownVars, answerVars, crossed>>

\* The flow is settled: its handlers write the status and clear what the
\* component holds, be it theirs or not.
Ended(i) ==
    /\ i \in DOMAIN flows /\ flows[i].stage \in {"null", "session", "error"}
    /\ flows' = [flows EXCEPT ![i].stage = "done"]
    /\ handle' = 0
    /\ CASE flows[i].stage = "null" -> Shows("none", i) /\ UNCHANGED result
         [] flows[i].stage = "session" -> Shows("finished", i) /\ UNCHANGED result
         [] OTHER -> Shows("pairingError", i) /\ result' = 0
    /\ crossed' = (crossed \/ (flows[i].aborted /\ i < Len(flows)))
    /\ UNCHANGED <<answerVars, sessions>>

\* Mutant of AbortAuthentication: the flow is forgotten, not stopped.
AbortAuthenticationOnly ==
    /\ result # 0 \/ handle # 0 \/ progress # "none"
    /\ result' = 0 /\ handle' = 0 /\ Shows("none", 0)
    /\ UNCHANGED <<flows, answerVars, sessions, crossed>>

\* abortAuthentication: the flow that has the handle is stopped, a pairing at
\* once, a loading or persisting one when it gets there.
AbortAuthentication ==
    /\ result # 0 \/ handle # 0 \/ progress # "none"
    /\ flows' = [i \in DOMAIN flows |->
         IF i = handle
           THEN [flows[i] EXCEPT !.aborted = TRUE, !.stopped = flows[i].state # "success",
                                 !.stage = IF @ = "pairing" THEN "null" ELSE @]
           ELSE flows[i]]
    /\ result' = 0 /\ handle' = 0 /\ Shows("none", 0)
    /\ UNCHANGED <<answerVars, sessions, crossed>>

\* A wallet answers, or somebody else writes to the topic.
Answers_(a) ==
    /\ Len(answers) < MaxAnswers /\ answers' = Append(answers, a)
    /\ UNCHANGED <<shownVars, flows, marker, sessions, crossed>>

PairingNext ==
    \/ Authenticate \/ AbortAuthentication
    \/ \E i \in 1..MaxFlows : Loaded(i) \/ LoadFails(i) \/ Persisted(i) \/ Ended(i)
    \/ \E i \in 1..MaxFlows, n \in 1..MaxAnswers : Handle(i, n)
    \/ \E a \in Answer : Answers_(a)

PairingSpec == PairingInit /\ [][PairingNext]_pairingVars

-----------------------------------------------------------------------------
(* Properties                                                              *)

PairingTypeOK ==
    /\ {result, handle, shownBy} \subseteq 0..Len(flows) /\ answers \in Seq(Answer)
    /\ \A i \in DOMAIN flows : flows[i].last \in 0..Len(answers)

Pairs(i) == i \in DOMAIN flows /\ flows[i].stage \in {"loading", "pairing"} /\ ~flows[i].aborted

\* A flow that pairs is the one authenticate gives out and abortAuthentication
\* stops, and the status is its own: nobody pairs out of reach.  Only a flow
\* that was aborted and ends beside its successor breaks this: its handlers
\* take the successor's handle away and write over its status
\* (auth/impl.ts:158-182).
PairsInReach ==
    ~crossed => \A i \in DOMAIN flows : Pairs(i) => result = i /\ handle = i /\ shownBy = i

\* A flow that was stopped before its success was handled stores no session,
\* and a flow that is shown as finished has stored one.
StoppedStoresNothing ==
    /\ \A i \in sessions : ~flows[i].stopped
    /\ progress = "finished" => shownBy \in sessions

\* A pairing can be seen and stopped while it runs, and is over once stopped.
PairingIsInReach == PairingTypeOK /\ PairsInReach /\ StoppedStoresNothing
=============================================================================

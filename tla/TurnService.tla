---------------------------- MODULE TurnService ----------------------------
(***************************************************************************)
(* What the gateway promises the client of one turn, with none of the      *)
(* machinery behind it: the turn is served by calling different routes one *)
(* after another, at most MaxAttempts of them, and ends in one reply that  *)
(* fits what those calls returned.                                         *)
(***************************************************************************)
EXTENDS Naturals, FiniteSets

CONSTANTS Turn, Route, MaxAttempts

VARIABLES
  calls,    \* [Turn -> the routes called, each with what it returned]
  reply     \* [Turn -> what the client got]

svars == <<calls, reply>>

Outcome == {"ok", "truncated", "error"}
Call == [route : Route, outcome : Outcome]
Kind == {"none", "answer", "partial", "error", "unroutable"}

Called(t) == {c.route : c \in calls[t]}
Got(t) == {c.outcome : c \in calls[t]}

Init ==
  /\ calls = [t \in Turn |-> {}]
  /\ reply = [t \in Turn |-> "none"]

\* What a reply needs: an answer needs a complete answer, a partial one a
\* truncated answer, and an error that no route left even a partial answer.
Fits(kind, got) ==
  \/ kind = "answer" /\ "ok" \in got
  \/ kind = "partial" /\ "truncated" \in got
  \/ kind = "error" /\ got # {} /\ "truncated" \notin got
  \/ kind = "unroutable" /\ got = {}

\* One more route is called; its answer may be the last of the turn.
Attempt(t) ==
  /\ reply[t] = "none"
  /\ Cardinality(calls[t]) < MaxAttempts
  /\ \E r \in Route \ Called(t), o \in Outcome :
       /\ calls' = [calls EXCEPT ![t] = @ \cup {[route |-> r, outcome |-> o]}]
       /\ \/ reply' = reply
          \/ \E k \in {"partial", "error"} :
               /\ Fits(k, Got(t) \cup {o})
               /\ reply' = [reply EXCEPT ![t] = k]

Conclude(t) ==
  /\ reply[t] = "none"
  /\ \E k \in Kind : Fits(k, Got(t)) /\ reply' = [reply EXCEPT ![t] = k]
  /\ UNCHANGED calls

Next == \E t \in Turn : Attempt(t) \/ Conclude(t)

\* A turn on which some route was called is eventually replied to.
Spec ==
  /\ Init /\ [][Next]_svars
  /\ \A t \in Turn : WF_svars(calls[t] # {} /\ (Attempt(t) \/ Conclude(t)))
=============================================================================

---------------------------- MODULE TurnContract ----------------------------
(***************************************************************************)
(* What the server promises of its turns: each one lives once, at most one *)
(* per thread at a time, the model works only for a running turn, and an   *)
(* end that is recorded is final.  How the promise is kept across store    *)
(* failures and restarts is TurnLifecycle's concern.                       *)
(***************************************************************************)
EXTENDS Naturals

CONSTANTS Thread, Turn, None

VARIABLES
  phase,   \* Turn -> where the turn stands
  owner,   \* Turn -> its thread once it has begun
  runs     \* Turn -> times the model worked for it

vars == <<phase, owner, runs>>

End   == {"turn_completed", "turn_failed", "turn_cancelled"}
Live  == {"running", "waiting_approval", "closing"}
Phase == {"unborn", "lost"} \cup Live \cup End

Init ==
  /\ phase = [t \in Turn |-> "unborn"]
  /\ owner = [t \in Turn |-> None]
  /\ runs  = [t \in Turn |-> 0]

Move(t, from, to) ==
  /\ phase[t] \in from
  /\ phase' = [phase EXCEPT ![t] = to]
  /\ UNCHANGED runs

Begin(t, th) ==
  /\ Move(t, {"unborn"}, "running")
  /\ \A u \in Turn : owner[u] = th => phase[u] \notin Live
  /\ owner' = [owner EXCEPT ![t] = th]

Wait(t)    == Move(t, {"running"}, "waiting_approval") /\ UNCHANGED owner
Approve(t) == Move(t, {"waiting_approval"}, "running") /\ UNCHANGED owner

(* The turn is over, its end not yet recorded.                             *)
Close(t)   == Move(t, {"running", "waiting_approval"}, "closing") /\ UNCHANGED owner

Record(t, e) == Move(t, {"closing"}, e) /\ UNCHANGED owner

Work(t) ==
  /\ phase[t] = "running"
  /\ runs' = [runs EXCEPT ![t] = @ + 1]
  /\ UNCHANGED <<phase, owner>>

(* A store failure or the end of the process takes live turns away; the    *)
(* end of one that was closing may have been recorded all the same.        *)
Lose ==
  /\ UNCHANGED <<owner, runs>>
  /\ phase' \in [Turn -> Phase]
  /\ \A t \in Turn :
       \/ phase'[t] = phase[t]
       \/ phase[t] \in Live /\ phase'[t] = "lost"
       \/ phase[t] = "closing" /\ phase'[t] \in End

Next ==
  \/ Lose
  \/ \E t \in Turn, th \in Thread : Begin(t, th)
  \/ \E t \in Turn : Wait(t) \/ Approve(t) \/ Close(t) \/ Work(t)
  \/ \E t \in Turn, e \in End : Record(t, e)

Spec == Init /\ [][Next]_vars

=============================================================================

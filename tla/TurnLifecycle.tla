--------------------------- MODULE TurnLifecycle ---------------------------
(***************************************************************************)
(* What the session store promises its clients about turns, with none of   *)
(* its tables.  A request (a session and an idempotency key) is given at    *)
(* most one turn, at most one turn is active in the whole store, a turn     *)
(* ends exactly once, and it is answered exactly when it ends completed.   *)
(* What a client that repeats its request is told follows the turn.        *)
(* SessionStore implements this module.                                    *)
(***************************************************************************)
CONSTANTS Turns,     \* turn ids
          Requests,  \* requests a client may make and repeat
          None       \* no turn

VARIABLES phase,     \* [Turns -> Phases]
          answered,  \* the turns with an assistant message
          turnOf,    \* [Requests -> Turns \cup {None}]
          told       \* [Requests -> Tellings]: what a repeated request is told

vars == <<phase, answered, turnOf, told>>

Outcomes == {"completed", "failed", "cancelled"}
Phases == {"absent", "active"} \cup Outcomes
Tellings == {"nothing", "reused", "failed", "cancelled"}

\* A repetition reuses a turn that is active or completed; a turn that failed
\* or was cancelled is reported as such.
Telling(outcome) == IF outcome = "completed" THEN "reused" ELSE outcome

Init ==
    /\ phase = [t \in Turns |-> "absent"]
    /\ answered = {}
    /\ turnOf = [r \in Requests |-> None]
    /\ told = [r \in Requests |-> "nothing"]

Begin(t, r) ==
    /\ \A u \in Turns : phase[u] # "active"
    /\ phase[t] = "absent"
    /\ turnOf[r] = None
    /\ phase' = [phase EXCEPT ![t] = "active"]
    /\ turnOf' = [turnOf EXCEPT ![r] = t]
    /\ told' = [told EXCEPT ![r] = "reused"]
    /\ UNCHANGED answered

Finish(t, outcome) ==
    /\ phase[t] = "active"
    /\ phase' = [phase EXCEPT ![t] = outcome]
    /\ answered' = IF outcome = "completed" THEN answered \cup {t} ELSE answered
    /\ told' = [r \in Requests |->
                  IF turnOf[r] = t THEN Telling(outcome) ELSE told[r]]
    /\ UNCHANGED turnOf

Next == \E t \in Turns :
            \/ \E r \in Requests : Begin(t, r)
            \/ \E outcome \in Outcomes : Finish(t, outcome)

Spec == Init /\ [][Next]_vars
=============================================================================

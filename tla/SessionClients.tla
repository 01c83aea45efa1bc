--------------------------- MODULE SessionClients ---------------------------
(***************************************************************************)
(* The session store under the calls the daemon makes, and nothing else    *)
(* about the daemon: any number of request handlers, stream tasks and      *)
(* closing connections call the store in any order the code allows.        *)
(*                                                                         *)
(* `starting' holds the turns whose message/send handler has begun the     *)
(* turn and has neither marked it running nor returned.  A startup         *)
(* recovery normally finds it empty, since a daemon recovers before it     *)
(* serves; SharedStore lets a second process on the same database recover  *)
(* while a handler of the first is in that window.                         *)
(***************************************************************************)
EXTENDS SessionStore

CONSTANT SharedStore

ASSUME SharedStoreAssumption == SharedStore \in BOOLEAN

VARIABLE starting

vars == <<storeVars, starting>>

Init == StoreInit /\ starting = {}

StartTurn(s, k, h, A, t) ==
    /\ BeginTurn(s, k, h, A, t)
    /\ starting' = starting \cup {t}

FinishStart(t, hasCodexTurn) ==
    /\ t \in starting
    /\ MarkTurnRunning(t, hasCodexTurn)
    /\ starting' = starting \ {t}

\* fail_starting_turn.
FailStart(t) ==
    /\ t \in starting
    /\ FailTurn(t)
    /\ starting' = starting \ {t}

\* Handlers return early with an error of the store, or their process dies:
\* the turns stay as they are.
AbandonStarts ==
    /\ starting' \in SUBSET starting
    /\ UNCHANGED storeVars

\* The stream task, spawned after the mark, and the cleanup of a connection
\* that owns the turn.
EndStream(t) ==
    /\ t \notin starting
    /\ CompleteTurn(t) \/ FailTurn(t)
    /\ UNCHANGED starting

\* turn/cancel has seen a codex_turn_id, which only the mark writes.
EndByCancel(t) ==
    /\ t \in codexTurn
    /\ CancelTurn(t)
    /\ UNCHANGED starting

Recover ==
    /\ SharedStore \/ starting = {}
    /\ RecoverInterruptedActiveTurns
    /\ UNCHANGED starting

ManageSession ==
    /\ \/ \E s \in Sessions : CreateSession(s)
       \/ \E a \in Attachments, s \in Sessions, m \in Turns \cup {None} :
             CreateAttachment(a, s, m)
       \/ \E s \in Sessions, th \in Threads :
             LinkCodexThread(s, th) \/ ClearCodexThreadLink(s, th)
    /\ UNCHANGED starting

TurnStep(t) ==
    \/ \E s \in Sessions, k \in Keys, h \in Hashes, A \in SUBSET Attachments :
          StartTurn(s, k, h, A, t)
    \/ \E hasCodexTurn \in BOOLEAN : FinishStart(t, hasCodexTurn)
    \/ FailStart(t)
    \/ EndStream(t)
    \/ EndByCancel(t)

Next == ManageSession \/ Recover \/ AbandonStarts \/ \E t \in Turns : TurnStep(t)

Spec == Init /\ [][Next]_vars

-----------------------------------------------------------------------------
TypeOK == StoreTypeOK /\ starting \in SUBSET Turns

\* At most one turn of the whole store is pending or running, whatever its
\* session: ensure_no_active_turn looks at every session, while the unique
\* index only keeps each session to one.
OneActiveTurn ==
    \A t, u \in Turns : IsActive(t) /\ IsActive(u) => t = u

\* What sessions.active_turn_id, the user message, the assistant messages and
\* the idempotency row say of a turn is what turns.status says.  They are
\* written by separate UPDATEs in nine operations.
PointerAgrees ==
    \A s \in Sessions, t \in Turns :
        activeTurn[s] = t <=> IsActive(t) /\ sessionOf[t] = s
MessagesAgree ==
    \A t \in Turns :
        /\ userMessage[t] = IF IsActive(t) THEN "pending" ELSE status[t]
        /\ answers[t] = IF status[t] = "completed" THEN 1 ELSE 0
LedgerAgrees ==
    \A r \in Requests, t \in Turns :
        idem[r].turn = t =>
            /\ sessionOf[t] = r[1]
            /\ idem[r].status = IF IsActive(t) THEN "in_progress" ELSE status[t]
OneRequestPerTurn ==
    \A t \in Turns : status[t] # "absent" =>
        \E r \in Requests : /\ idem[r].turn = t
                            /\ \A q \in Requests : idem[q].turn = t => q = r

LedgersAgree == PointerAgrees /\ MessagesAgree /\ LedgerAgrees /\ OneRequestPerTurn

\* An attachment that is linked names a turn of the session it belongs to.
AttachmentsInSession ==
    \A a \in Attachments : LET m == attachments[a].message IN
        m # None => /\ attachments[a].session = sessionOf[m]
                    /\ status[m] # "absent"

\* A turn that has ended stays as it ended: no late stream event, cleanup,
\* cancel, mark or recovery rewrites it.
TurnEndsOnce ==
    [][\A t \in Turns : status[t] \in Outcomes => status'[t] = status[t]]_vars

\* The answer a repeated message/send gets never changes once it is final: a
\* client that was told the turn failed has discarded its pending question.
RetryAnswerIsFinal ==
    [][\A r \in Requests, h \in Hashes :
          /\ idem[r].status # "absent"
          /\ RetryAnswer(r, h) # "reused"
          => RetryAnswer(r, h)' = RetryAnswer(r, h)]_vars

\* Once linked, an attachment is never given to another message.
AttachmentLinkedOnce ==
    [][\A a \in Attachments :
          attachments[a].message # None => attachments'[a] = attachments[a]]_vars

-----------------------------------------------------------------------------
\* The store keeps the promise of TurnLifecycle.
Lifecycle == INSTANCE TurnLifecycle WITH
    phase <- [t \in Turns |-> IF IsActive(t) THEN "active" ELSE status[t]],
    answered <- {t \in Turns : answers[t] > 0},
    turnOf <- [r \in Requests |-> idem[r].turn],
    told <- [r \in Requests |-> LedgerAnswer(r)]

\* Every step of the store is a step of TurnLifecycle or leaves its view alone.
ImplementsLifecycle == Lifecycle!Spec
=============================================================================

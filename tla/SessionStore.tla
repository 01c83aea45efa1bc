---------------------------- MODULE SessionStore ----------------------------
(***************************************************************************)
(* crates/session: the SQLite tables behind a Sidekick daemon and the      *)
(* operations on them.  Every operation is one transaction under one lock, *)
(* so it is one action; an operation that returns an error rolls back and  *)
(* is not a step.  A turn has one user message, created with it, so the    *)
(* message is named by its turn.  SessionClients says which operations the  *)
(* daemon calls when; Daemon is the daemon itself.                         *)
(***************************************************************************)
EXTENDS Naturals

CONSTANTS Sessions, Keys, Hashes, Turns, Attachments, Threads, None

ASSUME StoreAssumption ==
    /\ None \notin Sessions /\ None \notin Turns
    /\ None \notin Hashes /\ None \notin Threads

VARIABLES
    sessions,    \* rows of sessions
    activeTurn,  \* sessions.active_turn_id
    status,      \* turns.status
    sessionOf,   \* turns.session_id
    codexTurn,   \* the turns with a turns.codex_turn_id
    userMessage, \* messages.status of the turn's user message
    answers,     \* how many assistant messages the turn has
    idem,        \* idempotency_keys, by session and key
    attachments, \* attachments, by id
    threadLink   \* codex_thread_links, by session

turnVars == <<activeTurn, status, sessionOf, codexTurn, userMessage, answers, idem>>
storeVars == <<sessions, turnVars, attachments, threadLink>>

Requests == Sessions \X Keys
ActiveStatuses == {"pending", "running"}
Outcomes == {"completed", "failed", "cancelled"}
Statuses == {"absent"} \cup ActiveStatuses \cup Outcomes
MessageStatuses == {"absent", "pending"} \cup Outcomes
IdemStatuses == {"absent", "in_progress"} \cup Outcomes

NoRow == [hash |-> None, turn |-> None, status |-> "absent"]
NoAttachment == [session |-> None, message |-> None]

IdemRows == [hash : Hashes \cup {None}, turn : Turns \cup {None}, status : IdemStatuses]
AttachmentRows == [session : Sessions \cup {None}, message : Turns \cup {None}]

StoreTypeOK ==
    /\ sessions \in SUBSET Sessions
    /\ activeTurn \in [Sessions -> Turns \cup {None}]
    /\ status \in [Turns -> Statuses]
    /\ sessionOf \in [Turns -> Sessions \cup {None}]
    /\ codexTurn \in SUBSET Turns
    /\ userMessage \in [Turns -> MessageStatuses]
    /\ answers \in [Turns -> Nat]
    /\ idem \in [Requests -> IdemRows]
    /\ attachments \in [Attachments -> AttachmentRows]
    /\ threadLink \in [Sessions -> Threads \cup {None}]

StoreInit ==
    /\ sessions = {}
    /\ activeTurn = [s \in Sessions |-> None]
    /\ status = [t \in Turns |-> "absent"]
    /\ sessionOf = [t \in Turns |-> None]
    /\ codexTurn = {}
    /\ userMessage = [t \in Turns |-> "absent"]
    /\ answers = [t \in Turns |-> 0]
    /\ idem = [r \in Requests |-> NoRow]
    /\ attachments = [a \in Attachments |-> NoAttachment]
    /\ threadLink = [s \in Sessions |-> None]

-----------------------------------------------------------------------------
\* Reads.

IsActive(t) == status[t] \in ActiveStatuses

\* existing_message_send and outcome_for_retry without the hash: what the row
\* and the turn it names say of a repeated request.
LedgerAnswer(r) ==
    IF idem[r].turn = None THEN "nothing"
    ELSE IF "failed" \in {idem[r].status, status[idem[r].turn]} THEN "failed"
    ELSE IF "cancelled" \in {idem[r].status, status[idem[r].turn]} THEN "cancelled"
    ELSE "reused"

RetryAnswer(r, h) == IF idem[r].hash # h THEN "conflict" ELSE LedgerAnswer(r)

OtherActiveTurn(t) ==
    \E u \in Turns \ {t} : IsActive(u) /\ sessionOf[u] = sessionOf[t]

\* Mutants of Linkable: without its check of the session, or of the message.
LinkableAnywhere(s, a) == attachments[a] # NoAttachment /\ attachments[a].message = None
LinkableAgain(s, a) == attachments[a].session = s

Linkable(s, a) == attachments[a] = [session |-> s, message |-> None]

\* Mutants of BeginTurnAnswer: a turn of another session does not count; a
\* request whose turn failed starts over.
BeginTurnAnswerPerSession(s, k, h, A) ==
    IF idem[<<s, k>>].status # "absent" THEN RetryAnswer(<<s, k>>, h)
    ELSE IF s \notin sessions THEN "session_not_found"
    ELSE IF \E t \in Turns : IsActive(t) /\ sessionOf[t] = s THEN "turn_already_running"
    ELSE IF \E a \in A : ~Linkable(s, a) THEN "attachment_not_linkable"
    ELSE "new"
BeginTurnAnswerStartingOver(s, k, h, A) ==
    IF idem[<<s, k>>].status \notin {"absent", "failed"} THEN RetryAnswer(<<s, k>>, h)
    ELSE IF s \notin sessions THEN "session_not_found"
    ELSE IF \E t \in Turns : IsActive(t) THEN "turn_already_running"
    ELSE "new"

\* begin_turn's checks, in its order: the answer to a message/send.
BeginTurnAnswer(s, k, h, A) ==
    IF idem[<<s, k>>].status # "absent" THEN RetryAnswer(<<s, k>>, h)
    ELSE IF s \notin sessions THEN "session_not_found"
    ELSE IF \E t \in Turns : IsActive(t) THEN "turn_already_running"
    ELSE IF \E a \in A : ~Linkable(s, a) THEN "attachment_not_linkable"
    ELSE "new"

\* get_cancellable_turn_for_session.
Cancellable(t) == IsActive(t) /\ t \in codexTurn

-----------------------------------------------------------------------------
\* Writes.

CreateSession(s) ==
    /\ s \notin sessions
    /\ sessions' = sessions \cup {s}
    /\ UNCHANGED <<turnVars, attachments, threadLink>>

\* A new attachment may name a message of its own session, or none.
CreateAttachment(a, s, m) ==
    /\ attachments[a] = NoAttachment
    /\ s \in sessions
    /\ m = None \/ (m \in Turns /\ sessionOf[m] = s)
    /\ attachments' = [attachments EXCEPT ![a] = [session |-> s, message |-> m]]
    /\ UNCHANGED <<sessions, turnVars, threadLink>>

BeginTurn(s, k, h, A, t) ==
    /\ BeginTurnAnswer(s, k, h, A) = "new"
    /\ status[t] = "absent"
    /\ idem' = [idem EXCEPT ![<<s, k>>] = [hash |-> h, turn |-> t, status |-> "in_progress"]]
    /\ userMessage' = [userMessage EXCEPT ![t] = "pending"]
    /\ status' = [status EXCEPT ![t] = "pending"]
    /\ sessionOf' = [sessionOf EXCEPT ![t] = s]
    /\ attachments' = [a \in Attachments |->
                         IF a \in A THEN [attachments[a] EXCEPT !.message = t]
                         ELSE attachments[a]]
    /\ activeTurn' = [activeTurn EXCEPT ![s] = t]
    /\ UNCHANGED <<sessions, codexTurn, answers, threadLink>>

\* Mutants of MarkTurnRunning: without the unique index; writing the status of
\* the user message too.
MarkTurnRunningUnindexed(t, hasCodexTurn) ==
    /\ status[t] # "absent"
    /\ status' = [status EXCEPT ![t] = "running"]
    /\ codexTurn' = IF hasCodexTurn THEN codexTurn \cup {t} ELSE codexTurn
    /\ UNCHANGED <<sessions, activeTurn, sessionOf, userMessage, answers, idem,
                   attachments, threadLink>>
MarkTurnRunningWithMessage(t, hasCodexTurn) ==
    /\ status[t] # "absent"
    /\ status' = [status EXCEPT ![t] = "running"]
    /\ userMessage' = [userMessage EXCEPT ![t] = "running"]
    /\ codexTurn' = IF hasCodexTurn THEN codexTurn \cup {t} ELSE codexTurn
    /\ UNCHANGED <<sessions, activeTurn, sessionOf, answers, idem, attachments, threadLink>>

\* The UPDATE has no condition on the status it replaces.  What can reject it
\* is the unique index turns_one_active_per_session.
MarkTurnRunning(t, hasCodexTurn) ==
    /\ status[t] # "absent"
    /\ ~OtherActiveTurn(t)
    /\ status' = [status EXCEPT ![t] = "running"]
    /\ codexTurn' = IF hasCodexTurn THEN codexTurn \cup {t} ELSE codexTurn
    /\ UNCHANGED <<sessions, activeTurn, sessionOf, userMessage, answers, idem,
                   attachments, threadLink>>

\* Mutant of FinishTurn: the turn need not be active.
FinishTurnUnchecked(t, outcome) ==
    /\ status[t] # "absent"
    /\ userMessage' = [userMessage EXCEPT ![t] = outcome]
    /\ status' = [status EXCEPT ![t] = outcome]
    /\ activeTurn' = [activeTurn EXCEPT ![sessionOf[t]] = None]
    /\ idem' = [r \in Requests |->
                  IF idem[r].turn = t THEN [idem[r] EXCEPT !.status = outcome] ELSE idem[r]]
    /\ UNCHANGED <<sessions, sessionOf, codexTurn, attachments, threadLink>>

\* What complete_turn, finish_failed_or_cancelled and finish_cancelled share.
FinishTurn(t, outcome) ==
    /\ IsActive(t)
    /\ userMessage' = [userMessage EXCEPT ![t] = outcome]
    /\ status' = [status EXCEPT ![t] = outcome]
    /\ activeTurn' = [activeTurn EXCEPT ![sessionOf[t]] = None]
    /\ idem' = [r \in Requests |->
                  IF idem[r].turn = t THEN [idem[r] EXCEPT !.status = outcome] ELSE idem[r]]
    /\ UNCHANGED <<sessions, sessionOf, codexTurn, attachments, threadLink>>

\* Mutant of CompleteTurn: the answer is stored though the turn has ended.
CompleteTurnUnchecked(t) ==
    /\ status[t] # "absent"
    /\ IF IsActive(t) THEN FinishTurn(t, "completed")
       ELSE UNCHANGED <<sessions, activeTurn, status, sessionOf, codexTurn, userMessage,
                        idem, attachments, threadLink>>
    /\ answers' = [answers EXCEPT ![t] = 1]

CompleteTurn(t) ==
    /\ FinishTurn(t, "completed")
    /\ answers' = [answers EXCEPT ![t] = @ + 1]

FailTurn(t) ==
    /\ FinishTurn(t, "failed")
    /\ UNCHANGED answers

CancelTurn(t) ==
    /\ FinishTurn(t, "cancelled")
    /\ UNCHANGED answers

\* Mutant of RecoverInterruptedActiveTurns: the idempotency rows are left alone.
RecoverForgettingKeys ==
    /\ \E t \in Turns : IsActive(t)
    /\ userMessage' = [t \in Turns |-> IF IsActive(t) THEN "failed" ELSE userMessage[t]]
    /\ status' = [t \in Turns |-> IF IsActive(t) THEN "failed" ELSE status[t]]
    /\ activeTurn' = [s \in Sessions |->
                        IF activeTurn[s] # None /\ IsActive(activeTurn[s]) THEN None
                        ELSE activeTurn[s]]
    /\ UNCHANGED <<sessions, sessionOf, codexTurn, answers, idem, attachments, threadLink>>

\* recover_interrupted_active_turns: run by a daemon before it serves.
RecoverInterruptedActiveTurns ==
    /\ \E t \in Turns : IsActive(t)
    /\ userMessage' = [t \in Turns |-> IF IsActive(t) THEN "failed" ELSE userMessage[t]]
    /\ status' = [t \in Turns |-> IF IsActive(t) THEN "failed" ELSE status[t]]
    /\ activeTurn' = [s \in Sessions |->
                        IF activeTurn[s] # None /\ IsActive(activeTurn[s]) THEN None
                        ELSE activeTurn[s]]
    /\ idem' = [r \in Requests |->
                  IF idem[r].turn # None /\ IsActive(idem[r].turn)
                  THEN [idem[r] EXCEPT !.status = "failed"] ELSE idem[r]]
    /\ UNCHANGED <<sessions, sessionOf, codexTurn, answers, attachments, threadLink>>

LinkCodexThread(s, th) ==
    /\ s \in sessions
    /\ threadLink' = [threadLink EXCEPT ![s] = th]
    /\ UNCHANGED <<sessions, turnVars, attachments>>

\* Deletes the link only while it still is the one the caller found stale.
ClearCodexThreadLink(s, expected) ==
    /\ threadLink' = IF threadLink[s] = expected THEN [threadLink EXCEPT ![s] = None]
                     ELSE threadLink
    /\ UNCHANGED <<sessions, turnVars, attachments>>

-----------------------------------------------------------------------------
\* At most one active turn in a session: what the unique index gives even when
\* a second process recovers in the middle of a start.
OneActiveTurnPerSession ==
    \A t, u \in Turns :
        IsActive(t) /\ IsActive(u) /\ sessionOf[t] = sessionOf[u] => t = u
=============================================================================

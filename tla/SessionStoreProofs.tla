-------------------------- MODULE SessionStoreProofs --------------------------
(***************************************************************************)
(* What the operations of the store do, for every module that uses it:     *)
(* each keeps the tables well typed, and each writes the sessions and      *)
(* statuses of turns in one of four ways.                                  *)
(***************************************************************************)
EXTENDS SessionStore, TLAPS

\* Writing the status of an idempotency row leaves a row.
LEMMA StatusWritten ==
    ASSUME NEW row \in IdemRows, NEW written \in IdemStatuses
    PROVE  [row EXCEPT !.status = written] \in IdemRows
  BY DEF IdemRows

-----------------------------------------------------------------------------
\* Every operation keeps the tables well typed.

\* The three ends of a turn.
LEMMA FinishTurnType ==
    ASSUME StoreTypeOK, NEW t \in Turns, NEW outcome \in Outcomes, FinishTurn(t, outcome),
           \/ answers' = answers
           \/ answers' = [answers EXCEPT ![t] = @ + 1]
    PROVE  StoreTypeOK'
<1>0. outcome \in Statuses /\ outcome \in MessageStatuses /\ outcome \in IdemStatuses
  BY DEF Outcomes, Statuses, MessageStatuses, IdemStatuses
<1>1. sessions' \in SUBSET Sessions /\ sessionOf' \in [Turns -> Sessions \cup {None}]
      /\ codexTurn' \in SUBSET Turns
  BY DEF StoreTypeOK, FinishTurn
<1>2. attachments' \in [Attachments -> AttachmentRows]
      /\ threadLink' \in [Sessions -> Threads \cup {None}]
  BY DEF StoreTypeOK, FinishTurn
<1>3. status' \in [Turns -> Statuses] /\ userMessage' \in [Turns -> MessageStatuses]
  BY <1>0 DEF StoreTypeOK, FinishTurn
<1>4. activeTurn' \in [Sessions -> Turns \cup {None}]
  BY DEF StoreTypeOK, FinishTurn
<1>5. idem' \in [Requests -> IdemRows]
  <2>1. ASSUME NEW r \in Requests PROVE [idem[r] EXCEPT !.status = outcome] \in IdemRows
    <3>1. idem[r] \in IdemRows
      BY DEF StoreTypeOK
    <3>2. QED BY <1>0, <3>1, StatusWritten
  <2>2. QED BY <2>1 DEF StoreTypeOK, FinishTurn
<1>6. answers' \in [Turns -> Nat]
  BY DEF StoreTypeOK
<1>7. QED BY <1>1, <1>2, <1>3, <1>4, <1>5, <1>6 DEF StoreTypeOK

\* message/send.
LEMMA BeginTurnType ==
    ASSUME StoreTypeOK, NEW s \in Sessions, NEW k \in Keys, NEW h \in Hashes,
           NEW A \in SUBSET Attachments, NEW t \in Turns, BeginTurn(s, k, h, A, t)
    PROVE  StoreTypeOK'
<1>1. sessions' \in SUBSET Sessions /\ codexTurn' \in SUBSET Turns
      /\ answers' \in [Turns -> Nat] /\ threadLink' \in [Sessions -> Threads \cup {None}]
  BY DEF StoreTypeOK, BeginTurn
<1>2. status' \in [Turns -> Statuses] /\ userMessage' \in [Turns -> MessageStatuses]
      /\ sessionOf' \in [Turns -> Sessions \cup {None}]
      /\ activeTurn' \in [Sessions -> Turns \cup {None}]
  BY DEF StoreTypeOK, BeginTurn, Statuses, ActiveStatuses, MessageStatuses
<1>3. idem' \in [Requests -> IdemRows]
  <2>1. [hash |-> h, turn |-> t, status |-> "in_progress"] \in IdemRows
    BY DEF IdemRows, IdemStatuses
  <2>2. QED BY <2>1 DEF StoreTypeOK, BeginTurn
<1>4. attachments' \in [Attachments -> AttachmentRows]
  <2>1. ASSUME NEW a \in Attachments PROVE [attachments[a] EXCEPT !.message = t] \in AttachmentRows
    BY DEF StoreTypeOK, AttachmentRows
  <2>2. QED BY <2>1 DEF StoreTypeOK, BeginTurn
<1>5. QED BY <1>1, <1>2, <1>3, <1>4 DEF StoreTypeOK

\* The end of a start.
LEMMA MarkTurnRunningType ==
    ASSUME StoreTypeOK, NEW t \in Turns, NEW hasCodexTurn \in BOOLEAN,
           MarkTurnRunning(t, hasCodexTurn)
    PROVE  StoreTypeOK'
  BY DEF MarkTurnRunning, StoreTypeOK, Statuses, ActiveStatuses

\* The recovery of a daemon that starts.
LEMMA RecoverType ==
    ASSUME StoreTypeOK, RecoverInterruptedActiveTurns
    PROVE  StoreTypeOK'
<1>1. sessions' \in SUBSET Sessions /\ codexTurn' \in SUBSET Turns
      /\ sessionOf' \in [Turns -> Sessions \cup {None}]
      /\ answers' \in [Turns -> Nat] /\ threadLink' \in [Sessions -> Threads \cup {None}]
      /\ attachments' \in [Attachments -> AttachmentRows]
  BY DEF StoreTypeOK, RecoverInterruptedActiveTurns
<1>2. status' \in [Turns -> Statuses] /\ userMessage' \in [Turns -> MessageStatuses]
      /\ activeTurn' \in [Sessions -> Turns \cup {None}]
  BY DEF StoreTypeOK, RecoverInterruptedActiveTurns, Statuses, MessageStatuses, Outcomes
<1>3. idem' \in [Requests -> IdemRows]
  <2>1. ASSUME NEW r \in Requests PROVE [idem[r] EXCEPT !.status = "failed"] \in IdemRows
    <3>1. idem[r] \in IdemRows /\ "failed" \in IdemStatuses
      BY DEF StoreTypeOK, IdemStatuses, Outcomes
    <3>2. QED BY <3>1, StatusWritten
  <2>2. QED BY <2>1 DEF StoreTypeOK, RecoverInterruptedActiveTurns
<1>4. QED BY <1>1, <1>2, <1>3 DEF StoreTypeOK

\* New sessions and attachments, and the links to Codex threads.
LEMMA CreateSessionType ==
    ASSUME StoreTypeOK, NEW s \in Sessions, CreateSession(s)
    PROVE  StoreTypeOK'
  BY DEF StoreTypeOK, CreateSession, turnVars

LEMMA CreateAttachmentType ==
    ASSUME StoreTypeOK, NEW a \in Attachments, NEW s \in Sessions,
           NEW m \in Turns \cup {None}, CreateAttachment(a, s, m)
    PROVE  StoreTypeOK'
<1>1. [session |-> s, message |-> m] \in AttachmentRows
  BY DEF AttachmentRows
<1>2. attachments' \in [Attachments -> AttachmentRows]
  BY <1>1 DEF StoreTypeOK, CreateAttachment
<1>3. QED BY <1>2 DEF StoreTypeOK, CreateAttachment, turnVars

LEMMA LinkType ==
    ASSUME StoreTypeOK, NEW s \in Sessions, NEW th \in Threads,
           LinkCodexThread(s, th) \/ ClearCodexThreadLink(s, th)
    PROVE  StoreTypeOK'
  BY DEF StoreTypeOK, LinkCodexThread, ClearCodexThreadLink, turnVars

-----------------------------------------------------------------------------
\* What each operation does to the turns' sessions and statuses.

\* An end needs an active turn and leaves every other turn alone.
LEMMA FinishTurnEffect ==
    ASSUME StoreTypeOK, NEW t \in Turns, NEW outcome \in Outcomes, FinishTurn(t, outcome)
    PROVE  /\ IsActive(t) /\ status' = [status EXCEPT ![t] = outcome]
           /\ UNCHANGED <<sessions, sessionOf, codexTurn, threadLink>>
           /\ \A u \in Turns : IsActive(u)' <=> IsActive(u) /\ u # t
<1>1. IsActive(t) /\ status' = [status EXCEPT ![t] = outcome]
      /\ UNCHANGED <<sessions, sessionOf, codexTurn, threadLink>>
  BY DEF FinishTurn
<1>2. \A u \in Turns : status'[u] = IF u = t THEN outcome ELSE status[u]
  BY <1>1 DEF StoreTypeOK
<1>3. outcome \notin ActiveStatuses
  BY DEF Outcomes, ActiveStatuses
<1>4. QED BY <1>1, <1>2, <1>3 DEF IsActive

\* A turn begins only when none of the whole store is active.
LEMMA BeginTurnEffect ==
    ASSUME StoreTypeOK, NEW s \in Sessions, NEW k \in Keys, NEW h \in Hashes,
           NEW A \in SUBSET Attachments, NEW t \in Turns, BeginTurn(s, k, h, A, t)
    PROVE  /\ s \in sessions /\ status[t] = "absent"
           /\ status' = [status EXCEPT ![t] = "pending"]
           /\ sessionOf' = [sessionOf EXCEPT ![t] = s]
           /\ UNCHANGED <<sessions, codexTurn, threadLink>>
           /\ \A u \in Turns : ~IsActive(u) /\ (IsActive(u)' <=> u = t)
<1>1. RetryAnswer(<<s, k>>, h) # "new"
  BY DEF RetryAnswer, LedgerAnswer
<1>2. s \in sessions /\ \A u \in Turns : ~IsActive(u)
  BY <1>1 DEF BeginTurn, BeginTurnAnswer
<1>3. /\ status[t] = "absent"
      /\ status' = [status EXCEPT ![t] = "pending"]
      /\ sessionOf' = [sessionOf EXCEPT ![t] = s]
      /\ UNCHANGED <<sessions, codexTurn, threadLink>>
  BY DEF BeginTurn
<1>4. \A u \in Turns : status'[u] = IF u = t THEN "pending" ELSE status[u]
  BY <1>3 DEF StoreTypeOK
<1>5. QED BY <1>2, <1>3, <1>4 DEF IsActive, ActiveStatuses

\* The mark of a turn makes it active, and no other.
LEMMA MarkTurnRunningEffect ==
    ASSUME StoreTypeOK, NEW t \in Turns, MarkTurnRunning(t, TRUE)
    PROVE  /\ ~OtherActiveTurn(t) /\ status' = [status EXCEPT ![t] = "running"]
           /\ codexTurn' = codexTurn \cup {t}
           /\ UNCHANGED <<sessions, sessionOf, threadLink>>
           /\ \A u \in Turns : IsActive(u)' <=> IsActive(u) \/ u = t
<1>1. /\ ~OtherActiveTurn(t) /\ status' = [status EXCEPT ![t] = "running"]
      /\ codexTurn' = codexTurn \cup {t} /\ UNCHANGED <<sessions, sessionOf, threadLink>>
  BY DEF MarkTurnRunning
<1>2. \A u \in Turns : status'[u] = IF u = t THEN "running" ELSE status[u]
  BY <1>1 DEF StoreTypeOK
<1>3. QED BY <1>1, <1>2 DEF IsActive, ActiveStatuses

\* After a recovery no turn is active, and those that had ended are as they were.
LEMMA RecoverEffect ==
    ASSUME StoreTypeOK, RecoverInterruptedActiveTurns
    PROVE  /\ \A u \in Turns : /\ status'[u] = IF IsActive(u) THEN "failed" ELSE status[u]
                               /\ ~IsActive(u)'
           /\ UNCHANGED <<sessions, sessionOf, codexTurn, threadLink>>
<1>1. /\ \A u \in Turns : status'[u] = IF IsActive(u) THEN "failed" ELSE status[u]
      /\ UNCHANGED <<sessions, sessionOf, codexTurn, threadLink>>
  BY DEF RecoverInterruptedActiveTurns
<1>2. QED BY <1>1 DEF IsActive, ActiveStatuses
=============================================================================

------------------------ MODULE SessionClientsProofs ------------------------
(***************************************************************************)
(* Theorems about the session store, for every number of sessions, keys,   *)
(* turns and attachments.                                                  *)
(***************************************************************************)
EXTENDS SessionClients, SessionStoreProofs, TLAPS

USE StoreAssumption, SharedStoreAssumption
USE DEF Requests, ActiveStatuses, Outcomes, Statuses, MessageStatuses, IdemStatuses,
        NoRow, NoAttachment, IdemRows, AttachmentRows

\* The store and the set of turns being started keep their types, whatever
\* order the calls come in and whether or not a second process recovers.
THEOREM TypeCorrect == Spec => []TypeOK
<1>1. Init => TypeOK
  BY DEF Init, StoreInit, TypeOK, StoreTypeOK
<1>2. TypeOK /\ [Next]_vars => TypeOK'
  <2> SUFFICES ASSUME TypeOK, [Next]_vars PROVE TypeOK'
    OBVIOUS
  <2>0. StoreTypeOK /\ starting \in SUBSET Turns
    BY DEF TypeOK
  <2>1. CASE ManageSession
    BY <2>0, <2>1, CreateSessionType, CreateAttachmentType, LinkType DEF ManageSession, TypeOK
  <2>2. CASE Recover
    BY <2>0, <2>2, RecoverType DEF Recover, TypeOK
  <2>3. ASSUME NEW t \in Turns, TurnStep(t) PROVE TypeOK'
    <3>1. ASSUME NEW s \in Sessions, NEW k \in Keys, NEW h \in Hashes,
                 NEW A \in SUBSET Attachments, StartTurn(s, k, h, A, t)
          PROVE  TypeOK'
      BY <2>0, <3>1, BeginTurnType DEF StartTurn, TypeOK
    <3>2. ASSUME NEW hasCodexTurn \in BOOLEAN, FinishStart(t, hasCodexTurn) PROVE TypeOK'
      BY <2>0, <3>2, MarkTurnRunningType DEF FinishStart, TypeOK
    <3>3. CASE FailStart(t)
      BY <2>0, <3>3, FinishTurnType DEF FailStart, FailTurn, TypeOK
    <3>4. CASE EndStream(t)
      BY <2>0, <3>4, FinishTurnType DEF EndStream, CompleteTurn, FailTurn, TypeOK
    <3>5. CASE EndByCancel(t)
      BY <2>0, <3>5, FinishTurnType DEF EndByCancel, CancelTurn, TypeOK
    <3>6. QED BY <2>3, <3>1, <3>2, <3>3, <3>4, <3>5 DEF TurnStep
  <2>4. CASE AbandonStarts
    BY <2>4 DEF AbandonStarts, TypeOK, StoreTypeOK, storeVars, turnVars
  <2>5. CASE UNCHANGED vars
    BY <2>5 DEF vars, storeVars, turnVars, TypeOK, StoreTypeOK
  <2>6. QED BY <2>1, <2>2, <2>3, <2>4, <2>5 DEF Next
<1>3. QED BY <1>1, <1>2, PTL DEF Spec

-----------------------------------------------------------------------------
(***************************************************************************)
(* The inductive invariant.  Beside what the runs check it says that a     *)
(* turn exists exactly when it has a session, that an idempotency row is   *)
(* written together with its turn, and that a turn that is being started   *)
(* is still pending and has no Codex turn: that is what makes the          *)
(* unconditional UPDATE of mark_turn_running harmless, and it is what a    *)
(* second process that recovers in the window takes away.                  *)
(***************************************************************************)
TurnsKnown == \A t \in Turns : status[t] = "absent" <=> sessionOf[t] = None
RowsNamed == \A r \in Requests : idem[r].turn = None <=> idem[r].status = "absent"
StartingPending == \A t \in starting : status[t] = "pending"
CodexTurnMarked == \A t \in codexTurn : status[t] # "absent" /\ t \notin starting

IInv ==
    /\ TypeOK
    /\ OneActiveTurn
    /\ LedgersAgree
    /\ TurnsKnown
    /\ RowsNamed
    /\ StartingPending
    /\ CodexTurnMarked

LEMMA InitInv == Init => IInv
<1> SUFFICES ASSUME Init PROVE IInv
  OBVIOUS
<1>1. TypeOK
  BY DEF Init, StoreInit, TypeOK, StoreTypeOK
<1>2. OneActiveTurn /\ PointerAgrees /\ MessagesAgree
  BY DEF Init, StoreInit, OneActiveTurn, PointerAgrees, MessagesAgree, IsActive
<1>3. LedgerAgrees /\ OneRequestPerTurn
  BY DEF Init, StoreInit, LedgerAgrees, OneRequestPerTurn
<1>4. TurnsKnown /\ RowsNamed /\ StartingPending /\ CodexTurnMarked
  BY DEF Init, StoreInit, TurnsKnown, RowsNamed, StartingPending, CodexTurnMarked
<1>5. QED BY <1>1, <1>2, <1>3, <1>4 DEF IInv, LedgersAgree

LEMMA FinishTurnInv ==
    ASSUME IInv, NEW t \in Turns, NEW outcome \in Outcomes, FinishTurn(t, outcome),
           answers' = IF outcome = "completed" THEN [answers EXCEPT ![t] = @ + 1]
                      ELSE answers,
           starting' = starting \ {t}
    PROVE  IInv'
<1>1. TypeOK'
  BY FinishTurnType DEF IInv, TypeOK
<1>2. /\ TypeOK /\ OneActiveTurn /\ PointerAgrees /\ MessagesAgree /\ LedgerAgrees
      /\ OneRequestPerTurn /\ TurnsKnown /\ RowsNamed
  BY DEF IInv, LedgersAgree
<1>3. /\ IsActive(t) /\ outcome \notin {"absent", "pending", "running"}
      /\ \A u \in Turns : status'[u] = IF u = t THEN outcome ELSE status[u]
      /\ sessionOf' = sessionOf /\ codexTurn' = codexTurn
  BY <1>2 DEF FinishTurn, TypeOK, StoreTypeOK
<1>4. sessionOf[t] \in Sessions
  BY <1>2, <1>3 DEF TurnsKnown, IsActive, TypeOK, StoreTypeOK
<1>5. \A u \in Turns : IsActive(u)' <=> IsActive(u) /\ u # t
  BY <1>3 DEF IsActive
<1>6. OneActiveTurn'
  BY <1>2, <1>5 DEF OneActiveTurn
<1>7. PointerAgrees'
  <2>1. \A s \in Sessions : activeTurn'[s] = IF s = sessionOf[t] THEN None ELSE activeTurn[s]
    BY <1>2 DEF FinishTurn, TypeOK, StoreTypeOK
  <2>2. QED BY <2>1, <1>2, <1>3, <1>5 DEF PointerAgrees, OneActiveTurn
<1>8. MessagesAgree'
  <2>1. \A u \in Turns : userMessage'[u] = IF u = t THEN outcome ELSE userMessage[u]
    BY <1>2 DEF FinishTurn, TypeOK, StoreTypeOK
  <2>2. answers[t] = 0
    BY <1>2, <1>3 DEF MessagesAgree, IsActive
  <2>3. \A u \in Turns : answers'[u] =
            IF u = t /\ outcome = "completed" THEN 1 ELSE answers[u]
    BY <2>2, <1>2 DEF TypeOK, StoreTypeOK
  <2>4. QED BY <2>1, <2>2, <2>3, <1>2, <1>3, <1>5 DEF MessagesAgree
<1>9. \A r \in Requests :
        /\ idem'[r].turn = idem[r].turn
        /\ idem'[r].status = IF idem[r].turn = t THEN outcome ELSE idem[r].status
  BY <1>2 DEF FinishTurn, TypeOK, StoreTypeOK
<1>10. LedgerAgrees'
  BY <1>2, <1>3, <1>5, <1>9 DEF LedgerAgrees
<1>11. OneRequestPerTurn'
  BY <1>2, <1>3, <1>9 DEF OneRequestPerTurn, IsActive
<1>12. TurnsKnown' /\ StartingPending' /\ CodexTurnMarked'
  BY <1>2, <1>3 DEF IInv, TurnsKnown, StartingPending, CodexTurnMarked, IsActive,
                    TypeOK, StoreTypeOK
<1>13. RowsNamed'
  BY <1>2, <1>3, <1>9 DEF RowsNamed
<1>14. QED BY <1>1, <1>6, <1>7, <1>8, <1>10, <1>11, <1>12, <1>13 DEF IInv, LedgersAgree

LEMMA BeginTurnInv ==
    ASSUME IInv, NEW s \in Sessions, NEW k \in Keys, NEW h \in Hashes,
           NEW A \in SUBSET Attachments, NEW t \in Turns, StartTurn(s, k, h, A, t)
    PROVE  IInv'
<1>1. TypeOK'
  BY BeginTurnType DEF IInv, TypeOK, StartTurn
<1>2. /\ TypeOK /\ OneActiveTurn /\ PointerAgrees /\ MessagesAgree /\ LedgerAgrees
      /\ OneRequestPerTurn /\ TurnsKnown /\ RowsNamed
  BY DEF IInv, LedgersAgree
<1>3. /\ idem[<<s, k>>].status = "absent"
      /\ \A u \in Turns : ~IsActive(u)
  <2>1. idem[<<s, k>>] \in IdemRows
    BY <1>2 DEF TypeOK, StoreTypeOK
  <2>2. RetryAnswer(<<s, k>>, h) # "new"
    BY DEF RetryAnswer, LedgerAnswer
  <2>3. QED BY <2>1, <2>2 DEF StartTurn, BeginTurn, BeginTurnAnswer
<1>4. /\ status[t] = "absent"
      /\ \A u \in Turns : status'[u] = IF u = t THEN "pending" ELSE status[u]
      /\ \A u \in Turns : sessionOf'[u] = IF u = t THEN s ELSE sessionOf[u]
      /\ answers' = answers /\ codexTurn' = codexTurn /\ starting' = starting \cup {t}
  BY <1>2 DEF StartTurn, BeginTurn, TypeOK, StoreTypeOK
<1>5. \A u \in Turns : IsActive(u)' <=> u = t
  BY <1>3, <1>4 DEF IsActive
<1>6. OneActiveTurn'
  BY <1>5 DEF OneActiveTurn
<1>7. PointerAgrees'
  <2>1. \A p \in Sessions : activeTurn'[p] = IF p = s THEN t ELSE activeTurn[p]
    BY <1>2 DEF StartTurn, BeginTurn, TypeOK, StoreTypeOK
  <2>2. QED BY <2>1, <1>2, <1>3, <1>4, <1>5 DEF PointerAgrees
<1>8. MessagesAgree'
  <2>1. \A u \in Turns : userMessage'[u] = IF u = t THEN "pending" ELSE userMessage[u]
    BY <1>2 DEF StartTurn, BeginTurn, TypeOK, StoreTypeOK
  <2>2. QED BY <2>1, <1>2, <1>3, <1>4, <1>5 DEF MessagesAgree
<1>9. \A r \in Requests :
        /\ idem'[r].turn = IF r = <<s, k>> THEN t ELSE idem[r].turn
        /\ idem'[r].status = IF r = <<s, k>> THEN "in_progress" ELSE idem[r].status
  BY <1>2 DEF StartTurn, BeginTurn, TypeOK, StoreTypeOK
<1>10. \A r \in Requests : idem[r].turn # t
  <2> SUFFICES ASSUME NEW r \in Requests, idem[r].turn = t PROVE FALSE
    OBVIOUS
  <2>1. idem[r].status = "absent"
    BY <1>2, <1>3, <1>4 DEF LedgerAgrees
  <2>2. QED BY <2>1, <1>2 DEF RowsNamed
<1>11. LedgerAgrees'
  BY <1>2, <1>3, <1>4, <1>5, <1>9, <1>10 DEF LedgerAgrees
<1>12. OneRequestPerTurn'
  <2>1. \A r \in Requests : idem'[r].turn = t <=> r = <<s, k>>
    BY <1>9, <1>10
  <2>2. \A u \in Turns \ {t}, r \in Requests : idem'[r].turn = u <=> idem[r].turn = u
    BY <1>2, <1>3, <1>9 DEF RowsNamed
  <2>3. <<s, k>> \in Requests
    OBVIOUS
  <2>4. QED BY <2>1, <2>2, <2>3, <1>2, <1>4 DEF OneRequestPerTurn
<1>13. TurnsKnown' /\ StartingPending' /\ CodexTurnMarked'
  BY <1>2, <1>4 DEF IInv, TurnsKnown, StartingPending, CodexTurnMarked, TypeOK, StoreTypeOK
<1>14. RowsNamed'
  BY <1>2, <1>9 DEF RowsNamed
<1>15. QED BY <1>1, <1>6, <1>7, <1>8, <1>11, <1>12, <1>13, <1>14 DEF IInv, LedgersAgree

LEMMA FinishStartInv ==
    ASSUME IInv, NEW t \in Turns, NEW hasCodexTurn \in BOOLEAN, FinishStart(t, hasCodexTurn)
    PROVE  IInv'
<1>1. TypeOK'
  BY DEF IInv, FinishStart, MarkTurnRunning, TypeOK, StoreTypeOK
<1>2. /\ status[t] = "pending"
      /\ \A u \in Turns : status'[u] = IF u = t THEN "running" ELSE status[u]
      /\ UNCHANGED <<activeTurn, sessionOf, userMessage, answers, idem>>
      /\ starting' = starting \ {t}
      /\ codexTurn' \in {codexTurn, codexTurn \cup {t}}
  BY DEF IInv, FinishStart, MarkTurnRunning, StartingPending, TypeOK, StoreTypeOK
<1>3. \A u \in Turns : IsActive(u)' <=> IsActive(u)
  BY <1>2 DEF IsActive
<1>4. OneActiveTurn' /\ PointerAgrees'
  BY <1>2, <1>3 DEF IInv, LedgersAgree, OneActiveTurn, PointerAgrees
<1>5. MessagesAgree' /\ LedgerAgrees'
  BY <1>2, <1>3 DEF IInv, LedgersAgree, MessagesAgree, LedgerAgrees, IsActive
<1>6. OneRequestPerTurn' /\ TurnsKnown' /\ RowsNamed'
  BY <1>2 DEF IInv, LedgersAgree, OneRequestPerTurn, TurnsKnown, RowsNamed
<1>7. StartingPending' /\ CodexTurnMarked'
  BY <1>2 DEF IInv, StartingPending, CodexTurnMarked, TypeOK, StoreTypeOK
<1>8. QED BY <1>1, <1>4, <1>5, <1>6, <1>7 DEF IInv, LedgersAgree

\* With at most one active turn and no handler in its window, a recovery is
\* the failure of that turn.
LEMMA RecoverIsFail ==
    ASSUME IInv, SharedStore = FALSE, Recover
    PROVE  \E t \in Turns : FailTurn(t) /\ starting' = starting \ {t}
<1>1. /\ TypeOK /\ OneActiveTurn /\ PointerAgrees /\ TurnsKnown /\ RowsNamed
  BY DEF IInv, LedgersAgree
<1>2. PICK t \in Turns : IsActive(t)
  BY DEF Recover, RecoverInterruptedActiveTurns
<1>3. \A u \in Turns : IsActive(u) <=> u = t
  BY <1>1, <1>2 DEF OneActiveTurn
<1>4. starting' = starting \ {t}
  BY DEF Recover
<1>5. userMessage' = [userMessage EXCEPT ![t] = "failed"]
      /\ status' = [status EXCEPT ![t] = "failed"]
  BY <1>1, <1>3 DEF Recover, RecoverInterruptedActiveTurns, TypeOK, StoreTypeOK
<1>6. sessionOf[t] \in Sessions /\ activeTurn[sessionOf[t]] = t
  BY <1>1, <1>2 DEF TypeOK, StoreTypeOK, TurnsKnown, PointerAgrees, IsActive
<1>7. ASSUME NEW s \in Sessions
      PROVE  activeTurn[s] = IF s = sessionOf[t] THEN t ELSE None
  <2>1. activeTurn[s] \in Turns \cup {None}
    BY <1>1 DEF TypeOK, StoreTypeOK
  <2>2. QED BY <2>1, <1>1, <1>2, <1>3, <1>6 DEF PointerAgrees
<1>8. activeTurn' = [activeTurn EXCEPT ![sessionOf[t]] = None]
  <2>1. activeTurn' = [s \in Sessions |-> None]
    BY <1>2, <1>7 DEF Recover, RecoverInterruptedActiveTurns
  <2>2. [activeTurn EXCEPT ![sessionOf[t]] = None] = [s \in Sessions |-> None]
    BY <1>1, <1>7 DEF TypeOK, StoreTypeOK
  <2>3. QED BY <2>1, <2>2
<1>9. \A r \in Requests : idem[r].turn # None /\ IsActive(idem[r].turn) <=> idem[r].turn = t
  <2>1. \A r \in Requests : idem[r].turn \in Turns \cup {None}
    BY <1>1 DEF TypeOK, StoreTypeOK
  <2>2. QED BY <2>1, <1>2, <1>3
<1>10. idem' = [r \in Requests |->
                  IF idem[r].turn = t THEN [idem[r] EXCEPT !.status = "failed"] ELSE idem[r]]
  BY <1>9 DEF Recover, RecoverInterruptedActiveTurns
<1>11. FailTurn(t)
  BY <1>2, <1>5, <1>8, <1>10 DEF FailTurn, FinishTurn, Recover, RecoverInterruptedActiveTurns
<1>12. QED BY <1>4, <1>11

LEMMA OtherStepInv ==
    ASSUME IInv, TypeOK', turnVars' = turnVars, starting' \in SUBSET starting
    PROVE  IInv'
<1>1. OneActiveTurn' /\ PointerAgrees' /\ MessagesAgree'
  BY DEF IInv, LedgersAgree, OneActiveTurn, PointerAgrees, MessagesAgree, IsActive, turnVars
<1>2. LedgerAgrees' /\ OneRequestPerTurn'
  BY DEF IInv, LedgersAgree, LedgerAgrees, OneRequestPerTurn, IsActive, turnVars
<1>3. TurnsKnown' /\ RowsNamed' /\ StartingPending' /\ CodexTurnMarked'
  BY DEF IInv, TurnsKnown, RowsNamed, StartingPending, CodexTurnMarked, turnVars
<1>4. QED BY <1>1, <1>2, <1>3 DEF IInv, LedgersAgree

\* What the actions that end a turn have in common.
LEMMA EndsAreFinishes ==
    ASSUME IInv, NEW t \in Turns, FailStart(t) \/ EndStream(t) \/ EndByCancel(t)
    PROVE  \E outcome \in Outcomes :
             /\ FinishTurn(t, outcome)
             /\ answers' = IF outcome = "completed" THEN [answers EXCEPT ![t] = @ + 1]
                           ELSE answers
             /\ starting' = starting \ {t}
<1>0. starting \in SUBSET Turns
  BY DEF IInv, TypeOK
<1>1. CASE FailStart(t)
  BY <1>1 DEF FailStart, FailTurn
<1>2. CASE EndStream(t)
  BY <1>0, <1>2 DEF EndStream, CompleteTurn, FailTurn
<1>3. CASE EndByCancel(t)
  <2>1. t \notin starting
    BY <1>3 DEF IInv, CodexTurnMarked, EndByCancel
  <2>2. QED BY <1>0, <1>3, <2>1 DEF EndByCancel, CancelTurn
<1>4. QED BY <1>1, <1>2, <1>3

\* While no other process recovers this process's turns, the invariant is
\* inductive.
LEMMA NextInv ==
    ASSUME SharedStore = FALSE, IInv, [Next]_vars
    PROVE  IInv'
<1>0. starting \in SUBSET Turns
  BY DEF IInv, TypeOK
<1>1. CASE ManageSession
  <2>1. TypeOK'
    BY <1>1, CreateSessionType, CreateAttachmentType, LinkType DEF ManageSession, IInv, TypeOK
  <2>2. turnVars' = turnVars /\ starting' = starting
    BY <1>1 DEF ManageSession, CreateSession, CreateAttachment, LinkCodexThread,
                ClearCodexThreadLink
  <2>3. QED BY <2>1, <2>2, OtherStepInv
<1>2. CASE Recover
  <2>1. PICK t \in Turns : FailTurn(t) /\ starting' = starting \ {t}
    BY <1>2, RecoverIsFail
  <2>2. QED BY <2>1, FinishTurnInv DEF FailTurn
<1>3. ASSUME NEW t \in Turns, TurnStep(t) PROVE IInv'
  <2>1. ASSUME NEW s \in Sessions, NEW k \in Keys, NEW h \in Hashes,
               NEW A \in SUBSET Attachments, StartTurn(s, k, h, A, t)
        PROVE  IInv'
    BY <2>1, BeginTurnInv
  <2>2. ASSUME NEW hasCodexTurn \in BOOLEAN, FinishStart(t, hasCodexTurn) PROVE IInv'
    BY <2>2, FinishStartInv
  <2>3. CASE FailStart(t) \/ EndStream(t) \/ EndByCancel(t)
    BY <2>3, EndsAreFinishes, FinishTurnInv
  <2>4. QED BY <1>3, <2>1, <2>2, <2>3 DEF TurnStep
<1>4. CASE AbandonStarts \/ UNCHANGED vars
  <2>1. storeVars' = storeVars /\ starting' \in SUBSET starting
    BY <1>4 DEF AbandonStarts, vars
  <2>2. TypeOK'
    BY <1>0, <2>1 DEF IInv, TypeOK, StoreTypeOK, storeVars, turnVars
  <2>3. QED BY <2>1, <2>2, OtherStepInv DEF storeVars
<1>5. QED BY <1>1, <1>2, <1>3, <1>4 DEF Next

LEMMA Inductive == ASSUME SharedStore = FALSE PROVE Spec => []IInv
<1>1. Init => IInv
  BY InitInv
<1>2. IInv /\ [Next]_vars => IInv'
  BY NextInv
<1>3. QED BY <1>1, <1>2, PTL DEF Spec

\* At most one turn of the whole store is active, whatever its session.
THEOREM OneActiveTurnHolds ==
    ASSUME SharedStore = FALSE
    PROVE  Spec => []OneActiveTurn
<1>1. IInv => OneActiveTurn
  BY DEF IInv
<1>2. QED BY <1>1, Inductive, PTL

\* The session pointer, the messages and the idempotency row of a turn always
\* say what the turn's status says.
THEOREM LedgersAgreeHolds ==
    ASSUME SharedStore = FALSE
    PROVE  Spec => []LedgersAgree
<1>1. IInv => LedgersAgree
  BY DEF IInv
<1>2. QED BY <1>1, Inductive, PTL

-----------------------------------------------------------------------------
\* What a step can do to the turns, whichever action takes it.
LEMMA StepKinds ==
    ASSUME SharedStore = FALSE, IInv, [Next]_vars
    PROVE  \/ turnVars' = turnVars
           \/ \E s \in Sessions, k \in Keys, h \in Hashes,
                 A \in SUBSET Attachments, t \in Turns : StartTurn(s, k, h, A, t)
           \/ \E t \in Turns, hasCodexTurn \in BOOLEAN : FinishStart(t, hasCodexTurn)
           \/ \E t \in Turns, outcome \in Outcomes :
                 /\ FinishTurn(t, outcome)
                 /\ answers' = IF outcome = "completed" THEN [answers EXCEPT ![t] = @ + 1]
                               ELSE answers
<1>1. CASE ManageSession
  BY <1>1 DEF ManageSession, CreateSession, CreateAttachment, LinkCodexThread,
              ClearCodexThreadLink
<1>2. CASE Recover
  <2>1. PICK t \in Turns : FailTurn(t)
    BY <1>2, RecoverIsFail
  <2>2. QED BY <2>1 DEF FailTurn
<1>3. CASE AbandonStarts \/ UNCHANGED vars
  BY <1>3 DEF AbandonStarts, vars, storeVars
<1>4. QED BY <1>1, <1>2, <1>3, EndsAreFinishes DEF Next, TurnStep

\* A turn that has ended stays as it ended.
THEOREM TurnEndsOnceHolds ==
    ASSUME SharedStore = FALSE
    PROVE  Spec => TurnEndsOnce
<1>1. IInv /\ [Next]_vars =>
        [\A t \in Turns : status[t] \in Outcomes => status'[t] = status[t]]_vars
  <2> SUFFICES ASSUME IInv, [Next]_vars, NEW t \in Turns, status[t] \in Outcomes
               PROVE  status'[t] = status[t]
    OBVIOUS
  <2>0. status \in [Turns -> Statuses]
    BY DEF IInv, TypeOK, StoreTypeOK
  <2>1. CASE turnVars' = turnVars
    BY <2>1 DEF turnVars
  <2>2. ASSUME NEW s \in Sessions, NEW k \in Keys, NEW h \in Hashes,
               NEW A \in SUBSET Attachments, NEW u \in Turns, StartTurn(s, k, h, A, u)
        PROVE  status'[t] = status[t]
    BY <2>0, <2>2 DEF StartTurn, BeginTurn
  <2>3. ASSUME NEW u \in Turns, NEW hasCodexTurn \in BOOLEAN, FinishStart(u, hasCodexTurn)
        PROVE  status'[t] = status[t]
    BY <2>0, <2>3 DEF IInv, StartingPending, FinishStart, MarkTurnRunning
  <2>4. ASSUME NEW u \in Turns, NEW outcome \in Outcomes, FinishTurn(u, outcome)
        PROVE  status'[t] = status[t]
    BY <2>0, <2>4 DEF FinishTurn, IsActive
  <2>5. QED BY <2>1, <2>2, <2>3, <2>4, StepKinds
<1>2. QED BY <1>1, Inductive, PTL DEF Spec, TurnEndsOnce

\* What the ledger answers is what the turn's status says.
LEMMA LedgerFollowsTurn ==
    ASSUME IInv, NEW r \in Requests, NEW t \in Turns, idem[r].turn = t
    PROVE  LedgerAnswer(r) = IF status[t] \in {"failed", "cancelled"} THEN status[t]
                             ELSE "reused"
<1>1. t # None /\ idem[r].status = IF IsActive(t) THEN "in_progress" ELSE status[t]
  BY DEF IInv, LedgersAgree, LedgerAgrees
<1>2. status[t] \in Statuses
  BY DEF IInv, TypeOK, StoreTypeOK
<1>3. QED BY <1>1, <1>2 DEF LedgerAnswer, IsActive

\* The answers of the ledger after a turn is begun and after one has ended.
LEMMA LedgerAfterBegin ==
    ASSUME IInv, IInv', NEW s \in Sessions, NEW k \in Keys, NEW h \in Hashes,
           NEW A \in SUBSET Attachments, NEW t \in Turns, StartTurn(s, k, h, A, t),
           NEW r \in Requests
    PROVE  /\ idem[<<s, k>>].status = "absent" /\ idem[<<s, k>>].turn = None
           /\ idem'[r] = IF r = <<s, k>> THEN [hash |-> h, turn |-> t, status |-> "in_progress"]
                         ELSE idem[r]
           /\ LedgerAnswer(r)' = IF r = <<s, k>> THEN "reused" ELSE LedgerAnswer(r)
<1>1. idem \in [Requests -> IdemRows] /\ status \in [Turns -> Statuses]
  BY DEF IInv, TypeOK, StoreTypeOK
<1>2. RetryAnswer(<<s, k>>, h) # "new"
  BY DEF RetryAnswer, LedgerAnswer
<1>3. idem[<<s, k>>].status = "absent"
  BY <1>1, <1>2 DEF StartTurn, BeginTurn, BeginTurnAnswer
<1>4. idem[<<s, k>>].turn = None
  BY <1>3 DEF IInv, RowsNamed
<1>5. idem'[r] = IF r = <<s, k>> THEN [hash |-> h, turn |-> t, status |-> "in_progress"]
                 ELSE idem[r]
  BY <1>1 DEF StartTurn, BeginTurn
<1>6. status[t] = "absent" /\ status' = [status EXCEPT ![t] = "pending"]
  BY DEF StartTurn, BeginTurn
<1>7. CASE r = <<s, k>>
  BY <1>1, <1>3, <1>4, <1>5, <1>6, <1>7 DEF LedgerAnswer
<1>8. CASE r # <<s, k>>
  <2>1. idem'[r] = idem[r]
    BY <1>5, <1>8
  <2>2. CASE idem[r].turn = None
    BY <1>3, <1>4, <1>5, <1>8, <2>1, <2>2 DEF LedgerAnswer
  <2>3. CASE idem[r].turn # None
    <3>1. idem[r].turn \in Turns /\ idem[r].turn # t
      BY <1>1, <1>6, <2>3 DEF IInv, LedgersAgree, LedgerAgrees, RowsNamed, IsActive
    <3>2. status'[idem[r].turn] = status[idem[r].turn]
      BY <1>1, <1>6, <3>1
    <3>3. QED BY <1>3, <1>4, <1>5, <1>8, <2>1, <2>3, <3>2 DEF LedgerAnswer
  <2>4. QED BY <2>2, <2>3
<1>9. QED BY <1>7, <1>8

LEMMA LedgerAfterFinish ==
    ASSUME IInv, IInv', NEW t \in Turns, NEW outcome \in Outcomes, FinishTurn(t, outcome),
           NEW r \in Requests
    PROVE  /\ idem'[r].turn = idem[r].turn /\ idem'[r].hash = idem[r].hash
           /\ idem[r].turn = t => LedgerAnswer(r) = "reused"
           /\ LedgerAnswer(r)' = IF idem[r].turn = t
                                 THEN IF outcome = "completed" THEN "reused" ELSE outcome
                                 ELSE LedgerAnswer(r)
<1>1. /\ idem \in [Requests -> IdemRows] /\ status \in [Turns -> Statuses]
      /\ idem[r].turn \in Turns \cup {None}
  BY DEF IInv, TypeOK, StoreTypeOK
<1>2. /\ idem'[r].turn = idem[r].turn /\ idem'[r].hash = idem[r].hash
      /\ idem[r].turn # t => idem'[r] = idem[r]
      /\ status' = [status EXCEPT ![t] = outcome] /\ status[t] \in {"pending", "running"}
  BY <1>1 DEF FinishTurn, IsActive
<1>3. CASE idem[r].turn = t
  <2>1. LedgerAnswer(r) = "reused"
    BY <1>2, <1>3, LedgerFollowsTurn
  <2>2. LedgerAnswer(r)' = IF status'[t] \in {"failed", "cancelled"} THEN status'[t]
                           ELSE "reused"
    <3>1. idem'[r].turn = t
      BY <1>2, <1>3
    <3>2. idem'[r].status = IF IsActive(t)' THEN "in_progress" ELSE status'[t]
      BY <3>1 DEF IInv, LedgersAgree, LedgerAgrees
    <3>3. QED BY <1>1, <1>2, <3>1, <3>2 DEF LedgerAnswer, IsActive
  <2>3. QED BY <1>1, <1>2, <1>3, <2>1, <2>2
<1>4. CASE idem[r].turn # t
  <2>1. idem[r].turn # None => status'[idem[r].turn] = status[idem[r].turn]
    BY <1>1, <1>2, <1>4
  <2>2. QED BY <1>1, <1>2, <1>4, <2>1 DEF LedgerAnswer
<1>5. QED BY <1>3, <1>4

LEMMA LedgerAfterOther ==
    ASSUME NEW r \in Requests,
           \/ turnVars' = turnVars
           \/ \E t \in Turns, hasCodexTurn \in BOOLEAN :
                 IInv /\ FinishStart(t, hasCodexTurn)
    PROVE  idem' = idem /\ LedgerAnswer(r)' = LedgerAnswer(r)
<1>1. CASE turnVars' = turnVars
  BY <1>1 DEF turnVars, LedgerAnswer
<1>2. ASSUME NEW t \in Turns, NEW hasCodexTurn \in BOOLEAN, IInv, FinishStart(t, hasCodexTurn)
      PROVE  idem' = idem /\ LedgerAnswer(r)' = LedgerAnswer(r)
  <2>1. /\ idem' = idem /\ idem[r].turn \in Turns \cup {None}
        /\ status \in [Turns -> Statuses] /\ status' = [status EXCEPT ![t] = "running"]
        /\ status[t] = "pending"
    BY <1>2 DEF IInv, TypeOK, StoreTypeOK, StartingPending, FinishStart, MarkTurnRunning
  <2>2. QED BY <2>1 DEF LedgerAnswer
<1>3. QED BY <1>1, <1>2

\* A final answer to a repeated message/send never changes.
THEOREM RetryAnswerIsFinalHolds ==
    ASSUME SharedStore = FALSE
    PROVE  Spec => RetryAnswerIsFinal
<1>1. IInv /\ IInv' /\ [Next]_vars =>
        [\A r \in Requests, h \in Hashes :
            /\ idem[r].status # "absent"
            /\ RetryAnswer(r, h) # "reused"
            => RetryAnswer(r, h)' = RetryAnswer(r, h)]_vars
  <2> SUFFICES ASSUME IInv, IInv', [Next]_vars, NEW r \in Requests, NEW h \in Hashes,
                      idem[r].status # "absent", RetryAnswer(r, h) # "reused"
               PROVE  RetryAnswer(r, h)' = RetryAnswer(r, h)
    OBVIOUS
  <2>1. CASE \/ turnVars' = turnVars
             \/ \E t \in Turns, hasCodexTurn \in BOOLEAN : FinishStart(t, hasCodexTurn)
    BY <2>1, LedgerAfterOther DEF RetryAnswer
  <2>2. ASSUME NEW s \in Sessions, NEW k \in Keys, NEW g \in Hashes,
               NEW A \in SUBSET Attachments, NEW u \in Turns, StartTurn(s, k, g, A, u)
        PROVE  RetryAnswer(r, h)' = RetryAnswer(r, h)
    BY <2>2, LedgerAfterBegin DEF RetryAnswer
  <2>3. ASSUME NEW u \in Turns, NEW outcome \in Outcomes, FinishTurn(u, outcome)
        PROVE  RetryAnswer(r, h)' = RetryAnswer(r, h)
    BY <2>3, LedgerAfterFinish DEF RetryAnswer
  <2>4. QED BY <2>1, <2>2, <2>3, StepKinds
<1>2. QED BY <1>1, Inductive, PTL DEF Spec, RetryAnswerIsFinal

\* Every behaviour of the store is a behaviour of TurnLifecycle.
THEOREM StoreImplementsLifecycle ==
    ASSUME SharedStore = FALSE
    PROVE  Spec => ImplementsLifecycle
<1>1. Init => Lifecycle!Init
  <2> SUFFICES ASSUME Init PROVE Lifecycle!Init
    OBVIOUS
  <2>1. \A t \in Turns : status[t] = "absent" /\ ~IsActive(t) /\ answers[t] = 0
    BY DEF Init, StoreInit, IsActive
  <2>2. \A r \in Requests : idem[r].turn = None /\ LedgerAnswer(r) = "nothing"
    BY DEF Init, StoreInit, LedgerAnswer
  <2>3. QED BY <2>1, <2>2 DEF Lifecycle!Init
<1>2. IInv /\ IInv' /\ [Next]_vars => [Lifecycle!Next]_(Lifecycle!vars)
  <2> SUFFICES ASSUME IInv, IInv', [Next]_vars
               PROVE  Lifecycle!Next \/ UNCHANGED Lifecycle!vars
    OBVIOUS
  <2> DEFINE phase == [t \in Turns |-> IF IsActive(t) THEN "active" ELSE status[t]]
             answered == {t \in Turns : answers[t] > 0}
             turnOf == [r \in Requests |-> idem[r].turn]
             told == [r \in Requests |-> LedgerAnswer(r)]
  <2>0. /\ status \in [Turns -> Statuses] /\ answers \in [Turns -> Nat]
        /\ status' \in [Turns -> Statuses] /\ answers' \in [Turns -> Nat]
    BY DEF IInv, TypeOK, StoreTypeOK
  <2>1. CASE \/ turnVars' = turnVars
             \/ \E t \in Turns, hasCodexTurn \in BOOLEAN : FinishStart(t, hasCodexTurn)
    <3>1. \A u \in Turns : (IF IsActive(u) THEN "active" ELSE status[u])' =
                          IF IsActive(u) THEN "active" ELSE status[u]
      BY <2>0, <2>1 DEF IInv, StartingPending, FinishStart, MarkTurnRunning, IsActive, turnVars
    <3>2. answers' = answers
      BY <2>1 DEF FinishStart, MarkTurnRunning, turnVars
    <3>3. \A r \in Requests : idem'[r] = idem[r] /\ LedgerAnswer(r)' = LedgerAnswer(r)
      BY <2>1, LedgerAfterOther
    <3>4. phase' = phase /\ answered' = answered /\ turnOf' = turnOf /\ told' = told
      BY <3>1, <3>2, <3>3
    <3>5. QED BY <3>4 DEF Lifecycle!vars
  <2>2. ASSUME NEW s \in Sessions, NEW k \in Keys, NEW h \in Hashes,
               NEW A \in SUBSET Attachments, NEW t \in Turns, StartTurn(s, k, h, A, t)
        PROVE  Lifecycle!Next
    <3> DEFINE request == <<s, k>>
    <3>0. request \in Requests
      OBVIOUS
    <3>1. /\ status[t] = "absent" /\ status' = [status EXCEPT ![t] = "pending"]
          /\ answers' = answers
      BY <2>2 DEF StartTurn, BeginTurn
    <3>10. \A r \in Requests :
             /\ idem[request].turn = None
             /\ idem'[r].turn = IF r = request THEN t ELSE idem[r].turn
             /\ LedgerAnswer(r)' = IF r = request THEN "reused" ELSE LedgerAnswer(r)
      <4> SUFFICES ASSUME NEW r \in Requests
                   PROVE  /\ idem[request].turn = None
                          /\ idem'[r].turn = IF r = request THEN t ELSE idem[r].turn
                          /\ LedgerAnswer(r)' = IF r = request THEN "reused"
                                                ELSE LedgerAnswer(r)
        OBVIOUS
      <4>1. /\ idem[request].turn = None
            /\ idem'[r] = IF r = request
                          THEN [hash |-> h, turn |-> t, status |-> "in_progress"] ELSE idem[r]
            /\ LedgerAnswer(r)' = IF r = request THEN "reused" ELSE LedgerAnswer(r)
        BY <2>2, LedgerAfterBegin
      <4>2. QED BY <4>1
    <3> HIDE DEF request
    <3>2. \A u \in Turns : ~IsActive(u)
      <4>1. RetryAnswer(<<s, k>>, h) # "new"
        BY DEF RetryAnswer, LedgerAnswer
      <4>2. QED BY <4>1, <2>2 DEF StartTurn, BeginTurn, BeginTurnAnswer
    <3>3. phase' = [phase EXCEPT ![t] = "active"]
      BY <2>0, <3>1 DEF IsActive
    <3>4. answered' = answered
      BY <3>1
    <3>5. turnOf' = [turnOf EXCEPT ![request] = t]
      BY <3>0, <3>10
    <3>6. told' = [told EXCEPT ![request] = "reused"]
      BY <3>0, <3>10
    <3>7. /\ phase[t] = "absent" /\ turnOf[request] = None
          /\ \A u \in Turns : phase[u] # "active"
      BY <2>0, <3>0, <3>1, <3>2, <3>10 DEF IsActive
    <3>8. Lifecycle!Begin(t, request)
      BY <3>3, <3>4, <3>5, <3>6, <3>7 DEF Lifecycle!Begin
    <3>9. QED BY <3>0, <3>8 DEF Lifecycle!Next
  <2>3. ASSUME NEW t \in Turns, NEW outcome \in Outcomes, FinishTurn(t, outcome),
               answers' = IF outcome = "completed" THEN [answers EXCEPT ![t] = @ + 1]
                          ELSE answers
        PROVE  Lifecycle!Next
    <3>1. IsActive(t) /\ status' = [status EXCEPT ![t] = outcome]
      BY <2>3 DEF FinishTurn
    <3>2. phase[t] = "active" /\ phase' = [phase EXCEPT ![t] = outcome]
      BY <2>0, <3>1 DEF IsActive
    <3>3. answered' = IF outcome = "completed" THEN answered \cup {t} ELSE answered
      BY <2>0, <2>3
    <3>4. turnOf' = turnOf
      BY <2>3, LedgerAfterFinish
    <3>5. told' = [r \in Requests |-> IF turnOf[r] = t THEN Lifecycle!Telling(outcome)
                                      ELSE told[r]]
      BY <2>3, LedgerAfterFinish DEF Lifecycle!Telling
    <3>6. Lifecycle!Finish(t, outcome)
      BY <3>2, <3>3, <3>4, <3>5 DEF Lifecycle!Finish
    <3>7. QED BY <3>6 DEF Lifecycle!Next, Lifecycle!Outcomes
  <2>4. QED BY <2>1, <2>2, <2>3, StepKinds
<1>3. QED BY <1>1, <1>2, Inductive, PTL DEF Spec, ImplementsLifecycle, Lifecycle!Spec

-----------------------------------------------------------------------------
(***************************************************************************)
(* What holds even when another process recovers in the middle of a start. *)
(***************************************************************************)
SharedInv ==
    /\ TypeOK
    /\ TurnsKnown
    /\ OneActiveTurnPerSession
    /\ AttachmentsInSession

\* The four kinds of step, as they change the turns' sessions and statuses.
LEMMA SharedTurns ==
    ASSUME SharedInv, TypeOK', [Next]_vars
    PROVE  TurnsKnown' /\ OneActiveTurnPerSession'
<1> USE DEF TurnsKnown, OneActiveTurnPerSession, IsActive
<1>0. /\ status \in [Turns -> Statuses] /\ sessionOf \in [Turns -> Sessions \cup {None}]
      /\ TurnsKnown /\ OneActiveTurnPerSession
  BY DEF SharedInv, TypeOK, StoreTypeOK
<1>1. ASSUME UNCHANGED <<status, sessionOf>> PROVE TurnsKnown' /\ OneActiveTurnPerSession'
  BY <1>0, <1>1
<1>2. CASE ManageSession \/ UNCHANGED vars \/ AbandonStarts
  BY <1>1, <1>2 DEF ManageSession, CreateSession, CreateAttachment, LinkCodexThread,
                    ClearCodexThreadLink, AbandonStarts, vars, storeVars, turnVars
<1>3. CASE Recover
  <2>1. sessionOf' = sessionOf /\ \A t \in Turns : status'[t] = IF IsActive(t) THEN "failed" ELSE status[t]
    BY <1>3 DEF Recover, RecoverInterruptedActiveTurns
  <2>2. QED BY <1>0, <2>1
<1>4. ASSUME NEW t \in Turns, NEW outcome \in Outcomes, FinishTurn(t, outcome)
      PROVE  TurnsKnown' /\ OneActiveTurnPerSession'
  <2>1. /\ sessionOf' = sessionOf /\ IsActive(t)
        /\ \A u \in Turns : status'[u] = IF u = t THEN outcome ELSE status[u]
    BY <1>0, <1>4 DEF FinishTurn
  <2>2. QED BY <1>0, <2>1
<1>5. ASSUME NEW s \in Sessions, NEW k \in Keys, NEW h \in Hashes,
             NEW A \in SUBSET Attachments, NEW t \in Turns, StartTurn(s, k, h, A, t)
      PROVE  TurnsKnown' /\ OneActiveTurnPerSession'
  <2>1. RetryAnswer(<<s, k>>, h) # "new"
    BY DEF RetryAnswer, LedgerAnswer
  <2>2. \A u \in Turns : ~IsActive(u)
    BY <1>5, <2>1 DEF StartTurn, BeginTurn, BeginTurnAnswer
  <2>3. \A u \in Turns : /\ status'[u] = IF u = t THEN "pending" ELSE status[u]
                        /\ sessionOf'[u] = IF u = t THEN s ELSE sessionOf[u]
    BY <1>0, <1>5 DEF StartTurn, BeginTurn
  <2>4. QED BY <1>0, <2>2, <2>3
<1>6. ASSUME NEW t \in Turns, NEW hasCodexTurn \in BOOLEAN, FinishStart(t, hasCodexTurn)
      PROVE  TurnsKnown' /\ OneActiveTurnPerSession'
  <2>1. /\ sessionOf' = sessionOf /\ status[t] # "absent"
        /\ \A u \in Turns : status'[u] = IF u = t THEN "running" ELSE status[u]
        /\ \A u \in Turns \ {t} : ~(IsActive(u) /\ sessionOf[u] = sessionOf[t])
    BY <1>0, <1>6 DEF FinishStart, MarkTurnRunning, OtherActiveTurn
  <2>2. QED BY <1>0, <2>1
<1>7. QED BY <1>2, <1>3, <1>4, <1>5, <1>6 DEF Next, TurnStep, FailStart, EndStream,
        EndByCancel, FailTurn, CompleteTurn, CancelTurn

\* Attachments are written by their creation and by begin_turn only.
LEMMA AttachmentSteps ==
    ASSUME [Next]_vars
    PROVE  \/ UNCHANGED attachments
           \/ \E s \in Sessions, k \in Keys, h \in Hashes,
                 A \in SUBSET Attachments, t \in Turns : BeginTurn(s, k, h, A, t)
           \/ \E a \in Attachments, s \in Sessions, m \in Turns \cup {None} :
                 CreateAttachment(a, s, m)
  BY DEF Next, ManageSession, CreateSession, LinkCodexThread, ClearCodexThreadLink, Recover,
         RecoverInterruptedActiveTurns, TurnStep, StartTurn, FinishStart, MarkTurnRunning,
         FailStart, AbandonStarts, EndStream, EndByCancel, FailTurn, CompleteTurn, CancelTurn,
         FinishTurn, vars, storeVars

\* A turn that exists never moves to another session and never stops existing.
LEMMA TurnsStay ==
    ASSUME SharedInv, [Next]_vars, NEW t \in Turns, status[t] # "absent"
    PROVE  status'[t] # "absent" /\ sessionOf'[t] = sessionOf[t]
<1>0. status \in [Turns -> Statuses] /\ sessionOf \in [Turns -> Sessions \cup {None}]
  BY DEF SharedInv, TypeOK, StoreTypeOK
<1>1. ASSUME NEW u \in Turns, NEW outcome \in Outcomes, FinishTurn(u, outcome)
      PROVE  status'[t] # "absent" /\ sessionOf'[t] = sessionOf[t]
  BY <1>0, <1>1 DEF FinishTurn
<1>2. ASSUME NEW u \in Turns, TurnStep(u)
      PROVE  status'[t] # "absent" /\ sessionOf'[t] = sessionOf[t]
  <2>1. ASSUME NEW s \in Sessions, NEW k \in Keys, NEW h \in Hashes,
               NEW A \in SUBSET Attachments, StartTurn(s, k, h, A, u)
        PROVE  status'[t] # "absent" /\ sessionOf'[t] = sessionOf[t]
    BY <1>0, <2>1 DEF StartTurn, BeginTurn
  <2>2. ASSUME NEW hasCodexTurn \in BOOLEAN, FinishStart(u, hasCodexTurn)
        PROVE  status'[t] # "absent" /\ sessionOf'[t] = sessionOf[t]
    BY <1>0, <2>2 DEF FinishStart, MarkTurnRunning
  <2>3. QED BY <1>1, <1>2, <2>1, <2>2 DEF TurnStep, FailStart, EndStream,
                 EndByCancel, FailTurn, CompleteTurn, CancelTurn
<1>3. CASE Recover
  BY <1>0, <1>3 DEF Recover, RecoverInterruptedActiveTurns
<1>4. CASE ManageSession \/ AbandonStarts \/ UNCHANGED vars
  BY <1>4 DEF ManageSession, CreateSession, CreateAttachment, LinkCodexThread,
              ClearCodexThreadLink, AbandonStarts, vars, storeVars, turnVars
<1>5. QED BY <1>2, <1>3, <1>4 DEF Next

LEMMA SharedAttachments ==
    ASSUME SharedInv, TypeOK', [Next]_vars
    PROVE  AttachmentsInSession'
<1> SUFFICES ASSUME NEW a \in Attachments, attachments'[a].message # None
             PROVE  /\ attachments'[a].session = sessionOf'[attachments'[a].message]
                    /\ status'[attachments'[a].message] # "absent"
  BY DEF AttachmentsInSession
<1>0. /\ attachments \in [Attachments -> AttachmentRows] /\ TurnsKnown /\ AttachmentsInSession
      /\ status \in [Turns -> Statuses] /\ sessionOf \in [Turns -> Sessions \cup {None}]
  BY DEF SharedInv, TypeOK, StoreTypeOK
<1>1. ASSUME attachments'[a] = attachments[a]
      PROVE  /\ attachments'[a].session = sessionOf'[attachments'[a].message]
             /\ status'[attachments'[a].message] # "absent"
  <2>1. attachments[a].message \in Turns
    BY <1>0, <1>1
  <2>2. /\ attachments[a].session = sessionOf[attachments[a].message]
        /\ status[attachments[a].message] # "absent"
    BY <1>0, <1>1 DEF AttachmentsInSession
  <2>3. QED BY <1>1, <2>1, <2>2, TurnsStay
<1>2. ASSUME NEW s \in Sessions, NEW k \in Keys, NEW h \in Hashes,
             NEW A \in SUBSET Attachments, NEW t \in Turns, BeginTurn(s, k, h, A, t), a \in A
      PROVE  /\ attachments'[a].session = sessionOf'[attachments'[a].message]
             /\ status'[attachments'[a].message] # "absent"
  <2>1. RetryAnswer(<<s, k>>, h) # "new"
    BY DEF RetryAnswer, LedgerAnswer
  <2>2. attachments[a] = [session |-> s, message |-> None]
    BY <1>2, <2>1 DEF BeginTurn, BeginTurnAnswer, Linkable
  <2>3. attachments'[a] = [session |-> s, message |-> t]
    BY <1>2, <2>2 DEF BeginTurn
  <2>4. sessionOf'[t] = s /\ status'[t] = "pending"
    BY <1>0, <1>2 DEF BeginTurn
  <2>5. QED BY <2>3, <2>4
<1>3. ASSUME NEW b \in Attachments, NEW s \in Sessions, NEW m \in Turns \cup {None},
             CreateAttachment(b, s, m), a = b
      PROVE  /\ attachments'[a].session = sessionOf'[attachments'[a].message]
             /\ status'[attachments'[a].message] # "absent"
  <2>1. attachments'[a] = [session |-> s, message |-> m]
    BY <1>0, <1>3 DEF CreateAttachment
  <2>2. m \in Turns /\ sessionOf[m] = s /\ sessionOf' = sessionOf /\ status' = status
    BY <1>3, <2>1 DEF CreateAttachment, turnVars
  <2>3. QED BY <1>0, <2>1, <2>2 DEF TurnsKnown
<1>4. QED
  <2>1. ASSUME NEW s \in Sessions, NEW k \in Keys, NEW h \in Hashes,
               NEW A \in SUBSET Attachments, NEW t \in Turns, BeginTurn(s, k, h, A, t),
               a \notin A
        PROVE  attachments'[a] = attachments[a]
    BY <2>1 DEF BeginTurn
  <2>2. ASSUME NEW b \in Attachments, NEW s \in Sessions, NEW m \in Turns \cup {None},
               CreateAttachment(b, s, m), a # b
        PROVE  attachments'[a] = attachments[a]
    BY <1>0, <2>2 DEF CreateAttachment
  <2>3. QED BY <1>1, <1>2, <1>3, <2>1, <2>2, AttachmentSteps

LEMMA SharedInductive == Spec => []SharedInv
<1>1. Init => SharedInv
  BY DEF Init, StoreInit, SharedInv, TypeOK, StoreTypeOK, TurnsKnown,
         OneActiveTurnPerSession, IsActive, AttachmentsInSession
<1>2. TypeOK' /\ SharedInv /\ [Next]_vars => SharedInv'
  BY SharedTurns, SharedAttachments DEF SharedInv
<1>3. QED BY <1>1, <1>2, TypeCorrect, PTL DEF Spec

\* A session never has two active turns, even with two processes on the store.
THEOREM OneActiveTurnPerSessionHolds == Spec => []OneActiveTurnPerSession
<1>1. SharedInv => OneActiveTurnPerSession
  BY DEF SharedInv
<1>2. QED BY <1>1, SharedInductive, PTL

\* A linked attachment names a turn of its own session.
THEOREM AttachmentsInSessionHolds == Spec => []AttachmentsInSession
<1>1. SharedInv => AttachmentsInSession
  BY DEF SharedInv
<1>2. QED BY <1>1, SharedInductive, PTL

\* Once linked, an attachment is never given to another message.
THEOREM AttachmentLinkedOnceHolds == Spec => AttachmentLinkedOnce
<1>1. TypeOK /\ [Next]_vars =>
        [\A a \in Attachments :
            attachments[a].message # None => attachments'[a] = attachments[a]]_vars
  <2> SUFFICES ASSUME TypeOK, [Next]_vars, NEW a \in Attachments, attachments[a].message # None
               PROVE  attachments'[a] = attachments[a]
    OBVIOUS
  <2>0. attachments \in [Attachments -> AttachmentRows]
    BY DEF TypeOK, StoreTypeOK
  <2>1. ASSUME NEW s \in Sessions, NEW k \in Keys, NEW h \in Hashes,
               NEW A \in SUBSET Attachments, NEW t \in Turns, BeginTurn(s, k, h, A, t)
        PROVE  attachments'[a] = attachments[a]
    <3>1. RetryAnswer(<<s, k>>, h) # "new"
      BY DEF RetryAnswer, LedgerAnswer
    <3>2. a \notin A
      BY <2>1, <3>1 DEF BeginTurn, BeginTurnAnswer, Linkable
    <3>3. QED BY <2>1, <3>2 DEF BeginTurn
  <2>2. ASSUME NEW b \in Attachments, NEW s \in Sessions, NEW m \in Turns \cup {None},
               CreateAttachment(b, s, m)
        PROVE  attachments'[a] = attachments[a]
    <3>1. a # b
      BY <2>2 DEF CreateAttachment
    <3>2. QED BY <2>0, <2>2, <3>1 DEF CreateAttachment
  <2>3. QED BY <2>1, <2>2, AttachmentSteps
<1>2. QED BY <1>1, TypeCorrect, PTL DEF Spec, AttachmentLinkedOnce
=============================================================================

----------------------------- MODULE DaemonProofs -----------------------------
(***************************************************************************)
(* Theorems about a daemon's turns and connections, for any number of      *)
(* daemons, connections, sessions and turns.                               *)
(***************************************************************************)
EXTENDS Daemon, SessionStoreProofs, SequenceTheorems, TLAPS

USE StoreAssumption, DaemonAssumption DEF errorVars, StoreFails

-----------------------------------------------------------------------------
\* Type correctness.

\* What a broadcast leaves in the queues is events, no more than fit.
LEMMA BroadcastType ==
    ASSUME TypeOK, NEW d, NEW kind \in EventKinds, NEW t \in Turns, Broadcast(d, kind, t)
    PROVE  /\ queue' \in [Conns -> Seq(Events)] /\ \A c \in Conns : Len(queue'[c]) <= Cap
           /\ lagged' \in SUBSET Conns
           /\ notices' \in [Turns -> Seq(Outcomes)]
<1>1. [kind |-> kind, turn |-> t] \in Events
  BY DEF Events
<1>2. ASSUME NEW c \in Conns PROVE queue'[c] \in Seq(Events) /\ Len(queue'[c]) <= Cap
  <2>1. queue[c] \in Seq(Events) /\ Len(queue[c]) <= Cap
    BY DEF TypeOK
  <2>2. CASE Overflows(c, d)
    <3>1. queue'[c] = <<>>
      BY <2>2 DEF Broadcast
    <3>2. QED BY <3>1
  <2>3. CASE Receives(c, d) /\ ~Overflows(c, d)
    <3>1. queue'[c] = Append(queue[c], [kind |-> kind, turn |-> t])
      BY <2>3 DEF Broadcast
    <3>2. Len(queue[c]) # Cap
      BY <2>3 DEF Overflows
    <3>3. QED BY <1>1, <2>1, <3>1, <3>2, AppendProperties
  <2>4. CASE ~Receives(c, d)
    <3>1. queue'[c] = queue[c]
      BY <2>4 DEF Broadcast, Overflows
    <3>2. QED BY <2>1, <3>1
  <2>5. QED BY <2>2, <2>3, <2>4
<1>3. DOMAIN queue' = Conns /\ queue' = [c \in Conns |-> queue'[c]]
  BY DEF Broadcast
<1>4. lagged' \in SUBSET Conns
  BY DEF Broadcast, TypeOK
<1>5. notices' \in [Turns -> Seq(Outcomes)]
  <2>1. notices \in [Turns -> Seq(Outcomes)]
    BY DEF TypeOK
  <2>2. kind \in Outcomes => Append(notices[t], kind) \in Seq(Outcomes)
    BY <2>1, AppendProperties
  <2>3. QED BY <2>1, <2>2 DEF Broadcast
<1>6. QED BY <1>2, <1>3, <1>4, <1>5

\* A step that says nothing keeps what was said.
LEMMA QuietType ==
    ASSUME TypeOK, Quiet
    PROVE  /\ queue' \in [Conns -> Seq(Events)] /\ \A c \in Conns : Len(queue'[c]) <= Cap
           /\ lagged' \in SUBSET Conns
           /\ notices' \in [Turns -> Seq(Outcomes)]
  BY DEF TypeOK, Quiet

\* A turn that is ended by the daemon, and told.
LEMMA FailAndNotifyType ==
    ASSUME TypeOK, NEW d, NEW t \in Turns, FailAndNotify(d, t)
    PROVE  /\ StoreTypeOK'
           /\ queue' \in [Conns -> Seq(Events)] /\ \A c \in Conns : Len(queue'[c]) <= Cap
           /\ lagged' \in SUBSET Conns
           /\ notices' \in [Turns -> Seq(Outcomes)]
<1>0. StoreTypeOK /\ "failed" \in Outcomes /\ "failed" \in EventKinds
  BY DEF TypeOK, Outcomes, EventKinds
<1>1. CASE IsActive(t)
  BY <1>0, <1>1, BroadcastType, FinishTurnType DEF FailAndNotify, FailTurn
<1>2. CASE ~IsActive(t)
  BY <1>0, <1>2, QuietType DEF FailAndNotify, StoreTypeOK, storeVars, turnVars
<1>3. QED BY <1>1, <1>2

\* An end that the store could not read back is an end all the same.
LEMMA EndUnheardFinishes ==
    ASSUME NEW t, NEW outcome \in Outcomes, EndUnheard(t, outcome)
    PROVE  /\ StoreMayFail /\ IsActive(t) /\ FinishTurn(t, outcome)
           /\ unheard' = unheard \cup {t}
           /\ outcome = "completed" => CompleteTurn(t)
           /\ outcome # "completed" => UNCHANGED answers
  BY DEF EndUnheard, CompleteTurn, FailTurn, CancelTurn, Outcomes

LEMMA EndUnheardType ==
    ASSUME TypeOK, NEW t \in Turns, NEW outcome \in Outcomes, EndUnheard(t, outcome)
    PROVE  StoreTypeOK' /\ unheard' \in SUBSET Turns
<1>1. StoreTypeOK /\ unheard \in SUBSET Turns
  BY DEF TypeOK
<1>2. FinishTurn(t, outcome) /\ unheard' = unheard \cup {t}
  BY EndUnheardFinishes
<1>3. answers' = answers \/ answers' = [answers EXCEPT ![t] = @ + 1]
  BY EndUnheardFinishes DEF CompleteTurn
<1>4. QED BY <1>1, <1>2, <1>3, FinishTurnType

\* What is forgotten with a connection.
LEMMA ForgetType ==
    ASSUME TypeOK, NEW C, Forget(C)
    PROVE  /\ owned' \in [Conns -> SUBSET Turns]
           /\ subs' \in [Conns -> SUBSET Sessions]
           /\ view' \in [Conns -> [Turns -> {"unseen", "active", "ended"}]]
           /\ queue' \in [Conns -> Seq(Events)] /\ \A c \in Conns : Len(queue'[c]) <= Cap
           /\ lagged' \in SUBSET Conns
<1>1. /\ owned' \in [Conns -> SUBSET Turns]
      /\ subs' \in [Conns -> SUBSET Sessions]
      /\ view' \in [Conns -> [Turns -> {"unseen", "active", "ended"}]]
      /\ lagged' \in SUBSET Conns
  BY DEF Forget, TypeOK
<1>2. <<>> \in Seq(Events) /\ Len(<<>>) <= Cap
  BY EmptySeq
<1>3. queue' \in [Conns -> Seq(Events)] /\ \A c \in Conns : Len(queue'[c]) <= Cap
  BY <1>2 DEF Forget, TypeOK
<1>4. QED BY <1>1, <1>3

\* A step that leaves the store alone.
LEMMA StoreUnchangedType == ASSUME StoreTypeOK, UNCHANGED storeVars PROVE StoreTypeOK'
  BY DEF StoreTypeOK, storeVars, turnVars

-----------------------------------------------------------------------------
(***************************************************************************)
(* The invariant of the handlers' jobs.  A turn that exists has a session  *)
(* and the connection that began it; while that connection's handler is    *)
(* between begin_turn and its return, nothing else of the daemon has the   *)
(* turn: it is not streamed, not owned by a connection, and not yet one    *)
(* that a client could cancel.                                             *)
(***************************************************************************)
Busy(c) == pc[c] \in Starting

TurnsKnown == \A t \in Turns : status[t] = "absent" <=> sessionOf[t] = None
TurnsSent == \A t \in Turns : status[t] = "absent" <=> sender[t] = None
Unborn ==
    \A t \in Turns : status[t] = "absent" =>
        stream[t] = "none" /\ codexTurns[t] = 0 /\ t \notin codexTurn
JobStarts ==
    \A c \in Conns : Busy(c) =>
        /\ Turn(c) \in Turns
        /\ sender[Turn(c)] = c
        /\ stream[Turn(c)] = "none"
ThreadGot == \A c \in Conns : pc[c] \in {"linking", "marking"} => job[c].thread # None
CancelSeen == \A c \in Conns : pc[c] = "cancelling" => Turn(c) \in codexTurn
OwnedStreams == \A c \in Conns : \A t \in owned[c] : stream[t] # "none"
Started(t) == \A c \in Conns : Busy(c) => Turn(c) # t
CodexTurnsStarted == \A t \in codexTurn : Started(t)
DownIsClosed == \A c \in Conns : daemonOf[c] \notin up => pc[c] = "closed"

JobInv ==
    /\ TypeOK
    /\ TurnsKnown
    /\ TurnsSent
    /\ Unborn
    /\ JobStarts
    /\ ThreadGot
    /\ CancelSeen
    /\ OwnedStreams
    /\ CodexTurnsStarted
    /\ DownIsClosed

\* The turn a handler starts exists, and so does its session.
LEMMA BusyTurn ==
    ASSUME JobInv, NEW c \in Conns, Busy(c)
    PROVE  /\ Turn(c) \in Turns /\ status[Turn(c)] # "absent"
           /\ sessionOf[Turn(c)] \in Sessions
           /\ sender[Turn(c)] = c /\ stream[Turn(c)] = "none"
<1>1. Turn(c) \in Turns /\ sender[Turn(c)] = c /\ stream[Turn(c)] = "none"
  BY DEF JobInv, JobStarts
<1>2. c # None
  OBVIOUS
<1>3. status[Turn(c)] # "absent"
  BY <1>1, <1>2 DEF JobInv, TurnsSent
<1>4. sessionOf[Turn(c)] # None
  BY <1>1, <1>3 DEF JobInv, TurnsKnown
<1>5. QED BY <1>1, <1>3, <1>4 DEF JobInv, TypeOK, StoreTypeOK

LEMMA InitJobInv == Init => JobInv
<1> SUFFICES ASSUME Init PROVE JobInv
  OBVIOUS
<1>1. TypeOK
  BY EmptySeq DEF Init, StoreInit, TypeOK, StoreTypeOK, Statuses, MessageStatuses, IdemRows,
         IdemStatuses, NoRow, AttachmentRows, NoAttachment, NoJob, PCs
<1>2. TurnsKnown /\ TurnsSent /\ Unborn
  BY DEF Init, StoreInit, TurnsKnown, TurnsSent, Unborn
<1>3. JobStarts /\ ThreadGot /\ CancelSeen /\ OwnedStreams /\ CodexTurnsStarted /\ DownIsClosed
  BY DEF Init, StoreInit, JobStarts, Busy, Starting, ThreadGot, CancelSeen, OwnedStreams,
         CodexTurnsStarted, DownIsClosed
<1>4. QED BY <1>1, <1>2, <1>3 DEF JobInv

\* The steps of a message/send keep the types.
LEMMA HandlerType ==
    ASSUME JobInv, NEW c \in Conns, Handler(c)
    PROVE  TypeOK'
<1>0. TypeOK /\ StoreTypeOK
  BY DEF JobInv, TypeOK
<1> DEFINE jobs == [Conns -> [turn : Turns \cup {None}, thread : Threads \cup {None}]]
<1>1. job \in jobs /\ pc \in [Conns -> PCs] /\ "idle" \in PCs
      /\ \A where \in Starting : where \in PCs
  BY <1>0 DEF TypeOK, PCs
<1>2. ASSUME Return(c) PROVE pc' \in [Conns -> PCs] /\ job' \in jobs
  BY <1>1, <1>2 DEF Return, Goto, NoJob
<1>3. CASE LoadContext(c)
  <2>1. sessionOf[Turn(c)] \in Sessions
    BY <1>3, BusyTurn DEF LoadContext, Busy, Starting
  <2>2. threadLink[sessionOf[Turn(c)]] \in Threads \cup {None}
    BY <1>0, <2>1 DEF StoreTypeOK
  <2>3. pc' \in [Conns -> PCs] /\ job' \in jobs
    BY <1>1, <1>3, <2>2 DEF LoadContext, Goto, Starting
  <2>4. StoreTypeOK'
    BY <1>0, <1>3, StoreUnchangedType DEF LoadContext
  <2>5. QED BY <1>0, <1>3, <2>3, <2>4, QuietType DEF LoadContext, TypeOK, codexVars
<1>4. ASSUME NEW codexCreated \in BOOLEAN, FailStarting(c, codexCreated) PROVE TypeOK'
  <2>1. Turn(c) \in Turns
    BY <1>4, BusyTurn DEF FailStarting, Busy, Starting
  <2>2. pc' \in [Conns -> PCs] /\ job' \in jobs
    BY <1>2, <1>4 DEF FailStarting
  <2>3. codexTurns' \in [Turns -> Nat]
    BY <1>0, <1>4, <2>1 DEF FailStarting, TypeOK
  <2>4. /\ StoreTypeOK' /\ stranded' \in SUBSET Turns /\ unheard' \in SUBSET Turns
        /\ queue' \in [Conns -> Seq(Events)] /\ \A b \in Conns : Len(queue'[b]) <= Cap
        /\ lagged' \in SUBSET Conns
        /\ notices' \in [Turns -> Seq(Outcomes)]
    <3>1. CASE FailAndNotify(daemonOf[c], Turn(c)) /\ UNCHANGED errorVars
      BY <1>0, <2>1, <3>1, FailAndNotifyType DEF TypeOK
    <3>2. CASE EndUnheard(Turn(c), "failed") /\ Quiet /\ UNCHANGED stranded
      BY <1>0, <2>1, <3>2, EndUnheardType, QuietType DEF TypeOK, Outcomes
    <3>3. CASE StoreFails(Turn(c)) /\ UNCHANGED storeVars /\ Quiet
      BY <1>0, <2>1, <3>3, StoreUnchangedType, QuietType DEF TypeOK
    <3>4. QED BY <1>4, <3>1, <3>2, <3>3 DEF FailStarting
  <2>5. QED BY <1>0, <1>4, <2>1, <2>2, <2>3, <2>4 DEF FailStarting, TypeOK
<1>5. ASSUME NEW th \in Threads, CodexStarts(c, th) PROVE TypeOK'
  <2>1. sessionOf[Turn(c)] \in Sessions /\ Turn(c) \in Turns
    BY <1>5, BusyTurn DEF CodexStarts, Busy, Starting
  <2>2. pc' \in [Conns -> PCs] /\ job' \in jobs
    BY <1>1, <1>5 DEF CodexStarts, Goto, Starting
  <2>3. codexTurns' \in [Turns -> Nat] /\ threadOf' \in [Threads -> Sessions \cup {None}]
    BY <1>0, <1>5, <2>1 DEF CodexStarts, TypeOK
  <2>4. StoreTypeOK'
    BY <1>0, <1>5, StoreUnchangedType DEF CodexStarts
  <2>5. QED BY <1>0, <1>5, <2>2, <2>3, <2>4, QuietType DEF CodexStarts, TypeOK
<1>6. CASE RetryWithoutStaleThread(c)
  <2>1. sessionOf[Turn(c)] \in Sessions /\ job[c].thread \in Threads
    BY <1>1, <1>6, BusyTurn DEF RetryWithoutStaleThread, Busy, Starting
  <2>2. pc' \in [Conns -> PCs] /\ job' \in jobs
    BY <1>1, <1>6 DEF RetryWithoutStaleThread, Goto, Starting
  <2>3. StoreTypeOK'
    BY <1>0, <1>6, <2>1, LinkType DEF RetryWithoutStaleThread
  <2>4. QED BY <1>0, <1>6, <2>2, <2>3, QuietType DEF RetryWithoutStaleThread, TypeOK, codexVars
<1>7. CASE LinkThread(c)
  <2>1. sessionOf[Turn(c)] \in Sessions /\ job[c].thread \in Threads
    BY <1>1, <1>7, BusyTurn DEF LinkThread, Busy, Starting, JobInv, ThreadGot
  <2>2. pc' \in [Conns -> PCs]
    BY <1>1, <1>7 DEF LinkThread, Goto, Starting
  <2>3. StoreTypeOK'
    BY <1>0, <1>7, <2>1, LinkType DEF LinkThread
  <2>4. QED BY <1>0, <1>7, <2>2, <2>3, QuietType DEF LinkThread, TypeOK, codexVars
<1>8. CASE MarkRunning(c)
  <2>1. Turn(c) \in Turns
    BY <1>8, BusyTurn DEF MarkRunning, Busy, Starting
  <2>2. pc' \in [Conns -> PCs] /\ job' \in jobs
    BY <1>2, <1>8 DEF MarkRunning
  <2>3. StoreTypeOK'
    BY <1>0, <1>8, <2>1, MarkTurnRunningType DEF MarkRunning
  <2>4. /\ stream' \in [Turns -> {"none", "open", "done", "dead"}]
        /\ owned' \in [Conns -> SUBSET Turns]
        /\ view' \in [Conns -> [Turns -> {"unseen", "active", "ended"}]]
    BY <1>0, <1>8, <2>1 DEF MarkRunning, TypeOK
  <2>5. QED BY <1>0, <1>8, <2>1, <2>2, <2>3, <2>4, BroadcastType
            DEF MarkRunning, TypeOK, EventKinds, codexVars
<1>9. CASE AbandonOnStoreError(c)
  <2>1. Turn(c) \in Turns
    BY <1>9, BusyTurn DEF AbandonOnStoreError, Busy, Starting
  <2>2. pc' \in [Conns -> PCs] /\ job' \in jobs
    BY <1>2, <1>9 DEF AbandonOnStoreError
  <2>3. StoreTypeOK'
    BY <1>0, <1>9, <2>1, StoreUnchangedType, MarkTurnRunningType DEF AbandonOnStoreError
  <2>4. QED BY <1>0, <1>9, <2>1, <2>2, <2>3, QuietType DEF AbandonOnStoreError, TypeOK, codexVars
<1>10. CASE MarkRefused(c)
  <2>1. Turn(c) \in Turns
    BY <1>10, BusyTurn DEF MarkRefused, Busy, Starting
  <2>2. pc' \in [Conns -> PCs] /\ job' \in jobs
    BY <1>2, <1>10 DEF MarkRefused
  <2>3. StoreTypeOK'
    BY <1>0, <1>10, StoreUnchangedType DEF MarkRefused
  <2>4. QED BY <1>0, <1>10, <2>1, <2>2, <2>3, QuietType DEF MarkRefused, TypeOK, codexVars
<1>11. ASSUME NEW codexAgrees \in BOOLEAN, FinishCancel(c, codexAgrees) PROVE TypeOK'
  <2>1. Turn(c) \in Turns
    BY <1>0, <1>11 DEF FinishCancel, JobInv, CancelSeen, StoreTypeOK
  <2>2. pc' \in [Conns -> PCs] /\ job' \in jobs
    BY <1>2, <1>11 DEF FinishCancel
  <2>3. CASE CancelTurn(Turn(c)) /\ Broadcast(daemonOf[c], "cancelled", Turn(c)) /\ UNCHANGED unheard
    <3>1. StoreTypeOK'
      BY <1>0, <2>1, <2>3, FinishTurnType DEF CancelTurn, Outcomes
    <3>2. QED BY <1>0, <1>11, <2>1, <2>2, <2>3, <3>1, BroadcastType
              DEF FinishCancel, TypeOK, EventKinds, Outcomes, codexVars
  <2>4. CASE EndUnheard(Turn(c), "cancelled") /\ Quiet
    <3>1. StoreTypeOK' /\ unheard' \in SUBSET Turns
      BY <1>0, <2>1, <2>4, EndUnheardType DEF Outcomes
    <3>2. QED BY <1>0, <1>11, <2>2, <2>4, <3>1, QuietType DEF FinishCancel, TypeOK, codexVars
  <2>5. CASE UNCHANGED <<storeVars, unheard>> /\ Quiet
    <3>1. StoreTypeOK'
      BY <1>0, <2>5, StoreUnchangedType
    <3>2. QED BY <1>0, <1>11, <2>2, <2>5, <3>1, QuietType DEF FinishCancel, TypeOK, codexVars
  <2>6. QED BY <1>11, <2>3, <2>4, <2>5 DEF FinishCancel
<1>12. QED BY <1>3, <1>4, <1>5, <1>6, <1>7, <1>8, <1>9, <1>10, <1>11 DEF Handler

\* So do requests, events received, and the end of a connection.
LEMMA ConnectionType ==
    ASSUME JobInv, NEW c \in Conns,
           Request(c) \/ Receive(c) \/ Connect(c) \/ Leave(c) \/ Closing(c)
    PROVE  TypeOK'
<1>0. TypeOK /\ StoreTypeOK
  BY DEF JobInv, TypeOK
<1> DEFINE jobs == [Conns -> [turn : Turns \cup {None}, thread : Threads \cup {None}]]
           views == [Conns -> [Turns -> {"unseen", "active", "ended"}]]
<1>1. job \in jobs /\ pc \in [Conns -> PCs] /\ "idle" \in PCs
      /\ \A where \in Starting \cup {"closed", "cancelling", "closing"} : where \in PCs
  BY <1>0 DEF TypeOK, PCs
<1>2. ASSUME NEW s \in Sessions, NEW k \in Keys, NEW h \in Hashes,
             NEW A \in SUBSET Attachments, NEW t \in Turns, HandleMessageSend(c, s, k, h, A, t)
      PROVE  TypeOK'
  <2>1. pc' \in [Conns -> PCs] /\ job' \in jobs
    BY <1>1, <1>2 DEF HandleMessageSend, Goto, Starting
  <2>2. sender' \in [Turns -> Conns \cup {None}]
    BY <1>0, <1>2 DEF HandleMessageSend, TypeOK
  <2>3. StoreTypeOK'
    BY <1>0, <1>2, BeginTurnType DEF HandleMessageSend
  <2>4. QED BY <1>0, <1>2, <2>1, <2>2, <2>3, QuietType DEF HandleMessageSend, TypeOK, codexVars
<1>3. ASSUME NEW t \in Turns, HandleTurnCancel(c, t) PROVE TypeOK'
  <2>1. pc' \in [Conns -> PCs] /\ job' \in jobs
    BY <1>1, <1>3 DEF HandleTurnCancel, Goto
  <2>2. StoreTypeOK'
    BY <1>0, <1>3, StoreUnchangedType DEF HandleTurnCancel
  <2>3. QED BY <1>0, <1>3, <2>1, <2>2, QuietType DEF HandleTurnCancel, TypeOK, codexVars
<1>4. ASSUME NEW s \in Sessions, HandleSubscribe(c, s) \/ HandleUnsubscribe(c, s) PROVE TypeOK'
  <2>1. StoreTypeOK'
    BY <1>0, <1>4, StoreUnchangedType DEF HandleSubscribe, HandleUnsubscribe
  <2>3. /\ view[c] \in [Turns -> {"unseen", "active", "ended"}] /\ view \in views
        /\ subs \in [Conns -> SUBSET Sessions]
    BY <1>0 DEF TypeOK
  <2>4. CASE HandleSubscribe(c, s)
    <3> DEFINE seen == [t \in Turns |-> IF sessionOf[t] # s THEN view[c][t]
                                        ELSE IF IsActive(t) THEN "active" ELSE "ended"]
    <3>1. seen \in [Turns -> {"unseen", "active", "ended"}]
      BY <2>3
    <3>2. view' = [view EXCEPT ![c] = seen]
      BY <2>4 DEF HandleSubscribe
    <3>3. view' \in views
      BY <2>3, <3>1, <3>2
    <3>4. subs' \in [Conns -> SUBSET Sessions]
      BY <2>3, <2>4 DEF HandleSubscribe
    <3>5. QED BY <1>0, <2>1, <2>4, <3>3, <3>4
              DEF HandleSubscribe, TypeOK, turnTaskVars, codexVars
  <2>5. CASE HandleUnsubscribe(c, s)
    <3> DEFINE seen == [t \in Turns |-> IF sessionOf[t] = s THEN "unseen" ELSE view[c][t]]
    <3>1. seen \in [Turns -> {"unseen", "active", "ended"}]
      BY <2>3
    <3>2. view' = [view EXCEPT ![c] = seen]
      BY <2>5 DEF HandleUnsubscribe
    <3>3. view' \in views
      BY <2>3, <3>1, <3>2
    <3>4. subs' \in [Conns -> SUBSET Sessions]
      BY <2>3, <2>5 DEF HandleUnsubscribe
    <3>5. QED BY <1>0, <2>1, <2>5, <3>3, <3>4
              DEF HandleUnsubscribe, TypeOK, turnTaskVars, codexVars
  <2>6. QED BY <1>4, <2>4, <2>5
<1>5. CASE Receive(c)
  <2>1. StoreTypeOK'
    BY <1>0, <1>5, StoreUnchangedType DEF Receive
  <2>2. queue[c] \in Seq(Events) /\ queue[c] # <<>> /\ Len(queue[c]) <= Cap
    BY <1>0, <1>5 DEF Receive, TypeOK
  <2>3. /\ Head(queue[c]) \in Events /\ Tail(queue[c]) \in Seq(Events)
        /\ Len(Tail(queue[c])) <= Cap
    BY <2>2, HeadTailProperties, LenProperties
  <2>4. queue' \in [Conns -> Seq(Events)] /\ \A b \in Conns : Len(queue'[b]) <= Cap
    BY <1>0, <1>5, <2>3 DEF Receive, TypeOK
  <2>5. owned' \in [Conns -> SUBSET Turns] /\ view' \in views
    BY <1>0, <1>5, <2>3 DEF Receive, TypeOK, Events
  <2>6. QED BY <1>0, <1>5, <2>1, <2>4, <2>5 DEF Receive, TypeOK, turnTaskVars, codexVars
<1>6. CASE Connect(c) \/ Leave(c)
  <2>1. StoreTypeOK'
    BY <1>0, <1>6, StoreUnchangedType DEF Connect, Leave
  <2>2. pc' \in [Conns -> PCs]
    BY <1>1, <1>6 DEF Connect, Leave, Goto
  <2>3. QED BY <1>0, <1>6, <2>1, <2>2 DEF Connect, Leave, TypeOK, turnTaskVars, codexVars
<1>7. CASE Close(c)
  <2>1. StoreTypeOK' /\ unheard' \in SUBSET Turns
    <3>1. ASSUME NEW t \in owned[c], EndUnheard(t, "failed")
          PROVE  StoreTypeOK' /\ unheard' \in SUBSET Turns
      <4>1. t \in Turns /\ "failed" \in Outcomes
        BY <1>0 DEF TypeOK, Outcomes
      <4>2. QED BY <1>0, <3>1, <4>1, EndUnheardType
    <3>2. QED BY <1>0, <1>7, <3>1, StoreUnchangedType DEF Close, TypeOK
  <2>2. pc' \in [Conns -> PCs]
    BY <1>1, <1>7 DEF Close, Goto
  <2>3. QED BY <1>0, <1>7, <2>1, <2>2, ForgetType DEF Close, TypeOK, turnTaskVars, codexVars
<1>8. ASSUME NEW t \in Turns, CleanUp(c, t) PROVE TypeOK'
  <2>1. owned' \in [Conns -> SUBSET Turns]
    BY <1>0, <1>8 DEF CleanUp, TypeOK
  <2>2. QED BY <1>0, <1>8, <2>1, FailAndNotifyType DEF CleanUp, TypeOK, codexVars
<1>9. QED BY <1>2, <1>3, <1>4, <1>5, <1>6, <1>7, <1>8 DEF Request, Closing

\* So do the stream tasks.
LEMMA StreamType ==
    ASSUME JobInv, NEW t \in Turns, Stream(t)
    PROVE  TypeOK'
<1>0. TypeOK /\ StoreTypeOK
  BY DEF JobInv, TypeOK
<1>1. /\ "delta" \in EventKinds /\ "completed" \in EventKinds
      /\ "completed" \in Outcomes
  BY DEF EventKinds, Outcomes
<1>2. EndStream(t) => stream' \in [Turns -> {"none", "open", "done", "dead"}]
  BY <1>0 DEF EndStream, TypeOK
<1>3. CASE StreamDelta(t)
  <2>1. StoreTypeOK'
    BY <1>0, <1>3, StoreUnchangedType DEF StreamDelta
  <2>2. CASE IsActive(t)
    BY <1>0, <1>1, <1>3, <2>1, <2>2, BroadcastType DEF StreamDelta, StreamStep, TypeOK, codexVars
  <2>3. CASE ~IsActive(t)
    BY <1>0, <1>2, <1>3, <2>1, <2>3, QuietType DEF StreamDelta, StreamStep, TypeOK, codexVars
  <2>4. QED BY <2>2, <2>3
<1>4. CASE StreamCompleted(t)
  <2>1. CASE IsActive(t)
    <3>1. StoreTypeOK'
      BY <1>0, <1>1, <1>4, <2>1, FinishTurnType DEF StreamCompleted, CompleteTurn
    <3>2. QED BY <1>0, <1>1, <1>2, <1>4, <2>1, <3>1, BroadcastType
              DEF StreamCompleted, StreamStep, TypeOK, codexVars
  <2>2. CASE ~IsActive(t)
    <3>1. StoreTypeOK'
      BY <1>0, <1>4, <2>2, StoreUnchangedType DEF StreamCompleted
    <3>2. QED BY <1>0, <1>2, <1>4, <2>2, <3>1, QuietType
              DEF StreamCompleted, StreamStep, TypeOK, codexVars
  <2>3. QED BY <2>1, <2>2
<1>5. CASE StreamFailed(t)
  BY <1>0, <1>2, <1>5, FailAndNotifyType DEF StreamFailed, StreamStep, TypeOK, codexVars
<1>6. CASE StreamStoreError(t)
  <2>1. StoreTypeOK' /\ stranded' \in SUBSET Turns /\ unheard' \in SUBSET Turns
    <3>1. ASSUME NEW outcome \in {"completed", "failed"}, EndUnheard(t, outcome), UNCHANGED stranded
          PROVE  StoreTypeOK' /\ stranded' \in SUBSET Turns /\ unheard' \in SUBSET Turns
      BY <1>0, <3>1, EndUnheardType DEF TypeOK, Outcomes
    <3>2. QED BY <1>0, <1>6, <3>1, StoreUnchangedType DEF StreamStoreError, TypeOK
  <2>2. QED BY <1>0, <1>2, <1>6, <2>1, QuietType DEF StreamStoreError, StreamStep, TypeOK, codexVars
<1>7. QED BY <1>3, <1>4, <1>5, <1>6 DEF Stream, StreamEnds

\* So does the life of a daemon process, and a new session.
LEMMA ProcessType ==
    ASSUME JobInv, ManageSession \/ \E d \in Daemons : Start(d) \/ Crash(d)
    PROVE  TypeOK'
<1>0. TypeOK /\ StoreTypeOK
  BY DEF JobInv, TypeOK
<1>1. CASE ManageSession
  BY <1>0, <1>1, CreateSessionType
     DEF ManageSession, TypeOK, connVars, turnTaskVars, codexVars
<1>2. ASSUME NEW d \in Daemons, Start(d) PROVE TypeOK'
  <2>1. StoreTypeOK' /\ stranded' \in SUBSET Turns
    <3>1. CASE d \in Recovering /\ \E t \in Turns : IsActive(t)
      BY <1>0, <1>2, <3>1, RecoverType DEF Start
    <3>2. CASE ~(d \in Recovering /\ \E t \in Turns : IsActive(t))
      BY <1>0, <1>2, <3>2, StoreUnchangedType DEF Start, TypeOK
    <3>3. QED BY <3>1, <3>2
  <2>2. up' \in SUBSET Daemons
    BY <1>0, <1>2 DEF Start, TypeOK
  <2>3. QED BY <1>0, <1>2, <2>1, <2>2 DEF Start, TypeOK, connVars, turnTaskVars, codexVars
<1>3. ASSUME NEW d \in Daemons, Crash(d) PROVE TypeOK'
  <2> DEFINE C == {c \in Conns : daemonOf[c] = d}
  <2>1. StoreTypeOK'
    BY <1>0, <1>3, StoreUnchangedType DEF Crash
  <2>2. Forget(C)
    BY <1>3 DEF Crash
  <2>3. /\ pc' \in [Conns -> PCs]
        /\ job' \in [Conns -> [turn : Turns \cup {None}, thread : Threads \cup {None}]]
        /\ stream' \in [Turns -> {"none", "open", "done", "dead"}]
        /\ up' \in SUBSET Daemons
    BY <1>0, <1>3 DEF Crash, TypeOK, NoJob, PCs
  <2>4. QED BY <1>0, <1>3, <2>1, <2>2, <2>3, ForgetType DEF Crash, TypeOK, codexVars
<1>4. QED BY <1>1, <1>2, <1>3

\* Every step keeps the types.
LEMMA StepType == ASSUME JobInv, [Next]_vars PROVE TypeOK'
<1>1. CASE UNCHANGED vars
  BY <1>1 DEF JobInv, TypeOK, StoreTypeOK, vars, storeVars, turnVars, connVars, turnTaskVars,
              codexVars
<1>2. QED BY <1>1, HandlerType, ConnectionType, StreamType, ProcessType DEF Next

-----------------------------------------------------------------------------
\* How a step changes the turns.

BeginStep ==
    \E c \in Conns, s \in Sessions, k \in Keys, h \in Hashes, A \in SUBSET Attachments, t \in Turns :
        HandleMessageSend(c, s, k, h, A, t)
\* The mark, also one that the store could not read back.
Marks(c) == (MarkRunning(c) \/ AbandonOnStoreError(c)) /\ MarkTurnRunning(Turn(c), TRUE)
MarkStep == \E c \in Conns : Marks(c)
FinishStep == \E t \in Turns, outcome \in Outcomes : FinishTurn(t, outcome)
RecoverStep == RecoverInterruptedActiveTurns /\ \E d \in Daemons : d \in Recovering /\ Start(d)

\* Turns are begun by message/send only, which sets their session and sender
\* for good, and their status is written in the four ways of the store.
LEMMA TurnSteps ==
    ASSUME JobInv, [Next]_vars
    PROVE  \/ BeginStep
           \/ /\ UNCHANGED <<sessionOf, sender>>
              /\ MarkStep \/ FinishStep \/ RecoverStep \/ UNCHANGED <<status, codexTurn>>
<1> DEFINE Goal ==
       \/ BeginStep
       \/ /\ UNCHANGED <<sessionOf, sender>>
          /\ MarkStep \/ FinishStep \/ RecoverStep \/ UNCHANGED <<status, codexTurn>>
<1>0. StoreTypeOK /\ "failed" \in Outcomes /\ "cancelled" \in Outcomes /\ "completed" \in Outcomes
  BY DEF JobInv, TypeOK, Outcomes
<1>1. ASSUME UNCHANGED storeVars, UNCHANGED sender PROVE Goal
  BY <1>1 DEF storeVars, turnVars
<1>2. ASSUME NEW d, NEW t \in Turns, FailAndNotify(d, t), UNCHANGED sender PROVE Goal
  <2>1. CASE IsActive(t)
    <3>1. FinishTurn(t, "failed")
      BY <1>2, <2>1 DEF FailAndNotify, FailTurn
    <3>2. UNCHANGED sessionOf /\ FinishStep
      BY <1>0, <3>1 DEF FinishStep, FinishTurn
    <3>3. QED BY <1>2, <3>2
  <2>2. CASE ~IsActive(t)
    BY <1>1, <1>2, <2>2 DEF FailAndNotify
  <2>3. QED BY <2>1, <2>2
<1>11. ASSUME NEW t \in Turns, NEW outcome \in Outcomes, EndUnheard(t, outcome), UNCHANGED sender
       PROVE  Goal
  <2>1. FinishTurn(t, outcome)
    BY <1>11, EndUnheardFinishes
  <2>2. UNCHANGED sessionOf /\ FinishStep
    BY <2>1 DEF FinishStep, FinishTurn
  <2>3. QED BY <1>11, <2>2
<1>3. ASSUME NEW c \in Conns, Handler(c) PROVE Goal
  <2>1. CASE \/ LoadContext(c) \/ (\E th \in Threads : CodexStarts(c, th)) \/ MarkRefused(c)
             \/ AbandonOnStoreError(c) /\ UNCHANGED storeVars
    BY <1>1, <2>1 DEF LoadContext, CodexStarts, AbandonOnStoreError, MarkRefused
  <2>2. ASSUME NEW codexCreated \in BOOLEAN, FailStarting(c, codexCreated) PROVE Goal
    <3>1. Turn(c) \in Turns
      BY <2>2, BusyTurn DEF FailStarting, Busy, Starting
    <3>2. UNCHANGED sender
      BY <2>2 DEF FailStarting
    <3>3. QED BY <1>0, <1>1, <1>2, <1>11, <2>2, <3>1, <3>2 DEF FailStarting
  <2>3. CASE RetryWithoutStaleThread(c) \/ LinkThread(c)
    BY <2>3 DEF RetryWithoutStaleThread, ClearCodexThreadLink, LinkThread, LinkCodexThread, turnVars
  <2>4. CASE Marks(c)
    BY <2>4 DEF MarkStep, Marks, MarkRunning, AbandonOnStoreError, MarkTurnRunning
  <2>5. ASSUME NEW codexAgrees \in BOOLEAN, FinishCancel(c, codexAgrees) PROVE Goal
    <3>1. Turn(c) \in Turns
      BY <1>0, <2>5 DEF FinishCancel, JobInv, CancelSeen, StoreTypeOK
    <3>2. UNCHANGED sender
      BY <2>5 DEF FinishCancel
    <3>3. CASE CancelTurn(Turn(c))
      <4>1. FinishTurn(Turn(c), "cancelled")
        BY <3>3 DEF CancelTurn
      <4>2. UNCHANGED sessionOf /\ FinishStep
        BY <1>0, <3>1, <4>1 DEF FinishStep, FinishTurn
      <4>3. QED BY <3>2, <4>2
    <3>4. QED BY <1>0, <1>1, <1>11, <2>5, <3>1, <3>2, <3>3 DEF FinishCancel
  <2>6. MarkRunning(c) => Marks(c)
    BY DEF MarkRunning, Marks
  <2>7. AbandonOnStoreError(c) => Marks(c) \/ UNCHANGED storeVars
    BY DEF AbandonOnStoreError, Marks
  <2>8. QED BY <1>3, <2>1, <2>2, <2>3, <2>4, <2>5, <2>6, <2>7 DEF Handler
<1>4. ASSUME NEW c \in Conns, Request(c) \/ Receive(c) \/ Connect(c) \/ Leave(c) \/ Closing(c)
      PROVE  Goal
  <2>1. CASE \E s \in Sessions, k \in Keys, h \in Hashes, A \in SUBSET Attachments, t \in Turns :
                HandleMessageSend(c, s, k, h, A, t)
    BY <2>1 DEF BeginStep
  <2>2. ASSUME NEW t \in Turns, CleanUp(c, t) PROVE Goal
    BY <1>2, <2>2 DEF CleanUp
  <2>3. CASE \/ \E t \in Turns : HandleTurnCancel(c, t)
             \/ \E s \in Sessions : HandleSubscribe(c, s) \/ HandleUnsubscribe(c, s)
             \/ Receive(c) \/ Connect(c) \/ Leave(c)
    BY <1>1, <2>3 DEF HandleTurnCancel, HandleSubscribe, HandleUnsubscribe, Receive, Connect,
                      Leave, turnTaskVars
  <2>4. CASE Close(c)
    <3>1. UNCHANGED sender /\ owned[c] \subseteq Turns
      BY <2>4 DEF Close, turnTaskVars, JobInv, TypeOK
    <3>2. CASE UNCHANGED storeVars
      BY <1>1, <3>1, <3>2
    <3>3. ASSUME NEW t \in owned[c], EndUnheard(t, "failed") PROVE Goal
      BY <1>0, <1>11, <3>1, <3>3
    <3>4. QED BY <2>4, <3>2, <3>3 DEF Close
  <2>5. QED BY <1>4, <2>1, <2>2, <2>3, <2>4 DEF Request, Closing
<1>5. ASSUME NEW t \in Turns, Stream(t) PROVE Goal
  <2>1. UNCHANGED sender
    BY <1>5 DEF Stream, StreamEnds, StreamDelta, StreamCompleted, StreamFailed,
                StreamStoreError, StreamStep
  <2>2. CASE StreamDelta(t)
    BY <1>1, <2>1, <2>2 DEF StreamDelta
  <2>3. CASE StreamFailed(t)
    BY <1>2, <2>1, <2>3 DEF StreamFailed
  <2>4. CASE StreamCompleted(t) /\ IsActive(t)
    <3>1. FinishTurn(t, "completed")
      BY <2>4 DEF StreamCompleted, CompleteTurn
    <3>2. UNCHANGED sessionOf /\ FinishStep
      BY <1>0, <3>1 DEF FinishStep, FinishTurn
    <3>3. QED BY <2>1, <3>2
  <2>5. CASE StreamCompleted(t) /\ ~IsActive(t)
    BY <1>1, <2>1, <2>5 DEF StreamCompleted
  <2>6. CASE StreamStoreError(t)
    BY <1>0, <1>1, <1>11, <2>1, <2>6 DEF StreamStoreError
  <2>7. QED BY <1>5, <2>2, <2>3, <2>4, <2>5, <2>6 DEF Stream, StreamEnds
<1>6. ASSUME NEW d \in Daemons, Start(d) PROVE Goal
  <2>1. CASE d \in Recovering /\ \E t \in Turns : IsActive(t)
    <3>1. RecoverInterruptedActiveTurns /\ UNCHANGED sender
      BY <1>6, <2>1 DEF Start, turnTaskVars
    <3>2. RecoverStep /\ UNCHANGED sessionOf
      BY <1>6, <2>1, <3>1 DEF RecoverStep, RecoverInterruptedActiveTurns
    <3>3. QED BY <3>1, <3>2
  <2>2. CASE ~(d \in Recovering /\ \E t \in Turns : IsActive(t))
    BY <1>1, <1>6, <2>2 DEF Start, turnTaskVars
  <2>3. QED BY <2>1, <2>2
<1>7. ASSUME NEW d \in Daemons, Crash(d) PROVE Goal
  BY <1>1, <1>7 DEF Crash
<1>8. CASE ManageSession
  BY <1>8 DEF ManageSession, CreateSession, turnVars, turnTaskVars
<1>9. CASE UNCHANGED vars
  BY <1>1, <1>9 DEF vars, turnTaskVars
<1>10. QED BY <1>3, <1>4, <1>5, <1>6, <1>7, <1>8, <1>9 DEF Next

\* A turn that exists goes on to exist, in its session and with its sender; a
\* Codex turn that was recorded stays recorded.
LEMMA TurnsStay ==
    ASSUME JobInv, [Next]_vars
    PROVE  /\ \A t \in Turns : status[t] # "absent" =>
                 /\ status'[t] # "absent"
                 /\ sessionOf'[t] = sessionOf[t] /\ sender'[t] = sender[t]
           /\ codexTurn \subseteq codexTurn'
<1>0. /\ StoreTypeOK /\ sender \in [Turns -> Conns \cup {None}]
      /\ status \in [Turns -> Statuses] /\ sessionOf \in [Turns -> Sessions \cup {None}]
  BY DEF JobInv, TypeOK, StoreTypeOK
<1>1. CASE BeginStep
  <2>1. PICK c \in Conns, s \in Sessions, k \in Keys, h \in Hashes,
             A \in SUBSET Attachments, t \in Turns : HandleMessageSend(c, s, k, h, A, t)
    BY <1>1 DEF BeginStep
  <2>2. BeginTurn(s, k, h, A, t) /\ sender' = [sender EXCEPT ![t] = c]
    BY <2>1 DEF HandleMessageSend
  <2>3. /\ status[t] = "absent" /\ status' = [status EXCEPT ![t] = "pending"]
        /\ sessionOf' = [sessionOf EXCEPT ![t] = s] /\ codexTurn' = codexTurn
    BY <1>0, <2>2, BeginTurnEffect, ZenonT(60)
  <2>4. QED BY <1>0, <2>2, <2>3
<1>2. CASE MarkStep /\ UNCHANGED <<sessionOf, sender>>
  <2>1. PICK c \in Conns : Marks(c)
    BY <1>2 DEF MarkStep
  <2>2. MarkTurnRunning(Turn(c), TRUE)
    BY <2>1 DEF Marks
  <2>3. status' = [status EXCEPT ![Turn(c)] = "running"] /\ codexTurn' = codexTurn \cup {Turn(c)}
    BY <2>2 DEF MarkTurnRunning
  <2>4. QED BY <1>0, <1>2, <2>3
<1>3. CASE FinishStep /\ UNCHANGED <<sessionOf, sender>>
  <2>1. PICK t \in Turns, outcome \in Outcomes : FinishTurn(t, outcome)
    BY <1>3 DEF FinishStep
  <2>2. status' = [status EXCEPT ![t] = outcome] /\ codexTurn' = codexTurn /\ outcome # "absent"
    BY <2>1 DEF FinishTurn, Outcomes
  <2>3. QED BY <1>0, <1>3, <2>2
<1>4. CASE RecoverStep /\ UNCHANGED <<sessionOf, sender>>
  <2>1. /\ \A t \in Turns : status'[t] = IF IsActive(t) THEN "failed" ELSE status[t]
        /\ codexTurn' = codexTurn
    BY <1>4 DEF RecoverStep, RecoverInterruptedActiveTurns
  <2>2. QED BY <1>4, <2>1
<1>5. CASE UNCHANGED <<status, codexTurn, sessionOf, sender>>
  BY <1>5
<1>6. QED BY <1>1, <1>2, <1>3, <1>4, <1>5, TurnSteps

\* A Codex turn is recorded by the mark of its turn.
LEMMA CodexTurnMarked ==
    ASSUME JobInv, [Next]_vars, NEW t \in codexTurn', t \notin codexTurn
    PROVE  \E c \in Conns : Marks(c) /\ t = Turn(c) /\ t \in Turns /\ status[t] # "absent" /\ ~Busy(c)'
<1>0. pc \in [Conns -> PCs] /\ codexTurn' # codexTurn
  BY DEF JobInv, TypeOK
<1>1. ASSUME NEW c \in Conns, NEW s \in Sessions, NEW k \in Keys, NEW h \in Hashes,
             NEW A \in SUBSET Attachments, NEW u \in Turns, HandleMessageSend(c, s, k, h, A, u)
      PROVE  FALSE
  BY <1>0, <1>1 DEF HandleMessageSend, BeginTurn
<1>2. ~FinishStep /\ ~RecoverStep
  BY <1>0 DEF FinishStep, FinishTurn, RecoverStep, RecoverInterruptedActiveTurns
<1>3. PICK c \in Conns : Marks(c)
  BY <1>0, <1>1, <1>2, TurnSteps DEF BeginStep, MarkStep
<1>4. t = Turn(c)
  BY <1>3 DEF Marks, MarkTurnRunning
<1>5. Busy(c)
  <2>1. MarkRunning(c) => pc[c] = "marking"
    BY DEF MarkRunning
  <2>2. AbandonOnStoreError(c) => pc[c] \in {"loading", "linking", "marking"}
    BY DEF AbandonOnStoreError
  <2>3. QED BY <1>3, <2>1, <2>2 DEF Marks, Busy, Starting
<1>6. ~Busy(c)'
  BY <1>0, <1>3 DEF Marks, MarkRunning, AbandonOnStoreError, Return, Goto, Busy, Starting
<1>7. QED BY <1>3, <1>4, <1>5, <1>6, BusyTurn

\* A stream is opened by the mark of its turn, never goes back to none, and
\* belongs to a turn that exists; a crash ends those of the daemon's turns.
LEMMA StreamSteps ==
    ASSUME JobInv, [Next]_vars, NEW t \in Turns, stream'[t] # stream[t]
    PROVE  /\ stream'[t] # "none" /\ status[t] # "absent"
           /\ \/ \E c \in Conns : MarkRunning(c) /\ t = Turn(c) /\ stream'[t] = "open"
              \/ stream[t] = "open" /\ stream'[t] = "done" /\ Stream(t)
              \/ \E d \in Daemons, c \in Conns :
                    /\ Crash(d) /\ sender[t] = c /\ daemonOf[c] = d
                    /\ stream'[t] = "dead"
<1> DEFINE Goal ==
       /\ stream'[t] # "none" /\ status[t] # "absent"
       /\ \/ \E c \in Conns : MarkRunning(c) /\ t = Turn(c) /\ stream'[t] = "open"
          \/ stream[t] = "open" /\ stream'[t] = "done" /\ Stream(t)
          \/ \E d \in Daemons, c \in Conns :
                /\ Crash(d) /\ sender[t] = c /\ daemonOf[c] = d
                /\ stream'[t] = "dead"
<1>0. /\ stream \in [Turns -> {"none", "open", "done", "dead"}]
      /\ sender \in [Turns -> Conns \cup {None}] /\ Unborn /\ TurnsSent
  BY DEF JobInv, TypeOK
<1>1. ASSUME NEW c \in Conns, MarkRunning(c) PROVE Goal
  <2>1. Turn(c) \in Turns /\ status[Turn(c)] # "absent"
    BY <1>1, BusyTurn DEF MarkRunning, Busy, Starting
  <2>2. stream' = [stream EXCEPT ![Turn(c)] = "open"]
    BY <1>1 DEF MarkRunning
  <2>3. t = Turn(c) /\ stream'[t] = "open"
    BY <1>0, <2>1, <2>2
  <2>4. QED BY <1>1, <2>1, <2>3
<1>2. ASSUME NEW c \in Conns, Handler(c), ~MarkRunning(c) PROVE FALSE
  BY <1>2 DEF Handler, LoadContext, FailStarting, CodexStarts, RetryWithoutStaleThread, LinkThread,
              AbandonOnStoreError, MarkRefused, FinishCancel
<1>3. ASSUME NEW c \in Conns, Request(c) \/ Receive(c) \/ Connect(c) \/ Leave(c) \/ Closing(c)
      PROVE  FALSE
  BY <1>3 DEF Request, HandleMessageSend, HandleTurnCancel, HandleSubscribe, HandleUnsubscribe,
              Receive, Connect, Leave, Closing, Close, CleanUp, turnTaskVars
<1>4. ASSUME NEW u \in Turns, Stream(u) PROVE Goal
  <2>1. stream[u] = "open" /\ (stream' = stream \/ stream' = [stream EXCEPT ![u] = "done"])
    BY <1>4 DEF Stream, StreamEnds, StreamDelta, StreamCompleted, StreamFailed,
                StreamStoreError, StreamStep, EndStream
  <2>2. t = u /\ stream[t] = "open" /\ stream'[t] = "done"
    BY <1>0, <2>1
  <2>3. QED BY <1>0, <1>4, <2>2 DEF Unborn
<1>5. ASSUME NEW d \in Daemons, Crash(d) PROVE Goal
  <2>1. sender[t] \in {c \in Conns : daemonOf[c] = d} /\ stream'[t] = "dead"
    BY <1>0, <1>5 DEF Crash
  <2>2. sender[t] \in Conns /\ daemonOf[sender[t]] = d /\ sender[t] # None
    BY <2>1
  <2>3. QED BY <1>0, <1>5, <2>1, <2>2 DEF TurnsSent
<1>6. CASE UNCHANGED vars \/ ManageSession \/ \E d \in Daemons : Start(d)
  BY <1>6 DEF vars, ManageSession, Start, turnTaskVars
<1>7. QED BY <1>1, <1>2, <1>3, <1>4, <1>5, <1>6 DEF Next

LEMMA StreamsStay ==
    ASSUME JobInv, [Next]_vars
    PROVE  \A t \in Turns : stream[t] # "none" => stream'[t] # "none"
  BY StreamSteps

\* Codex is given turns by a handler that has not heard from it yet.
LEMMA CodexTurnSteps ==
    ASSUME JobInv, [Next]_vars, NEW t \in Turns, codexTurns'[t] # codexTurns[t]
    PROVE  \E c \in Conns :
              /\ Busy(c) /\ t = Turn(c) /\ status[t] # "absent"
              /\ pc[c] \in {"loading", "starting", "retrying"}
              /\ codexTurns'[t] = codexTurns[t] + 1
              /\ \/ \E th \in Threads : CodexStarts(c, th)
                 \/ \E codexCreated \in BOOLEAN : FailStarting(c, codexCreated)
<1>0. codexTurns \in [Turns -> Nat]
  BY DEF JobInv, TypeOK
<1>1. ASSUME NEW c \in Conns, \/ \E th \in Threads : CodexStarts(c, th)
                             \/ \E codexCreated \in BOOLEAN : FailStarting(c, codexCreated)
      PROVE  /\ Busy(c) /\ t = Turn(c) /\ status[t] # "absent"
             /\ pc[c] \in {"loading", "starting", "retrying"}
             /\ codexTurns'[t] = codexTurns[t] + 1
  <2>1. pc[c] \in {"loading", "starting", "retrying"}
    BY <1>1 DEF CodexStarts, FailStarting
  <2>2. Busy(c) /\ status[Turn(c)] # "absent" /\ Turn(c) \in Turns
    BY <2>1, BusyTurn DEF Busy, Starting
  <2>3. codexTurns' = codexTurns \/ codexTurns' = [codexTurns EXCEPT ![Turn(c)] = @ + 1]
    BY <1>1 DEF CodexStarts, FailStarting
  <2>4. QED BY <1>0, <2>1, <2>2, <2>3
<1>2. ASSUME NEW c \in Conns, Handler(c),
             ~\E th \in Threads : CodexStarts(c, th),
             ~\E codexCreated \in BOOLEAN : FailStarting(c, codexCreated)
      PROVE  FALSE
  BY <1>2 DEF Handler, LoadContext, RetryWithoutStaleThread, LinkThread, MarkRunning,
              AbandonOnStoreError, MarkRefused, FinishCancel, codexVars
<1>3. ASSUME NEW c \in Conns, Request(c) \/ Receive(c) \/ Connect(c) \/ Leave(c) \/ Closing(c)
      PROVE  FALSE
  BY <1>3 DEF Request, HandleMessageSend, HandleTurnCancel, HandleSubscribe, HandleUnsubscribe,
              Receive, Connect, Leave, Closing, Close, CleanUp, codexVars
<1>4. ASSUME NEW u \in Turns, Stream(u) PROVE FALSE
  BY <1>4 DEF Stream, StreamEnds, StreamDelta, StreamCompleted, StreamFailed,
              StreamStoreError, StreamStep, codexVars
<1>5. CASE UNCHANGED vars \/ ManageSession \/ \E d \in Daemons : Start(d) \/ Crash(d)
  BY <1>5 DEF vars, ManageSession, Start, Crash, codexVars
<1>6. QED BY <1>1, <1>2, <1>3, <1>4, <1>5 DEF Next

-----------------------------------------------------------------------------
\* The invariant is kept, part by part.

LEMMA BirthKept ==
    ASSUME JobInv, [Next]_vars
    PROVE  TurnsKnown' /\ TurnsSent' /\ Unborn'
<1>0. /\ TypeOK /\ StoreTypeOK /\ TurnsKnown /\ TurnsSent /\ Unborn
      /\ sender \in [Turns -> Conns \cup {None}]
      /\ status \in [Turns -> Statuses] /\ sessionOf \in [Turns -> Sessions \cup {None}]
  BY DEF JobInv, TypeOK, StoreTypeOK
<1>1. ASSUME NEW t \in Turns, status[t] # "absent"
      PROVE  /\ status'[t] # "absent" /\ sessionOf'[t] # None /\ sender'[t] # None
  BY <1>0, <1>1, TurnsStay DEF TurnsKnown, TurnsSent
<1>2. ASSUME NEW t \in Turns, status[t] = "absent"
      PROVE  \/ status'[t] = "absent" /\ sessionOf'[t] = None /\ sender'[t] = None
             \/ status'[t] # "absent" /\ sessionOf'[t] # None /\ sender'[t] # None
  <2>1. sessionOf[t] = None /\ sender[t] = None
    BY <1>0, <1>2 DEF TurnsKnown, TurnsSent
  <2>2. CASE BeginStep
    <3>1. PICK c \in Conns, s \in Sessions, k \in Keys, h \in Hashes,
               A \in SUBSET Attachments, u \in Turns : HandleMessageSend(c, s, k, h, A, u)
      BY <2>2 DEF BeginStep
    <3>2. /\ status' = [status EXCEPT ![u] = "pending"]
          /\ sessionOf' = [sessionOf EXCEPT ![u] = s] /\ sender' = [sender EXCEPT ![u] = c]
      BY <3>1 DEF HandleMessageSend, BeginTurn
    <3>3. QED BY <1>0, <1>2, <2>1, <3>2
  <2>3. CASE ~BeginStep
    <3>1. UNCHANGED <<sessionOf, sender>>
      BY <2>3, TurnSteps
    <3>2. status'[t] = "absent"
      <4>1. CASE MarkStep
        <5>1. PICK c \in Conns : Marks(c)
          BY <4>1 DEF MarkStep
        <5>2. status[Turn(c)] # "absent" /\ status' = [status EXCEPT ![Turn(c)] = "running"]
          BY <5>1 DEF Marks, MarkTurnRunning
        <5>3. QED BY <1>0, <1>2, <5>2
      <4>2. CASE FinishStep
        <5>1. PICK u \in Turns, outcome \in Outcomes : FinishTurn(u, outcome)
          BY <4>2 DEF FinishStep
        <5>2. IsActive(u) /\ status' = [status EXCEPT ![u] = outcome]
          BY <5>1 DEF FinishTurn
        <5>3. QED BY <1>0, <1>2, <5>2 DEF IsActive, ActiveStatuses
      <4>3. CASE RecoverStep
        BY <1>2, <4>3 DEF RecoverStep, RecoverInterruptedActiveTurns, IsActive, ActiveStatuses
      <4>4. CASE status' = status
        BY <1>2, <4>4
      <4>5. QED BY <2>3, <4>1, <4>2, <4>3, <4>4, TurnSteps
    <3>3. QED BY <2>1, <3>1, <3>2
  <2>4. QED BY <2>2, <2>3
<1>3. TurnsKnown' /\ TurnsSent'
  BY <1>1, <1>2 DEF TurnsKnown, TurnsSent
<1>4. ASSUME NEW t \in Turns, status'[t] = "absent"
      PROVE  stream'[t] = "none" /\ codexTurns'[t] = 0 /\ t \notin codexTurn'
  <2>1. status[t] = "absent" /\ stream[t] = "none" /\ codexTurns[t] = 0 /\ t \notin codexTurn
    BY <1>0, <1>1, <1>4 DEF Unborn
  <2>2. stream'[t] = "none"
    BY <2>1, StreamSteps
  <2>3. codexTurns'[t] = codexTurns[t]
    BY <2>1, CodexTurnSteps
  <2>4. t \notin codexTurn'
    BY <2>1, CodexTurnMarked
  <2>5. QED BY <2>1, <2>2, <2>3, <2>4
<1>5. QED BY <1>3, <1>4 DEF Unborn

\* What a step does to the loop of a connection: nothing, the end of its
\* handler, or a step of it.
LEMMA JobSteps ==
    ASSUME JobInv, [Next]_vars, NEW d \in Conns
    PROVE  \/ pc'[d] = pc[d] /\ job'[d] = job[d]
           \/ pc'[d] \in {"closed", "idle", "closing"}
           \/ \E s \in Sessions, k \in Keys, h \in Hashes, A \in SUBSET Attachments, t \in Turns :
                 HandleMessageSend(d, s, k, h, A, t)
           \/ \E t \in Turns : HandleTurnCancel(d, t)
           \/ LoadContext(d) \/ RetryWithoutStaleThread(d) \/ LinkThread(d)
           \/ \E th \in Threads : CodexStarts(d, th)
<1> DEFINE Goal ==
       \/ pc'[d] = pc[d] /\ job'[d] = job[d]
       \/ pc'[d] \in {"closed", "idle", "closing"}
       \/ \E s \in Sessions, k \in Keys, h \in Hashes, A \in SUBSET Attachments, t \in Turns :
             HandleMessageSend(d, s, k, h, A, t)
       \/ \E t \in Turns : HandleTurnCancel(d, t)
       \/ LoadContext(d) \/ RetryWithoutStaleThread(d) \/ LinkThread(d)
       \/ \E th \in Threads : CodexStarts(d, th)
<1>0. /\ pc \in [Conns -> PCs]
      /\ job \in [Conns -> [turn : Turns \cup {None}, thread : Threads \cup {None}]]
  BY DEF JobInv, TypeOK
<1>1. ASSUME UNCHANGED <<pc, job>> PROVE Goal
  BY <1>1
<1>2. ASSUME NEW c \in Conns, Return(c) PROVE Goal
  BY <1>0, <1>2 DEF Return, Goto
<1>3. ASSUME NEW c \in Conns, Handler(c) PROVE Goal
  <2>1. CASE \/ \E codexCreated \in BOOLEAN : FailStarting(c, codexCreated)
             \/ MarkRunning(c) \/ AbandonOnStoreError(c) \/ MarkRefused(c)
             \/ \E codexAgrees \in BOOLEAN : FinishCancel(c, codexAgrees)
    BY <1>2, <2>1 DEF FailStarting, MarkRunning, AbandonOnStoreError, MarkRefused, FinishCancel
  <2>2. CASE c = d
    BY <1>3, <2>1, <2>2 DEF Handler
  <2>3. CASE c # d
    <3>1. CASE LoadContext(c)
      BY <1>0, <2>3, <3>1 DEF LoadContext, Goto
    <3>2. CASE RetryWithoutStaleThread(c)
      BY <1>0, <2>3, <3>2 DEF RetryWithoutStaleThread, Goto
    <3>3. CASE LinkThread(c)
      BY <1>0, <2>3, <3>3 DEF LinkThread, Goto
    <3>4. ASSUME NEW th \in Threads, CodexStarts(c, th) PROVE Goal
      BY <1>0, <2>3, <3>4 DEF CodexStarts, Goto
    <3>5. QED BY <1>3, <2>1, <3>1, <3>2, <3>3, <3>4 DEF Handler
  <2>4. QED BY <2>2, <2>3
<1>4. ASSUME NEW c \in Conns, Request(c) \/ Receive(c) \/ Connect(c) \/ Leave(c) \/ Closing(c)
      PROVE  Goal
  <2>1. CASE \/ \E s \in Sessions : HandleSubscribe(c, s) \/ HandleUnsubscribe(c, s)
             \/ Receive(c) \/ \E t \in Turns : CleanUp(c, t)
    BY <1>1, <2>1 DEF HandleSubscribe, HandleUnsubscribe, Receive, CleanUp
  <2>2. CASE Connect(c) \/ Leave(c) \/ Close(c)
    BY <1>0, <2>2 DEF Connect, Leave, Close, Goto
  <2>3. ASSUME NEW s \in Sessions, NEW k \in Keys, NEW h \in Hashes,
               NEW A \in SUBSET Attachments, NEW t \in Turns, HandleMessageSend(c, s, k, h, A, t)
        PROVE  Goal
    BY <1>0, <2>3 DEF HandleMessageSend, Goto
  <2>4. ASSUME NEW t \in Turns, HandleTurnCancel(c, t) PROVE Goal
    BY <1>0, <2>4 DEF HandleTurnCancel, Goto
  <2>5. QED BY <1>4, <2>1, <2>2, <2>3, <2>4 DEF Request, Closing
<1>5. CASE \E t \in Turns : Stream(t)
  BY <1>1, <1>5 DEF Stream, StreamEnds, StreamDelta, StreamCompleted, StreamFailed,
                    StreamStoreError, StreamStep
<1>6. ASSUME NEW e \in Daemons, Crash(e) PROVE Goal
  BY <1>6 DEF Crash
<1>7. CASE UNCHANGED vars \/ ManageSession \/ \E e \in Daemons : Start(e)
  BY <1>1, <1>7 DEF vars, connVars, ManageSession, Start
<1>8. QED BY <1>3, <1>4, <1>5, <1>6, <1>7 DEF Next

LEMMA JobsKept ==
    ASSUME JobInv, [Next]_vars
    PROVE  JobStarts' /\ ThreadGot' /\ CancelSeen'
<1>0. /\ TypeOK /\ StoreTypeOK /\ JobStarts /\ ThreadGot /\ CancelSeen
      /\ pc \in [Conns -> PCs] /\ sender \in [Turns -> Conns \cup {None}]
      /\ job \in [Conns -> [turn : Turns \cup {None}, thread : Threads \cup {None}]]
      /\ stream \in [Turns -> {"none", "open", "done", "dead"}]
  BY DEF JobInv, TypeOK
<1>1. ASSUME NEW d \in Conns, Busy(d), Busy(d)', Turn(d)' = Turn(d)
      PROVE  /\ Turn(d)' \in Turns /\ sender'[Turn(d)'] = d /\ stream'[Turn(d)'] = "none"
  <2>1. /\ Turn(d) \in Turns /\ status[Turn(d)] # "absent" /\ sender[Turn(d)] = d
        /\ stream[Turn(d)] = "none"
    BY <1>1, BusyTurn
  <2>2. sender'[Turn(d)] = d
    BY <2>1, TurnsStay
  <2>3. ASSUME NEW c \in Conns, MarkRunning(c), Turn(d) = Turn(c) PROVE FALSE
    <3>1. sender[Turn(c)] = c
      BY <2>3, BusyTurn DEF MarkRunning, Busy, Starting
    <3>2. c = d
      BY <2>1, <2>3, <3>1
    <3>3. QED BY <1>0, <1>1, <2>3, <3>2 DEF MarkRunning, Return, Goto, Busy, Starting
  <2>4. ASSUME NEW e \in Daemons, NEW c \in Conns, Crash(e), sender[Turn(d)] = c, daemonOf[c] = e
        PROVE  FALSE
    BY <1>1, <2>1, <2>4 DEF Crash, Busy, Starting
  <2>5. stream'[Turn(d)] = "none"
    BY <2>1, <2>3, <2>4, StreamSteps
  <2>6. QED BY <1>1, <2>1, <2>2, <2>5
<1>2. ASSUME NEW d \in Conns
      PROVE  /\ Busy(d)' => /\ Turn(d)' \in Turns /\ sender'[Turn(d)'] = d
                            /\ stream'[Turn(d)'] = "none"
             /\ pc'[d] \in {"linking", "marking"} => job'[d].thread # None
             /\ pc'[d] = "cancelling" => Turn(d)' \in codexTurn'
  <2> DEFINE Goal ==
        /\ Busy(d)' => /\ Turn(d)' \in Turns /\ sender'[Turn(d)'] = d
                       /\ stream'[Turn(d)'] = "none"
        /\ pc'[d] \in {"linking", "marking"} => job'[d].thread # None
        /\ pc'[d] = "cancelling" => Turn(d)' \in codexTurn'
  <2>1. CASE pc'[d] = pc[d] /\ job'[d] = job[d]
    <3>1. Busy(d)' = Busy(d) /\ Turn(d)' = Turn(d)
      BY <2>1 DEF Busy, Turn
    <3>2. pc'[d] \in {"linking", "marking"} => job'[d].thread # None
      BY <1>0, <2>1 DEF ThreadGot
    <3>3. pc'[d] = "cancelling" => Turn(d)' \in codexTurn'
      BY <1>0, <2>1, <3>1, TurnsStay DEF CancelSeen
    <3>4. QED BY <1>1, <3>1, <3>2, <3>3
  <2>2. CASE pc'[d] \in {"closed", "idle", "closing"}
    BY <2>2 DEF Busy, Starting
  <2>3. ASSUME NEW s \in Sessions, NEW k \in Keys, NEW h \in Hashes,
               NEW A \in SUBSET Attachments, NEW t \in Turns, HandleMessageSend(d, s, k, h, A, t)
        PROVE  Goal
    <3>1. /\ pc'[d] = "loading" /\ Turn(d)' = t /\ sender'[t] = d /\ stream' = stream
      BY <1>0, <2>3 DEF HandleMessageSend, Goto, Turn
    <3>2. stream[t] = "none"
      BY <2>3 DEF HandleMessageSend, BeginTurn, JobInv, Unborn
    <3>3. QED BY <3>1, <3>2
  <2>4. ASSUME NEW t \in Turns, HandleTurnCancel(d, t) PROVE Goal
    <3>1. pc'[d] = "cancelling" /\ Turn(d)' = t /\ t \in codexTurn /\ codexTurn' = codexTurn
      BY <1>0, <2>4 DEF HandleTurnCancel, Goto, Turn, Cancellable, storeVars, turnVars
    <3>2. QED BY <3>1 DEF Busy, Starting
  <2>5. CASE LoadContext(d) \/ RetryWithoutStaleThread(d)
    <3>1. pc'[d] \in {"starting", "retrying"} /\ Busy(d) /\ Turn(d)' = Turn(d)
      BY <1>0, <2>5 DEF LoadContext, RetryWithoutStaleThread, Goto, Turn, Busy, Starting
    <3>2. QED BY <1>1, <3>1 DEF Busy, Starting
  <2>6. CASE LinkThread(d)
    <3>1. /\ pc'[d] = "marking" /\ Busy(d) /\ Turn(d)' = Turn(d)
          /\ job'[d].thread # None
      BY <1>0, <2>6 DEF LinkThread, Goto, Turn, Busy, Starting, ThreadGot
    <3>2. QED BY <1>1, <3>1 DEF Busy, Starting
  <2>7. ASSUME NEW th \in Threads, CodexStarts(d, th) PROVE Goal
    <3>1. /\ pc'[d] = "linking" /\ Busy(d) /\ Turn(d)' = Turn(d)
          /\ job'[d].thread # None
      BY <1>0, <2>7 DEF CodexStarts, Goto, Turn, Busy, Starting
    <3>2. QED BY <1>1, <3>1 DEF Busy, Starting
  <2>8. QED BY <2>1, <2>2, <2>3, <2>4, <2>5, <2>6, <2>7, JobSteps
<1>3. QED BY <1>2 DEF JobStarts, ThreadGot, CancelSeen

\* A connection comes to own a turn when it is marked running.
LEMMA OwnedSteps ==
    ASSUME JobInv, [Next]_vars, NEW c \in Conns, NEW t \in owned'[c], t \notin owned[c]
    PROVE  MarkRunning(c) /\ t = Turn(c)
<1>0. owned \in [Conns -> SUBSET Turns]
  BY DEF JobInv, TypeOK
<1>1. ASSUME UNCHANGED owned PROVE FALSE
  BY <1>1
<1>2. ASSUME NEW C, Forget(C) PROVE FALSE
  BY <1>0, <1>2 DEF Forget
<1>3. ASSUME NEW d \in Conns, MarkRunning(d) PROVE MarkRunning(c) /\ t = Turn(c)
  BY <1>0, <1>3 DEF MarkRunning
<1>4. ASSUME NEW d \in Conns, Handler(d), ~MarkRunning(d) PROVE FALSE
  BY <1>1, <1>4 DEF Handler, LoadContext, FailStarting, CodexStarts, RetryWithoutStaleThread,
                    LinkThread, AbandonOnStoreError, MarkRefused, FinishCancel
<1>5. ASSUME NEW d \in Conns, Request(d) \/ Connect(d) \/ Leave(d) PROVE FALSE
  BY <1>1, <1>5 DEF Request, HandleMessageSend, HandleTurnCancel, HandleSubscribe,
                    HandleUnsubscribe, Connect, Leave
<1>6. ASSUME NEW d \in Conns, Receive(d) PROVE FALSE
  BY <1>0, <1>6 DEF Receive
<1>7. ASSUME NEW d \in Conns, Closing(d) PROVE FALSE
  <2>1. CASE Close(d)
    BY <1>2, <2>1 DEF Close
  <2>2. ASSUME NEW u \in Turns, CleanUp(d, u) PROVE FALSE
    BY <1>0, <2>2 DEF CleanUp
  <2>3. QED BY <1>7, <2>1, <2>2 DEF Closing
<1>8. ASSUME NEW u \in Turns, Stream(u) PROVE FALSE
  BY <1>1, <1>8 DEF Stream, StreamEnds, StreamDelta, StreamCompleted, StreamFailed,
                    StreamStoreError, StreamStep
<1>9. ASSUME NEW d \in Daemons, Crash(d) PROVE FALSE
  BY <1>2, <1>9 DEF Crash
<1>10. ASSUME UNCHANGED vars \/ ManageSession \/ \E d \in Daemons : Start(d) PROVE FALSE
  BY <1>1, <1>10 DEF vars, connVars, ManageSession, Start
<1>11. QED BY <1>3, <1>4, <1>5, <1>6, <1>7, <1>8, <1>9, <1>10 DEF Next

\* A handler that works on a turn did so already, or has just begun it.
LEMMA BusySteps ==
    ASSUME JobInv, [Next]_vars, NEW c \in Conns, Busy(c)'
    PROVE  \/ Busy(c) /\ Turn(c)' = Turn(c)
           \/ \E s \in Sessions, k \in Keys, h \in Hashes, A \in SUBSET Attachments, t \in Turns :
                 HandleMessageSend(c, s, k, h, A, t) /\ Turn(c)' = t
<1>0. /\ pc \in [Conns -> PCs]
      /\ job \in [Conns -> [turn : Turns \cup {None}, thread : Threads \cup {None}]]
  BY DEF JobInv, TypeOK
<1>1. ASSUME NEW s \in Sessions, NEW k \in Keys, NEW h \in Hashes,
             NEW A \in SUBSET Attachments, NEW t \in Turns, HandleMessageSend(c, s, k, h, A, t)
      PROVE  Turn(c)' = t
  BY <1>0, <1>1 DEF HandleMessageSend, Turn
<1>2. CASE LoadContext(c)
  BY <1>0, <1>2 DEF LoadContext, Busy, Starting, Turn
<1>3. CASE RetryWithoutStaleThread(c)
  BY <1>0, <1>3 DEF RetryWithoutStaleThread, Busy, Starting, Turn
<1>4. CASE LinkThread(c)
  BY <1>0, <1>4 DEF LinkThread, Busy, Starting, Turn
<1>5. ASSUME NEW th \in Threads, CodexStarts(c, th) PROVE Busy(c) /\ Turn(c)' = Turn(c)
  BY <1>0, <1>5 DEF CodexStarts, Busy, Starting, Turn
<1>6. ASSUME NEW t \in Turns, HandleTurnCancel(c, t) PROVE FALSE
  BY <1>0, <1>6 DEF HandleTurnCancel, Goto, Busy, Starting
<1>7. CASE pc'[c] = pc[c] /\ job'[c] = job[c]
  BY <1>7 DEF Busy, Turn
<1>8. ASSUME pc'[c] \in {"closed", "idle", "closing"} PROVE FALSE
  BY <1>8 DEF Busy, Starting
<1>9. QED BY <1>1, <1>2, <1>3, <1>4, <1>5, <1>6, <1>7, <1>8, JobSteps

LEMMA StreamedKept ==
    ASSUME JobInv, [Next]_vars
    PROVE  OwnedStreams' /\ CodexTurnsStarted'
<1>0. /\ OwnedStreams /\ CodexTurnsStarted /\ StoreTypeOK /\ Unborn
      /\ codexTurn \in SUBSET Turns
      /\ stream \in [Turns -> {"none", "open", "done", "dead"}]
  BY DEF JobInv, TypeOK, StoreTypeOK
<1>1. ASSUME NEW c \in Conns, MarkRunning(c)
      PROVE  stream'[Turn(c)] = "open"
  <2>1. Turn(c) \in Turns
    BY <1>1, BusyTurn DEF MarkRunning, Busy, Starting
  <2>2. QED BY <1>0, <1>1, <2>1 DEF MarkRunning
<1>2. ASSUME NEW c \in Conns, NEW t \in owned'[c] PROVE stream'[t] # "none"
  <2>1. CASE t \in owned[c]
    BY <1>0, <2>1, StreamsStay DEF OwnedStreams, JobInv, TypeOK
  <2>2. CASE t \notin owned[c]
    BY <1>1, <1>2, <2>2, OwnedSteps
  <2>3. QED BY <2>1, <2>2
<1>3. ASSUME NEW t \in codexTurn', NEW c \in Conns, Busy(c)' PROVE Turn(c)' # t
  <2>1. CASE Busy(c) /\ Turn(c)' = Turn(c)
    <3>1. CASE t \in codexTurn
      BY <1>0, <2>1, <3>1 DEF CodexTurnsStarted, Started
    <3>2. CASE t \notin codexTurn
      <4>1. PICK b \in Conns : Marks(b) /\ t = Turn(b) /\ ~Busy(b)'
        BY <3>2, CodexTurnMarked
      <4>2. Busy(b)
        BY <4>1 DEF Marks, MarkRunning, AbandonOnStoreError, Busy, Starting
      <4>3. Turn(b) = Turn(c) => b = c
        BY <2>1, <4>2, BusyTurn
      <4>4. QED BY <1>3, <2>1, <4>1, <4>3
    <3>3. QED BY <3>1, <3>2
  <2>2. ASSUME NEW s \in Sessions, NEW k \in Keys, NEW h \in Hashes, NEW A \in SUBSET Attachments,
               NEW u \in Turns, HandleMessageSend(c, s, k, h, A, u), Turn(c)' = u
        PROVE  Turn(c)' # t
    <3>1. status[u] = "absent" /\ codexTurn' = codexTurn
      BY <2>2 DEF HandleMessageSend, BeginTurn
    <3>2. u \notin codexTurn'
      BY <1>0, <3>1 DEF Unborn
    <3>3. QED BY <2>2, <3>2
  <2>3. QED BY <1>3, <2>1, <2>2, BusySteps
<1>4. QED BY <1>2, <1>3 DEF OwnedStreams, CodexTurnsStarted, Started

LEMMA DownKept ==
    ASSUME JobInv, [Next]_vars
    PROVE  DownIsClosed'
<1>0. DownIsClosed /\ pc \in [Conns -> PCs] /\ up \in SUBSET Daemons
  BY DEF JobInv, TypeOK
<1>1. ASSUME NEW d \in Daemons, Crash(d) PROVE DownIsClosed'
  <2>1. /\ up' = up \ {d}
        /\ \A c \in Conns : pc'[c] = IF daemonOf[c] = d THEN "closed" ELSE pc[c]
    BY <1>1 DEF Crash
  <2>2. QED BY <1>0, <2>1 DEF DownIsClosed
<1>2. ASSUME NEW d \in Daemons, Start(d) PROVE DownIsClosed'
  BY <1>0, <1>2 DEF DownIsClosed, Start, connVars
<1>3. ASSUME up' = up, NEW c \in Conns, NEW where, Goto(c, where), daemonOf[c] \in up
      PROVE  DownIsClosed'
  BY <1>0, <1>3 DEF Goto, DownIsClosed
<1>4. ASSUME UNCHANGED <<up, pc>> PROVE DownIsClosed'
  BY <1>0, <1>4 DEF DownIsClosed
<1>5. ASSUME NEW c \in Conns, Handler(c) PROVE DownIsClosed'
  <2>1. pc[c] # "closed" /\ up' = up
    BY <1>5 DEF Handler, LoadContext, FailStarting, CodexStarts, RetryWithoutStaleThread,
                LinkThread, MarkRunning, AbandonOnStoreError, MarkRefused, FinishCancel, Starting
  <2>2. daemonOf[c] \in up
    BY <1>0, <2>1 DEF DownIsClosed
  <2>3. \E where : Goto(c, where)
    BY <1>5 DEF Handler, LoadContext, FailStarting, CodexStarts, RetryWithoutStaleThread,
                LinkThread, MarkRunning, AbandonOnStoreError, MarkRefused, FinishCancel, Return
  <2>4. QED BY <1>3, <2>1, <2>2, <2>3
<1>6. ASSUME NEW c \in Conns, Request(c) \/ Receive(c) \/ Connect(c) \/ Leave(c) \/ Closing(c)
      PROVE  DownIsClosed'
  <2>1. CASE \/ \E s \in Sessions : HandleSubscribe(c, s) \/ HandleUnsubscribe(c, s)
             \/ Receive(c) \/ \E t \in Turns : CleanUp(c, t)
    BY <1>4, <2>1 DEF HandleSubscribe, HandleUnsubscribe, Receive, CleanUp
  <2>2. CASE Connect(c) \/ Leave(c)
    BY <1>3, <2>2 DEF Connect, Leave, Serving
  <2>3. CASE Close(c)
    BY <1>0, <1>3, <2>3 DEF Close, DownIsClosed
  <2>4. CASE \/ \E s \in Sessions, k \in Keys, h \in Hashes, A \in SUBSET Attachments, t \in Turns :
                   HandleMessageSend(c, s, k, h, A, t)
             \/ \E t \in Turns : HandleTurnCancel(c, t)
    BY <1>3, <2>4 DEF HandleMessageSend, HandleTurnCancel, Serving
  <2>5. QED BY <1>6, <2>1, <2>2, <2>3, <2>4 DEF Request, Closing
<1>7. CASE \E t \in Turns : Stream(t)
  BY <1>4, <1>7 DEF Stream, StreamEnds, StreamDelta, StreamCompleted, StreamFailed,
                    StreamStoreError, StreamStep
<1>8. CASE UNCHANGED vars \/ ManageSession
  BY <1>4, <1>8 DEF vars, connVars, ManageSession
<1>9. QED BY <1>1, <1>2, <1>5, <1>6, <1>7, <1>8 DEF Next

\* The tables, connections, queues and stream tasks keep their types, and a
\* turn that is being started is its handler's alone, however many daemons
\* share the database, whatever the store refuses and whenever a process dies.
THEOREM JobsInductive == Spec => []JobInv
<1>1. JobInv /\ [Next]_vars => JobInv'
  BY StepType, BirthKept, JobsKept, StreamedKept, DownKept DEF JobInv
<1>2. QED BY <1>1, InitJobInv, PTL DEF Spec

\* The type invariant of the runs, for every instance.
THEOREM TypeCorrect == Spec => []TypeOK
<1>1. JobInv => TypeOK
  BY DEF JobInv
<1>2. QED BY <1>1, JobsInductive, PTL

-----------------------------------------------------------------------------
(***************************************************************************)
(* A message is one turn of Codex.  While Codex may still be asked, it has *)
(* been given nothing.                                                     *)
(***************************************************************************)
Asking == {"loading", "starting", "retrying"}
AskedNothing == \A c \in Conns : pc[c] \in Asking => codexTurns[Turn(c)] = 0
CodexInv == AskedNothing /\ OneCodexTurn

LEMMA CodexInvKept ==
    ASSUME JobInv, CodexInv, [Next]_vars
    PROVE  CodexInv'
<1>0. /\ codexTurns \in [Turns -> Nat] /\ pc \in [Conns -> PCs]
      /\ job \in [Conns -> [turn : Turns \cup {None}, thread : Threads \cup {None}]]
      /\ AskedNothing /\ OneCodexTurn /\ Unborn
  BY DEF JobInv, TypeOK, CodexInv
<1>1. ASSUME NEW t \in Turns PROVE codexTurns'[t] <= 1
  <2>1. CASE codexTurns'[t] = codexTurns[t]
    BY <1>0, <2>1 DEF OneCodexTurn
  <2>2. CASE codexTurns'[t] # codexTurns[t]
    <3>1. codexTurns'[t] = codexTurns[t] + 1 /\ codexTurns[t] = 0
      BY <1>0, <2>2, CodexTurnSteps DEF AskedNothing, Asking
    <3>2. QED BY <3>1
  <2>3. QED BY <2>1, <2>2
<1>2. ASSUME NEW d \in Conns, pc'[d] \in Asking PROVE codexTurns'[Turn(d)'] = 0
  <2>1. CASE pc'[d] = pc[d] /\ job'[d] = job[d]
    <3>1. Turn(d)' = Turn(d) /\ pc[d] \in Asking
      BY <1>2, <2>1 DEF Turn
    <3>2. Turn(d) \in Turns /\ codexTurns[Turn(d)] = 0 /\ sender[Turn(d)] = d
      BY <1>0, <3>1, BusyTurn DEF AskedNothing, Busy, Asking, Starting
    <3>3. ASSUME NEW c \in Conns, Busy(c), Turn(c) = Turn(d),
                 \/ \E th \in Threads : CodexStarts(c, th)
                 \/ \E codexCreated \in BOOLEAN : FailStarting(c, codexCreated)
          PROVE  FALSE
      <4>1. c = d
        BY <3>2, <3>3, BusyTurn
      <4>2. pc'[d] \in {"linking", "idle"}
        BY <1>0, <3>3, <4>1 DEF CodexStarts, FailStarting, Return, Goto
      <4>3. QED BY <1>2, <4>2 DEF Asking
    <3>4. codexTurns'[Turn(d)] = codexTurns[Turn(d)]
      BY <3>2, <3>3, CodexTurnSteps
    <3>5. QED BY <3>1, <3>2, <3>4
  <2>2. CASE pc'[d] \in {"closed", "idle", "closing"}
    BY <1>2, <2>2 DEF Asking
  <2>3. ASSUME NEW s \in Sessions, NEW k \in Keys, NEW h \in Hashes,
               NEW A \in SUBSET Attachments, NEW t \in Turns, HandleMessageSend(d, s, k, h, A, t)
        PROVE  codexTurns'[Turn(d)'] = 0
    <3>1. Turn(d)' = t /\ codexTurns' = codexTurns /\ status[t] = "absent"
      BY <1>0, <2>3 DEF HandleMessageSend, Turn, codexVars, BeginTurn
    <3>2. QED BY <1>0, <3>1 DEF Unborn
  <2>4. ASSUME NEW t \in Turns, HandleTurnCancel(d, t) PROVE FALSE
    BY <1>0, <1>2, <2>4 DEF HandleTurnCancel, Goto, Asking
  <2>5. CASE LoadContext(d) \/ RetryWithoutStaleThread(d)
    <3>1. Turn(d)' = Turn(d) /\ pc[d] \in Asking /\ codexTurns' = codexTurns
      BY <1>0, <2>5 DEF LoadContext, RetryWithoutStaleThread, Turn, Asking, codexVars
    <3>2. QED BY <1>0, <3>1 DEF AskedNothing
  <2>6. ASSUME LinkThread(d) \/ \E th \in Threads : CodexStarts(d, th) PROVE FALSE
    BY <1>0, <1>2, <2>6 DEF LinkThread, CodexStarts, Goto, Asking
  <2>7. QED BY <2>1, <2>2, <2>3, <2>4, <2>5, <2>6, JobSteps
<1>3. QED BY <1>1, <1>2 DEF CodexInv, AskedNothing, OneCodexTurn

\* A message is given to Codex as one turn at most, whatever fails, times out
\* or is tried again.
THEOREM OneCodexTurnHolds == Spec => []OneCodexTurn
<1>1. Init => CodexInv
  BY DEF Init, CodexInv, AskedNothing, Asking, OneCodexTurn
<1>2. JobInv /\ CodexInv /\ [Next]_vars => CodexInv'
  BY CodexInvKept
<1>3. CodexInv => OneCodexTurn
  BY DEF CodexInv
<1>4. QED BY <1>1, <1>2, <1>3, JobsInductive, PTL DEF Spec

-----------------------------------------------------------------------------
(***************************************************************************)
(* A session is linked to its own thread.  The thread a handler carries is *)
(* one that Codex made for the handler's session, and Codex makes a thread *)
(* once.                                                                   *)
(***************************************************************************)
JobThreadOwn ==
    \A c \in Conns : Busy(c) /\ job[c].thread # None =>
        threadOf[job[c].thread] = sessionOf[Turn(c)]
ThreadInv == JobThreadOwn /\ LinkIsOwnThread

\* A thread that was created goes on to belong to its session.
LEMMA ThreadsStay ==
    ASSUME JobInv, ThreadInv, [Next]_vars, NEW th \in Threads, threadOf[th] # None
    PROVE  threadOf'[th] = threadOf[th]
<1>0. threadOf \in [Threads -> Sessions \cup {None}] /\ JobThreadOwn
  BY DEF JobInv, TypeOK, ThreadInv
<1>1. ASSUME NEW c \in Conns, NEW u \in Threads, CodexStarts(c, u)
      PROVE  threadOf'[th] = threadOf[th]
  <2>1. threadOf' = [threadOf EXCEPT ![u] = sessionOf[Turn(c)]] /\ Busy(c)
    BY <1>1 DEF CodexStarts, Busy, Starting
  <2>2. u = th => threadOf[th] = sessionOf[Turn(c)]
    BY <1>0, <1>1, <2>1 DEF CodexStarts, JobThreadOwn
  <2>3. QED BY <1>0, <2>1, <2>2
<1>2. ASSUME NEW c \in Conns, Handler(c), ~\E u \in Threads : CodexStarts(c, u)
      PROVE  threadOf' = threadOf
  BY <1>2 DEF Handler, LoadContext, FailStarting, RetryWithoutStaleThread, LinkThread, MarkRunning,
              AbandonOnStoreError, MarkRefused, FinishCancel, codexVars
<1>3. ASSUME NEW c \in Conns, Request(c) \/ Receive(c) \/ Connect(c) \/ Leave(c) \/ Closing(c)
      PROVE  threadOf' = threadOf
  BY <1>3 DEF Request, HandleMessageSend, HandleTurnCancel, HandleSubscribe, HandleUnsubscribe,
              Receive, Connect, Leave, Closing, Close, CleanUp, codexVars
<1>4. ASSUME NEW u \in Turns, Stream(u) PROVE threadOf' = threadOf
  BY <1>4 DEF Stream, StreamEnds, StreamDelta, StreamCompleted, StreamFailed,
              StreamStoreError, StreamStep, codexVars
<1>5. CASE UNCHANGED vars \/ ManageSession \/ \E d \in Daemons : Start(d) \/ Crash(d)
  BY <1>5 DEF vars, ManageSession, Start, Crash, codexVars
<1>6. QED BY <1>1, <1>2, <1>3, <1>4, <1>5 DEF Next

\* A link is written by the handler that got the thread, or cleared.
LEMMA LinkSteps ==
    ASSUME JobInv, [Next]_vars, NEW s \in Sessions, threadLink'[s] # threadLink[s],
           threadLink'[s] # None
    PROVE  \E c \in Conns : LinkThread(c) /\ s = sessionOf[Turn(c)] /\ threadLink'[s] = job[c].thread
<1> DEFINE Goal ==
       \E c \in Conns : LinkThread(c) /\ s = sessionOf[Turn(c)] /\ threadLink'[s] = job[c].thread
<1>0. StoreTypeOK /\ threadLink \in [Sessions -> Threads \cup {None}]
  BY DEF JobInv, TypeOK, StoreTypeOK
<1>1. ASSUME UNCHANGED storeVars PROVE FALSE
  BY <1>1 DEF storeVars
<1>2. ASSUME NEW d, NEW t, FailAndNotify(d, t) PROVE FALSE
  BY <1>1, <1>2 DEF FailAndNotify, FailTurn, FinishTurn
<1>10. ASSUME NEW t, NEW outcome \in {"completed", "failed", "cancelled"}, EndUnheard(t, outcome)
       PROVE  FALSE
  BY <1>10, EndUnheardFinishes DEF FinishTurn, Outcomes
<1>3. ASSUME NEW c \in Conns, LinkThread(c) PROVE Goal
  <2>1. threadLink' = [threadLink EXCEPT ![sessionOf[Turn(c)]] = job[c].thread]
    BY <1>3 DEF LinkThread, LinkCodexThread
  <2>2. s = sessionOf[Turn(c)] /\ threadLink'[s] = job[c].thread
    BY <1>0, <2>1
  <2>3. QED BY <1>3, <2>2
<1>4. ASSUME NEW c \in Conns, RetryWithoutStaleThread(c) PROVE FALSE
  <2>1. \/ threadLink' = [threadLink EXCEPT ![sessionOf[Turn(c)]] = None]
        \/ threadLink' = threadLink
    BY <1>4 DEF RetryWithoutStaleThread, ClearCodexThreadLink
  <2>2. QED BY <1>0, <2>1
<1>5. ASSUME NEW c \in Conns, Handler(c), ~LinkThread(c), ~RetryWithoutStaleThread(c) PROVE FALSE
  <2>1. ASSUME NEW codexAgrees \in BOOLEAN, FinishCancel(c, codexAgrees) PROVE FALSE
    BY <1>1, <1>10, <2>1 DEF FinishCancel, CancelTurn, FinishTurn
  <2>2. CASE MarkRunning(c) \/ AbandonOnStoreError(c) \/ MarkRefused(c)
    BY <1>1, <2>2 DEF MarkRunning, AbandonOnStoreError, MarkRefused, MarkTurnRunning
  <2>3. ASSUME NEW codexCreated \in BOOLEAN, FailStarting(c, codexCreated) PROVE FALSE
    BY <1>1, <1>2, <1>10, <2>3 DEF FailStarting
  <2>4. QED BY <1>1, <1>5, <2>1, <2>2, <2>3 DEF Handler, LoadContext, CodexStarts
<1>6. ASSUME NEW c \in Conns, Request(c) \/ Receive(c) \/ Connect(c) \/ Leave(c) \/ Closing(c)
      PROVE  FALSE
  <2>1. ASSUME NEW p \in Sessions, NEW k \in Keys, NEW h \in Hashes,
               NEW A \in SUBSET Attachments, NEW t \in Turns, HandleMessageSend(c, p, k, h, A, t)
        PROVE  FALSE
    BY <2>1 DEF HandleMessageSend, BeginTurn
  <2>2. CASE Close(c)
    BY <1>1, <1>10, <2>2 DEF Close
  <2>3. QED BY <1>1, <1>2, <1>6, <2>1, <2>2 DEF Request, HandleTurnCancel, HandleSubscribe,
          HandleUnsubscribe, Receive, Connect, Leave, Closing, CleanUp
<1>7. ASSUME NEW t \in Turns, Stream(t) PROVE FALSE
  BY <1>1, <1>2, <1>7, <1>10 DEF Stream, StreamEnds, StreamDelta, StreamCompleted, StreamFailed,
                    StreamStoreError, CompleteTurn, FinishTurn
<1>8. ASSUME UNCHANGED vars \/ ManageSession \/ \E d \in Daemons : Start(d) \/ Crash(d)
      PROVE  FALSE
  BY <1>1, <1>8 DEF vars, ManageSession, CreateSession, Start, RecoverInterruptedActiveTurns, Crash
<1>9. QED BY <1>3, <1>4, <1>5, <1>6, <1>7, <1>8 DEF Next

LEMMA ThreadInvKept ==
    ASSUME JobInv, ThreadInv, [Next]_vars
    PROVE  ThreadInv'
<1>0. /\ StoreTypeOK /\ pc \in [Conns -> PCs]
      /\ job \in [Conns -> [turn : Turns \cup {None}, thread : Threads \cup {None}]]
      /\ threadOf \in [Threads -> Sessions \cup {None}]
      /\ threadLink \in [Sessions -> Threads \cup {None}]
      /\ JobThreadOwn /\ LinkIsOwnThread
  BY DEF JobInv, TypeOK, StoreTypeOK, ThreadInv
<1>1. ASSUME NEW c \in Conns, Busy(c), job[c].thread # None
      PROVE  /\ job[c].thread \in Threads
             /\ threadOf'[job[c].thread] = sessionOf[Turn(c)]
             /\ sessionOf'[Turn(c)] = sessionOf[Turn(c)]
  <2>1. /\ job[c].thread \in Threads /\ sessionOf[Turn(c)] \in Sessions
        /\ Turn(c) \in Turns /\ status[Turn(c)] # "absent"
    BY <1>0, <1>1, BusyTurn
  <2>2. threadOf[job[c].thread] = sessionOf[Turn(c)]
    BY <1>0, <1>1 DEF JobThreadOwn
  <2>3. QED BY <2>1, <2>2, ThreadsStay, TurnsStay
<1>2. ASSUME NEW s \in Sessions, threadLink'[s] # None PROVE threadOf'[threadLink'[s]] = s
  <2>1. CASE threadLink'[s] = threadLink[s]
    <3>1. threadLink[s] \in Threads /\ threadOf[threadLink[s]] = s
      BY <1>0, <1>2, <2>1 DEF LinkIsOwnThread
    <3>2. QED BY <2>1, <3>1, ThreadsStay
  <2>2. CASE threadLink'[s] # threadLink[s]
    <3>1. PICK c \in Conns : LinkThread(c) /\ s = sessionOf[Turn(c)] /\ threadLink'[s] = job[c].thread
      BY <1>2, <2>2, LinkSteps
    <3>2. Busy(c) /\ job[c].thread # None
      BY <3>1 DEF LinkThread, Busy, Starting, JobInv, ThreadGot
    <3>3. QED BY <1>1, <3>1, <3>2
  <2>3. QED BY <2>1, <2>2
<1>3. ASSUME NEW d \in Conns, Busy(d)', job'[d].thread # None
      PROVE  threadOf'[job'[d].thread] = sessionOf'[Turn(d)']
  <2>1. CASE pc'[d] = pc[d] /\ job'[d] = job[d]
    BY <1>1, <1>3, <2>1 DEF Busy, Turn
  <2>2. CASE pc'[d] \in {"closed", "idle", "closing"}
    BY <1>3, <2>2 DEF Busy, Starting
  <2>3. ASSUME NEW s \in Sessions, NEW k \in Keys, NEW h \in Hashes,
               NEW A \in SUBSET Attachments, NEW t \in Turns, HandleMessageSend(d, s, k, h, A, t)
        PROVE  FALSE
    BY <1>0, <1>3, <2>3 DEF HandleMessageSend
  <2>4. ASSUME NEW t \in Turns, HandleTurnCancel(d, t) PROVE FALSE
    BY <1>0, <1>3, <2>4 DEF HandleTurnCancel, Goto, Busy, Starting
  <2>5. CASE LoadContext(d)
    <3>1. /\ sessionOf[Turn(d)] \in Sessions
      BY <2>5, BusyTurn DEF LoadContext, Busy, Starting
    <3>2. job'[d].thread = threadLink[sessionOf[Turn(d)]] /\ Turn(d)' = Turn(d)
          /\ threadOf' = threadOf /\ sessionOf' = sessionOf
      BY <1>0, <2>5 DEF LoadContext, Turn, codexVars, storeVars, turnVars
    <3>3. QED BY <1>0, <1>3, <3>1, <3>2 DEF LinkIsOwnThread
  <2>6. CASE RetryWithoutStaleThread(d)
    BY <1>0, <1>3, <2>6 DEF RetryWithoutStaleThread
  <2>7. CASE LinkThread(d)
    <3>1. job'[d] = job[d] /\ Busy(d)
      BY <2>7 DEF LinkThread, Busy, Starting
    <3>2. QED BY <1>1, <1>3, <3>1 DEF Turn
  <2>8. ASSUME NEW th \in Threads, CodexStarts(d, th)
        PROVE  threadOf'[job'[d].thread] = sessionOf'[Turn(d)']
    <3>1. /\ job'[d].thread = th /\ Turn(d)' = Turn(d) /\ sessionOf' = sessionOf
          /\ threadOf'[th] = sessionOf[Turn(d)]
      BY <1>0, <2>8 DEF CodexStarts, Turn, storeVars, turnVars
    <3>2. QED BY <3>1
  <2>9. QED BY <2>1, <2>2, <2>3, <2>4, <2>5, <2>6, <2>7, <2>8, JobSteps
<1>4. QED BY <1>2, <1>3 DEF ThreadInv, JobThreadOwn, LinkIsOwnThread

\* A session is only ever linked to a thread that Codex created for it, also
\* when a stale link is cleared and the start is tried again.
THEOREM LinkIsOwnThreadHolds == Spec => []LinkIsOwnThread
<1>1. Init => ThreadInv
  BY DEF Init, StoreInit, ThreadInv, JobThreadOwn, Busy, Starting, LinkIsOwnThread
<1>2. JobInv /\ ThreadInv /\ [Next]_vars => ThreadInv'
  BY ThreadInvKept
<1>3. ThreadInv => LinkIsOwnThread
  BY DEF ThreadInv
<1>4. QED BY <1>1, <1>2, <1>3, JobsInductive, PTL DEF Spec

-----------------------------------------------------------------------------
(***************************************************************************)
(* An active turn has someone to end it.  A stream task that is done has   *)
(* ended its turn or lost it to the store.                                 *)
(***************************************************************************)
DoneHasEnded == \A t \in Turns : stream[t] = "done" => ~IsActive(t) \/ t \in stranded
DrivenInv == ActiveTurnIsDriven /\ DoneHasEnded

\* What is marked is the turn of a handler that starts it.
LEMMA MarksTurn ==
    ASSUME JobInv, NEW c \in Conns, Marks(c)
    PROVE  /\ Busy(c) /\ Turn(c) \in Turns /\ MarkTurnRunning(Turn(c), TRUE)
           /\ status[Turn(c)] # "absent" /\ stream[Turn(c)] = "none" /\ sender[Turn(c)] = c
<1>1. Busy(c) /\ MarkTurnRunning(Turn(c), TRUE)
  BY DEF Marks, MarkRunning, AbandonOnStoreError, Busy, Starting
<1>2. QED BY <1>1, BusyTurn

\* A turn becomes active by its begin, or by the mark.
LEMMA ActiveSteps ==
    ASSUME JobInv, [Next]_vars, NEW t \in Turns, IsActive(t)', ~IsActive(t)
    PROVE  \/ \E c \in Conns, s \in Sessions, k \in Keys, h \in Hashes, A \in SUBSET Attachments :
                 HandleMessageSend(c, s, k, h, A, t)
           \/ \E c \in Conns : Marks(c) /\ t = Turn(c)
<1>0. StoreTypeOK
  BY DEF JobInv, TypeOK
<1>1. CASE BeginStep
  <2>1. PICK c \in Conns, s \in Sessions, k \in Keys, h \in Hashes,
             A \in SUBSET Attachments, u \in Turns : HandleMessageSend(c, s, k, h, A, u)
    BY <1>1 DEF BeginStep
  <2>2. BeginTurn(s, k, h, A, u)
    BY <2>1 DEF HandleMessageSend
  <2>3. t = u
    BY <1>0, <2>2, BeginTurnEffect
  <2>4. QED BY <2>1, <2>3
<1>2. CASE MarkStep
  <2>1. PICK c \in Conns : Marks(c)
    BY <1>2 DEF MarkStep
  <2>2. Turn(c) \in Turns /\ MarkTurnRunning(Turn(c), TRUE)
    BY <2>1, MarksTurn
  <2>3. t = Turn(c)
    BY <1>0, <2>2, MarkTurnRunningEffect
  <2>4. QED BY <2>1, <2>3
<1>3. ASSUME FinishStep PROVE FALSE
  BY <1>0, <1>3, FinishTurnEffect DEF FinishStep
<1>4. ASSUME RecoverStep PROVE FALSE
  BY <1>0, <1>4, RecoverEffect DEF RecoverStep
<1>5. ASSUME UNCHANGED status PROVE FALSE
  BY <1>5 DEF IsActive
<1>6. QED BY <1>1, <1>2, <1>3, <1>4, <1>5, TurnSteps

\* A handler stops working on its turn in one of five ways.
LEMMA BusyEnds ==
    ASSUME JobInv, [Next]_vars, NEW c \in Conns, Busy(c),
           ~(Busy(c)' /\ Turn(c)' = Turn(c))
    PROVE  \/ \E codexCreated \in BOOLEAN : FailStarting(c, codexCreated)
           \/ MarkRunning(c) \/ AbandonOnStoreError(c) \/ MarkRefused(c)
           \/ \E d \in Daemons : Crash(d) /\ daemonOf[c] = d
<1> DEFINE Goal ==
       \/ \E codexCreated \in BOOLEAN : FailStarting(c, codexCreated)
       \/ MarkRunning(c) \/ AbandonOnStoreError(c) \/ MarkRefused(c)
       \/ \E d \in Daemons : Crash(d) /\ daemonOf[c] = d
<1>0. /\ pc \in [Conns -> PCs]
      /\ job \in [Conns -> [turn : Turns \cup {None}, thread : Threads \cup {None}]]
  BY DEF JobInv, TypeOK
<1>1. ASSUME pc'[c] = pc[c], job'[c] = job[c] PROVE FALSE
  BY <1>1 DEF Busy, Turn
<1>2. ASSUME NEW b \in Conns, b # c, Handler(b) PROVE FALSE
  <2>1. pc'[c] = pc[c]
    BY <1>0, <1>2 DEF Handler, LoadContext, FailStarting, CodexStarts, RetryWithoutStaleThread,
              LinkThread, MarkRunning, AbandonOnStoreError, MarkRefused, FinishCancel, Return, Goto
  <2>2. job'[c] = job[c]
    BY <1>0, <1>2 DEF Handler, LoadContext, FailStarting, CodexStarts, RetryWithoutStaleThread,
              LinkThread, MarkRunning, AbandonOnStoreError, MarkRefused, FinishCancel, Return
  <2>3. QED BY <1>1, <2>1, <2>2
<1>3. ASSUME LoadContext(c) \/ RetryWithoutStaleThread(c) \/ LinkThread(c)
             \/ \E th \in Threads : CodexStarts(c, th)
      PROVE  FALSE
  <2>1. CASE LoadContext(c)
    BY <1>0, <2>1 DEF LoadContext, Goto, Busy, Starting, Turn
  <2>2. CASE RetryWithoutStaleThread(c)
    BY <1>0, <2>2 DEF RetryWithoutStaleThread, Goto, Busy, Starting, Turn
  <2>3. CASE LinkThread(c)
    BY <1>0, <2>3 DEF LinkThread, Goto, Busy, Starting, Turn
  <2>4. ASSUME NEW th \in Threads, CodexStarts(c, th) PROVE FALSE
    BY <1>0, <2>4 DEF CodexStarts, Goto, Busy, Starting, Turn
  <2>5. QED BY <1>3, <2>1, <2>2, <2>3, <2>4
<1>4. ASSUME NEW codexAgrees \in BOOLEAN, FinishCancel(c, codexAgrees) PROVE FALSE
  BY <1>4 DEF FinishCancel, Busy, Starting
<1>5. ASSUME NEW b \in Conns, Request(b) \/ Receive(b) \/ Connect(b) \/ Leave(b) \/ Closing(b)
      PROVE  FALSE
  <2>1. (pc' = pc /\ job' = job) \/ pc[b] \in {"idle", "closed", "closing"}
    BY <1>5 DEF Request, HandleMessageSend, HandleTurnCancel, HandleSubscribe, HandleUnsubscribe,
                Receive, Connect, Leave, Closing, Close, CleanUp, Serving
  <2>2. CASE pc[b] \in {"idle", "closed", "closing"}
    <3>1. b # c
      BY <2>2 DEF Busy, Starting
    <3>2. pc'[c] = pc[c]
      BY <1>0, <1>5, <3>1 DEF Request, HandleMessageSend, HandleTurnCancel, HandleSubscribe,
           HandleUnsubscribe, Receive, Connect, Leave, Closing, Close, CleanUp, Goto
    <3>3. job'[c] = job[c]
      BY <1>0, <1>5, <3>1 DEF Request, HandleMessageSend, HandleTurnCancel, HandleSubscribe,
           HandleUnsubscribe, Receive, Connect, Leave, Closing, Close, CleanUp
    <3>4. QED BY <1>1, <3>2, <3>3
  <2>3. QED BY <1>1, <2>1, <2>2
<1>6. ASSUME NEW t \in Turns, Stream(t) PROVE FALSE
  BY <1>1, <1>6 DEF Stream, StreamEnds, StreamDelta, StreamCompleted, StreamFailed,
                    StreamStoreError, StreamStep
<1>7. ASSUME NEW d \in Daemons, Crash(d) PROVE Goal
  <2>1. CASE daemonOf[c] = d
    BY <1>7, <2>1
  <2>2. CASE daemonOf[c] # d
    BY <1>1, <1>7, <2>2 DEF Crash
  <2>3. QED BY <2>1, <2>2
<1>8. ASSUME UNCHANGED vars \/ ManageSession \/ \E d \in Daemons : Start(d) PROVE FALSE
  BY <1>1, <1>8 DEF vars, connVars, ManageSession, Start
<1>9. ASSUME Handler(c) PROVE Goal
  BY <1>3, <1>4, <1>9 DEF Handler
<1>10. QED BY <1>2, <1>5, <1>6, <1>7, <1>8, <1>9 DEF Next

\* A turn that the store took away stays so until a recovery ends it.
LEMMA StrandedStays ==
    ASSUME JobInv, [Next]_vars, NEW t \in stranded, t \notin stranded'
    PROVE  ~IsActive(t)'
<1>0. StoreTypeOK /\ stranded \in SUBSET Turns
  BY DEF JobInv, TypeOK
<1>1. ASSUME stranded \subseteq stranded' PROVE FALSE
  BY <1>1
<1>2. ASSUME NEW c \in Conns, Handler(c) PROVE FALSE
  BY <1>1, <1>2 DEF Handler, LoadContext, FailStarting, CodexStarts, RetryWithoutStaleThread,
              LinkThread, MarkRunning, AbandonOnStoreError, MarkRefused, FinishCancel
<1>3. ASSUME NEW c \in Conns, Request(c) \/ Receive(c) \/ Connect(c) \/ Leave(c) \/ Closing(c)
      PROVE  FALSE
  BY <1>1, <1>3 DEF Request, HandleMessageSend, HandleTurnCancel, HandleSubscribe, HandleUnsubscribe,
              Receive, Connect, Leave, Closing, Close, CleanUp
<1>4. ASSUME NEW u \in Turns, Stream(u) PROVE FALSE
  BY <1>1, <1>4 DEF Stream, StreamEnds, StreamDelta, StreamCompleted, StreamFailed, StreamStoreError
<1>5. ASSUME NEW d \in Daemons, Start(d) PROVE ~IsActive(t)'
  <2>1. RecoverInterruptedActiveTurns
    BY <1>1, <1>5 DEF Start
  <2>2. QED BY <1>0, <2>1, RecoverEffect
<1>6. ASSUME UNCHANGED vars \/ ManageSession \/ \E d \in Daemons : Crash(d) PROVE FALSE
  BY <1>1, <1>6 DEF vars, ManageSession, Crash
<1>7. QED BY <1>2, <1>3, <1>4, <1>5, <1>6 DEF Next

\* A stream task that ends leaves a turn that has ended, or is stranded.
LEMMA StreamEndsTurn ==
    ASSUME JobInv, NEW t \in Turns, Stream(t), stream'[t] = "done"
    PROVE  ~IsActive(t)' \/ (StreamStoreError(t) /\ t \in stranded')
<1>0. StoreTypeOK /\ "failed" \in Outcomes /\ "completed" \in Outcomes
      /\ stream \in [Turns -> {"none", "open", "done", "dead"}]
  BY DEF JobInv, TypeOK, Outcomes
<1>1. ASSUME ~IsActive(t), UNCHANGED storeVars PROVE ~IsActive(t)'
  BY <1>1 DEF IsActive, storeVars, turnVars
<1>2. CASE StreamDelta(t)
  <2>1. ~IsActive(t)
    BY <1>0, <1>2 DEF StreamDelta, StreamStep
  <2>2. QED BY <1>1, <1>2, <2>1 DEF StreamDelta
<1>3. CASE StreamCompleted(t)
  <2>1. IsActive(t) => FinishTurn(t, "completed")
    BY <1>3 DEF StreamCompleted, CompleteTurn
  <2>2. QED BY <1>0, <1>1, <1>3, <2>1, FinishTurnEffect DEF StreamCompleted
<1>4. CASE StreamFailed(t)
  <2>1. IsActive(t) => FinishTurn(t, "failed")
    BY <1>4 DEF StreamFailed, FailAndNotify, FailTurn
  <2>2. QED BY <1>0, <1>1, <1>4, <2>1, FinishTurnEffect DEF StreamFailed, FailAndNotify
<1>5. CASE StreamStoreError(t)
  <2>1. ASSUME NEW outcome \in {"completed", "failed"}, EndUnheard(t, outcome) PROVE ~IsActive(t)'
    BY <1>0, <2>1, EndUnheardFinishes, FinishTurnEffect
  <2>2. QED BY <1>5, <2>1 DEF StreamStoreError
<1>6. QED BY <1>2, <1>3, <1>4, <1>5 DEF Stream, StreamEnds

LEMMA DrivenInvKept ==
    ASSUME JobInv, DrivenInv, [Next]_vars
    PROVE  DrivenInv'
<1>0. /\ StoreTypeOK /\ stream \in [Turns -> {"none", "open", "done", "dead"}]
      /\ ActiveTurnIsDriven /\ DoneHasEnded /\ Unborn
      /\ pc \in [Conns -> PCs]
      /\ job \in [Conns -> [turn : Turns \cup {None}, thread : Threads \cup {None}]]
  BY DEF JobInv, TypeOK, DrivenInv
<1>1. ASSUME NEW t \in Turns, IsActive(t)'
      PROVE  \/ \E c \in Conns : Busy(c)' /\ Turn(c)' = t
             \/ stream'[t] \in {"open", "dead"}
             \/ t \in stranded'
  <2> DEFINE Goal ==
         \/ \E c \in Conns : Busy(c)' /\ Turn(c)' = t
         \/ stream'[t] \in {"open", "dead"}
         \/ t \in stranded'
  <2>1. CASE ~IsActive(t)
    <3>1. ASSUME NEW c \in Conns, NEW s \in Sessions, NEW k \in Keys, NEW h \in Hashes,
                 NEW A \in SUBSET Attachments, HandleMessageSend(c, s, k, h, A, t)
          PROVE  Goal
      BY <1>0, <3>1 DEF HandleMessageSend, Goto, Busy, Starting, Turn
    <3>2. ASSUME NEW c \in Conns, Marks(c), t = Turn(c) PROVE Goal
      BY <1>0, <3>2 DEF Marks, MarkRunning, AbandonOnStoreError
    <3>3. QED BY <1>1, <2>1, <3>1, <3>2, ActiveSteps
  <2>2. ASSUME NEW c \in Conns, Busy(c), Turn(c) = t PROVE Goal
    <3>1. CASE Busy(c)' /\ Turn(c)' = Turn(c)
      BY <2>2, <3>1
    <3>2. ASSUME NEW codexCreated \in BOOLEAN, FailStarting(c, codexCreated) PROVE Goal
      <4>1. CASE FinishTurn(t, "failed")
        BY <1>0, <1>1, <4>1, FinishTurnEffect DEF Outcomes
      <4>2. CASE ~IsActive(t) /\ UNCHANGED storeVars
        BY <1>1, <4>2 DEF IsActive, storeVars, turnVars
      <4>3. FailAndNotify(daemonOf[c], t) => FinishTurn(t, "failed") \/ (~IsActive(t) /\ UNCHANGED storeVars)
        BY DEF FailAndNotify, FailTurn
      <4>4. EndUnheard(t, "failed") => FinishTurn(t, "failed")
        BY EndUnheardFinishes DEF Outcomes
      <4>5. QED BY <2>2, <3>2, <4>1, <4>2, <4>3, <4>4 DEF FailStarting
    <3>3. CASE MarkRunning(c)
      BY <1>0, <2>2, <3>3 DEF MarkRunning
    <3>4. CASE AbandonOnStoreError(c) \/ MarkRefused(c)
      BY <2>2, <3>4 DEF AbandonOnStoreError, MarkRefused
    <3>5. ASSUME NEW d \in Daemons, Crash(d), daemonOf[c] = d PROVE Goal
      <4>1. sender[t] = c /\ stream[t] = "none"
        BY <2>2, BusyTurn
      <4>2. stream'[t] = "dead"
        BY <3>5, <4>1 DEF Crash
      <4>3. QED BY <4>2
    <3>6. QED BY <2>2, <3>1, <3>2, <3>3, <3>4, <3>5, BusyEnds
  <2>3. CASE stream[t] \in {"open", "dead"}
    <3>1. CASE stream'[t] = stream[t]
      BY <2>3, <3>1
    <3>2. CASE stream'[t] = "done" /\ Stream(t)
      BY <1>1, <3>2, StreamEndsTurn
    <3>3. QED BY <3>1, <3>2, StreamSteps
  <2>4. CASE t \in stranded
    BY <1>1, <2>4, StrandedStays
  <2>5. QED BY <1>0, <2>1, <2>2, <2>3, <2>4 DEF ActiveTurnIsDriven, Busy
<1>2. ASSUME NEW t \in Turns, stream'[t] = "done", IsActive(t)' PROVE t \in stranded'
  <2>1. CASE stream[t] = "done"
    <3>1. CASE t \in stranded
      BY <1>2, <3>1, StrandedStays
    <3>2. CASE ~IsActive(t)
      <4>1. ASSUME NEW c \in Conns, Marks(c), t = Turn(c) PROVE FALSE
        BY <2>1, <4>1, MarksTurn
      <4>2. ASSUME NEW c \in Conns, NEW s \in Sessions, NEW k \in Keys, NEW h \in Hashes,
                   NEW A \in SUBSET Attachments, HandleMessageSend(c, s, k, h, A, t)
            PROVE  FALSE
        BY <1>0, <2>1, <4>2 DEF HandleMessageSend, BeginTurn, Unborn
      <4>3. QED BY <1>2, <3>2, <4>1, <4>2, ActiveSteps
    <3>3. QED BY <1>0, <2>1, <3>1, <3>2 DEF DoneHasEnded
  <2>2. CASE stream[t] # "done"
    BY <1>2, <2>2, StreamSteps, StreamEndsTurn
  <2>3. QED BY <2>1, <2>2
<1>3. QED BY <1>1, <1>2 DEF DrivenInv, ActiveTurnIsDriven, DoneHasEnded, Busy

\* An active turn has a handler that starts it or a stream task that will end
\* it, unless its daemon died or an error of the store took it away.
THEOREM ActiveTurnIsDrivenHolds == Spec => []ActiveTurnIsDriven
<1>1. Init => DrivenInv
  BY DEF Init, StoreInit, DrivenInv, ActiveTurnIsDriven, DoneHasEnded, IsActive, ActiveStatuses
<1>2. JobInv /\ DrivenInv /\ [Next]_vars => DrivenInv'
  BY DrivenInvKept
<1>3. DrivenInv => ActiveTurnIsDriven
  BY DEF DrivenInv
<1>4. QED BY <1>1, <1>2, <1>3, JobsInductive, PTL DEF Spec
-----------------------------------------------------------------------------
(***************************************************************************)
(* What clients are told.  An end is broadcast in the step that writes it, *)
(* and a turn whose end was broadcast never becomes active again: the only *)
(* handler that could mark it is the one that begins it, and while that    *)
(* runs no one else has the turn to end it.                                *)
(***************************************************************************)
SayStep(kind, t) ==
    \/ kind = "started" /\ \E c \in Conns : MarkRunning(c) /\ t = Turn(c)
    \/ kind = "delta" /\ IsActive(t) /\ UNCHANGED status
    \/ /\ kind \in Outcomes /\ FinishTurn(t, kind)
       /\ Started(t) \/ \E c \in Conns : Busy(c) /\ t = Turn(c) /\ ~Busy(c)'

Forgotten(c) ==
    /\ pc'[c] = "closed" /\ queue'[c] = <<>> /\ c \notin lagged'
    /\ owned'[c] = {} /\ view'[c] = [t \in Turns |-> "unseen"]

\* An end that nobody is told of.
UnheardStep == \E t \in unheard', outcome \in Outcomes : FinishTurn(t, outcome)

QuietStep ==
    /\ UNCHANGED notices
    /\ BeginStep \/ RecoverStep \/ MarkStep \/ UnheardStep \/ UNCHANGED status
    /\ \A c \in Conns : \/ queue'[c] = queue[c] /\ (c \in lagged' <=> c \in lagged)
                        \/ Receive(c)
                        \/ Forgotten(c)

\* A turn that has been streamed is started no more.
LEMMA StreamedStarted ==
    ASSUME JobInv, NEW t \in Turns, stream[t] # "none"
    PROVE  Started(t)
  BY BusyTurn DEF Started

\* A step broadcasts what it does to one turn, or leaves every queue as it is
\* but for the event a connection receives and the connections that close.
LEMMA NoticeSteps ==
    ASSUME JobInv, [Next]_vars
    PROVE  \/ QuietStep
           \/ \E d \in Daemons, kind \in EventKinds, t \in Turns :
                 Broadcast(d, kind, t) /\ SayStep(kind, t)
<1> DEFINE Said == \E d \in Daemons, kind \in EventKinds, t \in Turns :
                      Broadcast(d, kind, t) /\ SayStep(kind, t)
<1>0. /\ sender \in [Turns -> Conns \cup {None}] /\ TurnsSent /\ StoreTypeOK
      /\ pc \in [Conns -> PCs]
      /\ \A o \in Outcomes \cup {"started", "delta"} : o \in EventKinds
      /\ "failed" \in Outcomes /\ "cancelled" \in Outcomes /\ "completed" \in Outcomes
  BY DEF JobInv, TypeOK, EventKinds, Outcomes
<1>1. ASSUME Quiet, BeginStep \/ RecoverStep \/ MarkStep \/ UnheardStep \/ UNCHANGED status
      PROVE  QuietStep
  BY <1>1 DEF Quiet, QuietStep
<1>11. ASSUME NEW t, NEW outcome \in {"completed", "failed", "cancelled"}, EndUnheard(t, outcome)
       PROVE  UnheardStep
  BY <1>0, <1>11, EndUnheardFinishes DEF UnheardStep
<1>2. UNCHANGED storeVars => UNCHANGED status
  BY DEF storeVars, turnVars
<1>3. ASSUME NEW t \in Turns, NEW d \in Daemons, FailAndNotify(d, t),
             Started(t) \/ \E c \in Conns : Busy(c) /\ t = Turn(c) /\ ~Busy(c)'
      PROVE  QuietStep \/ Said
  <2>1. CASE IsActive(t)
    <3>1. FinishTurn(t, "failed") /\ Broadcast(d, "failed", t)
      BY <1>3, <2>1 DEF FailAndNotify, FailTurn
    <3>2. SayStep("failed", t)
      BY <1>0, <1>3, <3>1 DEF SayStep
    <3>3. QED BY <1>0, <3>1, <3>2
  <2>2. CASE ~IsActive(t)
    BY <1>1, <1>2, <1>3, <2>2 DEF FailAndNotify
  <2>3. QED BY <2>1, <2>2
<1>4. ASSUME NEW c \in Conns, Handler(c) PROVE QuietStep \/ Said
  <2>0. daemonOf[c] \in Daemons
    OBVIOUS
  <2>1. CASE LoadContext(c) \/ (\E th \in Threads : CodexStarts(c, th)) \/ MarkRefused(c)
    BY <1>1, <1>2, <2>1 DEF LoadContext, CodexStarts, MarkRefused
  <2>7. CASE AbandonOnStoreError(c)
    <3>1. MarkStep \/ UNCHANGED storeVars
      BY <2>7 DEF AbandonOnStoreError, MarkStep, Marks
    <3>2. QED BY <1>1, <1>2, <2>7, <3>1 DEF AbandonOnStoreError
  <2>2. CASE RetryWithoutStaleThread(c) \/ LinkThread(c)
    BY <1>1, <2>2 DEF RetryWithoutStaleThread, ClearCodexThreadLink, LinkThread, LinkCodexThread,
                      turnVars
  <2>3. ASSUME NEW codexCreated \in BOOLEAN, FailStarting(c, codexCreated) PROVE QuietStep \/ Said
    <3>1. Turn(c) \in Turns /\ Busy(c)
      BY <2>3, BusyTurn DEF FailStarting, Busy, Starting
    <3>2. ~Busy(c)'
      BY <1>0, <2>3 DEF FailStarting, Return, Goto, Busy, Starting
    <3>3. FailAndNotify(daemonOf[c], Turn(c)) => QuietStep \/ Said
      BY <1>3, <2>0, <3>1, <3>2
    <3>4. EndUnheard(Turn(c), "failed") /\ Quiet => QuietStep
      BY <1>1, <1>11
    <3>5. UNCHANGED storeVars /\ Quiet => QuietStep
      BY <1>1, <1>2
    <3>6. QED BY <2>3, <3>3, <3>4, <3>5 DEF FailStarting
  <2>4. CASE MarkRunning(c)
    <3>1. Turn(c) \in Turns
      BY <2>4, BusyTurn DEF MarkRunning, Busy, Starting
    <3>2. Broadcast(daemonOf[c], "started", Turn(c)) /\ SayStep("started", Turn(c))
      BY <2>4 DEF MarkRunning, SayStep
    <3>3. QED BY <1>0, <2>0, <3>1, <3>2
  <2>5. ASSUME NEW codexAgrees \in BOOLEAN, FinishCancel(c, codexAgrees) PROVE QuietStep \/ Said
    <3>1. Turn(c) \in Turns
      BY <1>0, <2>5 DEF FinishCancel, JobInv, CancelSeen, StoreTypeOK
    <3>2. CASE CancelTurn(Turn(c)) /\ Broadcast(daemonOf[c], "cancelled", Turn(c))
      <4>1. FinishTurn(Turn(c), "cancelled") /\ Broadcast(daemonOf[c], "cancelled", Turn(c))
        BY <3>2 DEF CancelTurn
      <4>2. Started(Turn(c))
        BY <2>5 DEF FinishCancel, JobInv, CancelSeen, CodexTurnsStarted
      <4>3. SayStep("cancelled", Turn(c))
        BY <1>0, <4>1, <4>2 DEF SayStep
      <4>4. QED BY <1>0, <2>0, <3>1, <4>1, <4>3
    <3>3. CASE EndUnheard(Turn(c), "cancelled") /\ Quiet
      BY <1>1, <1>11, <3>3
    <3>4. CASE UNCHANGED storeVars /\ Quiet
      BY <1>1, <1>2, <3>4
    <3>5. QED BY <2>5, <3>2, <3>3, <3>4 DEF FinishCancel
  <2>6. QED BY <1>4, <2>1, <2>2, <2>3, <2>4, <2>5, <2>7 DEF Handler
<1>5. ASSUME NEW c \in Conns, Request(c) \/ Receive(c) \/ Connect(c) \/ Leave(c) \/ Closing(c)
      PROVE  QuietStep \/ Said
  <2>1. CASE \E s \in Sessions, k \in Keys, h \in Hashes, A \in SUBSET Attachments, t \in Turns :
                HandleMessageSend(c, s, k, h, A, t)
    BY <1>1, <2>1 DEF BeginStep, HandleMessageSend
  <2>2. ASSUME NEW t \in Turns, CleanUp(c, t) PROVE QuietStep \/ Said
    <3>1. daemonOf[c] \in Daemons
      OBVIOUS
    <3>2. Started(t)
      BY <2>2, StreamedStarted DEF CleanUp, JobInv, OwnedStreams
    <3>3. QED BY <1>3, <2>2, <3>1, <3>2 DEF CleanUp
  <2>3. CASE \/ \E t \in Turns : HandleTurnCancel(c, t)
             \/ \E s \in Sessions : HandleSubscribe(c, s) \/ HandleUnsubscribe(c, s)
             \/ Connect(c) \/ Leave(c)
    BY <1>1, <1>2, <2>3 DEF HandleTurnCancel, HandleSubscribe, HandleUnsubscribe, Connect, Leave,
                            turnTaskVars, Quiet
  <2>4. CASE Receive(c)
    <3>1. UNCHANGED <<notices, lagged, status>>
      BY <1>2, <2>4 DEF Receive, turnTaskVars
    <3>2. \A b \in Conns : b # c => queue'[b] = queue[b]
      BY <2>4 DEF Receive, JobInv, TypeOK
    <3>3. QED BY <2>4, <3>1, <3>2 DEF QuietStep
  <2>5. CASE Close(c)
    <3>1. UNCHANGED notices
      BY <2>5 DEF Close, turnTaskVars
    <3>6. UnheardStep \/ UNCHANGED status
      BY <1>2, <1>11, <2>5 DEF Close
    <3>2. \A b \in Conns : b # c => queue'[b] = queue[b] /\ (b \in lagged' <=> b \in lagged)
      BY <2>5 DEF Close, Forget
    <3>3. pc'[c] = "closed"
      BY <2>5 DEF Close, Goto, JobInv, TypeOK
    <3>4. Forgotten(c)
      BY <2>5, <3>3 DEF Close, Forget, Forgotten
    <3>5. QED BY <3>1, <3>2, <3>4, <3>6 DEF QuietStep
  <2>6. QED BY <1>5, <2>1, <2>2, <2>3, <2>4, <2>5 DEF Request, Closing
<1>6. ASSUME NEW t \in Turns, Stream(t) PROVE QuietStep \/ Said
  <2>1. ASSUME IsActive(t) PROVE daemonOf[sender[t]] \in Daemons
    <3>1. sender[t] \in Conns
      BY <1>0, <2>1 DEF TurnsSent, IsActive, ActiveStatuses
    <3>2. QED BY <3>1
  <2>2. CASE StreamDelta(t)
    <3>1. CASE IsActive(t)
      <4>1. Broadcast(daemonOf[sender[t]], "delta", t) /\ UNCHANGED status
        BY <1>2, <2>2, <3>1 DEF StreamDelta
      <4>2. QED BY <1>0, <2>1, <3>1, <4>1 DEF SayStep
    <3>2. CASE ~IsActive(t)
      BY <1>1, <1>2, <2>2, <3>2 DEF StreamDelta
    <3>3. QED BY <3>1, <3>2
  <2>3. CASE StreamCompleted(t)
    <3>1. CASE IsActive(t)
      <4>1. Broadcast(daemonOf[sender[t]], "completed", t) /\ FinishTurn(t, "completed")
        BY <2>3, <3>1 DEF StreamCompleted, CompleteTurn
      <4>2. Started(t)
        BY <2>3, StreamedStarted DEF StreamCompleted, StreamStep
      <4>3. SayStep("completed", t)
        BY <1>0, <4>1, <4>2 DEF SayStep
      <4>4. QED BY <1>0, <2>1, <3>1, <4>1, <4>3
    <3>2. CASE ~IsActive(t)
      BY <1>1, <1>2, <2>3, <3>2 DEF StreamCompleted
    <3>3. QED BY <3>1, <3>2
  <2>4. CASE StreamFailed(t)
    <3>1. CASE IsActive(t)
      BY <1>3, <2>1, <2>4, <3>1, StreamedStarted DEF StreamFailed, StreamStep
    <3>2. CASE ~IsActive(t)
      BY <1>1, <1>2, <2>4, <3>2 DEF StreamFailed, FailAndNotify
    <3>3. QED BY <3>1, <3>2
  <2>5. CASE StreamStoreError(t)
    <3>1. UNCHANGED storeVars \/ UnheardStep
      BY <1>11, <2>5 DEF StreamStoreError
    <3>2. QED BY <1>1, <1>2, <2>5, <3>1 DEF StreamStoreError
  <2>6. QED BY <1>6, <2>2, <2>3, <2>4, <2>5 DEF Stream, StreamEnds
<1>7. ASSUME NEW d \in Daemons, Start(d) PROVE QuietStep
  <2>1. UNCHANGED status \/ RecoverStep
    BY <1>2, <1>7 DEF Start, RecoverStep
  <2>2. QED BY <1>1, <1>7, <2>1 DEF Start, connVars, turnTaskVars, Quiet
<1>8. ASSUME NEW d \in Daemons, Crash(d) PROVE QuietStep
  <2>1. UNCHANGED <<notices, status>>
    BY <1>2, <1>8 DEF Crash
  <2>2. ASSUME NEW c \in Conns, daemonOf[c] # d
        PROVE  queue'[c] = queue[c] /\ (c \in lagged' <=> c \in lagged)
    BY <1>8, <2>2 DEF Crash, Forget
  <2>3. ASSUME NEW c \in Conns, daemonOf[c] = d PROVE Forgotten(c)
    BY <1>8, <2>3 DEF Crash, Forget, Forgotten
  <2>4. QED BY <2>1, <2>2, <2>3 DEF QuietStep
<1>9. CASE ManageSession \/ UNCHANGED vars
  BY <1>1, <1>2, <1>9 DEF ManageSession, CreateSession, connVars, turnTaskVars, turnVars, vars, Quiet
<1>10. QED BY <1>4, <1>5, <1>6, <1>7, <1>8, <1>9 DEF Next

\* What a step does to the queue of a connection.
Taken(c) ==
    /\ Receive(c) /\ queue[c] # <<>> /\ Len(queue'[c]) = Len(queue[c]) - 1
    /\ \A i \in 1..Len(queue'[c]) : queue'[c][i] = queue[c][i + 1]
Queued(c, kind, t) ==
    /\ Len(queue'[c]) = Len(queue[c]) + 1
    /\ \A i \in 1..Len(queue[c]) : queue'[c][i] = queue[c][i]
    /\ queue'[c][Len(queue[c]) + 1] = [kind |-> kind, turn |-> t]
    /\ notices' = IF kind \in Outcomes THEN [notices EXCEPT ![t] = Append(@, kind)] ELSE notices

LEMMA QueueSteps ==
    ASSUME JobInv, [Next]_vars, NEW c \in Conns
    PROVE  \/ queue'[c] = <<>> \/ queue'[c] = queue[c] \/ Taken(c)
           \/ \E kind \in EventKinds, t \in Turns : SayStep(kind, t) /\ Queued(c, kind, t)
<1>0. queue[c] \in Seq(Events) /\ queue \in [Conns -> Seq(Events)]
  BY DEF JobInv, TypeOK
<1>1. CASE Receive(c)
  <2>1. queue[c] # <<>> /\ queue'[c] = Tail(queue[c])
    BY <1>0, <1>1 DEF Receive
  <2>2. Taken(c)
    BY <1>0, <1>1, <2>1, HeadTailProperties DEF Taken
  <2>3. QED BY <2>2
<1>2. ASSUME NEW d \in Daemons, NEW kind \in EventKinds, NEW t \in Turns,
             Broadcast(d, kind, t), SayStep(kind, t)
      PROVE  \/ queue'[c] = <<>> \/ queue'[c] = queue[c]
             \/ SayStep(kind, t) /\ Queued(c, kind, t)
  <2>1. \/ queue'[c] = <<>> \/ queue'[c] = queue[c]
        \/ queue'[c] = Append(queue[c], [kind |-> kind, turn |-> t])
    BY <1>2 DEF Broadcast
  <2>2. CASE queue'[c] = Append(queue[c], [kind |-> kind, turn |-> t])
    <3>1. [kind |-> kind, turn |-> t] \in Events
      BY DEF Events
    <3>2. Queued(c, kind, t)
      BY <1>0, <1>2, <2>2, <3>1, AppendProperties DEF Queued, Broadcast
    <3>3. QED BY <1>2, <3>2
  <2>3. QED BY <2>1, <2>2
<1>3. CASE QuietStep
  BY <1>1, <1>3 DEF QuietStep, Forgotten
<1>4. QED BY <1>2, <1>3, NoticeSteps

EndedTold == OneEndNotice /\ \A t \in Turns : notices[t] # <<>> => status[t] \in Outcomes
StartsUntold == \A c \in Conns : Busy(c) => notices[Turn(c)] = <<>>
QueueTold ==
    \A c \in Conns : \A i \in 1..Len(queue[c]) :
        queue[c][i].kind \in Outcomes => notices[queue[c][i].turn] # <<>>

NoticeInv == EndedTold /\ StartsUntold /\ QueueTold /\ NothingAfterEnd

\* Only a turn whose end was not broadcast is spoken of.
LEMMA SayUntold ==
    ASSUME JobInv, NoticeInv, NEW kind \in EventKinds, NEW t \in Turns, SayStep(kind, t)
    PROVE  notices[t] = <<>>
<1>1. IsActive(t) => notices[t] = <<>>
  BY DEF NoticeInv, EndedTold, IsActive, ActiveStatuses, Outcomes
<1>2. ASSUME NEW c \in Conns, MarkRunning(c), t = Turn(c) PROVE notices[t] = <<>>
  BY <1>2 DEF MarkRunning, Busy, Starting, NoticeInv, StartsUntold
<1>3. QED BY <1>1, <1>2 DEF SayStep, FinishTurn

\* A turn whose end was broadcast stays as it is.
LEMMA ToldStays ==
    ASSUME JobInv, NoticeInv, [Next]_vars, NEW t \in Turns, notices[t] # <<>>
    PROVE  status'[t] = status[t] /\ notices'[t] = notices[t]
<1>0. StoreTypeOK /\ status \in [Turns -> Statuses] /\ notices \in [Turns -> Seq(Outcomes)]
  BY DEF JobInv, TypeOK, StoreTypeOK
<1>1. status[t] \in Outcomes /\ status[t] # "absent" /\ ~IsActive(t)
  BY DEF NoticeInv, EndedTold, Outcomes, IsActive, ActiveStatuses
<1>2. ASSUME BeginStep PROVE status'[t] = status[t]
  <2>1. PICK c \in Conns, s \in Sessions, k \in Keys, h \in Hashes,
             A \in SUBSET Attachments, u \in Turns : HandleMessageSend(c, s, k, h, A, u)
    BY <1>2 DEF BeginStep
  <2>2. status[u] = "absent" /\ status' = [status EXCEPT ![u] = "pending"]
    BY <2>1 DEF HandleMessageSend, BeginTurn
  <2>3. QED BY <1>0, <1>1, <2>2
<1>3. ASSUME MarkStep PROVE status'[t] = status[t]
  <2>1. PICK c \in Conns : Marks(c)
    BY <1>3 DEF MarkStep
  <2>2. notices[Turn(c)] = <<>> /\ status' = [status EXCEPT ![Turn(c)] = "running"]
    BY <2>1, MarksTurn DEF MarkTurnRunning, NoticeInv, StartsUntold
  <2>3. QED BY <1>0, <2>2
<1>4. ASSUME FinishStep PROVE status'[t] = status[t]
  <2>1. PICK u \in Turns, outcome \in Outcomes : FinishTurn(u, outcome)
    BY <1>4 DEF FinishStep
  <2>2. u # t /\ status' = [status EXCEPT ![u] = outcome]
    BY <1>1, <2>1 DEF FinishTurn
  <2>3. QED BY <1>0, <2>2
<1>5. ASSUME RecoverStep PROVE status'[t] = status[t]
  BY <1>0, <1>1, <1>5, RecoverEffect DEF RecoverStep
<1>6. status'[t] = status[t]
  BY <1>2, <1>3, <1>4, <1>5, TurnSteps
<1>7. notices'[t] = notices[t]
  <2>1. ASSUME NEW d \in Daemons, NEW kind \in EventKinds, NEW u \in Turns,
               Broadcast(d, kind, u), SayStep(kind, u)
        PROVE  notices'[t] = notices[t]
    <3>1. u # t
      BY <2>1, SayUntold
    <3>2. QED BY <1>0, <2>1, <3>1 DEF Broadcast
  <2>2. QED BY <2>1, NoticeSteps DEF QuietStep
<1>8. QED BY <1>6, <1>7

LEMMA ToldKept ==
    ASSUME JobInv, NoticeInv, [Next]_vars
    PROVE  EndedTold' /\ StartsUntold'
<1>0. /\ StoreTypeOK /\ notices \in [Turns -> Seq(Outcomes)] /\ EndedTold /\ StartsUntold
      /\ TypeOK'
  BY StepType DEF JobInv, TypeOK, NoticeInv
<1>1. ASSUME NEW t \in Turns, notices'[t] # <<>>
      PROVE  notices'[t] = <<status'[t]>> /\ status'[t] \in Outcomes
  <2>1. CASE notices[t] # <<>>
    BY <1>0, <2>1, ToldStays DEF EndedTold, OneEndNotice
  <2>2. CASE notices[t] = <<>>
    <3>1. PICK d \in Daemons, kind \in EventKinds, u \in Turns :
                 Broadcast(d, kind, u) /\ SayStep(kind, u)
      BY <1>1, <2>2, NoticeSteps DEF QuietStep
    <3>2. /\ u = t /\ kind \in Outcomes
          /\ notices' = [notices EXCEPT ![t] = Append(notices[t], kind)]
      BY <1>0, <1>1, <2>2, <3>1 DEF Broadcast
    <3>3. notices'[t] = <<kind>>
      BY <1>0, <2>2, <3>2
    <3>4. FinishTurn(t, kind)
      BY <3>1, <3>2 DEF SayStep, Outcomes
    <3>5. status'[t] = kind
      BY <1>0, <3>2, <3>4, FinishTurnEffect DEF StoreTypeOK
    <3>6. QED BY <3>2, <3>3, <3>5
  <2>3. QED BY <2>1, <2>2
<1>2. ASSUME NEW c \in Conns, Busy(c)' PROVE notices'[Turn(c)'] = <<>>
  <2>1. CASE Busy(c) /\ Turn(c)' = Turn(c)
    <3>1. /\ Turn(c) \in Turns /\ sender[Turn(c)] = c /\ stream[Turn(c)] = "none"
          /\ notices[Turn(c)] = <<>>
      BY <1>0, <2>1, BusyTurn DEF StartsUntold
    <3>2. ASSUME NEW d \in Daemons, NEW kind \in EventKinds, NEW u \in Turns,
                 Broadcast(d, kind, u), SayStep(kind, u), notices' # notices
          PROVE  u # Turn(c)
      <4>1. kind \in Outcomes
        BY <3>2 DEF Broadcast
      <4>2. Started(u) \/ \E b \in Conns : Busy(b) /\ u = Turn(b) /\ ~Busy(b)'
        BY <3>2, <4>1 DEF SayStep, Outcomes
      <4>3. ASSUME NEW b \in Conns, Busy(b), Turn(b) = Turn(c) PROVE b = c
        BY <3>1, <4>3, BusyTurn
      <4>4. QED BY <1>2, <2>1, <4>2, <4>3 DEF Started
    <3>3. notices'[Turn(c)] = notices[Turn(c)]
      <4>1. CASE notices' = notices
        BY <4>1
      <4>2. CASE notices' # notices
        <5>1. PICK d \in Daemons, kind \in EventKinds, u \in Turns :
                     Broadcast(d, kind, u) /\ SayStep(kind, u)
          BY <4>2, NoticeSteps DEF QuietStep
        <5>2. u # Turn(c)
          BY <3>2, <4>2, <5>1
        <5>3. QED BY <1>0, <3>1, <5>1, <5>2 DEF Broadcast
      <4>3. QED BY <4>1, <4>2
    <3>4. QED BY <2>1, <3>1, <3>3
  <2>2. ASSUME NEW s \in Sessions, NEW k \in Keys, NEW h \in Hashes, NEW A \in SUBSET Attachments,
               NEW t \in Turns, HandleMessageSend(c, s, k, h, A, t), Turn(c)' = t
        PROVE  notices'[Turn(c)'] = <<>>
    <3>1. status[t] = "absent" /\ notices' = notices
      BY <2>2 DEF HandleMessageSend, BeginTurn, Quiet
    <3>2. notices[t] = <<>>
      BY <1>0, <3>1 DEF EndedTold, Outcomes
    <3>3. QED BY <2>2, <3>1, <3>2
  <2>3. QED BY <1>2, <2>1, <2>2, BusySteps
<1>3. QED BY <1>1, <1>2 DEF EndedTold, OneEndNotice, StartsUntold

LEMMA QueueToldKept ==
    ASSUME JobInv, NoticeInv, [Next]_vars
    PROVE  QueueTold' /\ NothingAfterEnd'
<1>0. /\ queue \in [Conns -> Seq(Events)] /\ QueueTold /\ NothingAfterEnd
      /\ TypeOK' /\ queue' \in [Conns -> Seq(Events)] /\ notices \in [Turns -> Seq(Outcomes)]
  BY StepType DEF JobInv, TypeOK, NoticeInv
<1>1. ASSUME NEW c \in Conns, NEW i \in 1..Len(queue[c])
      PROVE  queue[c][i].turn \in Turns
  <2>1. queue[c] \in Seq(Events)
    BY <1>0
  <2>2. queue[c][i] \in Events
    BY <2>1, ElementOfSeq
  <2>3. QED BY <2>2 DEF Events
<1>2. ASSUME NEW c \in Conns
      PROVE  /\ \A i \in 1..Len(queue'[c]) :
                   queue'[c][i].kind \in Outcomes => notices'[queue'[c][i].turn] # <<>>
             /\ \A i, j \in 1..Len(queue'[c]) :
                   i < j /\ queue'[c][i].kind \in Outcomes => queue'[c][j].turn # queue'[c][i].turn
  <2>0. Len(queue[c]) \in Nat /\ Len(queue'[c]) \in Nat
    BY <1>0, LenProperties
  <2>1. ASSUME NEW i \in 1..Len(queue[c]), queue[c][i].kind \in Outcomes
        PROVE  notices[queue[c][i].turn] # <<>> /\ notices'[queue[c][i].turn] # <<>>
    <3>1. notices[queue[c][i].turn] # <<>>
      BY <1>0, <2>1 DEF QueueTold
    <3>2. QED BY <1>1, <3>1, ToldStays
  <2>2. \A i, j \in 1..Len(queue[c]) :
           i < j /\ queue[c][i].kind \in Outcomes => queue[c][j].turn # queue[c][i].turn
    BY <1>0 DEF NothingAfterEnd
  <2>3. CASE queue'[c] = <<>>
    BY <2>3
  <2>4. CASE queue'[c] = queue[c]
    BY <2>1, <2>2, <2>4
  <2>5. CASE Taken(c)
    <3>1. \A i \in 1..Len(queue'[c]) : i + 1 \in 1..Len(queue[c]) /\ queue'[c][i] = queue[c][i + 1]
      BY <2>0, <2>5 DEF Taken
    <3>2. \A i, j \in 1..Len(queue'[c]) : i < j => i + 1 < j + 1
      BY <2>0
    <3>3. ASSUME NEW i \in 1..Len(queue'[c]), queue'[c][i].kind \in Outcomes
          PROVE  notices'[queue'[c][i].turn] # <<>>
      BY <2>1, <3>1, <3>3
    <3>4. ASSUME NEW i \in 1..Len(queue'[c]), NEW j \in 1..Len(queue'[c]),
                 i < j, queue'[c][i].kind \in Outcomes
          PROVE  queue'[c][j].turn # queue'[c][i].turn
      <4>1. /\ i + 1 \in 1..Len(queue[c]) /\ queue'[c][i] = queue[c][i + 1]
            /\ j + 1 \in 1..Len(queue[c]) /\ queue'[c][j] = queue[c][j + 1]
            /\ i + 1 < j + 1
        BY <3>1, <3>2, <3>4
      <4>2. QED BY <2>2, <3>4, <4>1
    <3>5. QED BY <3>3, <3>4
  <2>6. ASSUME NEW kind \in EventKinds, NEW t \in Turns, SayStep(kind, t), Queued(c, kind, t)
        PROVE  /\ \A i \in 1..Len(queue'[c]) :
                     queue'[c][i].kind \in Outcomes => notices'[queue'[c][i].turn] # <<>>
               /\ \A i, j \in 1..Len(queue'[c]) :
                     i < j /\ queue'[c][i].kind \in Outcomes
                     => queue'[c][j].turn # queue'[c][i].turn
    <3>1. notices[t] = <<>>
      BY <2>6, SayUntold
    <3>2. \A i \in 1..Len(queue'[c]) :
             \/ i \in 1..Len(queue[c]) /\ queue'[c][i] = queue[c][i]
             \/ i = Len(queue[c]) + 1 /\ queue'[c][i] = [kind |-> kind, turn |-> t]
      BY <2>0, <2>6 DEF Queued
    <3>3. kind \in Outcomes => notices'[t] # <<>>
      <4>1. kind \in Outcomes => notices'[t] = Append(<<>>, kind)
        BY <1>0, <2>6, <3>1 DEF Queued
      <4>2. QED BY <4>1
    <3>4. ASSUME NEW i \in 1..Len(queue'[c]), queue'[c][i].kind \in Outcomes
          PROVE  notices'[queue'[c][i].turn] # <<>>
      BY <2>1, <3>2, <3>3, <3>4
    <3>5. ASSUME NEW i \in 1..Len(queue'[c]), NEW j \in 1..Len(queue'[c]),
                 i < j, queue'[c][i].kind \in Outcomes
          PROVE  queue'[c][j].turn # queue'[c][i].turn
      <4>1. i \in 1..Len(queue[c]) /\ queue'[c][i] = queue[c][i]
        BY <2>0, <2>6, <3>2, <3>5 DEF Queued
      <4>2. CASE j \in 1..Len(queue[c]) /\ queue'[c][j] = queue[c][j]
        BY <2>2, <3>5, <4>1, <4>2
      <4>3. CASE queue'[c][j] = [kind |-> kind, turn |-> t]
        BY <2>1, <3>1, <3>5, <4>1, <4>3
      <4>4. QED BY <3>2, <4>2, <4>3
    <3>6. QED BY <3>4, <3>5
  <2>7. QED BY <2>3, <2>4, <2>5, <2>6, QueueSteps
<1>3. QED BY <1>2 DEF QueueTold, NothingAfterEnd

LEMMA NoticesInductive == Spec => []NoticeInv
<1>1. Init => NoticeInv
  BY DEF Init, NoticeInv, EndedTold, OneEndNotice, StartsUntold, Busy, Starting, QueueTold,
         NothingAfterEnd
<1>2. JobInv /\ NoticeInv /\ [Next]_vars => NoticeInv'
  BY ToldKept, QueueToldKept DEF NoticeInv
<1>3. QED BY <1>1, <1>2, JobsInductive, PTL DEF Spec

\* However many want to end a turn, its end is broadcast once at most, and as
\* the store has it.
THEOREM OneEndNoticeHolds == Spec => []OneEndNotice
<1>1. NoticeInv => OneEndNotice
  BY DEF NoticeInv, EndedTold
<1>2. QED BY <1>1, NoticesInductive, PTL

\* No queue holds an event about a turn behind the end of that turn.
THEOREM NothingAfterEndHolds == Spec => []NothingAfterEnd
<1>1. NoticeInv => NothingAfterEnd
  BY DEF NoticeInv
<1>2. QED BY <1>1, NoticesInductive, PTL
-----------------------------------------------------------------------------
\* The unique index keeps a session to one active turn even with several
\* daemons, where a recovery may end a turn that another daemon then marks.
THEOREM OneActiveTurnPerSessionHolds == Spec => []OneActiveTurnPerSession
<1>1. Init => OneActiveTurnPerSession
  BY DEF Init, StoreInit, OneActiveTurnPerSession, IsActive, ActiveStatuses
<1>2. JobInv /\ OneActiveTurnPerSession /\ [Next]_vars => OneActiveTurnPerSession'
  <2> SUFFICES ASSUME JobInv, OneActiveTurnPerSession, [Next]_vars
               PROVE  OneActiveTurnPerSession'
    OBVIOUS
  <2>0. StoreTypeOK
    BY DEF JobInv, TypeOK
  <2>1. ASSUME UNCHANGED sessionOf, \A t \in Turns : IsActive(t)' => IsActive(t)
        PROVE  OneActiveTurnPerSession'
    BY <2>1 DEF OneActiveTurnPerSession
  <2>2. CASE BeginStep
    <3>1. PICK c \in Conns, s \in Sessions, k \in Keys, h \in Hashes,
               A \in SUBSET Attachments, t \in Turns : HandleMessageSend(c, s, k, h, A, t)
      BY <2>2 DEF BeginStep
    <3>2. \A u \in Turns : IsActive(u)' <=> u = t
      BY <2>0, <3>1, BeginTurnEffect DEF HandleMessageSend
    <3>3. QED BY <3>2 DEF OneActiveTurnPerSession
  <2>3. CASE MarkStep /\ UNCHANGED sessionOf
    <3>1. PICK c \in Conns : Marks(c)
      BY <2>3 DEF MarkStep
    <3>2. Turn(c) \in Turns /\ MarkTurnRunning(Turn(c), TRUE)
      BY <3>1, MarksTurn
    <3>3. /\ ~OtherActiveTurn(Turn(c))
          /\ \A u \in Turns : IsActive(u)' <=> IsActive(u) \/ u = Turn(c)
      BY <2>0, <3>2, MarkTurnRunningEffect
    <3>4. QED BY <2>3, <3>2, <3>3 DEF OneActiveTurnPerSession, OtherActiveTurn
  <2>4. CASE FinishStep /\ UNCHANGED sessionOf
    BY <2>0, <2>1, <2>4, FinishTurnEffect DEF FinishStep
  <2>5. CASE RecoverStep /\ UNCHANGED sessionOf
    BY <2>0, <2>1, <2>5, RecoverEffect DEF RecoverStep
  <2>6. CASE UNCHANGED <<status, sessionOf>>
    BY <2>1, <2>6 DEF IsActive
  <2>7. QED BY <2>2, <2>3, <2>4, <2>5, <2>6, TurnSteps
<1>3. QED BY <1>1, <1>2, JobsInductive, PTL DEF Spec

-----------------------------------------------------------------------------
(***************************************************************************)
(* What a connection that cleans up owns.  The set is filled by the mark,  *)
(* in the step that ends the handler, and a turn leaves it with its end;   *)
(* the one way to lose an active turn is to die.  A store that refuses to  *)
(* write is another: a cleanup then gives up and the connection is gone.   *)
(***************************************************************************)
DoneEnded == \A t \in Turns : stream[t] = "done" => ~IsActive(t)

\* A connection that cleans up parts with an active turn only when it dies.
LEMMA OwnerLeaves ==
    ASSUME JobInv, NoticeInv, [Next]_vars, StoreMayFail = FALSE,
           NEW c \in Cleaning, NEW t \in owned[c], pc[c] # "closed",
           IsActive(t)', ~(pc'[c] # "closed" /\ t \in owned'[c])
    PROVE  \E d \in Daemons : Crash(d) /\ daemonOf[c] = d
<1> DEFINE Goal == \E d \in Daemons : Crash(d) /\ daemonOf[c] = d
<1>0. /\ pc \in [Conns -> PCs] /\ owned \in [Conns -> SUBSET Turns] /\ c \in Conns /\ t \in Turns
      /\ StoreTypeOK
  BY DEF JobInv, TypeOK
<1>1. ASSUME pc'[c] # "closed", owned'[c] = owned[c] PROVE FALSE
  BY <1>1
<1>2. ASSUME UNCHANGED status PROVE IsActive(t)
  BY <1>2 DEF IsActive
<1>3. ASSUME NEW b \in Conns, Handler(b) PROVE FALSE
  <2>1. pc'[c] # "closed"
    BY <1>0, <1>3 DEF Handler, LoadContext, FailStarting, CodexStarts, RetryWithoutStaleThread,
              LinkThread, MarkRunning, AbandonOnStoreError, MarkRefused, FinishCancel, Return, Goto
  <2>2. t \in owned'[c]
    BY <1>0, <1>3 DEF Handler, LoadContext, FailStarting, CodexStarts, RetryWithoutStaleThread,
              LinkThread, MarkRunning, AbandonOnStoreError, MarkRefused, FinishCancel
  <2>3. QED BY <2>1, <2>2
<1>4. ASSUME NEW b \in Conns, Request(b) \/ Connect(b) \/ Leave(b) PROVE FALSE
  <2>1. pc'[c] # "closed"
    BY <1>0, <1>4 DEF Request, HandleMessageSend, HandleTurnCancel, HandleSubscribe,
                      HandleUnsubscribe, Connect, Leave, Goto
  <2>2. owned'[c] = owned[c]
    BY <1>4 DEF Request, HandleMessageSend, HandleTurnCancel, HandleSubscribe,
                HandleUnsubscribe, Connect, Leave
  <2>3. QED BY <1>1, <2>1, <2>2
<1>5. ASSUME NEW b \in Conns, Receive(b) PROVE FALSE
  <2>0. queue[b] \in Seq(Events) /\ queue[b] # <<>> /\ 1 \in 1..Len(queue[b])
        /\ Head(queue[b]) = queue[b][1]
    BY <1>5 DEF Receive, JobInv, TypeOK
  <2>1. UNCHANGED <<pc, status>>
    BY <1>5 DEF Receive, storeVars, turnVars
  <2>2. owned'[c] = owned[c] \/ (queue[b][1].kind \in Outcomes /\ queue[b][1].turn = t)
    BY <1>0, <1>1, <1>5, <2>0, <2>1 DEF Receive
  <2>3. ASSUME queue[b][1].kind \in Outcomes, queue[b][1].turn = t PROVE ~IsActive(t)
    <3>1. notices[t] # <<>>
      BY <2>0, <2>3 DEF NoticeInv, QueueTold
    <3>2. QED BY <1>0, <3>1 DEF NoticeInv, EndedTold, IsActive, ActiveStatuses, Outcomes
  <2>4. QED BY <1>1, <1>2, <2>1, <2>2, <2>3
<1>6. ASSUME NEW b \in Conns, Close(b) PROVE FALSE
  <2>1. b # c
    BY <1>6 DEF Close
  <2>2. pc'[c] = pc[c] /\ owned'[c] = owned[c]
    BY <1>0, <1>6, <2>1 DEF Close, Forget, Goto
  <2>3. QED BY <1>1, <2>2
<1>7. ASSUME NEW b \in Conns, NEW u \in Turns, CleanUp(b, u) PROVE FALSE
  <2>1. pc' = pc /\ (owned'[c] = owned[c] \/ u = t)
    BY <1>0, <1>1, <1>7 DEF CleanUp
  <2>2. CASE u = t
    <3>1. IsActive(t) => FinishTurn(t, "failed")
      BY <1>7, <2>2 DEF CleanUp, FailAndNotify, FailTurn
    <3>2. ~IsActive(t) => UNCHANGED status
      BY <1>7, <2>2 DEF CleanUp, FailAndNotify, storeVars, turnVars
    <3>3. QED BY <1>0, <1>2, <3>1, <3>2, FinishTurnEffect DEF Outcomes
  <2>3. QED BY <1>1, <2>1, <2>2
<1>8. ASSUME NEW d \in Daemons, Crash(d), daemonOf[c] # d PROVE FALSE
  BY <1>0, <1>1, <1>8 DEF Crash, Forget
<1>9. ASSUME \/ \E u \in Turns : Stream(u)
             \/ UNCHANGED vars \/ ManageSession \/ \E d \in Daemons : Start(d)
      PROVE  FALSE
  BY <1>1, <1>9 DEF Stream, StreamEnds, StreamDelta, StreamCompleted, StreamFailed,
                    StreamStoreError, StreamStep, vars, connVars, ManageSession, Start
<1>10. QED BY <1>3, <1>4, <1>5, <1>6, <1>7, <1>8, <1>9 DEF Next, Closing

LEMMA OwnerKept ==
    ASSUME JobInv, NoticeInv, OneActiveTurnPerSession, DoneEnded, OwnerKnowsTurn,
           [Next]_vars, StoreMayFail = FALSE
    PROVE  DoneEnded' /\ OwnerKnowsTurn'
<1>0. /\ StoreTypeOK /\ Unborn /\ TurnsSent /\ Cleaning \subseteq Conns
      /\ pc \in [Conns -> PCs] /\ owned \in [Conns -> SUBSET Turns]
      /\ job \in [Conns -> [turn : Turns \cup {None}, thread : Threads \cup {None}]]
      /\ stream \in [Turns -> {"none", "open", "done", "dead"}]
      /\ sender \in [Turns -> Conns \cup {None}]
  BY DEF JobInv, TypeOK
<1>1. ASSUME NEW c \in Conns, MarkRunning(c), NEW t \in Turns, t = Turn(c)
      PROVE  /\ sender[t] = c /\ status[t] # "absent" /\ stream[t] = "none" /\ stream'[t] = "open"
             /\ pc'[c] = "idle" /\ t \in owned'[c]
  <2>1. sender[t] = c /\ status[t] # "absent" /\ stream[t] = "none"
    BY <1>1, BusyTurn DEF MarkRunning, Busy, Starting
  <2>2. stream'[t] = "open" /\ pc'[c] = "idle" /\ t \in owned'[c]
    BY <1>0, <1>1 DEF MarkRunning, Return, Goto
  <2>3. QED BY <2>1, <2>2
<1>6. ASSUME NEW c \in Conns, Marks(c) PROVE MarkRunning(c)
  BY <1>6 DEF Marks, AbandonOnStoreError
<1>2. ASSUME NEW t \in Turns, stream'[t] = "done" PROVE ~IsActive(t)'
  <2>1. CASE stream[t] = "done"
    <3>1. ASSUME NEW c \in Conns, Marks(c), t = Turn(c) PROVE FALSE
      BY <2>1, <3>1, MarksTurn
    <3>2. ASSUME NEW c \in Conns, NEW s \in Sessions, NEW k \in Keys, NEW h \in Hashes,
                 NEW A \in SUBSET Attachments, HandleMessageSend(c, s, k, h, A, t)
          PROVE  FALSE
      BY <1>0, <2>1, <3>2 DEF HandleMessageSend, BeginTurn, Unborn
    <3>3. QED BY <2>1, <3>1, <3>2, ActiveSteps DEF DoneEnded
  <2>2. CASE stream[t] # "done"
    <3>1. Stream(t)
      BY <1>2, <2>2, StreamSteps
    <3>2. ~IsActive(t)' \/ StreamStoreError(t)
      BY <1>2, <3>1, StreamEndsTurn
    <3>3. StreamStoreError(t) => ~IsActive(t)'
      <4>1. ASSUME NEW outcome \in {"completed", "failed"}, EndUnheard(t, outcome) PROVE FALSE
        BY <4>1 DEF EndUnheard
      <4>2. QED BY <4>1 DEF StreamStoreError
    <3>4. QED BY <3>2, <3>3
  <2>3. QED BY <2>1, <2>2
<1>3. ASSUME NEW t \in Turns, IsActive(t)', sender'[t] \in Cleaning, stream'[t] # "dead"
      PROVE  \/ \E c \in Conns : c = sender'[t] /\ Busy(c)' /\ Turn(c)' = t
             \/ pc'[sender'[t]] # "closed" /\ t \in owned'[sender'[t]]
  <2> DEFINE Goal ==
         \/ \E c \in Conns : c = sender'[t] /\ Busy(c)' /\ Turn(c)' = t
         \/ pc'[sender'[t]] # "closed" /\ t \in owned'[sender'[t]]
  <2>1. CASE ~IsActive(t)
    <3>1. ASSUME NEW b \in Conns, NEW s \in Sessions, NEW k \in Keys, NEW h \in Hashes,
                 NEW A \in SUBSET Attachments, HandleMessageSend(b, s, k, h, A, t)
          PROVE  /\ sender'[t] = b /\ Busy(b)' /\ Turn(b)' = t
      BY <1>0, <3>1 DEF HandleMessageSend, Goto, Busy, Starting, Turn
    <3>2. ASSUME NEW b \in Conns, MarkRunning(b), t = Turn(b)
          PROVE  sender'[t] = b /\ pc'[b] # "closed" /\ t \in owned'[b]
      <4>1. /\ sender[t] = b /\ status[t] # "absent"
            /\ pc'[b] = "idle" /\ t \in owned'[b]
        BY <1>1, <3>2
      <4>2. sender'[t] = sender[t]
        BY <4>1, TurnsStay
      <4>3. QED BY <4>1, <4>2
    <3>3. QED BY <1>3, <1>6, <2>1, <3>1, <3>2, ActiveSteps
  <2>2. CASE IsActive(t)
    <3>1. status[t] # "absent" /\ sender'[t] = sender[t]
      BY <2>2, TurnsStay DEF IsActive, ActiveStatuses
    <3>2. stream[t] # "dead"
      BY <1>1, <1>3, StreamSteps
    <3>3. PICK c \in Cleaning : c = sender[t] /\ c = sender'[t]
      BY <1>3, <3>1
    <3>4. ASSUME NEW d \in Daemons, Crash(d), daemonOf[c] = d PROVE FALSE
      <4>1. stream[t] # "done"
        BY <2>2 DEF DoneEnded
      <4>2. stream'[t] = "dead"
        BY <1>0, <3>3, <3>4, <4>1 DEF Crash
      <4>3. QED BY <1>3, <4>2
    <3>5. CASE Busy(c) /\ Turn(c) = t
      <4>1. ASSUME NEW codexCreated \in BOOLEAN, FailStarting(c, codexCreated) PROVE FALSE
        <5>1. FinishTurn(t, "failed")
          BY <2>2, <3>5, <4>1 DEF FailStarting, FailAndNotify, FailTurn, EndUnheard
        <5>2. QED BY <1>0, <1>3, <5>1, FinishTurnEffect DEF Outcomes
      <4>2. ASSUME AbandonOnStoreError(c) \/ MarkRefused(c) PROVE FALSE
        <5>1. OtherActiveTurn(t)
          BY <3>5, <4>2 DEF AbandonOnStoreError, MarkRefused
        <5>2. QED BY <2>2, <5>1 DEF OtherActiveTurn, OneActiveTurnPerSession
      <4>3. MarkRunning(c) => pc'[c] # "closed" /\ t \in owned'[c]
        BY <1>0, <1>1, <3>5
      <4>4. (Busy(c)' /\ Turn(c)' = t) \/ MarkRunning(c)
        <5>1. c \in Conns
          BY <1>0
        <5>2. CASE Busy(c)' /\ Turn(c)' = Turn(c)
          BY <3>5, <5>2
        <5>3. CASE ~(Busy(c)' /\ Turn(c)' = Turn(c))
          BY <3>4, <3>5, <4>1, <4>2, <5>1, <5>3, BusyEnds
        <5>4. QED BY <5>2, <5>3
      <4>5. c \in Conns
        BY <1>0
      <4>6. QED BY <3>3, <4>3, <4>4, <4>5
    <3>6. CASE pc[c] # "closed" /\ t \in owned[c]
      <4>1. pc'[c] # "closed" /\ t \in owned'[c]
        BY <1>3, <3>4, <3>6, OwnerLeaves
      <4>2. QED BY <3>3, <4>1
    <3>7. QED BY <2>2, <3>2, <3>3, <3>5, <3>6 DEF OwnerKnowsTurn, Busy
  <2>3. QED BY <2>1, <2>2
<1>4. OwnerKnowsTurn'
  BY <1>3 DEF OwnerKnowsTurn, Busy, Turn
<1>5. QED BY <1>2, <1>4 DEF DoneEnded

\* While the store answers, a native-host or sidecar connection knows every
\* turn it began and that still is active, and will end it when it closes.
THEOREM OwnerKnowsTurnHolds ==
    ASSUME StoreMayFail = FALSE
    PROVE  Spec => []OwnerKnowsTurn
<1>1. Init => DoneEnded /\ OwnerKnowsTurn
  BY DEF Init, StoreInit, DoneEnded, OwnerKnowsTurn, IsActive, ActiveStatuses
<1>2. JobInv /\ NoticeInv /\ OneActiveTurnPerSession /\ (DoneEnded /\ OwnerKnowsTurn)
      /\ [Next]_vars => (DoneEnded /\ OwnerKnowsTurn)'
  BY OwnerKept
<1>3. QED BY <1>1, <1>2, JobsInductive, NoticesInductive, OneActiveTurnPerSessionHolds, PTL DEF Spec
-----------------------------------------------------------------------------
(***************************************************************************)
(* What a subscriber learns, with one daemon on the database: a second one *)
(* does not hear of the ends the first one broadcasts.  Between the end of *)
(* a turn and the moment a client is told, the end is in its queue, behind *)
(* the event that says the turn has started, but for an end that the store *)
(* has and could not read back.                                            *)
(***************************************************************************)
EndQueued(c, t, i) ==
    \E j \in 1..Len(queue[c]) : j > i /\ queue[c][j].turn = t /\ queue[c][j].kind \in Outcomes

EndComes(c, t, i) == t \in unheard \/ EndQueued(c, t, i)

LagEmpty(c) == c \in lagged => queue[c] = <<>>
StartLearnsEnd(c) ==
    \A i \in 1..Len(queue[c]) :
        queue[c][i].kind = "started" /\ ~IsActive(queue[c][i].turn) =>
            EndComes(c, queue[c][i].turn, i)
LearnsEnd(c) ==
    \A t \in Turns : view[c][t] = "active" /\ ~IsActive(t) =>
        c \in lagged \/ pc[c] = "closing" \/ EndComes(c, t, 0)
SeesSubscribed(c) == \A t \in Turns : view[c][t] # "unseen" => sessionOf[t] \in subs[c]
ClosedForgot(c) ==
    pc[c] = "closed" =>
        /\ queue[c] = <<>> /\ c \notin lagged
        /\ \A t \in Turns : view[c][t] = "unseen"

Informed(c) ==
    LagEmpty(c) /\ StartLearnsEnd(c) /\ LearnsEnd(c) /\ SeesSubscribed(c) /\ ClosedForgot(c)
SubscriberInv == \A c \in Conns : Informed(c)

\* What a step does to a connection's subscriptions and to what its client has
\* seen; a closing connection stays so until it is gone.
LEMMA ViewSteps ==
    ASSUME JobInv, [Next]_vars, NEW c \in Conns
    PROVE  \/ Forgotten(c) \/ Receive(c) \/ MarkRunning(c)
           \/ \E s \in Sessions : HandleSubscribe(c, s) \/ HandleUnsubscribe(c, s)
           \/ /\ view'[c] = view[c] /\ subs'[c] = subs[c]
              /\ pc[c] # "closed" => pc'[c] # "closed"
              /\ pc[c] = "closing" => pc'[c] = "closing"
<1> DEFINE Same ==
       /\ view'[c] = view[c] /\ subs'[c] = subs[c]
       /\ pc[c] # "closed" => pc'[c] # "closed"
       /\ pc[c] = "closing" => pc'[c] = "closing"
<1>0. /\ pc \in [Conns -> PCs] /\ subs \in [Conns -> SUBSET Sessions]
      /\ view \in [Conns -> [Turns -> {"unseen", "active", "ended"}]]
  BY DEF JobInv, TypeOK
<1>1. ASSUME UNCHANGED <<pc, view, subs>> PROVE Same
  BY <1>1
<1>2. ASSUME NEW b \in Conns, NEW where \in PCs \ {"closed"}, Goto(b, where), pc[b] # "closing",
             UNCHANGED <<view, subs>>
      PROVE  Same
  BY <1>0, <1>2 DEF Goto
<1>3. ASSUME NEW b \in Conns, Handler(b), ~MarkRunning(b) PROVE Same
  <2>1. pc[b] # "closing" /\ UNCHANGED <<view, subs>>
    BY <1>3 DEF Handler, LoadContext, FailStarting, CodexStarts, RetryWithoutStaleThread,
                LinkThread, AbandonOnStoreError, MarkRefused, FinishCancel, Starting
  <2>2. \E where \in PCs \ {"closed"} : Goto(b, where)
    BY <1>3 DEF Handler, LoadContext, FailStarting, CodexStarts, RetryWithoutStaleThread,
                LinkThread, AbandonOnStoreError, MarkRefused, FinishCancel, Return, PCs, Starting
  <2>3. QED BY <1>2, <2>1, <2>2
<1>4. ASSUME NEW b \in Conns, MarkRunning(b), b # c PROVE Same
  BY <1>0, <1>4 DEF MarkRunning, Return, Goto
<1>5. ASSUME NEW b \in Conns, Connect(b) PROVE Same
  BY <1>0, <1>5 DEF Connect, Goto
<1>6. ASSUME NEW b \in Conns, Leave(b) PROVE Same
  BY <1>0, <1>6 DEF Leave, Goto
<1>7. ASSUME NEW b \in Conns, Receive(b), b # c PROVE Same
  <2>1. UNCHANGED <<pc, subs>>
    BY <1>7 DEF Receive
  <2>2. view'[c] = view[c]
    BY <1>0, <1>7 DEF Receive
  <2>3. QED BY <2>1, <2>2
<1>8. ASSUME NEW b \in Conns, NEW s \in Sessions, HandleSubscribe(b, s) \/ HandleUnsubscribe(b, s),
             b # c
      PROVE  Same
  BY <1>0, <1>8 DEF HandleSubscribe, HandleUnsubscribe
<1>9. ASSUME NEW b \in Conns, NEW s \in Sessions, NEW k \in Keys, NEW h \in Hashes,
             NEW A \in SUBSET Attachments, NEW t \in Turns, HandleMessageSend(b, s, k, h, A, t)
      PROVE  Same
  <2>1. Goto(b, "loading") /\ pc[b] # "closing" /\ UNCHANGED <<view, subs>>
    BY <1>9 DEF HandleMessageSend, Serving
  <2>2. QED BY <1>2, <2>1 DEF PCs, Starting
<1>10. ASSUME NEW b \in Conns, NEW t \in Turns, HandleTurnCancel(b, t) PROVE Same
  <2>1. Goto(b, "cancelling") /\ pc[b] # "closing" /\ UNCHANGED <<view, subs>>
    BY <1>10 DEF HandleTurnCancel, Serving
  <2>2. QED BY <1>2, <2>1 DEF PCs
<1>11. ASSUME NEW b \in Conns, NEW t \in Turns, CleanUp(b, t) PROVE Same
  BY <1>1, <1>11 DEF CleanUp
<1>12. ASSUME NEW b \in Conns, Close(b) PROVE Same \/ Forgotten(c)
  <2>1. CASE b = c
    <3>1. Forget({c}) /\ pc'[c] = "closed"
      BY <1>0, <1>12, <2>1 DEF Close, Goto
    <3>2. QED BY <3>1 DEF Forget, Forgotten
  <2>2. CASE b # c
    BY <1>0, <1>12, <2>2 DEF Close, Forget, Goto
  <2>3. QED BY <2>1, <2>2
<1>13. ASSUME NEW d \in Daemons, Crash(d) PROVE Same \/ Forgotten(c)
  <2>1. CASE daemonOf[c] = d
    BY <1>13, <2>1 DEF Crash, Forget, Forgotten
  <2>2. CASE daemonOf[c] # d
    BY <1>13, <2>2 DEF Crash, Forget
  <2>3. QED BY <2>1, <2>2
<1>14. ASSUME \/ \E t \in Turns : Stream(t)
              \/ UNCHANGED vars \/ ManageSession \/ \E d \in Daemons : Start(d)
       PROVE  Same
  BY <1>1, <1>14 DEF Stream, StreamEnds, StreamDelta, StreamCompleted, StreamFailed,
                     StreamStoreError, StreamStep, vars, connVars, ManageSession, Start
<1>15. ASSUME NEW b \in Conns,
              Request(b) \/ Handler(b) \/ Receive(b) \/ Connect(b) \/ Leave(b) \/ Closing(b)
       PROVE  \/ Same \/ Forgotten(c) \/ Receive(c) \/ MarkRunning(c)
              \/ \E s \in Sessions : HandleSubscribe(c, s) \/ HandleUnsubscribe(c, s)
  <2>1. CASE b = c
    BY <1>3, <1>5, <1>6, <1>9, <1>10, <1>11, <1>12, <1>15, <2>1 DEF Request, Closing
  <2>2. CASE b # c
    BY <1>3, <1>4, <1>5, <1>6, <1>7, <1>8, <1>9, <1>10, <1>11, <1>12, <1>15, <2>2
       DEF Request, Closing
  <2>3. QED BY <2>1, <2>2
<1>16. QED BY <1>13, <1>14, <1>15 DEF Next

\* What a broadcast says is so: an end is that of a turn that was active, and
\* a turn that is said to have started is active.
LEMMA SayActive ==
    ASSUME JobInv, NEW kind \in EventKinds, NEW u \in Turns, SayStep(kind, u)
    PROVE  /\ \A t \in Turns : ~IsActive(t)' => ~IsActive(t) \/ (t = u /\ kind \in Outcomes)
           /\ kind = "started" => IsActive(u)'
<1>0. StoreTypeOK /\ "started" \notin Outcomes
  BY DEF JobInv, TypeOK, Outcomes
<1>1. ASSUME NEW c \in Conns, MarkRunning(c), u = Turn(c)
      PROVE  IsActive(u)' /\ \A t \in Turns : IsActive(t) => IsActive(t)'
  BY <1>0, <1>1, MarkTurnRunningEffect DEF MarkRunning
<1>2. UNCHANGED status => \A t \in Turns : IsActive(t)' <=> IsActive(t)
  BY DEF IsActive
<1>3. CASE kind = "started" /\ \E c \in Conns : MarkRunning(c) /\ u = Turn(c)
  BY <1>1, <1>3
<1>4. CASE kind = "delta" /\ UNCHANGED status
  BY <1>2, <1>4
<1>5. CASE kind \in Outcomes /\ FinishTurn(u, kind)
  BY <1>0, <1>5, FinishTurnEffect
<1>6. QED BY <1>3, <1>4, <1>5 DEF SayStep

\* A broadcast reaches every open connection of the daemon, or cuts it off.
LEMMA BroadcastInforms ==
    ASSUME JobInv, NEW c \in Conns, Informed(c), pc[c] # "closed",
           NEW kind \in EventKinds, NEW u \in Turns, SayStep(kind, u),
           Broadcast(daemonOf[c], kind, u), unheard \subseteq unheard',
           \A t \in Turns : view'[c][t] = "active" => view[c][t] = "active" \/ IsActive(t)',
           pc[c] = "closing" => pc'[c] = "closing"
    PROVE  LagEmpty(c)' /\ StartLearnsEnd(c)' /\ LearnsEnd(c)'
<1>0. /\ queue[c] \in Seq(Events) /\ Len(queue[c]) \in Nat
      /\ LagEmpty(c) /\ StartLearnsEnd(c) /\ LearnsEnd(c)
  BY LenProperties DEF JobInv, TypeOK, Informed
<1>1. CASE Overflows(c, daemonOf[c])
  <2>1. c \in lagged' /\ queue'[c] = <<>>
    BY <1>1 DEF Broadcast
  <2>2. QED BY <2>1 DEF LagEmpty, StartLearnsEnd, LearnsEnd
<1>2. CASE ~Overflows(c, daemonOf[c])
  <2> DEFINE n == Len(queue[c])
             event == [kind |-> kind, turn |-> u]
  <2>1. /\ c \notin lagged /\ c \notin lagged'
        /\ queue'[c] = Append(queue[c], event)
    BY <1>2 DEF Broadcast, Overflows, Receives
  <2>2. event \in Events
    BY DEF Events
  <2>3. /\ Len(queue'[c]) = n + 1 /\ queue'[c][n + 1] = event
        /\ \A i \in 1..n : queue'[c][i] = queue[c][i]
    BY <1>0, <2>1, <2>2, AppendProperties
  <2>4. ASSUME NEW t \in Turns, NEW i \in Nat, i <= n, ~IsActive(t)',
               ~IsActive(t) => EndComes(c, t, i)
        PROVE  EndComes(c, t, i)'
    <3>0. CASE t \in unheard
      BY <3>0 DEF EndComes
    <3>1. CASE ~IsActive(t) /\ t \notin unheard
      <4>1. PICK j \in 1..n : j > i /\ queue[c][j].turn = t /\ queue[c][j].kind \in Outcomes
        BY <2>4, <3>1 DEF EndComes, EndQueued
      <4>2. j \in 1..Len(queue'[c]) /\ queue'[c][j] = queue[c][j]
        BY <1>0, <2>3
      <4>3. QED BY <4>1, <4>2 DEF EndComes, EndQueued
    <3>2. CASE IsActive(t)
      <4>1. t = u /\ kind \in Outcomes
        BY <2>4, <3>2, SayActive
      <4>2. n + 1 \in 1..Len(queue'[c]) /\ n + 1 > i
        BY <1>0, <2>3, <2>4
      <4>3. QED BY <2>3, <4>1, <4>2 DEF EndComes, EndQueued
    <3>3. QED BY <3>0, <3>1, <3>2
  <2>5. StartLearnsEnd(c)'
    <3>1. ASSUME NEW i \in 1..Len(queue'[c]), queue'[c][i].kind = "started",
                 NEW t \in Turns, t = queue'[c][i].turn, ~IsActive(t)'
          PROVE  EndComes(c, t, i)'
      <4>1. CASE i \in 1..n
        <5>1. queue'[c][i] = queue[c][i] /\ i \in Nat /\ i <= n
          BY <2>3, <4>1
        <5>2. ~IsActive(t) => EndComes(c, t, i)
          BY <1>0, <3>1, <4>1, <5>1 DEF StartLearnsEnd
        <5>3. QED BY <2>4, <3>1, <5>1, <5>2
      <4>2. ASSUME i = n + 1 PROVE FALSE
        <5>1. t = u /\ kind = "started"
          BY <2>3, <3>1, <4>2
        <5>2. QED BY <3>1, <5>1, SayActive
      <4>3. QED BY <1>0, <2>3, <4>1, <4>2
    <3>2. \A i \in 1..Len(queue'[c]) : queue'[c][i].turn \in Turns
      <4>1. queue'[c] \in Seq(Events)
        BY <1>0, <2>1, <2>2, AppendProperties
      <4>2. \A i \in 1..Len(queue'[c]) : queue'[c][i] \in Events
        BY <4>1, ElementOfSeq
      <4>3. QED BY <4>2 DEF Events
    <3>3. QED BY <3>1, <3>2 DEF StartLearnsEnd
  <2>6. LearnsEnd(c)'
    <3>1. ASSUME NEW t \in Turns, view'[c][t] = "active", ~IsActive(t)'
          PROVE  pc'[c] = "closing" \/ EndComes(c, t, 0)'
      <4>1. view[c][t] = "active"
        BY <3>1
      <4>2. ~IsActive(t) => pc[c] = "closing" \/ EndComes(c, t, 0)
        BY <1>0, <2>1, <4>1 DEF LearnsEnd
      <4>3. QED BY <1>0, <2>4, <3>1, <4>2
    <3>2. QED BY <3>1 DEF LearnsEnd
  <2>7. QED BY <2>1, <2>5, <2>6 DEF LagEmpty
<1>3. QED BY <1>1, <1>2

\* The client is told what it receives: the end, when the queue has it first.
LEMMA ReceiveInforms ==
    ASSUME JobInv, NEW c \in Conns, Informed(c), Receive(c)
    PROVE  Informed(c)'
<1>0. /\ queue \in [Conns -> Seq(Events)] /\ queue[c] \in Seq(Events)
      /\ view \in [Conns -> [Turns -> {"unseen", "active", "ended"}]]
      /\ LagEmpty(c) /\ StartLearnsEnd(c) /\ LearnsEnd(c) /\ SeesSubscribed(c)
  BY DEF JobInv, TypeOK, Informed
<1>1. /\ queue[c] # <<>> /\ queue'[c] = Tail(queue[c]) /\ pc[c] = "idle" /\ c \notin lagged
      /\ UNCHANGED <<pc, lagged, subs, status, sessionOf, unheard>>
  BY <1>0 DEF Receive, Serving, storeVars, turnVars
<1> DEFINE n == Len(queue[c])
           event == queue[c][1]
<1>2. /\ n \in Nat /\ n > 0 /\ Len(queue'[c]) = n - 1
      /\ \A i \in 1..(n - 1) : queue'[c][i] = queue[c][i + 1]
      /\ Head(queue[c]) = event /\ event \in Events
  BY <1>0, <1>1, HeadTailProperties, LenProperties
<1>3. view' = IF sessionOf[event.turn] \notin subs[c] \/ event.kind = "delta" THEN view
              ELSE [view EXCEPT ![c][event.turn] =
                      IF event.kind \in Outcomes THEN "ended" ELSE "active"]
  BY <1>2 DEF Receive
<1>4. ASSUME NEW t \in Turns
      PROVE  \/ view'[c][t] = view[c][t]
             \/ /\ t = event.turn /\ sessionOf[t] \in subs[c] /\ event.kind # "delta"
                /\ view'[c][t] = IF event.kind \in Outcomes THEN "ended" ELSE "active"
  BY <1>0, <1>2, <1>3 DEF Events
<1>5. \A t \in Turns : IsActive(t)' <=> IsActive(t)
  BY <1>1 DEF IsActive
<1>6. ASSUME NEW t \in Turns, NEW i \in Nat, EndComes(c, t, i + 1) PROVE EndComes(c, t, i)'
  <2> SUFFICES ASSUME t \notin unheard PROVE EndComes(c, t, i)'
    BY <1>1 DEF EndComes
  <2>1. PICK j \in 1..n : j > i + 1 /\ queue[c][j].turn = t /\ queue[c][j].kind \in Outcomes
    BY <1>6 DEF EndComes, EndQueued
  <2>2. j - 1 \in 1..(n - 1) /\ j - 1 > i /\ (j - 1) + 1 = j
    BY <1>2, <2>1
  <2>3. QED BY <1>2, <2>1, <2>2 DEF EndComes, EndQueued
<1>7. StartLearnsEnd(c)'
  <2>1. ASSUME NEW i \in 1..Len(queue'[c]), queue'[c][i].kind = "started",
               NEW t \in Turns, t = queue'[c][i].turn, ~IsActive(t)'
        PROVE  EndComes(c, t, i)'
    <3>1. i \in Nat /\ i + 1 \in 1..n /\ queue'[c][i] = queue[c][i + 1]
      BY <1>2
    <3>2. EndComes(c, t, i + 1)
      BY <1>0, <1>5, <2>1, <3>1 DEF StartLearnsEnd
    <3>3. QED BY <1>6, <3>1, <3>2
  <2>2. \A i \in 1..Len(queue'[c]) : queue'[c][i].turn \in Turns
    <3>1. queue'[c] \in Seq(Events)
      BY <1>0, <1>1, HeadTailProperties
    <3>2. \A i \in 1..Len(queue'[c]) : queue'[c][i] \in Events
      BY <3>1, ElementOfSeq
    <3>3. QED BY <3>2 DEF Events
  <2>3. QED BY <2>1, <2>2 DEF StartLearnsEnd
<1>8. LearnsEnd(c)'
  <2>1. ASSUME NEW t \in Turns, view'[c][t] = "active", ~IsActive(t)' PROVE EndComes(c, t, 0)'
    <3>0. CASE t \in unheard
      BY <1>1, <3>0 DEF EndComes
    <3>1. CASE view[c][t] = "active" /\ t \notin unheard
      <4>1. EndQueued(c, t, 0)
        BY <1>0, <1>1, <1>5, <2>1, <3>1 DEF LearnsEnd, EndComes
      <4>2. PICK j \in 1..n : queue[c][j].turn = t /\ queue[c][j].kind \in Outcomes
        BY <4>1 DEF EndQueued
      <4>3. j # 1
        <5>1. ASSUME j = 1 PROVE FALSE
          <6>1. event.turn = t /\ event.kind \in Outcomes /\ event.kind # "delta"
            BY <4>2, <5>1 DEF Outcomes
          <6>2. sessionOf[t] \in subs[c]
            BY <1>0, <3>1 DEF SeesSubscribed
          <6>3. view' = [view EXCEPT ![c][t] = "ended"]
            BY <1>3, <6>1, <6>2
          <6>4. view'[c][t] = "ended"
            BY <1>0, <6>3
          <6>5. QED BY <2>1, <6>4
        <5>2. QED BY <5>1
      <4>4. j > 0 + 1
        BY <1>2, <4>3
      <4>5. EndComes(c, t, 0 + 1)
        BY <4>2, <4>4 DEF EndComes, EndQueued
      <4>6. QED BY <1>6, <4>5
    <3>2. CASE view[c][t] # "active"
      <4>1. t = event.turn /\ event.kind = "started"
        BY <1>2, <1>4, <2>1, <3>2 DEF Events, EventKinds
      <4>2. 1 \in 1..n
        BY <1>2
      <4>3. EndComes(c, t, 1)
        BY <1>0, <1>5, <2>1, <4>1, <4>2 DEF StartLearnsEnd
      <4>4. 1 = 0 + 1
        OBVIOUS
      <4>5. QED BY <1>6, <4>3, <4>4
    <3>3. QED BY <3>0, <3>1, <3>2
  <2>2. QED BY <2>1 DEF LearnsEnd
<1>9. SeesSubscribed(c)'
  BY <1>0, <1>1, <1>4 DEF SeesSubscribed
<1>10. LagEmpty(c)' /\ ClosedForgot(c)'
  BY <1>1 DEF LagEmpty, ClosedForgot
<1>11. QED BY <1>7, <1>8, <1>9, <1>10 DEF Informed

LEMMA UnheardStays == ASSUME [Next]_vars PROVE unheard \subseteq unheard'
<1>1. ASSUME NEW t, NEW outcome, EndUnheard(t, outcome) PROVE unheard \subseteq unheard'
  BY <1>1 DEF EndUnheard
<1>2. ASSUME NEW c \in Conns, Handler(c) PROVE unheard \subseteq unheard'
  BY <1>1, <1>2 DEF Handler, LoadContext, FailStarting, CodexStarts, RetryWithoutStaleThread,
              LinkThread, MarkRunning, AbandonOnStoreError, MarkRefused, FinishCancel
<1>3. ASSUME NEW c \in Conns, Request(c) \/ Receive(c) \/ Connect(c) \/ Leave(c) \/ Closing(c)
      PROVE  unheard \subseteq unheard'
  BY <1>1, <1>3 DEF Request, HandleMessageSend, HandleTurnCancel, HandleSubscribe, HandleUnsubscribe,
              Receive, Connect, Leave, Closing, Close, CleanUp
<1>4. ASSUME NEW t \in Turns, Stream(t) PROVE unheard \subseteq unheard'
  BY <1>1, <1>4 DEF Stream, StreamEnds, StreamDelta, StreamCompleted, StreamFailed, StreamStoreError
<1>5. CASE UNCHANGED vars \/ ManageSession \/ \E d \in Daemons : Start(d) \/ Crash(d)
  BY <1>5 DEF vars, ManageSession, Start, Crash
<1>6. QED BY <1>2, <1>3, <1>4, <1>5 DEF Next

\* A turn that no step says has ended goes on, unless the one daemon starts
\* and recovers, which it does with no connection open, or the store could not
\* read its end back.
LEMMA QuietEnds ==
    ASSUME JobInv, \A d, e \in Daemons : d = e, QuietStep,
           NEW c \in Conns, pc[c] # "closed", NEW t \in Turns, ~IsActive(t)', t \notin unheard'
    PROVE  ~IsActive(t)
<1>0. StoreTypeOK /\ DownIsClosed
  BY DEF JobInv, TypeOK
<1>1. CASE BeginStep
  <2>1. PICK b \in Conns, s \in Sessions, k \in Keys, h \in Hashes,
             A \in SUBSET Attachments, u \in Turns : HandleMessageSend(b, s, k, h, A, u)
    BY <1>1 DEF BeginStep
  <2>2. QED BY <1>0, <2>1, BeginTurnEffect DEF HandleMessageSend
<1>2. ASSUME RecoverStep PROVE FALSE
  <2>1. PICK d \in Daemons : Start(d)
    BY <1>2 DEF RecoverStep
  <2>2. daemonOf[c] = d /\ d \notin up
    BY <2>1 DEF Start
  <2>3. QED BY <1>0, <2>2 DEF DownIsClosed
<1>3. CASE UNCHANGED status
  BY <1>3 DEF IsActive
<1>4. CASE MarkStep
  <2>1. PICK b \in Conns : Marks(b)
    BY <1>4 DEF MarkStep
  <2>2. QED BY <1>0, <2>1, MarksTurn, MarkTurnRunningEffect
<1>5. CASE UnheardStep
  <2>1. PICK u \in unheard', outcome \in Outcomes : FinishTurn(u, outcome)
    BY <1>5 DEF UnheardStep
  <2>2. status' = [status EXCEPT ![u] = outcome] /\ u # t
    BY <2>1 DEF FinishTurn
  <2>3. status'[t] = status[t]
    BY <1>0, <2>2 DEF StoreTypeOK
  <2>4. QED BY <2>3 DEF IsActive
<1>6. QED BY <1>1, <1>2, <1>3, <1>4, <1>5 DEF QuietStep

\* A connection that is closed hears nothing.
LEMMA ClosedKept ==
    ASSUME JobInv, [Next]_vars, NEW c \in Conns, Informed(c), ~Receive(c), ~Forgotten(c),
           pc[c] = "closed"
    PROVE  queue'[c] = <<>> /\ c \notin lagged'
<1>1. queue[c] = <<>> /\ c \notin lagged
  BY DEF Informed, ClosedForgot
<1>2. ASSUME NEW d \in Daemons, NEW kind \in EventKinds, NEW u \in Turns, Broadcast(d, kind, u)
      PROVE  queue'[c] = <<>> /\ c \notin lagged'
  BY <1>1, <1>2 DEF Broadcast, Overflows, Receives
<1>3. QuietStep => queue'[c] = <<>> /\ c \notin lagged'
  BY <1>1 DEF QuietStep
<1>4. QED BY <1>2, <1>3, NoticeSteps

\* The step of another connection, of a stream or of the daemon.
LEMMA OtherInforms ==
    ASSUME JobInv, [Next]_vars, \A d, e \in Daemons : d = e,
           NEW c \in Conns, Informed(c), ~Receive(c), ~Forgotten(c),
           view'[c] = view[c], subs'[c] = subs[c],
           pc[c] # "closed" => pc'[c] # "closed",
           pc[c] = "closing" => pc'[c] = "closing"
    PROVE  Informed(c)'
<1>0. /\ LagEmpty(c) /\ StartLearnsEnd(c) /\ LearnsEnd(c) /\ SeesSubscribed(c)
      /\ ClosedForgot(c) /\ queue[c] \in Seq(Events) /\ subs[c] \in SUBSET Sessions
  BY DEF Informed, JobInv, TypeOK
<1>1. \A i \in 1..Len(queue[c]) : queue[c][i].turn \in Turns
  <2>1. \A i \in 1..Len(queue[c]) : queue[c][i] \in Events
    BY <1>0, ElementOfSeq
  <2>2. QED BY <2>1 DEF Events
<1>2. SeesSubscribed(c)'
  <2>1. ASSUME NEW t \in Turns, view'[c][t] # "unseen" PROVE sessionOf'[t] \in subs'[c]
    <3>1. sessionOf[t] \in subs[c]
      BY <1>0, <2>1 DEF SeesSubscribed
    <3>2. status[t] # "absent"
      BY <1>0, <3>1 DEF JobInv, TurnsKnown
    <3>3. QED BY <3>1, <3>2, TurnsStay
  <2>2. QED BY <2>1 DEF SeesSubscribed
<1>3. CASE pc[c] = "closed"
  <2>1. queue'[c] = <<>> /\ c \notin lagged' /\ \A t \in Turns : view'[c][t] = "unseen"
    BY <1>0, <1>3, ClosedKept DEF ClosedForgot
  <2>2. QED BY <1>2, <2>1 DEF Informed, LagEmpty, StartLearnsEnd, LearnsEnd, ClosedForgot
<1>4. CASE pc[c] # "closed" /\ QuietStep
  <2>1. queue'[c] = queue[c] /\ (c \in lagged' <=> c \in lagged)
    BY <1>4 DEF QuietStep
  <2>2. \A t \in Turns : ~IsActive(t)' => ~IsActive(t) \/ t \in unheard'
    BY <1>4, QuietEnds
  <2>3. ASSUME NEW t \in Turns, NEW i, EndComes(c, t, i) \/ t \in unheard' PROVE EndComes(c, t, i)'
    BY <2>1, <2>3, UnheardStays DEF EndComes, EndQueued
  <2>4. StartLearnsEnd(c)'
    <3>1. ASSUME NEW i \in 1..Len(queue'[c]), queue'[c][i].kind = "started",
                 NEW t \in Turns, t = queue'[c][i].turn, ~IsActive(t)'
          PROVE  EndComes(c, t, i)'
      BY <1>0, <2>1, <2>2, <2>3, <3>1 DEF StartLearnsEnd
    <3>2. QED BY <1>1, <2>1, <3>1 DEF StartLearnsEnd
  <2>5. LearnsEnd(c)'
    <3>1. ASSUME NEW t \in Turns, view'[c][t] = "active", ~IsActive(t)'
          PROVE  c \in lagged' \/ pc'[c] = "closing" \/ EndComes(c, t, 0)'
      BY <1>0, <2>1, <2>2, <2>3, <3>1 DEF LearnsEnd
    <3>2. QED BY <3>1 DEF LearnsEnd
  <2>6. LagEmpty(c)' /\ ClosedForgot(c)'
    BY <1>0, <1>4, <2>1 DEF LagEmpty, ClosedForgot
  <2>7. QED BY <1>2, <2>4, <2>5, <2>6 DEF Informed
<1>5. ASSUME pc[c] # "closed", NEW d \in Daemons, NEW kind \in EventKinds, NEW u \in Turns,
             Broadcast(d, kind, u), SayStep(kind, u)
      PROVE  Informed(c)'
  <2>1. daemonOf[c] = d
    OBVIOUS
  <2>2. LagEmpty(c)' /\ StartLearnsEnd(c)' /\ LearnsEnd(c)'
    BY <1>5, <2>1, BroadcastInforms, UnheardStays
  <2>3. ClosedForgot(c)'
    BY <1>5 DEF ClosedForgot
  <2>4. QED BY <1>2, <2>2, <2>3 DEF Informed
<1>6. QED BY <1>3, <1>4, <1>5, NoticeSteps

LEMMA InformedKept ==
    ASSUME JobInv, [Next]_vars, \A d, e \in Daemons : d = e, NEW c \in Conns, Informed(c)
    PROVE  Informed(c)'
<1>0. /\ StoreTypeOK /\ pc \in [Conns -> PCs] /\ subs \in [Conns -> SUBSET Sessions]
      /\ view \in [Conns -> [Turns -> {"unseen", "active", "ended"}]]
      /\ LagEmpty(c) /\ StartLearnsEnd(c) /\ LearnsEnd(c) /\ SeesSubscribed(c) /\ ClosedForgot(c)
  BY DEF JobInv, TypeOK, Informed
<1>1. CASE Forgotten(c)
  BY <1>1 DEF Forgotten, Informed, LagEmpty, StartLearnsEnd, LearnsEnd, SeesSubscribed,
              ClosedForgot
<1>2. CASE Receive(c)
  BY <1>2, ReceiveInforms
<1>3. CASE MarkRunning(c)
  <2> DEFINE t == Turn(c)
  <2>1. t \in Turns /\ status[t] # "absent" /\ pc[c] = "marking" /\ "started" \in EventKinds
    BY <1>3, BusyTurn DEF MarkRunning, Busy, Starting, EventKinds
  <2>2. Broadcast(daemonOf[c], "started", t) /\ SayStep("started", t)
    BY <1>3 DEF MarkRunning, SayStep
  <2>3. /\ pc'[c] = "idle" /\ UNCHANGED <<subs, sessionOf>>
        /\ view' = IF sessionOf[t] \in subs[c] THEN [view EXCEPT ![c][t] = "active"] ELSE view
    BY <1>0, <1>3 DEF MarkRunning, MarkTurnRunning, Return, Goto
  <2>4. \A u \in Turns : \/ view'[c][u] = view[c][u]
                         \/ u = t /\ view'[c][u] = "active" /\ sessionOf[t] \in subs[c]
    BY <1>0, <2>1, <2>3
  <2>5. \A u \in Turns : view'[c][u] = "active" => view[c][u] = "active" \/ IsActive(u)'
    BY <2>1, <2>2, <2>4, SayActive
  <2>6. LagEmpty(c)' /\ StartLearnsEnd(c)' /\ LearnsEnd(c)'
    BY <2>1, <2>2, <2>3, <2>5, BroadcastInforms, UnheardStays
  <2>7. SeesSubscribed(c)' /\ ClosedForgot(c)'
    BY <1>0, <2>3, <2>4 DEF SeesSubscribed, ClosedForgot
  <2>8. QED BY <2>6, <2>7 DEF Informed
<1>4. ASSUME NEW s \in Sessions, HandleSubscribe(c, s) \/ HandleUnsubscribe(c, s)
      PROVE  Informed(c)'
  <2>1. /\ pc[c] = "idle" /\ UNCHANGED <<pc, queue, lagged, status, sessionOf, unheard>>
    BY <1>4 DEF HandleSubscribe, HandleUnsubscribe, Serving, storeVars, turnVars
  <2>2. \A t \in Turns : IsActive(t)' <=> IsActive(t)
    BY <2>1 DEF IsActive
  <2>3. ASSUME NEW t \in Turns
        PROVE  \/ view'[c][t] = "unseen"
               \/ view'[c][t] = view[c][t] /\ sessionOf[t] # s /\ subs[c] \ {s} \subseteq subs'[c]
               \/ sessionOf[t] \in subs'[c] /\ (view'[c][t] = "active" => IsActive(t))
    <3>1. CASE HandleSubscribe(c, s)
      <4>1. view'[c][t] = IF sessionOf[t] # s THEN view[c][t]
                          ELSE IF IsActive(t) THEN "active" ELSE "ended"
        BY <1>0, <3>1 DEF HandleSubscribe
      <4>2. subs'[c] = subs[c] \cup {s}
        BY <1>0, <3>1 DEF HandleSubscribe
      <4>3. QED BY <4>1, <4>2
    <3>2. CASE HandleUnsubscribe(c, s)
      <4>1. view'[c][t] = IF sessionOf[t] = s THEN "unseen" ELSE view[c][t]
        BY <1>0, <3>2 DEF HandleUnsubscribe
      <4>2. subs'[c] = subs[c] \ {s}
        BY <1>0, <3>2 DEF HandleUnsubscribe
      <4>3. QED BY <4>1, <4>2
    <3>3. QED BY <1>4, <3>1, <3>2
  <2>4. StartLearnsEnd(c)'
    BY <1>0, <2>1 DEF StartLearnsEnd, EndComes, EndQueued, IsActive
  <2>5. SeesSubscribed(c)'
    BY <1>0, <2>1, <2>3 DEF SeesSubscribed
  <2>6. LearnsEnd(c)'
    <3>1. ASSUME NEW t \in Turns, view'[c][t] = "active", ~IsActive(t)'
          PROVE  c \in lagged' \/ pc'[c] = "closing" \/ EndComes(c, t, 0)'
      <4>1. view[c][t] = "active" /\ ~IsActive(t)
        BY <2>2, <2>3, <3>1
      <4>2. EndComes(c, t, 0)' <=> EndComes(c, t, 0)
        BY <2>1 DEF EndComes, EndQueued
      <4>3. QED BY <1>0, <2>1, <4>1, <4>2 DEF LearnsEnd
    <3>2. QED BY <3>1 DEF LearnsEnd
  <2>7. LagEmpty(c)' /\ ClosedForgot(c)'
    BY <1>0, <2>1 DEF LagEmpty, ClosedForgot
  <2>8. QED BY <2>4, <2>5, <2>6, <2>7 DEF Informed
<1>5. QED BY <1>1, <1>2, <1>3, <1>4, OtherInforms, ViewSteps

\* With one daemon, a subscriber that was told a turn is active will be told
\* that it ended, or is cut off because its receiver lagged, unless the store
\* has committed the end and could not read it back, which nobody is told of.
THEOREM SubscriberLearnsEndHolds ==
    ASSUME \A d, e \in Daemons : d = e
    PROVE  Spec => []SubscriberLearnsEnd
<1>1. Init => SubscriberInv
  BY DEF Init, SubscriberInv, Informed, LagEmpty, StartLearnsEnd, LearnsEnd, SeesSubscribed,
         ClosedForgot
<1>2. JobInv /\ SubscriberInv /\ [Next]_vars => SubscriberInv'
  <2> SUFFICES ASSUME JobInv, SubscriberInv, [Next]_vars, NEW c \in Conns PROVE Informed(c)'
    BY DEF SubscriberInv
  <2>1. Informed(c)
    BY DEF SubscriberInv
  <2>2. QED BY <2>1, InformedKept
<1>3. SubscriberInv => SubscriberLearnsEnd
  BY DEF SubscriberInv, Informed, LearnsEnd, EndComes, EndQueued, SubscriberLearnsEnd
<1>4. QED BY <1>1, <1>2, <1>3, JobsInductive, PTL DEF Spec

-----------------------------------------------------------------------------
\* The daemon uses the store as SessionClients says, so that what is proved
\* of SessionClients holds of the daemon.

\* The theorems of SessionClients, for the daemon's calls.
Proved == INSTANCE SessionClientsProofs WITH
    SharedStore <- (\E d, e \in Daemons : d # e),
    starting <- {Turn(c) : c \in {c \in Conns : pc[c] \in Starting}}

-----------------------------------------------------------------------------
\* SessionClients and its theorems speak of the same store as the daemon.

LEMMA SameInit == Clients!Init <=> Proved!Init
  BY DEF Clients!Init, Proved!Init, Clients!StoreInit, Proved!StoreInit,
         Clients!Requests, Proved!Requests, Clients!NoRow, Proved!NoRow,
         Clients!NoAttachment, Proved!NoAttachment

LEMMA SameNext == Clients!Next <=> Proved!Next
  BY DEF Clients!Next, Clients!ManageSession, Clients!Recover, Clients!AbandonStarts,
         Clients!TurnStep, Clients!StartTurn, Clients!FinishStart, Clients!FailStart,
         Clients!EndStream, Clients!EndByCancel, Clients!CreateSession,
         Clients!CreateAttachment, Clients!LinkCodexThread, Clients!ClearCodexThreadLink,
         Clients!RecoverInterruptedActiveTurns, Clients!BeginTurn, Clients!BeginTurnAnswer,
         Clients!RetryAnswer, Clients!LedgerAnswer, Clients!MarkTurnRunning,
         Clients!OtherActiveTurn, Clients!CompleteTurn, Clients!FailTurn, Clients!CancelTurn,
         Clients!FinishTurn, Clients!Linkable, Clients!IsActive, Clients!ActiveStatuses,
         Clients!Requests, Clients!storeVars, Clients!turnVars, Clients!NoAttachment,
         Proved!Next, Proved!ManageSession, Proved!Recover, Proved!AbandonStarts,
         Proved!TurnStep, Proved!StartTurn, Proved!FinishStart, Proved!FailStart,
         Proved!EndStream, Proved!EndByCancel, Proved!CreateSession,
         Proved!CreateAttachment, Proved!LinkCodexThread, Proved!ClearCodexThreadLink,
         Proved!RecoverInterruptedActiveTurns, Proved!BeginTurn, Proved!BeginTurnAnswer,
         Proved!RetryAnswer, Proved!LedgerAnswer, Proved!MarkTurnRunning,
         Proved!OtherActiveTurn, Proved!CompleteTurn, Proved!FailTurn, Proved!CancelTurn,
         Proved!FinishTurn, Proved!Linkable, Proved!IsActive, Proved!ActiveStatuses,
         Proved!Requests, Proved!storeVars, Proved!turnVars, Proved!NoAttachment

LEMMA SameBegin ==
    ASSUME NEW s, NEW k, NEW h, NEW A, NEW t
    PROVE  BeginTurn(s, k, h, A, t) <=> Proved!BeginTurn(s, k, h, A, t)
  BY DEF BeginTurn, BeginTurnAnswer, RetryAnswer, LedgerAnswer, Linkable, IsActive, ActiveStatuses,
         Proved!BeginTurn, Proved!BeginTurnAnswer, Proved!RetryAnswer, Proved!LedgerAnswer,
         Proved!Linkable, Proved!IsActive, Proved!ActiveStatuses

LEMMA SameMark ==
    ASSUME NEW t PROVE MarkTurnRunning(t, TRUE) <=> Proved!MarkTurnRunning(t, TRUE)
  BY DEF MarkTurnRunning, OtherActiveTurn, IsActive, ActiveStatuses,
         Proved!MarkTurnRunning, Proved!OtherActiveTurn, Proved!IsActive, Proved!ActiveStatuses

LEMMA SameFinish ==
    ASSUME NEW t, NEW outcome PROVE FinishTurn(t, outcome) <=> Proved!FinishTurn(t, outcome)
  BY DEF FinishTurn, IsActive, ActiveStatuses, Requests,
         Proved!FinishTurn, Proved!IsActive, Proved!ActiveStatuses, Proved!Requests

LEMMA SameRecover == RecoverInterruptedActiveTurns <=> Proved!RecoverInterruptedActiveTurns
  BY DEF RecoverInterruptedActiveTurns, IsActive, ActiveStatuses, Requests,
         Proved!RecoverInterruptedActiveTurns, Proved!IsActive, Proved!ActiveStatuses,
         Proved!Requests

-----------------------------------------------------------------------------
\* The turns that are being started, as SessionClients counts them.
StartingTurns == {Turn(c) : c \in {c \in Conns : pc[c] \in Starting}}

OtherLoops(c) == \A d \in Conns : d # c => pc'[d] = pc[d] /\ job'[d] = job[d]

LEMMA StartingSame ==
    ASSUME \A c \in Conns : Busy(c)' <=> Busy(c),
           \A c \in Conns : Busy(c) => Turn(c)' = Turn(c)
    PROVE  StartingTurns' = StartingTurns
  BY DEF StartingTurns, Busy

LEMMA StartingBegun ==
    ASSUME NEW c \in Conns, OtherLoops(c), ~Busy(c), Busy(c)'
    PROVE  StartingTurns' = StartingTurns \cup {Turn(c)'}
  BY DEF StartingTurns, Busy, OtherLoops, Turn

\* No two handlers start one turn: when one returns, its turn is started no more.
LEMMA StartingLeft ==
    ASSUME JobInv, NEW c \in Conns, OtherLoops(c), Busy(c), ~Busy(c)'
    PROVE  Turn(c) \in StartingTurns /\ StartingTurns' = StartingTurns \ {Turn(c)}
<1>1. \A d \in Conns : Busy(d) /\ Turn(d) = Turn(c) => d = c
  BY BusyTurn
<1>2. \A d \in Conns : d # c => (Busy(d)' <=> Busy(d)) /\ Turn(d)' = Turn(d)
  BY DEF OtherLoops, Busy, Turn
<1>3. QED BY <1>1, <1>2 DEF StartingTurns, Busy

\* A turn that has been streamed is started no more.
LEMMA StreamedNotStarting ==
    ASSUME JobInv, NEW t \in Turns, stream[t] # "none"
    PROVE  t \notin StartingTurns
  BY BusyTurn DEF StartingTurns, Busy

-----------------------------------------------------------------------------
\* Every step of the daemon is one of SessionClients, or none.

LEMMA HandlerClients ==
    ASSUME JobInv, NEW c \in Conns, Handler(c)
    PROVE  Proved!Next \/ UNCHANGED Proved!vars
<1>0. /\ StoreTypeOK /\ pc \in [Conns -> PCs]
      /\ job \in [Conns -> [turn : Turns \cup {None}, thread : Threads \cup {None}]]
  BY DEF JobInv, TypeOK
<1>1. ASSUME UNCHANGED storeVars, StartingTurns' = StartingTurns PROVE UNCHANGED Proved!vars
  BY <1>1 DEF Proved!vars, Proved!storeVars, Proved!turnVars, storeVars, turnVars, StartingTurns
<1>2. ASSUME UNCHANGED storeVars, StartingTurns' \subseteq StartingTurns PROVE Proved!Next
  BY <1>2 DEF Proved!Next, Proved!AbandonStarts, Proved!storeVars, Proved!turnVars,
              storeVars, turnVars, StartingTurns
<1>3. ASSUME NEW where \in Starting, Goto(c, where), Busy(c), Turn(c)' = Turn(c),
             \A d \in Conns : d # c => job'[d] = job[d]
      PROVE  StartingTurns' = StartingTurns
  <2>1. \A d \in Conns : Busy(d)' <=> Busy(d)
    BY <1>0, <1>3 DEF Goto, Busy
  <2>2. \A d \in Conns : Busy(d) => Turn(d)' = Turn(d)
    BY <1>3 DEF Turn
  <2>3. QED BY <2>1, <2>2, StartingSame
<1>4. ASSUME Return(c) PROVE OtherLoops(c) /\ ~Busy(c)'
  BY <1>0, <1>4 DEF Return, Goto, OtherLoops, Busy, Starting
<1>5. CASE LoadContext(c)
  <2>1. Goto(c, "starting") /\ Busy(c) /\ "starting" \in Starting /\ UNCHANGED storeVars
    BY <1>5 DEF LoadContext, Busy, Starting
  <2>2. Turn(c)' = Turn(c) /\ \A d \in Conns : d # c => job'[d] = job[d]
    BY <1>0, <1>5 DEF LoadContext, Turn
  <2>3. QED BY <1>1, <1>3, <2>1, <2>2
<1>6. ASSUME NEW codexCreated \in BOOLEAN, FailStarting(c, codexCreated) PROVE Proved!Next
  <2>1. /\ Busy(c)
        /\ \/ FinishTurn(Turn(c), "failed") /\ UNCHANGED answers
           \/ UNCHANGED storeVars
    <3>1. FailAndNotify(daemonOf[c], Turn(c)) =>
             (FinishTurn(Turn(c), "failed") /\ UNCHANGED answers) \/ UNCHANGED storeVars
      BY DEF FailAndNotify, FailTurn
    <3>2. EndUnheard(Turn(c), "failed") => FinishTurn(Turn(c), "failed") /\ UNCHANGED answers
      BY EndUnheardFinishes DEF Outcomes
    <3>3. QED BY <1>6, <3>1, <3>2 DEF FailStarting, Busy, Starting
  <2>2. Turn(c) \in StartingTurns /\ StartingTurns' = StartingTurns \ {Turn(c)} /\ Turn(c) \in Turns
    BY <1>4, <1>6, <2>1, StartingLeft, BusyTurn DEF FailStarting
  <2>3. CASE FinishTurn(Turn(c), "failed") /\ UNCHANGED answers
    <3>1. PICK t \in Turns : t = Turn(c)
      BY <2>2
    <3>2. FinishTurn(t, "failed") /\ UNCHANGED answers
      BY <2>3, <3>1
    <3>3. Proved!FailTurn(t)
      BY <3>2, SameFinish DEF Proved!FailTurn
    <3>4. Proved!FailStart(t)
      BY <2>2, <3>1, <3>3 DEF Proved!FailStart, StartingTurns
    <3>5. Proved!TurnStep(t)
      BY <3>4 DEF Proved!TurnStep
    <3>6. QED BY <3>5 DEF Proved!Next
  <2>4. CASE UNCHANGED storeVars
    BY <1>2, <2>2, <2>4
  <2>5. QED BY <2>1, <2>3, <2>4
<1>7. ASSUME NEW th \in Threads, CodexStarts(c, th) PROVE UNCHANGED Proved!vars
  <2>1. Goto(c, "linking") /\ Busy(c) /\ "linking" \in Starting /\ UNCHANGED storeVars
    BY <1>7 DEF CodexStarts, Busy, Starting
  <2>2. Turn(c)' = Turn(c) /\ \A d \in Conns : d # c => job'[d] = job[d]
    BY <1>0, <1>7 DEF CodexStarts, Turn
  <2>3. QED BY <1>1, <1>3, <2>1, <2>2
<1>8. CASE RetryWithoutStaleThread(c)
  <2>1. Goto(c, "retrying") /\ Busy(c) /\ "retrying" \in Starting
    BY <1>8 DEF RetryWithoutStaleThread, Busy, Starting
  <2>2. Turn(c)' = Turn(c) /\ \A d \in Conns : d # c => job'[d] = job[d]
    BY <1>0, <1>8 DEF RetryWithoutStaleThread, Turn
  <2>3. StartingTurns' = StartingTurns
    BY <1>3, <2>1, <2>2
  <2>4. sessionOf[Turn(c)] \in Sessions /\ job[c].thread \in Threads
    BY <1>0, <1>8, <2>1, BusyTurn DEF RetryWithoutStaleThread
  <2>5. Proved!ClearCodexThreadLink(sessionOf[Turn(c)], job[c].thread)
    BY <1>8 DEF RetryWithoutStaleThread, ClearCodexThreadLink, turnVars,
                Proved!ClearCodexThreadLink, Proved!turnVars
  <2>6. Proved!ManageSession
    BY <2>3, <2>4, <2>5 DEF Proved!ManageSession, StartingTurns
  <2>7. QED BY <2>6 DEF Proved!Next
<1>9. CASE LinkThread(c)
  <2>1. Goto(c, "marking") /\ Busy(c) /\ "marking" \in Starting /\ UNCHANGED job
    BY <1>9 DEF LinkThread, Busy, Starting
  <2>2. StartingTurns' = StartingTurns
    BY <1>3, <2>1 DEF Turn
  <2>3. sessionOf[Turn(c)] \in Sessions /\ job[c].thread \in Threads
    BY <1>0, <1>9, <2>1, BusyTurn DEF LinkThread, JobInv, ThreadGot
  <2>4. Proved!LinkCodexThread(sessionOf[Turn(c)], job[c].thread)
    BY <1>9 DEF LinkThread, LinkCodexThread, turnVars, Proved!LinkCodexThread, Proved!turnVars
  <2>5. Proved!ManageSession
    BY <2>2, <2>3, <2>4 DEF Proved!ManageSession, StartingTurns
  <2>6. QED BY <2>5 DEF Proved!Next
<1>10. CASE Marks(c)
  <2>1. Busy(c) /\ MarkTurnRunning(Turn(c), TRUE) /\ Return(c)
    BY <1>10, MarksTurn DEF Marks, MarkRunning, AbandonOnStoreError
  <2>2. Turn(c) \in StartingTurns /\ StartingTurns' = StartingTurns \ {Turn(c)} /\ Turn(c) \in Turns
    BY <1>4, <2>1, StartingLeft, BusyTurn
  <2>3. Proved!FinishStart(Turn(c), TRUE)
    BY <2>1, <2>2, SameMark DEF Proved!FinishStart, StartingTurns
  <2>4. QED BY <2>2, <2>3 DEF Proved!Next, Proved!TurnStep
<1>11. CASE (AbandonOnStoreError(c) \/ MarkRefused(c)) /\ UNCHANGED storeVars
  <2>1. Busy(c) /\ Return(c) /\ UNCHANGED storeVars
    BY <1>11 DEF AbandonOnStoreError, MarkRefused, Busy, Starting
  <2>2. StartingTurns' = StartingTurns \ {Turn(c)}
    BY <1>4, <2>1, StartingLeft
  <2>3. QED BY <1>2, <2>1, <2>2
<1>12. ASSUME NEW codexAgrees \in BOOLEAN, FinishCancel(c, codexAgrees)
       PROVE  Proved!Next \/ UNCHANGED Proved!vars
  <2>1. ~Busy(c) /\ ~Busy(c)' /\ OtherLoops(c)
    BY <1>4, <1>12 DEF FinishCancel, Busy, Starting
  <2>2. \A d \in Conns : (Busy(d)' <=> Busy(d)) /\ (Busy(d) => Turn(d)' = Turn(d))
    BY <2>1 DEF OtherLoops, Busy, Turn
  <2>3. StartingTurns' = StartingTurns
    BY <2>2, StartingSame
  <2>4. Turn(c) \in codexTurn /\ Turn(c) \in Turns
    BY <1>0, <1>12 DEF FinishCancel, JobInv, CancelSeen, StoreTypeOK
  <2>5. CASE FinishTurn(Turn(c), "cancelled") /\ UNCHANGED answers
    <3>1. FinishTurn(Turn(c), "cancelled") /\ UNCHANGED answers
      BY <2>5
    <3>2. Proved!CancelTurn(Turn(c))
      BY <3>1, SameFinish DEF Proved!CancelTurn
    <3>3. Proved!EndByCancel(Turn(c))
      BY <2>3, <2>4, <3>2 DEF Proved!EndByCancel, StartingTurns
    <3>4. QED BY <2>4, <3>3 DEF Proved!Next, Proved!TurnStep
  <2>6. CASE UNCHANGED storeVars
    BY <1>1, <2>3, <2>6
  <2>7. EndUnheard(Turn(c), "cancelled") => FinishTurn(Turn(c), "cancelled") /\ UNCHANGED answers
    BY EndUnheardFinishes DEF Outcomes
  <2>8. QED BY <1>12, <2>5, <2>6, <2>7 DEF FinishCancel, CancelTurn
<1>13. MarkRunning(c) => Marks(c)
  BY DEF MarkRunning, Marks
<1>14. AbandonOnStoreError(c) => Marks(c) \/ (AbandonOnStoreError(c) /\ UNCHANGED storeVars)
  BY DEF AbandonOnStoreError, Marks
<1>15. MarkRefused(c) => UNCHANGED storeVars
  BY DEF MarkRefused
<1>16. QED BY <1>5, <1>6, <1>7, <1>8, <1>9, <1>10, <1>11, <1>12, <1>13, <1>14, <1>15 DEF Handler

LEMMA ConnectionClients ==
    ASSUME JobInv, NEW c \in Conns,
           Request(c) \/ Receive(c) \/ Connect(c) \/ Leave(c) \/ Closing(c)
    PROVE  Proved!Next \/ UNCHANGED Proved!vars
<1>0. /\ StoreTypeOK /\ pc \in [Conns -> PCs] /\ OwnedStreams
      /\ job \in [Conns -> [turn : Turns \cup {None}, thread : Threads \cup {None}]]
  BY DEF JobInv, TypeOK
<1>1. ASSUME UNCHANGED storeVars, StartingTurns' = StartingTurns PROVE UNCHANGED Proved!vars
  BY <1>1 DEF Proved!vars, Proved!storeVars, Proved!turnVars, storeVars, turnVars, StartingTurns
<1>2. ASSUME OtherLoops(c), ~Busy(c), ~Busy(c)' PROVE StartingTurns' = StartingTurns
  <2>1. \A d \in Conns : (Busy(d)' <=> Busy(d)) /\ (Busy(d) => Turn(d)' = Turn(d))
    BY <1>2 DEF OtherLoops, Busy, Turn
  <2>2. QED BY <2>1, StartingSame
<1>3. ASSUME UNCHANGED <<pc, job>> PROVE StartingTurns' = StartingTurns
  BY <1>3 DEF StartingTurns, Turn
<1>4. ASSUME NEW s \in Sessions, NEW k \in Keys, NEW h \in Hashes,
             NEW A \in SUBSET Attachments, NEW t \in Turns, HandleMessageSend(c, s, k, h, A, t)
      PROVE  Proved!Next
  <2>1. OtherLoops(c) /\ ~Busy(c) /\ Busy(c)' /\ Turn(c)' = t
    BY <1>0, <1>4 DEF HandleMessageSend, Serving, Goto, OtherLoops, Busy, Starting, Turn
  <2>2. StartingTurns' = StartingTurns \cup {t}
    BY <2>1, StartingBegun
  <2>3. Proved!BeginTurn(s, k, h, A, t)
    BY <1>4, SameBegin DEF HandleMessageSend
  <2>4. Proved!StartTurn(s, k, h, A, t)
    BY <2>2, <2>3 DEF Proved!StartTurn, StartingTurns
  <2>5. Proved!TurnStep(t)
    BY <2>4 DEF Proved!TurnStep
  <2>6. QED BY <2>5 DEF Proved!Next
<1>5. ASSUME NEW t \in Turns, HandleTurnCancel(c, t) PROVE UNCHANGED Proved!vars
  <2>1. OtherLoops(c) /\ ~Busy(c) /\ ~Busy(c)' /\ UNCHANGED storeVars
    BY <1>0, <1>5 DEF HandleTurnCancel, Serving, Goto, OtherLoops, Busy, Starting
  <2>2. QED BY <1>1, <1>2, <2>1
<1>6. CASE Connect(c) \/ Leave(c)
  <2>1. OtherLoops(c) /\ ~Busy(c) /\ ~Busy(c)' /\ UNCHANGED storeVars
    BY <1>0, <1>6 DEF Connect, Leave, Serving, Goto, OtherLoops, Busy, Starting
  <2>2. QED BY <1>1, <1>2, <2>1
<1>10. CASE Close(c)
  <2>1. OtherLoops(c) /\ ~Busy(c) /\ ~Busy(c)'
    BY <1>0, <1>10 DEF Close, Goto, OtherLoops, Busy, Starting
  <2>2. StartingTurns' = StartingTurns
    BY <1>2, <2>1
  <2>3. CASE UNCHANGED storeVars
    BY <1>1, <2>2, <2>3
  <2>4. ASSUME NEW t \in owned[c], EndUnheard(t, "failed") PROVE Proved!Next
    <3>1. FinishTurn(t, "failed") /\ UNCHANGED answers
      BY <2>4, EndUnheardFinishes DEF Outcomes
    <3>2. Proved!FailTurn(t)
      BY <3>1, SameFinish DEF Proved!FailTurn
    <3>3. t \in Turns /\ t \notin StartingTurns
      BY <1>0, StreamedNotStarting DEF OwnedStreams, JobInv, TypeOK
    <3>4. Proved!EndStream(t)
      BY <2>2, <3>2, <3>3 DEF Proved!EndStream, StartingTurns
    <3>5. QED BY <3>3, <3>4 DEF Proved!Next, Proved!TurnStep
  <2>5. QED BY <1>10, <2>3, <2>4 DEF Close
<1>7. CASE (\E s \in Sessions : HandleSubscribe(c, s) \/ HandleUnsubscribe(c, s)) \/ Receive(c)
  BY <1>1, <1>3, <1>7 DEF HandleSubscribe, HandleUnsubscribe, Receive
<1>8. ASSUME NEW t \in Turns, CleanUp(c, t) PROVE Proved!Next \/ UNCHANGED Proved!vars
  <2>1. StartingTurns' = StartingTurns
    BY <1>3, <1>8 DEF CleanUp
  <2>2. t \notin StartingTurns
    BY <1>0, <1>8, StreamedNotStarting DEF CleanUp, OwnedStreams
  <2>3. CASE IsActive(t)
    <3>1. FinishTurn(t, "failed") /\ UNCHANGED answers
      BY <1>8, <2>3 DEF CleanUp, FailAndNotify, FailTurn
    <3>2. Proved!FailTurn(t)
      BY <3>1, SameFinish DEF Proved!FailTurn
    <3>3. Proved!EndStream(t)
      BY <2>1, <2>2, <3>2 DEF Proved!EndStream, StartingTurns
    <3>4. Proved!TurnStep(t)
      BY <3>3 DEF Proved!TurnStep
    <3>5. QED BY <3>4 DEF Proved!Next
  <2>4. CASE ~IsActive(t)
    BY <1>1, <1>8, <2>1, <2>4 DEF CleanUp, FailAndNotify
  <2>5. QED BY <2>3, <2>4
<1>9. QED BY <1>4, <1>5, <1>6, <1>7, <1>8, <1>10 DEF Request, Closing

LEMMA StreamClients ==
    ASSUME JobInv, NEW t \in Turns, Stream(t)
    PROVE  Proved!Next \/ UNCHANGED Proved!vars
<1>1. StartingTurns' = StartingTurns
  BY DEF Stream, StreamEnds, StreamDelta, StreamCompleted, StreamFailed, StreamStoreError,
         StreamStep, StartingTurns, Turn
<1>2. stream[t] = "open"
  BY DEF Stream, StreamEnds, StreamDelta, StreamCompleted, StreamFailed, StreamStoreError,
         StreamStep
<1>3. t \notin StartingTurns
  BY <1>2, StreamedNotStarting
<1>4. ASSUME UNCHANGED storeVars PROVE UNCHANGED Proved!vars
  BY <1>1, <1>4 DEF Proved!vars, Proved!storeVars, Proved!turnVars, storeVars, turnVars,
                    StartingTurns
<1>5. ASSUME CompleteTurn(t) \/ FailTurn(t) PROVE Proved!Next
  <2>1. CompleteTurn(t) => Proved!CompleteTurn(t)
    BY SameFinish DEF CompleteTurn, Proved!CompleteTurn
  <2>2. FailTurn(t) => Proved!FailTurn(t)
    BY SameFinish DEF FailTurn, Proved!FailTurn
  <2>3. Proved!EndStream(t)
    BY <1>1, <1>3, <1>5, <2>1, <2>2 DEF Proved!EndStream, StartingTurns
  <2>4. Proved!TurnStep(t)
    BY <2>3 DEF Proved!TurnStep
  <2>5. QED BY <2>4 DEF Proved!Next
<1>8. ASSUME NEW outcome \in {"completed", "failed"}, EndUnheard(t, outcome)
      PROVE  CompleteTurn(t) \/ FailTurn(t)
  BY <1>8, EndUnheardFinishes DEF Outcomes, FailTurn
<1>6. UNCHANGED storeVars \/ CompleteTurn(t) \/ FailTurn(t)
  BY <1>8 DEF Stream, StreamEnds, StreamDelta, StreamCompleted, StreamFailed, StreamStoreError,
         FailAndNotify
<1>7. QED BY <1>4, <1>5, <1>6

LEMMA ProcessClients ==
    ASSUME JobInv, ManageSession \/ \E d \in Daemons : Start(d) \/ Crash(d)
    PROVE  Proved!Next \/ UNCHANGED Proved!vars
<1>1. CASE ManageSession
  <2>1. PICK s \in Sessions : CreateSession(s)
    BY <1>1 DEF ManageSession
  <2>2. Proved!CreateSession(s)
    BY <2>1 DEF CreateSession, turnVars, Proved!CreateSession, Proved!turnVars
  <2>3. StartingTurns' = StartingTurns
    BY <1>1 DEF ManageSession, connVars, StartingTurns, Turn
  <2>4. Proved!ManageSession
    BY <2>2, <2>3 DEF Proved!ManageSession, StartingTurns
  <2>5. QED BY <2>4 DEF Proved!Next
<1>2. ASSUME NEW d \in Daemons, Start(d) PROVE Proved!Next \/ UNCHANGED Proved!vars
  <2>1. StartingTurns' = StartingTurns
    BY <1>2 DEF Start, connVars, StartingTurns, Turn
  <2>2. CASE RecoverInterruptedActiveTurns
    <3>1. (\E e, f \in Daemons : e # f) \/ StartingTurns = {}
      <4>1. ASSUME \A e, f \in Daemons : e = f PROVE StartingTurns = {}
        <5>1. \A c \in Conns : daemonOf[c] = d /\ d \notin up
          BY <1>2, <4>1 DEF Start
        <5>2. \A c \in Conns : ~Busy(c)
          BY <5>1 DEF JobInv, DownIsClosed, Busy, Starting
        <5>3. QED BY <5>2 DEF StartingTurns, Busy
      <4>2. QED BY <4>1
    <3>2. Proved!Recover
      BY <2>1, <2>2, <3>1, SameRecover DEF Proved!Recover, StartingTurns
    <3>3. QED BY <3>2 DEF Proved!Next
  <2>3. CASE UNCHANGED storeVars
    BY <2>1, <2>3 DEF Proved!vars, Proved!storeVars, Proved!turnVars, storeVars, turnVars,
                      StartingTurns
  <2>4. QED BY <1>2, <2>2, <2>3 DEF Start
<1>3. ASSUME NEW d \in Daemons, Crash(d) PROVE Proved!Next
  <2>1. \A c \in Conns : Busy(c)' => Busy(c) /\ Turn(c)' = Turn(c)
    BY <1>3 DEF Crash, Busy, Starting, Turn
  <2>2. StartingTurns' \subseteq StartingTurns
    BY <2>1 DEF StartingTurns, Busy
  <2>3. QED BY <1>3, <2>2 DEF Crash, Proved!Next, Proved!AbandonStarts, Proved!storeVars,
                              Proved!turnVars, storeVars, turnVars, StartingTurns
<1>4. QED BY <1>1, <1>2, <1>3

LEMMA StepClients ==
    ASSUME JobInv, [Next]_vars
    PROVE  Proved!Next \/ UNCHANGED Proved!vars
<1>1. CASE UNCHANGED vars
  BY <1>1 DEF vars, connVars, storeVars, turnVars, Proved!vars, Proved!storeVars,
              Proved!turnVars, Turn
<1>2. CASE Next
  BY <1>2, HandlerClients, ConnectionClients, StreamClients, ProcessClients DEF Next
<1>3. QED BY <1>1, <1>2

LEMMA InitClients == Init => Proved!Init
<1> SUFFICES ASSUME Init PROVE Proved!Init
  OBVIOUS
<1>1. StartingTurns = {}
  BY DEF Init, StartingTurns, Starting
<1>2. QED BY <1>1 DEF Init, StoreInit, Requests, NoRow, NoAttachment, StartingTurns, Proved!Init,
                      Proved!StoreInit, Proved!Requests, Proved!NoRow, Proved!NoAttachment

\* The daemon calls the store in the ways that SessionClients allows.
LEMMA DaemonIsClients == Spec => Proved!Spec
<1>1. JobInv /\ [Next]_vars => [Proved!Next]_(Proved!vars)
  BY StepClients
<1>2. QED BY <1>1, InitClients, JobsInductive, PTL DEF Spec, Proved!Spec

\* What the handlers, stream tasks, cleanups, crashes and restarts of any
\* number of daemons do to the store is what SessionClients lets its clients
\* do: they are the calls whose every order is safe.
THEOREM DaemonImplementsClients == Spec => ImplementsClients
<1>1. JobInv /\ [Next]_vars => [Clients!Next]_(Clients!vars)
  <2> SUFFICES ASSUME JobInv, [Next]_vars PROVE Clients!Next \/ UNCHANGED Clients!vars
    OBVIOUS
  <2>1. Proved!Next \/ UNCHANGED Proved!vars
    BY StepClients
  <2>2. UNCHANGED Proved!vars => UNCHANGED Clients!vars
    BY DEF Clients!vars, Proved!vars, Clients!storeVars, Proved!storeVars, Clients!turnVars,
           Proved!turnVars
  <2>3. QED BY <2>1, <2>2, SameNext
<1>2. Init => Clients!Init
  BY InitClients, SameInit
<1>3. QED BY <1>1, <1>2, JobsInductive, PTL DEF Spec, ImplementsClients, Clients!Spec
-----------------------------------------------------------------------------
\* What SessionClientsProofs shows of one process holds of one daemon.

LEMMA OwnStore ==
    ASSUME \A d, e \in Daemons : d = e
    PROVE  (\E d, e \in Daemons : d # e) = FALSE
  OBVIOUS

LEMMA ProvedAssumption == Proved!SharedStoreAssumption
  BY DEF Proved!SharedStoreAssumption

\* One daemon never has two turns active at a time, whatever their sessions.
THEOREM OneActiveTurnAtATime ==
    ASSUME \A d, e \in Daemons : d = e
    PROVE  Spec => []Clients!OneActiveTurn
<1>1. Proved!Spec => []Proved!OneActiveTurn
  BY StoreAssumption, ProvedAssumption, OwnStore, Proved!OneActiveTurnHolds
<1>2. Proved!OneActiveTurn <=> Clients!OneActiveTurn
  BY DEF Proved!OneActiveTurn, Clients!OneActiveTurn, Proved!IsActive, Clients!IsActive,
         Proved!ActiveStatuses, Clients!ActiveStatuses
<1>3. QED BY <1>1, <1>2, DaemonIsClients, PTL

\* The session, the messages and the idempotency row of a turn agree with its
\* status after every step of a daemon, its crashes and restarts included.
THEOREM LedgersAgreeInDaemon ==
    ASSUME \A d, e \in Daemons : d = e
    PROVE  Spec => []Clients!LedgersAgree
<1>1. Proved!Spec => []Proved!LedgersAgree
  BY StoreAssumption, ProvedAssumption, OwnStore, Proved!LedgersAgreeHolds
<1>2. Proved!LedgersAgree <=> Clients!LedgersAgree
  BY DEF Proved!LedgersAgree, Clients!LedgersAgree, Proved!PointerAgrees, Clients!PointerAgrees,
         Proved!MessagesAgree, Clients!MessagesAgree, Proved!LedgerAgrees, Clients!LedgerAgrees,
         Proved!OneRequestPerTurn, Clients!OneRequestPerTurn, Proved!IsActive, Clients!IsActive,
         Proved!ActiveStatuses, Clients!ActiveStatuses, Proved!Requests, Clients!Requests
<1>3. QED BY <1>1, <1>2, DaemonIsClients, PTL

\* A turn that has ended stays as it ended, whatever its stream, a cancel, the
\* cleanup of its connection and a restart still do; two daemons on one
\* database break this, as the run daemon_revive shows.
THEOREM TurnEndsOnceHolds ==
    ASSUME \A d, e \in Daemons : d = e
    PROVE  Spec => TurnEndsOnce
<1>1. Proved!Spec => Proved!TurnEndsOnce
  BY StoreAssumption, ProvedAssumption, OwnStore, Proved!TurnEndsOnceHolds
<1> DEFINE Ends == \A t \in Turns : status[t] \in Outcomes => status'[t] = status[t]
<1>2. [\A t \in Turns : status[t] \in Proved!Outcomes => status'[t] = status[t]]_(Proved!vars)
      => [Ends]_vars
  BY DEF Proved!vars, Proved!storeVars, Proved!turnVars, Proved!Outcomes, Outcomes
<1>3. QED BY <1>1, <1>2, DaemonIsClients, PTL DEF TurnEndsOnce, Proved!TurnEndsOnce

\* The answer a repeated message/send gets never changes once it is final.
THEOREM RetryAnswerIsFinalInDaemon ==
    ASSUME \A d, e \in Daemons : d = e
    PROVE  Spec => Clients!RetryAnswerIsFinal
<1>1. Proved!Spec => Proved!RetryAnswerIsFinal
  BY StoreAssumption, ProvedAssumption, OwnStore, Proved!RetryAnswerIsFinalHolds
<1>2. [\A r \in Proved!Requests, h \in Hashes :
          /\ idem[r].status # "absent"
          /\ Proved!RetryAnswer(r, h) # "reused"
          => Proved!RetryAnswer(r, h)' = Proved!RetryAnswer(r, h)]_(Proved!vars)
      => [\A r \in Clients!Requests, h \in Hashes :
          /\ idem[r].status # "absent"
          /\ Clients!RetryAnswer(r, h) # "reused"
          => Clients!RetryAnswer(r, h)' = Clients!RetryAnswer(r, h)]_(Clients!vars)
  BY DEF Proved!vars, Clients!vars, Proved!storeVars, Clients!storeVars, Proved!turnVars,
         Clients!turnVars, Proved!RetryAnswer, Clients!RetryAnswer, Proved!LedgerAnswer,
         Clients!LedgerAnswer, Proved!Requests, Clients!Requests
<1>3. QED BY <1>1, <1>2, DaemonIsClients, PTL
          DEF Clients!RetryAnswerIsFinal, Proved!RetryAnswerIsFinal

===============================================================================

------------------------------- MODULE Daemon -------------------------------
(***************************************************************************)
(* crates/sidekick-daemon: connections that run one request at a time,     *)
(* the message/send and turn/cancel handlers with their waits for Codex,   *)
(* the task that streams a turn, the broadcast channel that carries the    *)
(* notifications to every connection, the cleanup of a closed connection,  *)
(* and the death and restart of a daemon process.  Several daemons may     *)
(* have the same database open: the desktop app runs one, a native host    *)
(* runs one per port.                                                      *)
(*                                                                         *)
(* An action is the code between two waits, or between two operations on   *)
(* the store.  Codex is external: what it answers is chosen freely.        *)
(* Every connection is taken to be initialized, and the notifications that *)
(* say nothing about a turn's state are left out.                          *)
(***************************************************************************)
EXTENDS SessionStore, Sequences

CONSTANTS
    Daemons,       \* daemon processes on the database
    Recovering,    \* those that start with RecoverInterrupted
    Conns,         \* client connections
    daemonOf,      \* [Conns -> Daemons]
    Cleaning,      \* native-host and sidecar-owned connections
    Cap,           \* events the broadcast channel holds for a slow receiver
    StoreMayFail,  \* whether an operation of the store may return an error
    MayCrash       \* whether a daemon process may die

ASSUME DaemonAssumption ==
    /\ None \notin Conns
    /\ Recovering \subseteq Daemons /\ Cleaning \subseteq Conns
    /\ daemonOf \in [Conns -> Daemons]
    /\ Cap \in Nat \ {0}
    /\ StoreMayFail \in BOOLEAN /\ MayCrash \in BOOLEAN

VARIABLES
    up,         \* the daemons that run
    pc,         \* where the connection's loop is
    job,        \* the turn and Codex thread its handler works on
    owned,      \* owned_active_turns
    subs,       \* subscribed_sessions
    queue,      \* events broadcast to the connection and not yet received
    lagged,     \* connections whose receiver lost events
    stream,     \* the task of a turn: none, open, done, or dead with its daemon
    sender,     \* the connection that began the turn
    view,       \* what a connection's client was told of a turn
    notices,    \* ends of the turn that were broadcast
    codexTurns, \* how many turns Codex has created for the turn
    threadOf,   \* the session Codex created a thread for
    stranded,   \* turns whose handler or task ended on an error of the store
    unheard     \* turns whose end the store has, and could not read back

connVars == <<pc, job, owned, subs, queue, lagged, view>>
turnTaskVars == <<stream, sender, notices>>
codexVars == <<codexTurns, threadOf>>
errorVars == <<stranded, unheard>>
vars == <<storeVars, up, connVars, turnTaskVars, codexVars, errorVars>>

NoJob == [turn |-> None, thread |-> None]
Starting == {"loading", "starting", "retrying", "linking", "marking"}
PCs == {"closed", "idle", "cancelling", "closing"} \cup Starting
EventKinds == {"started", "delta"} \cup Outcomes
Events == [kind : EventKinds, turn : Turns]

TypeOK ==
    /\ StoreTypeOK
    /\ up \in SUBSET Daemons
    /\ pc \in [Conns -> PCs]
    /\ job \in [Conns -> [turn : Turns \cup {None}, thread : Threads \cup {None}]]
    /\ owned \in [Conns -> SUBSET Turns]
    /\ subs \in [Conns -> SUBSET Sessions]
    /\ queue \in [Conns -> Seq(Events)] /\ \A c \in Conns : Len(queue[c]) <= Cap
    /\ lagged \in SUBSET Conns
    /\ stream \in [Turns -> {"none", "open", "done", "dead"}]
    /\ sender \in [Turns -> Conns \cup {None}]
    /\ view \in [Conns -> [Turns -> {"unseen", "active", "ended"}]]
    /\ notices \in [Turns -> Seq(Outcomes)]
    /\ codexTurns \in [Turns -> Nat]
    /\ threadOf \in [Threads -> Sessions \cup {None}]
    /\ stranded \in SUBSET Turns /\ unheard \in SUBSET Turns

Init ==
    /\ StoreInit
    /\ up = {}
    /\ pc = [c \in Conns |-> "closed"]
    /\ job = [c \in Conns |-> NoJob]
    /\ owned = [c \in Conns |-> {}]
    /\ subs = [c \in Conns |-> {}]
    /\ queue = [c \in Conns |-> <<>>]
    /\ lagged = {}
    /\ stream = [t \in Turns |-> "none"]
    /\ sender = [t \in Turns |-> None]
    /\ view = [c \in Conns |-> [t \in Turns |-> "unseen"]]
    /\ notices = [t \in Turns |-> <<>>]
    /\ codexTurns = [t \in Turns |-> 0]
    /\ threadOf = [th \in Threads |-> None]
    /\ stranded = {} /\ unheard = {}

-----------------------------------------------------------------------------
\* The broadcast channel of daemon d.  A receiver that is Cap events behind
\* loses the oldest, and its next recv says so.

Receives(c, d) == daemonOf[c] = d /\ pc[c] # "closed"
Overflows(c, d) == Receives(c, d) /\ (c \in lagged \/ Len(queue[c]) = Cap)

\* Mutant of Broadcast: a receiver that loses events is not told so.
BroadcastLossy(d, kind, t) ==
    /\ queue' = [c \in Conns |->
                   IF Overflows(c, d) THEN <<>>
                   ELSE IF Receives(c, d) THEN Append(queue[c], [kind |-> kind, turn |-> t])
                   ELSE queue[c]]
    /\ notices' = IF kind \in Outcomes THEN [notices EXCEPT ![t] = Append(@, kind)] ELSE notices
    /\ UNCHANGED lagged

Broadcast(d, kind, t) ==
    /\ queue' = [c \in Conns |->
                   IF Overflows(c, d) THEN <<>>
                   ELSE IF Receives(c, d) THEN Append(queue[c], [kind |-> kind, turn |-> t])
                   ELSE queue[c]]
    /\ lagged' = lagged \cup {c \in Conns : Overflows(c, d)}
    /\ notices' = IF kind \in Outcomes THEN [notices EXCEPT ![t] = Append(@, kind)] ELSE notices

Quiet == UNCHANGED <<queue, lagged, notices>>

Serving(c) == daemonOf[c] \in up /\ pc[c] = "idle"
Turn(c) == job[c].turn
Goto(c, where) == pc' = [pc EXCEPT ![c] = where]
\* The handler answers its client with an error and the loop goes on.
Return(c) == Goto(c, "idle") /\ job' = [job EXCEPT ![c] = NoJob]

\* Mutant of FailAndNotify: the failure is broadcast whatever the store says.
FailAndNotifyAlways(d, t) ==
    /\ IF IsActive(t) THEN FailTurn(t) ELSE UNCHANGED storeVars
    /\ Broadcast(d, "failed", t)

\* A turn fails, if it still is active, and the failure is broadcast; the store
\* rejects a second end, which is not broadcast as one.
FailAndNotify(d, t) ==
    IF IsActive(t) THEN FailTurn(t) /\ Broadcast(d, "failed", t)
    ELSE UNCHANGED storeVars /\ Quiet

\* The store commits an end and then cannot read the turn back: the caller is
\* given an error, and nobody is told of the end.
EndUnheard(t, outcome) ==
    /\ StoreMayFail /\ IsActive(t)
    /\ CASE outcome = "completed" -> CompleteTurn(t)
         [] outcome = "failed" -> FailTurn(t)
         [] outcome = "cancelled" -> CancelTurn(t)
    /\ unheard' = unheard \cup {t}

\* An error of the store takes away the handler or the task of turn t.
StoreFails(t) == StoreMayFail /\ stranded' = stranded \cup {t} /\ UNCHANGED unheard

-----------------------------------------------------------------------------
\* message/send.

\* A repeated or rejected request changes nothing and is not a step.
HandleMessageSend(c, s, k, h, A, t) ==
    /\ Serving(c)
    /\ BeginTurn(s, k, h, A, t)
    /\ Goto(c, "loading")
    /\ job' = [job EXCEPT ![c] = [turn |-> t, thread |-> None]]
    /\ sender' = [sender EXCEPT ![t] = c]
    /\ Quiet
    /\ UNCHANGED <<up, owned, subs, view, stream, codexVars, errorVars>>

\* Mutant of LoadContext: the link is read without the session.
LoadContextAnyThread(c) ==
    /\ pc[c] = "loading"
    /\ Goto(c, "starting")
    /\ \E s \in Sessions : job' = [job EXCEPT ![c].thread = threadLink[s]]
    /\ Quiet
    /\ UNCHANGED <<storeVars, up, owned, subs, view, stream, sender, codexVars, errorVars>>

\* get_session, load_context_text and codex_thread_id.
LoadContext(c) ==
    /\ pc[c] = "loading"
    /\ Goto(c, "starting")
    /\ job' = [job EXCEPT ![c].thread = threadLink[sessionOf[Turn(c)]]]
    /\ Quiet
    /\ UNCHANGED <<storeVars, up, owned, subs, view, stream, sender, codexVars, errorVars>>

\* Mutant of FailStarting: an error of the context is returned with `?'.
FailStartingUnrecorded(c, codexCreated) ==
    /\ pc[c] = "loading" /\ ~codexCreated
    /\ Return(c)
    /\ Quiet
    /\ UNCHANGED <<storeVars, up, owned, subs, view, stream, sender, codexVars, errorVars>>

\* fail_starting_turn: the context cannot be loaded, Codex refuses the start,
\* or the start times out.  A start that times out is dropped, and Codex may
\* have created the turn by then; it never does for a thread it lacks.
FailStarting(c, codexCreated) ==
    /\ pc[c] \in {"loading", "starting", "retrying"}
    /\ codexCreated => pc[c] # "loading"
    /\ \/ FailAndNotify(daemonOf[c], Turn(c)) /\ UNCHANGED errorVars
       \/ EndUnheard(Turn(c), "failed") /\ Quiet /\ UNCHANGED stranded
       \/ StoreFails(Turn(c)) /\ UNCHANGED storeVars /\ Quiet
    /\ codexTurns' = IF codexCreated THEN [codexTurns EXCEPT ![Turn(c)] = @ + 1] ELSE codexTurns
    /\ Return(c)
    /\ UNCHANGED <<up, owned, subs, view, stream, sender, threadOf>>

\* Mutant of CodexStarts: the stream task is spawned before the turn is marked.
CodexStartsStreaming(c, th) ==
    /\ pc[c] \in {"starting", "retrying"}
    /\ IF job[c].thread # None THEN th = job[c].thread ELSE threadOf[th] = None
    /\ threadOf' = [threadOf EXCEPT ![th] = sessionOf[Turn(c)]]
    /\ codexTurns' = [codexTurns EXCEPT ![Turn(c)] = @ + 1]
    /\ job' = [job EXCEPT ![c].thread = th]
    /\ stream' = [stream EXCEPT ![Turn(c)] = "open"]
    /\ Goto(c, "linking")
    /\ Quiet
    /\ UNCHANGED <<storeVars, up, owned, subs, view, sender, errorVars>>

\* Codex starts the turn, on the thread it was given or on a new one.
CodexStarts(c, th) ==
    /\ pc[c] \in {"starting", "retrying"}
    /\ IF job[c].thread # None THEN th = job[c].thread ELSE threadOf[th] = None
    /\ threadOf' = [threadOf EXCEPT ![th] = sessionOf[Turn(c)]]
    /\ codexTurns' = [codexTurns EXCEPT ![Turn(c)] = @ + 1]
    /\ job' = [job EXCEPT ![c].thread = th]
    /\ Goto(c, "linking")
    /\ Quiet
    /\ UNCHANGED <<storeVars, up, owned, subs, view, stream, sender, errorVars>>

\* Mutant of RetryWithoutStaleThread: an error after the start is retried too.
RetryAfterStart(c) ==
    /\ pc[c] \in {"starting", "linking"}
    /\ job[c].thread # None
    /\ ClearCodexThreadLink(sessionOf[Turn(c)], job[c].thread)
    /\ job' = [job EXCEPT ![c].thread = None]
    /\ Goto(c, "retrying")
    /\ Quiet
    /\ UNCHANGED <<up, owned, subs, view, stream, sender, codexVars, errorVars>>

\* Codex no longer has the linked thread: the link is cleared if it still is
\* that one, and the start is tried once more without a thread.
RetryWithoutStaleThread(c) ==
    /\ pc[c] = "starting"
    /\ job[c].thread # None
    /\ ClearCodexThreadLink(sessionOf[Turn(c)], job[c].thread)
    /\ job' = [job EXCEPT ![c].thread = None]
    /\ Goto(c, "retrying")
    /\ Quiet
    /\ UNCHANGED <<up, owned, subs, view, stream, sender, codexVars, errorVars>>

LinkThread(c) ==
    /\ pc[c] = "linking"
    /\ LinkCodexThread(sessionOf[Turn(c)], job[c].thread)
    /\ Goto(c, "marking")
    /\ Quiet
    /\ UNCHANGED <<up, job, owned, subs, view, stream, sender, codexVars, errorVars>>

\* The mark, the notification, the stream task, the response and
\* observe_successful_result.
MarkRunning(c) ==
    /\ pc[c] = "marking"
    /\ MarkTurnRunning(Turn(c), TRUE)
    /\ Broadcast(daemonOf[c], "started", Turn(c))
    /\ stream' = [stream EXCEPT ![Turn(c)] = "open"]
    /\ owned' = [owned EXCEPT ![c] = @ \cup {Turn(c)}]
    /\ view' = IF sessionOf[Turn(c)] \in subs[c]
               THEN [view EXCEPT ![c][Turn(c)] = "active"] ELSE view
    /\ Return(c)
    /\ UNCHANGED <<up, subs, sender, codexVars, errorVars>>

\* An operation of the store fails after begin_turn and the handler returns
\* with `?'; mark_turn_running may have marked the turn by then, and fail to
\* read it back.
AbandonOnStoreError(c) ==
    /\ \/ pc[c] \in {"loading", "linking", "marking"} /\ UNCHANGED storeVars
       \/ pc[c] = "marking" /\ MarkTurnRunning(Turn(c), TRUE)
    /\ StoreFails(Turn(c))
    /\ Return(c)
    /\ Quiet
    /\ UNCHANGED <<up, owned, subs, view, stream, sender, codexVars>>

\* The unique index refuses the mark.
MarkRefused(c) ==
    /\ pc[c] = "marking" /\ OtherActiveTurn(Turn(c))
    /\ stranded' = stranded \cup {Turn(c)}
    /\ Return(c)
    /\ Quiet
    /\ UNCHANGED <<storeVars, up, owned, subs, view, stream, sender, codexVars, unheard>>

-----------------------------------------------------------------------------
\* turn/cancel: the check, the wait for Codex, the write.

HandleTurnCancel(c, t) ==
    /\ Serving(c)
    /\ Cancellable(t)
    /\ Goto(c, "cancelling")
    /\ job' = [job EXCEPT ![c].turn = t]
    /\ Quiet
    /\ UNCHANGED <<storeVars, up, owned, subs, view, stream, sender, codexVars, errorVars>>

FinishCancel(c, codexAgrees) ==
    /\ pc[c] = "cancelling"
    /\ IF codexAgrees /\ IsActive(Turn(c))
       THEN \/ /\ CancelTurn(Turn(c)) /\ Broadcast(daemonOf[c], "cancelled", Turn(c))
               /\ UNCHANGED unheard
            \/ EndUnheard(Turn(c), "cancelled") /\ Quiet
       ELSE UNCHANGED <<storeVars, unheard>> /\ Quiet
    /\ Return(c)
    /\ UNCHANGED <<up, owned, subs, view, stream, sender, codexVars, stranded>>

-----------------------------------------------------------------------------
\* spawn_turn_stream: one task per turn on the daemon that began it.

StreamStep(t) == stream[t] = "open" /\ UNCHANGED <<up, pc, job, owned, subs, view, sender, codexVars>>
EndStream(t) == stream' = [stream EXCEPT ![t] = "done"]

\* Mutant of StreamDelta: forwarded without turn_is_active.
StreamDeltaUnchecked(t) ==
    /\ StreamStep(t)
    /\ UNCHANGED <<storeVars, stream, errorVars>>
    /\ Broadcast(daemonOf[sender[t]], "delta", t)

\* Delta and FinalAssistantMessage: dropped, with the stream, once the turn is
\* not active.
StreamDelta(t) ==
    /\ StreamStep(t)
    /\ UNCHANGED <<storeVars, errorVars>>
    /\ IF IsActive(t) THEN Broadcast(daemonOf[sender[t]], "delta", t) /\ UNCHANGED stream
       ELSE Quiet /\ EndStream(t)

StreamCompleted(t) ==
    /\ StreamStep(t)
    /\ EndStream(t) /\ UNCHANGED errorVars
    /\ IF IsActive(t) THEN CompleteTurn(t) /\ Broadcast(daemonOf[sender[t]], "completed", t)
       ELSE UNCHANGED storeVars /\ Quiet

\* A Failed event, an error of the stream, or its end.
StreamFailed(t) ==
    /\ StreamStep(t)
    /\ EndStream(t) /\ UNCHANGED errorVars
    /\ FailAndNotify(daemonOf[sender[t]], t)

\* The store fails under any of them, before or after it has written: the task
\* reports it and is gone.
StreamStoreError(t) ==
    /\ StreamStep(t)
    /\ EndStream(t)
    /\ \/ StoreFails(t) /\ UNCHANGED storeVars
       \/ \E outcome \in {"completed", "failed"} : EndUnheard(t, outcome) /\ UNCHANGED stranded
    /\ Quiet

-----------------------------------------------------------------------------
\* The loop of a connection.

Connect(c) ==
    /\ daemonOf[c] \in up /\ pc[c] = "closed"
    /\ Goto(c, "idle")
    /\ UNCHANGED <<storeVars, up, job, owned, subs, view, queue, lagged, turnTaskVars, codexVars, errorVars>>

\* The snapshot of get_session and the subscription, with nothing in between.
\* Events broadcast before it are still in the queue.
HandleSubscribe(c, s) ==
    /\ Serving(c)
    /\ s \in sessions
    /\ subs' = [subs EXCEPT ![c] = @ \cup {s}]
    /\ view' = [view EXCEPT ![c] = [t \in Turns |->
                   IF sessionOf[t] # s THEN @[t]
                   ELSE IF IsActive(t) THEN "active" ELSE "ended"]]
    /\ UNCHANGED <<storeVars, up, pc, job, owned, queue, lagged, turnTaskVars, codexVars, errorVars>>

HandleUnsubscribe(c, s) ==
    /\ Serving(c)
    /\ s \in subs[c]
    /\ subs' = [subs EXCEPT ![c] = @ \ {s}]
    /\ view' = [view EXCEPT ![c] = [t \in Turns |-> IF sessionOf[t] = s THEN "unseen" ELSE @[t]]]
    /\ UNCHANGED <<storeVars, up, pc, job, owned, queue, lagged, turnTaskVars, codexVars, errorVars>>

\* notification_text: observe, then forward what the client subscribed to.
Receive(c) ==
    /\ Serving(c)
    /\ c \notin lagged
    /\ queue[c] # <<>>
    /\ LET event == Head(queue[c]) IN
       /\ owned' = IF event.kind \in Outcomes THEN [owned EXCEPT ![c] = @ \ {event.turn}]
                   ELSE owned
       /\ view' = IF sessionOf[event.turn] \notin subs[c] \/ event.kind = "delta" THEN view
                  ELSE [view EXCEPT ![c][event.turn] =
                          IF event.kind \in Outcomes THEN "ended" ELSE "active"]
    /\ queue' = [queue EXCEPT ![c] = Tail(@)]
    /\ UNCHANGED <<storeVars, up, pc, job, subs, lagged, turnTaskVars, codexVars, errorVars>>

\* The client goes away, the receiver lagged, or the daemon shuts down.
Leave(c) ==
    /\ Serving(c)
    /\ Goto(c, "closing")
    /\ UNCHANGED <<storeVars, up, job, owned, subs, view, queue, lagged, turnTaskVars, codexVars, errorVars>>

\* fail_owned_active_turns_on_disconnect, one turn at a time.
CleanUp(c, t) ==
    /\ pc[c] = "closing" /\ c \in Cleaning
    /\ t \in owned[c]
    /\ owned' = [owned EXCEPT ![c] = @ \ {t}]
    /\ FailAndNotify(daemonOf[c], t)
    /\ UNCHANGED <<up, pc, job, subs, view, stream, sender, codexVars, errorVars>>

Forget(C) ==
    /\ owned' = [c \in Conns |-> IF c \in C THEN {} ELSE owned[c]]
    /\ subs' = [c \in Conns |-> IF c \in C THEN {} ELSE subs[c]]
    /\ view' = [c \in Conns |-> IF c \in C THEN [t \in Turns |-> "unseen"] ELSE view[c]]
    /\ queue' = [c \in Conns |-> IF c \in C THEN <<>> ELSE queue[c]]
    /\ lagged' = lagged \ C

\* Mutant of Close: no cleanup when it is a lagging receiver that ends the loop.
CloseOnLag(c) ==
    /\ pc[c] = "closing"
    /\ c \in Cleaning /\ owned[c] # {} => StoreMayFail \/ c \in lagged
    /\ Goto(c, "closed")
    /\ Forget({c})
    /\ UNCHANGED <<storeVars, up, job, turnTaskVars, codexVars, errorVars>>

\* The cleanup is over, there was none to do, or the store made it give up, in
\* the middle of failing a turn.
Close(c) ==
    /\ pc[c] = "closing"
    /\ c \in Cleaning /\ owned[c] # {} => StoreMayFail
    /\ \/ UNCHANGED <<storeVars, unheard>>
       \/ c \in Cleaning /\ \E t \in owned[c] : EndUnheard(t, "failed")
    /\ Goto(c, "closed")
    /\ Forget({c})
    /\ UNCHANGED <<up, job, turnTaskVars, codexVars, stranded>>

-----------------------------------------------------------------------------
\* Daemon processes.

\* Mutants of Start: without the recovery; recovering while the daemon serves.
StartWithoutRecovery(d) ==
    /\ d \notin up
    /\ up' = up \cup {d}
    /\ UNCHANGED <<storeVars, connVars, turnTaskVars, codexVars, errorVars>>
StartServing(d) ==
    /\ up' = up \cup {d}
    /\ IF d \in Recovering /\ \E t \in Turns : IsActive(t)
       THEN RecoverInterruptedActiveTurns /\ stranded' = {} ELSE UNCHANGED <<storeVars, stranded>>
    /\ UNCHANGED <<connVars, turnTaskVars, codexVars, unheard>>

Start(d) ==
    /\ d \notin up
    /\ up' = up \cup {d}
    /\ IF d \in Recovering /\ \E t \in Turns : IsActive(t)
       THEN RecoverInterruptedActiveTurns /\ stranded' = {} ELSE UNCHANGED <<storeVars, stranded>>
    /\ UNCHANGED <<connVars, turnTaskVars, codexVars, unheard>>

Crash(d) ==
    /\ MayCrash
    /\ d \in up
    /\ up' = up \ {d}
    /\ LET C == {c \in Conns : daemonOf[c] = d} IN
       /\ Forget(C)
       /\ pc' = [c \in Conns |-> IF c \in C THEN "closed" ELSE pc[c]]
       /\ job' = [c \in Conns |-> IF c \in C THEN NoJob ELSE job[c]]
       /\ stream' = [t \in Turns |->
                       IF sender[t] \in C /\ stream[t] # "done" THEN "dead" ELSE stream[t]]
    /\ UNCHANGED <<storeVars, sender, notices, codexVars, errorVars>>

ManageSession ==
    /\ \E s \in Sessions : CreateSession(s)
    /\ UNCHANGED <<up, connVars, turnTaskVars, codexVars, errorVars>>

Handler(c) ==
    \/ LoadContext(c)
    \/ \E codexCreated \in BOOLEAN : FailStarting(c, codexCreated)
    \/ \E th \in Threads : CodexStarts(c, th)
    \/ RetryWithoutStaleThread(c)
    \/ LinkThread(c)
    \/ MarkRunning(c)
    \/ AbandonOnStoreError(c) \/ MarkRefused(c)
    \/ \E codexAgrees \in BOOLEAN : FinishCancel(c, codexAgrees)

Request(c) ==
    \/ \E s \in Sessions, k \in Keys, h \in Hashes, A \in SUBSET Attachments, t \in Turns :
          HandleMessageSend(c, s, k, h, A, t)
    \/ \E t \in Turns : HandleTurnCancel(c, t)
    \/ \E s \in Sessions : HandleSubscribe(c, s) \/ HandleUnsubscribe(c, s)

Closing(c) == Close(c) \/ \E t \in Turns : CleanUp(c, t)

StreamEnds(t) == StreamCompleted(t) \/ StreamFailed(t)
Stream(t) == StreamDelta(t) \/ StreamEnds(t) \/ StreamStoreError(t)

Next ==
    \/ \E c \in Conns : \/ Request(c) \/ Handler(c) \/ Receive(c)
                         \/ Connect(c) \/ Leave(c) \/ Closing(c)
    \/ \E t \in Turns : Stream(t)
    \/ \E d \in Daemons : Start(d) \/ Crash(d)
    \/ ManageSession

Spec == Init /\ [][Next]_vars

\* A handler is scheduled until it waits for Codex, which answers or is timed
\* out after codex_start_timeout; a closing connection finishes its cleanup;
\* Codex ends every turn it streams, or its stream ends; and a daemon that died
\* is started again by its next use.
Fairness ==
    /\ \A c \in Conns : WF_vars(Handler(c)) /\ WF_vars(Closing(c))
    /\ \A t \in Turns : WF_vars(StreamEnds(t))
    /\ \A d \in Daemons : WF_vars(Start(d))

FairSpec == Spec /\ Fairness

-----------------------------------------------------------------------------
\* An active turn has someone to end it: the handler that starts it or its
\* stream task, unless the daemon that ran them died, or an error of the store
\* took that very one away.  A cleanup that gives up, a cancel Codex refuses or
\* an error that meets another turn leaves it its own.
ActiveTurnIsDriven ==
    \A t \in Turns : IsActive(t) =>
        \/ \E c \in Conns : pc[c] \in Starting /\ Turn(c) = t
        \/ stream[t] \in {"open", "dead"}
        \/ t \in stranded

\* A native-host or sidecar connection knows every turn it began and that still
\* is active: its cleanup will end it, whenever the port closes.
OwnerKnowsTurn ==
    \A t \in Turns : IsActive(t) /\ sender[t] \in Cleaning /\ stream[t] # "dead" =>
        LET c == sender[t] IN
        \/ pc[c] \in Starting /\ Turn(c) = t
        \/ pc[c] # "closed" /\ t \in owned[c]

\* However many want to end a turn, its end is broadcast once at most, and as
\* the store has it.
OneEndNotice ==
    \A t \in Turns : notices[t] # <<>> => notices[t] = <<status[t]>>

\* Nothing is said of a turn after its end.
NothingAfterEnd ==
    \A c \in Conns : \A i, j \in 1..Len(queue[c]) :
        i < j /\ queue[c][i].kind \in Outcomes => queue[c][j].turn # queue[c][i].turn

\* A subscriber that was told a turn is active will be told that it ended, or
\* is cut off because its receiver lagged, unless the store could not read back
\* the end it had committed.
SubscriberLearnsEnd ==
    \A c \in Conns, t \in Turns :
        view[c][t] = "active" /\ ~IsActive(t) =>
            \/ c \in lagged
            \/ pc[c] = "closing"
            \/ t \in unheard
            \/ \E i \in 1..Len(queue[c]) :
                  queue[c][i].turn = t /\ queue[c][i].kind \in Outcomes

\* Whatever fails or times out, a message is given to Codex as one turn.
OneCodexTurn == \A t \in Turns : codexTurns[t] <= 1

\* A session is linked only to a thread that Codex created for it.
LinkIsOwnThread == \A s \in Sessions : threadLink[s] # None => threadOf[threadLink[s]] = s

\* A turn that has ended stays as it ended.
TurnEndsOnce ==
    [][\A t \in Turns : status[t] \in Outcomes => status'[t] = status[t]]_vars

\* Every turn that begins ends, also one the cleanup of its connection forgot,
\* unless an error of the store takes away what would end it.
TurnsEnd == \A t \in Turns : IsActive(t) ~> (~IsActive(t) \/ t \in stranded)

\* The daemon uses the store as SessionClients says.
Clients == INSTANCE SessionClients WITH
    SharedStore <- (\E d, e \in Daemons : d # e),
    starting <- {Turn(c) : c \in {c \in Conns : pc[c] \in Starting}}
ImplementsClients == Clients!Spec
=============================================================================

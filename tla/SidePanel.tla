------------------------------ MODULE SidePanel ------------------------------
(***************************************************************************)
(* apps/extension: the side panel's chat and its protocol connections.     *)
(* One page asks questions, at most one at a time, under keys that a retry *)
(* repeats; a lost connection starts a recovery, which fetches the session *)
(* again; connections, recoveries and the ask run interleaved.             *)
(*                                                                         *)
(* An action is what the page does in answer to one event, up to its next  *)
(* await.  A rejected promise sets `failed' and its handler runs, before   *)
(* any other event, as an action of its own.  A turn is named by the key   *)
(* of its question.  The daemon is what Daemon promises: requests of a     *)
(* connection in order, one turn at a time.  Native says whether each      *)
(* connection is a native-messaging port with a host process of its own,   *)
(* which fails its turns as the port closes and notifies no other port, or *)
(* a WebSocket of one daemon.                                              *)
(***************************************************************************)
EXTENDS Naturals, Sequences, FiniteSets, SequencesExt

CONSTANTS Conns, Sessions, Keys, Texts, None,
          Native,     \* native messaging, or a WebSocket
          MayForget,  \* whether the daemon may come back without its sessions
          MayReload,  \* whether the page may be closed and opened again
          MaxLate     \* bound: unanswered requests of a connection that have timed out

ASSUME PanelAssumption ==
    /\ None \notin Conns \cup Sessions \cup Keys \cup Texts
    /\ {"ask", "restore", "page"} \cap (Conns \cup {None}) = {}
    /\ {Native, MayForget, MayReload} \subseteq BOOLEAN
    /\ MaxLate \in Nat \ {0}

VARIABLES
    panel,     \* what the page shows and knows; see Panels
    task,      \* the ask, and a recovery per lost connection
    link,      \* connections, by state of their transport
    inbox,     \* requests the daemon has not handled
    outbox,    \* responses and notifications the page has not received
    handling,  \* the message/send a connection is in
    subs,      \* sessions a connection is subscribed to
    store,     \* sessions, by what the daemon knows of them
    fate,      \* what became of a question at the daemon
    question,  \* its text, its session and the connection that began it
    sent,      \* questions given to a connection
    told,      \* questions the daemon has told the page about
    crossed    \* a connection took the place of another that the chat still relied on

pageVars == <<panel, task, link>>
daemonVars == <<handling, subs, store, fate>>
vars == <<pageVars, inbox, outbox, daemonVars, question, sent, told, crossed>>

Tasks == {"ask", "restore"} \cup Conns
Requests == {"subscribing", "creating", "subscribingNew", "attaching", "sending", "fetching"}
PCs == {"idle", "scope", "capturing", "connecting"} \cup Requests

OrNone(S) == S \cup {None}
Pendings == [key : Keys, session : Sessions, retain : BOOLEAN, known : OrNone(Keys)]
Panels == [current : OrNone(Conns), session : OrNone(Sessions), gen : Nat,
           activeTurn : OrNone(Keys), subscribed : BOOLEAN, recovering : BOOLEAN,
           pending : OrNone(Pendings)]
TaskStates == [at : PCs, conn : OrNone(Conns), retry : BOOLEAN, key : OrNone(Keys),
               text : OrNone(Texts), session : OrNone(Sessions), gen : Nat, failed : BOOLEAN]
Fates == {"absent", "active", "completed", "failed"}
Calls == [from : OrNone(Tasks), kind : Requests, session : OrNone(Sessions),
          key : OrNone(Keys)]
Answers == {"ok", "accepted", "reused", "terminal", "refused", "not_found", "created", "ended"}
Messages == [to : Tasks \cup {"page"}, says : Answers, session : OrNone(Sessions),
             key : OrNone(Keys), snapshot : OrNone([Keys -> Fates])]

\* None is no record and no function.
ASSUME NoneAssumption == None \notin Pendings \cup Calls \cup [Keys -> Fates]

Idle == [at |-> "idle", conn |-> None, retry |-> FALSE, key |-> None, text |-> None,
         session |-> None, gen |-> 0, failed |-> FALSE]
FreshPanel == [current |-> None, session |-> None, gen |-> 0, activeTurn |-> None,
               subscribed |-> FALSE, recovering |-> FALSE, pending |-> None]

TypeOK ==
    /\ panel \in Panels
    /\ task \in [Tasks -> TaskStates]
    /\ link \in [Conns -> {"unused", "connecting", "open", "stalled", "closed"}]
    /\ panel.current # None => link[panel.current] \in {"open", "stalled"}
    /\ inbox \in [Conns -> Seq(Calls)]
    /\ outbox \in [Conns -> Seq(Messages)]
    /\ handling \in [Conns -> OrNone(Calls)]
    /\ subs \in [Conns -> SUBSET Sessions]
    /\ store \in [Sessions -> {"unused", "known", "forgotten"}]
    /\ fate \in [Keys -> Fates]
    /\ question \in [Keys -> [text : OrNone(Texts), session : OrNone(Sessions),
                              conn : OrNone(Conns)]]
    /\ sent \in SUBSET Keys /\ told \in SUBSET Keys
    /\ crossed \in BOOLEAN

Init ==
    /\ panel = FreshPanel
    /\ task = [x \in Tasks |-> Idle]
    /\ link = [c \in Conns |-> "unused"]
    /\ inbox = [c \in Conns |-> <<>>] /\ outbox = [c \in Conns |-> <<>>]
    /\ handling = [c \in Conns |-> None]
    /\ subs = [c \in Conns |-> {}]
    /\ store = [s \in Sessions |-> "unused"]
    /\ fate = [k \in Keys |-> "absent"]
    /\ question = [k \in Keys |-> [text |-> None, session |-> None, conn |-> None]]
    /\ sent = {} /\ told = {} /\ crossed = FALSE

-----------------------------------------------------------------------------
\* What the page's handlers make of its state.

InFlight == task["ask"].at # "idle"
AskDisabled == InFlight \/ panel.activeTurn # None \/ panel.recovering
Matches(p) == p.current # None /\ link[p.current] = "open"
Holds(p, k) == p.pending # None /\ p.pending.key = k

Retained(p) == IF p.pending = None THEN p ELSE [p EXCEPT !.pending.retain = TRUE]
Dropped(p, k) == IF Holds(p, k) THEN [p EXCEPT !.pending = None] ELSE p
Known(p, k) == IF Holds(p, k) THEN [p EXCEPT !.pending.known = k] ELSE p
Disconnected(p) == [p EXCEPT !.current = None, !.subscribed = FALSE]

\* clearActiveChatState and clearRecoveryBlockingState.
Cleared(p) == [FreshPanel EXCEPT !.current = p.current, !.gen = p.gen + 1]
Unblocked(p) == [p EXCEPT !.recovering = FALSE, !.activeTurn = None]

\* Mutant of Caught: a question that must be kept is discarded.
CaughtAndDropped(p, k) == Dropped(p, k)

\* The catch of askCodex, once the question has its key.
Caught(p, k) ==
    IF ~Holds(p, k) THEN p
    ELSE IF p.recovering THEN Retained(p)
    ELSE IF p.pending.retain \/ p.pending.known # None THEN p
    ELSE Dropped(p, k)

\* renderSnapshotMessages and resolveSessionSnapshot: a pending question that
\* the snapshot shows is settled, and the active turn is the snapshot's.
Rendered(p, snapshot) ==
    LET active == {k \in Keys : snapshot[k] = "active"}
        shows(q) == \/ q.known # None /\ snapshot[q.known] # "absent"
                    \/ \E k \in active : question[k].text = question[q.key].text
    IN  [p EXCEPT !.activeTurn = IF active = {} THEN None ELSE CHOOSE k \in active : TRUE,
                  !.pending = IF @ # None /\ shows(@) THEN None ELSE @]

GuardHolds(x) == panel.gen = task[x].gen /\ panel.session = task[x].session

-----------------------------------------------------------------------------
\* Requests and connections.

\* request(): sent if the transport is open, rejected at once if not.
Request(x, r, at) ==
    LET open == link'[r.conn] = "open" IN
    /\ task' = [task EXCEPT ![x] = [r EXCEPT !.at = at, !.failed = ~open]]
    /\ inbox' = IF open
                THEN [inbox EXCEPT ![r.conn] =
                        Append(@, [from |-> x, kind |-> at, session |-> r.session, key |-> r.key])]
                ELSE inbox
    /\ sent' = IF open /\ at = "sending" THEN sent \cup {r.key} ELSE sent

Finish(x) == task' = [task EXCEPT ![x] = Idle]
Say(to, says, s, k, snapshot) ==
    [to |-> to, says |-> says, session |-> s, key |-> k, snapshot |-> snapshot]

Hung(l, c) == IF c = None THEN l ELSE [l EXCEPT ![c] = "closed"]

\* ensure(): the old client is closed and a new one connects.  Connections are
\* alike; when none is left the host cannot be reached.
Dial(x, r, p, t, l) ==
    LET unused == {d \in Conns : l[d] = "unused"}
        d == CHOOSE d \in unused : TRUE
    IN  /\ panel' = [p EXCEPT !.current = None]
        /\ IF unused = {}
           THEN /\ link' = Hung(l, p.current)
                /\ task' = [t EXCEPT ![x] = [r EXCEPT !.at = "connecting", !.failed = TRUE]]
           ELSE /\ link' = [Hung(l, p.current) EXCEPT ![d] = "connecting"]
                /\ task' = [t EXCEPT ![x] = [r EXCEPT !.at = "connecting", !.conn = d]]

\* Nothing is received from a connection that is not open; the requests that a
\* closed one leaves behind may still be handled, and nobody is answered.
Unheard == outbox' = [c \in Conns |-> IF link'[c] = "open" THEN outbox[c] ELSE <<>>]
Orphans(calls) == [i \in 1..Len(calls) |-> [calls[i] EXCEPT !.from = None]]
HangUp ==
    /\ Unheard
    /\ inbox' = [c \in Conns |-> IF link'[c] = "closed" THEN Orphans(inbox[c]) ELSE inbox[c]]

\* ensureActiveSession.  The client may be another than the one subscribed.
EnsureActiveSession(x, r, p) ==
    /\ panel' = p
    /\ IF p.session = None THEN Request(x, r, "creating")
       ELSE IF ~p.subscribed THEN Request(x, [r EXCEPT !.session = p.session], "subscribing")
       ELSE Request(x, [r EXCEPT !.session = p.session],
                    IF r.retry THEN "sending" ELSE "attaching")

\* Mutant of UseClient: a recovery does not subscribe again.
UseClientUnsubscribed(x, r, p) ==
    IF x = "ask" THEN EnsureActiveSession(x, r, p)
    ELSE panel' = p /\ Request(x, r, "fetching")

UseClient(x, r, p) ==
    IF x = "ask" THEN EnsureActiveSession(x, r, p)
    ELSE panel' = p /\ Request(x, r, "subscribing")

\* ensurePreferredProtocolClient keeps the subscription of a client that it
\* replaces; ensureProtocolClient does not.
Reach(x, r, p) ==
    IF Matches(p)
    THEN UNCHANGED <<link, outbox>> /\ UseClient(x, [r EXCEPT !.conn = p.current], p)
    ELSE /\ Dial(x, r, IF r.retry THEN [p EXCEPT !.subscribed = FALSE] ELSE p, task, link)
         /\ HangUp
         /\ UNCHANGED sent

\* handleProtocolConnectionLost: whichever connection was lost, the current one
\* is closed, and a chat with something under way is recovered.
ConnectionLost(c, t, l) ==
    LET p == Disconnected(panel) IN
    IF p.session # None /\ (p.activeTurn # None \/ InFlight)
    THEN Dial(c, [Idle EXCEPT !.session = p.session, !.gen = p.gen],
              [Retained(p) EXCEPT !.recovering = TRUE], t, Hung(l, panel.current))
    ELSE panel' = p /\ task' = t /\ link' = Hung(l, panel.current)

-----------------------------------------------------------------------------
\* askCodex and the recoveries.

PageStep == UNCHANGED <<daemonVars, question, told, crossed>>

\* As PageStep, for a step that may replace a client which still has a
\* subscription or an active turn.
ReachStep ==
    /\ LET replaced == link' # link /\ panel.current # None IN
       crossed' = (crossed \/ (replaced /\ (panel.subscribed \/ panel.activeTurn # None)))
    /\ UNCHANGED <<daemonVars, question, told>>

\* The button: a pending question with the same text is asked again under its
\* key, if its page has not changed; any other is captured and given a new one.
Submit(text) ==
    /\ ~AskDisabled
    /\ LET q == panel.pending
           again == q # None /\ q.session = panel.session /\ question[q.key].text = text
       IN  /\ again \/ \E k \in Keys : question[k].text = None
           /\ task' = [task EXCEPT !["ask"] =
                IF again THEN [Idle EXCEPT !.at = "scope", !.retry = TRUE, !.key = q.key, !.text = text]
                ELSE [Idle EXCEPT !.at = "capturing", !.text = text]]
    /\ PageStep
    /\ UNCHANGED <<panel, link, inbox, outbox, sent>>

\* assertPendingSubmittedQuestionCaptureScopeFresh: the tab may have moved on.
ScopeChecked(fresh) ==
    /\ task["ask"].at = "scope"
    /\ LET k == task["ask"].key IN
       IF fresh
       THEN Reach("ask", task["ask"], IF Holds(panel, k) THEN Retained(panel) ELSE panel)
       ELSE /\ panel' = Dropped(panel, k)
            /\ Finish("ask")
            /\ UNCHANGED <<link, inbox, outbox, sent>>
    /\ ReachStep

CaptureDone(captured) ==
    /\ task["ask"].at = "capturing"
    /\ IF captured THEN Reach("ask", task["ask"], panel)
       ELSE Finish("ask") /\ UNCHANGED <<panel, link, inbox, outbox, sent>>
    /\ ReachStep

\* The client that connected last is the current one; an earlier one stays
\* open and heard.
Connected(x) ==
    /\ task[x].at = "connecting"
    /\ LET d == task[x].conn IN
       /\ link' = [link EXCEPT ![d] = "open"]
       /\ crossed' = (crossed \/ panel.subscribed \/ \E c \in Conns : link[c] = "open")
       /\ UseClient(x, task[x], [panel EXCEPT !.current = d])
    /\ UNCHANGED <<outbox, daemonVars, question, told>>

ConnectFails(x) ==
    /\ task[x].at = "connecting"
    /\ link' = [link EXCEPT ![task[x].conn] = "closed"]
    /\ task' = [task EXCEPT ![x].failed = TRUE]
    /\ PageStep
    /\ UNCHANGED <<panel, inbox, outbox, sent>>

\* handleSessionRecoveryError, unless the chat is no longer the one recovered.
RecoveryFails(x, says) ==
    panel' = IF ~GuardHolds(x) THEN panel
             ELSE IF says = "not_found" THEN Cleared(panel) ELSE Unblocked(panel)

\* A rejection reaches its catch.
Reject(x) ==
    /\ task[x].failed
    /\ IF x # "ask" THEN RecoveryFails(x, "refused")
       ELSE panel' = IF task[x].at \in {"sending", "fetching"} THEN Caught(panel, task[x].key)
                     ELSE panel
    /\ Finish(x)
    /\ PageStep
    /\ UNCHANGED <<link, inbox, outbox, sent>>

-----------------------------------------------------------------------------
\* What the page receives.  `r' is the task the message answers.

\* A subscription that succeeds, for the ask and for a recovery.
Subscribed(x, r) ==
    IF x # "ask" THEN UNCHANGED panel /\ Request(x, r, "fetching")
    ELSE /\ panel' = IF r.at = "subscribingNew"
                     THEN [panel EXCEPT !.session = r.session, !.subscribed = TRUE]
                     ELSE [panel EXCEPT !.subscribed = (panel.session = r.session)]
         /\ Request(x, r, IF r.retry THEN "sending" ELSE "attaching")

\* A session the daemon has forgotten: a fresh ask goes on in a new one, a
\* retried question is given up, a recovery clears the chat.
SessionGone(x, r) ==
    IF x # "ask" THEN RecoveryFails(x, "not_found") /\ Finish(x) /\ UNCHANGED <<inbox, sent>>
    ELSE /\ panel' = Cleared(panel)
         /\ IF r.retry THEN Finish(x) /\ UNCHANGED <<inbox, sent>>
            ELSE Request(x, r, "creating")

\* The attachment is stored; the question gets its key and is sent.
Attached(r) ==
    LET k == CHOOSE k \in Keys : question[k].text = None IN
    /\ question' = [question EXCEPT ![k].text = r.text, ![k].session = r.session]
    /\ panel' = [panel EXCEPT !.pending =
                    [key |-> k, session |-> r.session, retain |-> FALSE, known |-> None]]
    /\ Request("ask", [r EXCEPT !.key = k], "sending")

\* recordPersistedIds and renderAcceptedSubmittedQuestion; a snapshot instead if
\* the question had been asked before; or an error.
SendAnswered(r, says) ==
    CASE says = "accepted" ->
            /\ panel' = [Dropped(panel, r.key) EXCEPT !.activeTurn = r.key]
            /\ Finish("ask") /\ UNCHANGED <<inbox, sent>>
      [] says = "reused" ->
            /\ panel' = Known(panel, r.key)
            /\ Request("ask", [r EXCEPT !.gen = panel.gen], "fetching")
      [] says = "terminal" ->
            /\ panel' = Dropped(panel, r.key)
            /\ Finish("ask") /\ UNCHANGED <<inbox, sent>>
      [] OTHER ->
            /\ panel' = Caught(panel, r.key)
            /\ Finish("ask") /\ UNCHANGED <<inbox, sent>>

\* Mutant of Fetched: the recovery is over without saying so.
FetchedStillRecovering(x, r, snapshot) ==
    /\ panel' = IF ~GuardHolds(x) THEN panel
                ELSE LET p == Rendered([panel EXCEPT !.subscribed = TRUE], snapshot) IN
                     IF x = "ask" THEN Dropped(p, r.key) ELSE p
    /\ Finish(x) /\ UNCHANGED <<inbox, sent>>

\* loadAndRenderSessionSnapshot and what its callers do after it.
Fetched(x, r, snapshot) ==
    /\ panel' = IF ~GuardHolds(x) THEN panel
                ELSE LET p == Rendered([panel EXCEPT !.subscribed = TRUE], snapshot) IN
                     IF x = "ask" THEN Dropped(p, r.key) ELSE [p EXCEPT !.recovering = FALSE]
    /\ Finish(x) /\ UNCHANGED <<inbox, sent>>

Respond(x, m) ==
    LET r == task[x] IN
    /\ told' = told \cup (IF r.at = "sending" THEN {r.key} ELSE {})
                    \cup (IF m.snapshot = None \/ ~GuardHolds(x) THEN {}
                          ELSE {k \in Keys : m.snapshot[k] # "absent"})
    /\ IF m.says = "not_found" /\ (x # "ask" \/ r.at = "subscribing")
       THEN SessionGone(x, r) /\ UNCHANGED question
       ELSE CASE r.at = "sending" -> SendAnswered(r, m.says) /\ UNCHANGED question
              [] r.at = "creating" /\ m.says = "ok" ->
                    /\ Request(x, [r EXCEPT !.session = m.session], "subscribingNew")
                    /\ UNCHANGED <<panel, question>>
              [] r.at = "attaching" /\ m.says = "ok" -> Attached(r)
              [] r.at = "fetching" /\ m.says = "ok" ->
                    Fetched(x, r, m.snapshot) /\ UNCHANGED question
              [] r.at \in {"subscribing", "subscribingNew"} /\ m.says = "ok" ->
                    Subscribed(x, r) /\ UNCHANGED question
              [] OTHER ->
                    /\ panel' = IF r.at = "fetching" THEN Caught(panel, r.key) ELSE panel
                    /\ Finish(x)
                    /\ UNCHANGED <<inbox, sent, question>>

\* handleSidekickNotification.
Notified(m) ==
    /\ panel' =
         IF m.says = "ended"
         THEN [panel EXCEPT !.activeTurn = IF @ = m.key THEN None ELSE @]
         ELSE IF panel.pending # None /\ panel.session = m.session
                 /\ panel.pending.session = m.session
                 /\ question[panel.pending.key].text = question[m.key].text
         THEN [panel EXCEPT !.pending.known = m.key]
         ELSE panel
    /\ UNCHANGED <<task, inbox, sent, question, told>>

Receive(c) ==
    /\ link[c] = "open" /\ outbox[c] # <<>>
    /\ UNCHANGED link
    /\ LET m == Head(outbox[c]) IN IF m.to = "page" THEN Notified(m) ELSE Respond(m.to, m)
    /\ outbox' = [outbox EXCEPT ![c] = Tail(@)]
    /\ UNCHANGED <<daemonVars, crossed>>

-----------------------------------------------------------------------------
\* Losses and timeouts.

\* The server has begun to close the WebSocket: nothing can be sent, and the
\* page has not been told.
Stall(c) ==
    /\ ~Native
    /\ link[c] = "open"
    /\ link' = [link EXCEPT ![c] = "stalled"]
    /\ Unheard
    /\ PageStep
    /\ UNCHANGED <<panel, task, inbox, sent>>

\* onDisconnect: every request of the connection is rejected, after the loss is
\* reported.
Lose(c) ==
    /\ link[c] \in {"open", "stalled"}
    /\ ConnectionLost(c,
          [x \in Tasks |-> IF task[x].conn = c /\ task[x].at \in Requests
                           THEN [task[x] EXCEPT !.failed = TRUE] ELSE task[x]],
          Hung(link, c))
    /\ HangUp
    /\ PageStep
    /\ UNCHANGED sent

Disown(x, calls) ==
    [i \in 1..Len(calls) |-> IF calls[i].from = x THEN [calls[i] EXCEPT !.from = None] ELSE calls[i]]

Without(x, posts) ==
    LET answers == {i \in 1..Len(posts) : posts[i].to = x} IN
    IF answers = {} THEN posts ELSE RemoveAt(posts, CHOOSE i \in answers : TRUE)

\* A request is not answered in time, or its connection was closed by the page.
\* A late answer is ignored; a message/send takes its connection with it.
\* MaxLate bounds the late requests of a connection.
Timeout(x) ==
    /\ task[x].at \in Requests
    /\ LET c == task[x].conn
           t == [task EXCEPT ![x].failed = TRUE]
           late == {i \in 1..Len(inbox[c]) : inbox[c][i].from = None}
       IN  /\ link[c] = "closed" \/ Cardinality(late) < MaxLate
           /\ IF task[x].at = "sending" /\ link[c] \in {"open", "stalled"}
              THEN ConnectionLost(c, t, Hung(link, c))
              ELSE task' = t /\ UNCHANGED <<panel, link>>
           /\ inbox' = [inbox EXCEPT ![c] =
                          IF link'[c] = "closed" THEN Orphans(@) ELSE Disown(x, @)]
           /\ handling' = [handling EXCEPT ![c] =
                             IF @ # None /\ @.from = x THEN [@ EXCEPT !.from = None] ELSE @]
           /\ outbox' = [d \in Conns |-> IF link'[d] = "open"
                            THEN Without(x, outbox[d]) ELSE <<>>]
    /\ UNCHANGED <<subs, store, fate, question, sent, told, crossed>>

\* The panel is closed and opened again: of the chat, the marker is left.
Reload ==
    /\ MayReload
    /\ panel.session # None
    /\ \E d \in Conns : link[d] = "unused"
    /\ Dial("restore", [Idle EXCEPT !.session = panel.session],
            [FreshPanel EXCEPT !.session = panel.session, !.activeTurn = panel.activeTurn,
                               !.recovering = TRUE],
            [x \in Tasks |-> Idle],
            [c \in Conns |-> IF link[c] = "unused" THEN "unused" ELSE "closed"])
    /\ HangUp
    /\ PageStep
    /\ UNCHANGED sent

-----------------------------------------------------------------------------
\* The daemon.

\* To an open connection only; an answer nobody waits for is left out.
Post(posts) ==
    outbox' = [c \in Conns |-> IF link[c] = "open" THEN outbox[c] \o posts[c] ELSE <<>>]
Answer(q, says, s, snapshot) ==
    IF q.from = None THEN <<>> ELSE <<Say(q.from, says, s, q.key, snapshot)>>
\* A notification about question k, to those subscribed that hear of it.
Hears(c, k, s) == s \in subs[c] /\ (Native => question[k].conn = c)
Notice(says, k) == Say("page", says, question[k].session, k, None)
Only(c, posts) == [d \in Conns |-> IF d = c THEN posts ELSE <<>>]

DaemonStep == UNCHANGED <<pageVars, sent, told, crossed>>

\* Every request but a message/send that begins a turn is answered at once.
Handle(c) ==
    /\ handling[c] = None /\ inbox[c] # <<>>
    /\ inbox' = [inbox EXCEPT ![c] = Tail(@)]
    /\ LET q == Head(inbox[c])
           known == q.session # None /\ store[q.session] = "known"
           \* the key and the attachment are of the session the question was asked in
           own == question[q.key].session = q.session
           reply(says) == Post(Only(c, Answer(q, says, q.session, None)))
       IN
       \/ /\ q.kind \in {"subscribing", "subscribingNew"}
          /\ subs' = IF known THEN [subs EXCEPT ![c] = @ \cup {q.session}] ELSE subs
          /\ reply(IF known THEN "ok" ELSE "not_found")
          /\ UNCHANGED <<handling, store, fate, question>>
       \/ /\ q.kind = "creating"
          /\ \/ \E s \in Sessions :
                   /\ store[s] = "unused"
                   /\ store' = [store EXCEPT ![s] = "known"]
                   /\ Post(Only(c, Answer(q, "ok", s, None)))
             \/ UNCHANGED store /\ reply("refused")
          /\ UNCHANGED <<handling, subs, fate, question>>
       \/ /\ q.kind = "attaching"
          /\ reply(IF known THEN "ok" ELSE "not_found")
          /\ UNCHANGED <<daemonVars, question>>
       \/ /\ q.kind = "fetching"
          /\ IF known
             THEN Post(Only(c, Answer(q, "ok", q.session,
                    [k \in Keys |-> IF question[k].session = q.session THEN fate[k] ELSE "absent"])))
             ELSE reply("not_found")
          /\ UNCHANGED <<daemonVars, question>>
       \/ /\ q.kind = "sending"
          /\ IF fate[q.key] = "absent" /\ known /\ own /\ \A k \in Keys : fate[k] # "active"
             THEN /\ fate' = [fate EXCEPT ![q.key] = "active"]
                  /\ handling' = [handling EXCEPT ![c] = q]
                  /\ question' = [question EXCEPT ![q.key].conn = c]
                  /\ Post([d \in Conns |-> IF d # c /\ ~Native /\ q.session \in subs[d]
                                           THEN <<Notice("created", q.key)>> ELSE <<>>])
             ELSE /\ reply(IF ~known THEN "not_found"
                           ELSE IF own /\ fate[q.key] = "failed" THEN "terminal"
                           ELSE IF own /\ fate[q.key] # "absent" THEN "reused"
                           ELSE "refused")
                  /\ UNCHANGED <<handling, fate, question>>
          /\ UNCHANGED <<subs, store>>
    /\ DaemonStep

\* The handler returns: Codex has started the turn, or has not.
SendHandled(c, started) ==
    /\ handling[c] # None
    /\ LET q == handling[c]
           others == IF started THEN <<>> ELSE <<Notice("ended", q.key)>>
       IN  /\ fate' = IF started THEN fate ELSE [fate EXCEPT ![q.key] = "failed"]
           /\ Post([d \in Conns |->
                 (IF d = c THEN Answer(q, IF started THEN "accepted" ELSE "refused",
                                       q.session, None) ELSE <<>>)
                 \o (IF Hears(d, q.key, q.session)
                     THEN (IF d = c THEN <<Notice("created", q.key)>> ELSE <<>>) \o others
                     ELSE <<>>)])
    /\ handling' = [handling EXCEPT ![c] = None]
    /\ UNCHANGED <<inbox, subs, store, question>>
    /\ DaemonStep

\* The stream of a turn ends it.
TurnEnds(k, outcome) ==
    /\ fate[k] = "active"
    /\ handling[question[k].conn] = None
    /\ fate' = [fate EXCEPT ![k] = outcome]
    /\ Post([c \in Conns |-> IF Hears(c, k, question[k].session)
                             THEN <<Notice("ended", k)>> ELSE <<>>])
    /\ UNCHANGED <<inbox, handling, subs, store, question>>
    /\ DaemonStep

\* The daemon's end of a connection closes; a native host fails its turns.
DropConn(c) ==
    /\ link[c] = "closed" /\ handling[c] = None
    /\ LET owned == {k \in Keys : Native /\ fate[k] = "active" /\ question[k].conn = c} IN
       /\ inbox[c] # <<>> \/ owned # {}
       /\ fate' = [k \in Keys |-> IF k \in owned THEN "failed" ELSE fate[k]]
    /\ inbox' = [inbox EXCEPT ![c] = <<>>]
    /\ UNCHANGED <<outbox, handling, subs, store, question>>
    /\ DaemonStep

\* The daemon comes back with another database.
Forget ==
    /\ MayForget
    /\ \A c \in Conns : link[c] \notin {"open", "stalled"} /\ handling[c] = None /\ inbox[c] = <<>>
    /\ \E s \in Sessions : store[s] = "known"
    /\ store' = [s \in Sessions |-> IF store[s] = "known" THEN "forgotten" ELSE store[s]]
    /\ fate' = [k \in Keys |-> IF fate[k] = "active" THEN "failed" ELSE fate[k]]
    /\ UNCHANGED <<inbox, outbox, handling, subs, question>>
    /\ DaemonStep

-----------------------------------------------------------------------------
\* A rejection is handled before the next event.
Settled == \A x \in Tasks : ~task[x].failed

AskSteps == \/ \E fresh \in BOOLEAN : ScopeChecked(fresh)
            \/ \E captured \in BOOLEAN : CaptureDone(captured)
TaskSteps(x) == Connected(x) \/ ConnectFails(x) \/ Timeout(x)
Serves(c) == Handle(c) \/ \E started \in BOOLEAN : SendHandled(c, started)

Event ==
    \/ \E text \in Texts : Submit(text)
    \/ AskSteps
    \/ \E x \in Tasks : TaskSteps(x)
    \/ \E c \in Conns : Receive(c) \/ Stall(c) \/ Lose(c) \/ Serves(c) \/ DropConn(c)
    \/ \E k \in Keys, outcome \in {"completed", "failed"} : TurnEnds(k, outcome)
    \/ Reload
    \/ Forget

Next == (\E x \in Tasks : Reject(x)) \/ (Settled /\ Event)

Spec == Init /\ [][Next]_vars

\* The page's event loop goes on, every request has a timer, a socket that is
\* closing closes, the daemon serves its connections, and Codex ends its turns.
FairSpec ==
    /\ Spec
    /\ \A x \in Tasks : WF_vars(Reject(x)) /\ WF_vars(Settled /\ TaskSteps(x))
    /\ WF_vars(Settled /\ AskSteps)
    /\ \A c \in Conns : /\ WF_vars(Settled /\ Receive(c)) /\ WF_vars(Settled /\ Serves(c))
                        /\ WF_vars(Settled /\ link[c] = "stalled" /\ Lose(c))
    /\ \A k \in Keys :
          WF_vars(Settled /\ \E outcome \in {"completed", "failed"} : TurnEnds(k, outcome))

-----------------------------------------------------------------------------
\* A question that may have reached the daemon keeps its key until the page is
\* told what became of it, so that asking again cannot ask twice.  It is given
\* up only for another question, with its chat, or as its page has changed.  The
\* page takes a message it is shown for the question if the text is the same, so
\* once a question was told of, nothing is said of another one with its text.
QuestionIsKept ==
    [][LET q == panel.pending IN
       q # None /\ q.key \in sent /\ ~Holds(panel', q.key) =>
          \/ q.key \in told'
          \/ panel'.pending # None
          \/ panel'.session # q.session
          \/ task["ask"].at = "scope"
          \/ \E k \in told' : question[k].text = question[q.key].text
          \/ task'["restore"].at = "connecting"]_vars

\* While the page shows a turn as active it will hear of its end: a connection
\* carries the notification or will, or a loss that starts a recovery is near.
EndIsComing(k) ==
    \E c \in Conns :
        \/ link[c] = "stalled"
        \/ /\ link[c] = "open"
           /\ \/ fate[k] = "active" /\ Hears(c, k, question[k].session)
              \/ \E i \in 1..Len(outbox[c]) :
                    outbox[c][i].says = "ended" /\ outbox[c][i].key = k
PanelLearnsEnd ==
    Settled /\ panel.activeTurn # None /\ ~panel.recovering => EndIsComing(panel.activeTurn)

ActiveTurnIsWatched == ~crossed => PanelLearnsEnd

\* Whatever is lost, refused or late, the page lets its user ask again.
AskComesBack == AskDisabled ~> (~AskDisabled \/ crossed)
=============================================================================

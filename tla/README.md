# Screen Sidekick in TLA+

Specifications of the parts of Screen Sidekick that keep state: the session
store, the daemon that serves the side panel, the client that drives the Codex
app-server and what it makes of that server's output, the side panel with its
protocol connections, the native host, and what becomes of a captured page on
its way to Codex. TLC checks them on small instances; TLAPS proves the safety
results about the store, the daemon, the Codex client, the native host and the
stream of a turn for every instance. Paths are relative to the repository
(`src/` in `PROJECT.json`).

Contents: [the system](#the-system) · [the modules](#the-modules) ·
[the runs](#the-runs) · [bounds](#bounds) · [fairness](#fairness) ·
[the proofs](#the-proofs) · [disagreements](#disagreements-with-documents-and-code)
· [left out](#what-is-left-out) · [plan](#plan)

## The system

A browser extension shows a side panel. The panel captures the page, sends
questions to a daemon and shows the answers as they stream in. The daemon
stores sessions, messages and turns in SQLite and gives each question to
Codex, through an app-server process it spawns. The panel reaches a daemon
over a WebSocket (the desktop app's daemon) or through native messaging (a
native host, which runs a daemon in its own process, relays to one, or starts
one under WSL). Several daemons may have one database open.

| component | state | operations | correct when |
|---|---|---|---|
| session store (`crates/session`) | six tables under one lock | create a session or an attachment; begin, mark, complete, fail, cancel a turn; recover; link and clear a Codex thread | the tables agree about each turn; one turn is active; a turn ends once; the answer to a repeated request is final once it says the turn failed |
| daemon (`crates/sidekick-daemon`) | per connection: handler, owned turns, subscriptions; per turn: a stream task; a broadcast channel of notifications | message/send, turn/cancel, session/subscribe and unsubscribe; the stream's events; the cleanup of a closed connection; start with or without recovery | every turn ends, once, and its end is announced once, last, to every subscriber; a message is given to Codex once |
| Codex client (`crates/codex-client`) | the cached process, whether it is initialized, its stdout, a fair lock; a reader per stream | start_turn, the reader, readiness | one process; its output has one owner; a turn's stream ends; a failure stays with its turn |
| native host (`crates/sidekick-native-host`) | a frame being read, the sidecar's connection, a WSL child | the in-process loop, the relay, startup and shutdown of WSL | requests are handled in order and each once; setup-required is said once; no process is left behind |
| side panel (`apps/extension/src/side_panel*.ts`) | current session, active turn, submission in flight, pending submission with its key, the recovery | ask, notification, loss of a connection, recovery, new chat | a question that may have reached the daemon is neither lost nor asked twice; the panel never waits for ever |
| protocol clients (`apps/extension/src/sidekick_protocol`) | pending requests by id, subscribers | request, answer, timeout, disconnect | every request ends; an answer goes to its request |
| Codex output (`codex-client`, `handlers/turn/stream.rs`) | unread lines, the events of a stream, the texts collected so far | read a response, map a line to an event, take an event | what is shown, stored and failed of a turn is what was said of that turn |
| capture pipeline, safety, redaction, screen context, prompt | none that outlives a call | review and mask a page, redact its URL, build the prompt | nothing secret leaves, nothing harmless is masked, the review is about the page that was seen |
| HTTP boundary and bridge, `initialize`, `context/attach_browser` | whether a connection is initialized; the stored attachment | capture, preflight, connect, initialize, attach, give to Codex | nothing is stored, sent or told before the caller is known |
| page capture, protocol types | none that outlives a call | | (not modelled; see below) |
| desktop app | the daemon and the capture bridge it starts | start, stop, capture | (the recovering daemon of `Daemon`, the bridge in `BrowserContext`) |

How they meet. The panel's requests carry an idempotency key; the daemon runs
one request of a connection at a time, and while a handler waits for Codex the
tasks of other connections and turns run. Handlers and stream tasks write to
the store and then broadcast; every connection forwards what its client
subscribed to. All of a daemon's tasks share one Codex client and one lock of
the database; a second daemon process shares only the database.

What is hard in it, and where a property looks at it, is the list of hazards
in `PROJECT.json`. In short: a turn can be ended by its stream, its handler, a
cancel, the cleanup of its connection, or the recovery of another process; a
handler reads the store, waits for Codex and writes; an error between two
operations leaves a turn half-started; a slow receiver loses events; a client
repeats a request whose answer it lost; a reader outlives the process it reads.

## The modules

| module | models | relation to the others |
|---|---|---|
| `TurnLifecycle` | what the store promises about turns, with no tables | abstract |
| `SessionStore` | the tables, and one action per operation of `crates/session` | extended by the two below |
| `SessionClients` | the store under any order of the calls the daemon makes | implements `TurnLifecycle` |
| `SessionStoreProofs` | what the store's operations keep and write | the lemmas that the next two share |
| `SessionClientsProofs` | theorems about `SessionClients` | |
| `DaemonProofs` | theorems about `Daemon`, and that it implements `SessionClients`, for every instance | carries the theorems of `SessionClientsProofs` to the daemon |
| `CodexClientProofs`, `SidePanelProofs`, `NativeHostProofs`, `TurnStreamProofs`, `BrowserContextProofs` | theorems about the module of that name | |
| `Daemon` | connections, handlers, stream tasks, channel, cleanup, restarts | implements `SessionClients` |
| `CodexClient` | the cached app-server process and those who share it | stands behind `CodexStarts`, `FailStarting` and the stream actions of `Daemon` |
| `SidePanel` | the panel's chat, its asks, recoveries and connections, and a daemon seen through them | its daemon promises less than `Daemon` does: requests in order, one active turn |
| `NativeHost` | the process between a native port and a daemon: runtime, frames, loop, relay, WSL child | the host process that `SidePanel` (with `Native`) has one of per connection; its daemon is `Daemon` with everything but the turn's fate left out |
| `TurnStream` | the app-server's output as lines, what the client makes events of, and what the stream task makes texts of | the data that `CodexClient` (processes and locks) and `Daemon` (who hears what) leave out |
| `PageTexts` | what a text of a page is made of | extended by the two below |
| `Redaction` | the functions of `redaction.rs`: what is masked in a text, what is taken out of a URL | the rules that `MCBrowserContext` gives `BrowserContext` |
| `BrowserContext` | a page behind redirects, its review, the HTTP boundary, and the requests that bring it to Codex | the rules for texts are parameters, `TextRule` and `UrlRule`; its attachment is a row of `SessionStore` |
| `MC...` | instances for TLC | |

**SessionStore.** One variable per column that a property can tell apart:
`status`, `sessionOf` and `codexTurn` are columns of `turns`, `activeTurn` of
`sessions`, `userMessage` and `answers` stand for the rows of `messages`, `idem`
for `idempotency_keys`, `attachments` and `threadLink` for their tables. An
operation is a transaction under the store's mutex, so it is one action, and
one that returns an error has rolled back and is no step. A turn's user message
is created with the turn and named by it. `BeginTurnAnswer` keeps the order of
`begin_turn`'s checks (the retry is looked up before anything else), and
`MarkTurnRunning` keeps what the SQL does: no condition on the old status, and
the unique index `turns_one_active_per_session` as the only thing that can
reject it.

**SessionClients.** The same operations, restricted to the order in which the
daemon may call them: `starting` is the set of turns whose handler has begun
the turn and has not yet marked it. `SharedStore` says whether another process
may recover while a handler is in that window.

**Daemon.** An action is the code between two awaits or two operations on the
store. `pc` is where a connection's loop is: `idle`, one of the waits of
`handle_message_send` (`loading`, `starting`, `retrying`, `linking`, `marking`),
`cancelling`, or `closing`. Codex's answers are chosen freely. `queue` is what
the broadcast channel holds for a receiver: a receiver that is `Cap` events
behind is `lagged`, as tokio's `broadcast` reports it, and its loop ends.
With `StoreMayFail` any operation of the store may return an error, before it
has written or after: `mark_turn_running`, `complete_turn` and the two that fail
and cancel a turn commit first and then read the turn back. `stranded` is
history: the turns whose handler or stream task was ended by an error
(`StoreFails`, which includes a mark that was committed), which only a recovery
can still end. `unheard` are those whose end was committed and not read back
(`EndUnheard`): the caller is given an error and broadcasts nothing.
`HandleSubscribe` takes snapshot and subscription together, for nothing is
awaited between them. `view` records what a client was told, for the
properties. A daemon in `Recovering` starts with `RecoverInterrupted`; a crash
loses everything but the store.

**CodexClient.** The lock is tokio's fair mutex, so `lock` is its queue and the
head holds it. `pipe[t]` is the process whose output the reader of `t` took:
it need not be the cached one when the reader comes back. `ended` are turns
that the daemon ended itself; they matter because the daemon may then start
another while the first one's reader is still running. `told` says what the
caller was given: nothing yet, a terminal event, or an error.

**SidePanel.** The page has one thread, so an action is what it does between
two awaits: `task` holds where the ask (`askCodex`) and each recovery wait, and
in which connection. A rejected promise runs its `catch` before the next event:
the step that rejects sets `failed`, and only `Reject` is enabled until the
handler has run (`Settled`). `panel` is the state of
`side_panel_active_session.ts`, `side_panel_pending_submission.ts` and the
current client of `side_panel_protocol_connection.ts`; `link` is what the
transport of each connection reports, `stalled` being a WebSocket whose
`readyState` is no longer open while its close event has yet to come. `inbox`
and `outbox` are the two directions of a connection, in order. The daemon's
half is `Handle` (every request that is answered at once), `SendHandled` (the
return of `message/send`), `TurnEnds` and `DropConn`. With `Native` each
connection has a host process of its own: the database is common, the
notifications are not. A turn is named by the key of its question. `sent`,
`told` and `crossed` are history, for the properties: what was given to a
connection, what the page was told of, and whether a connection was opened
beside one the chat relied on.

**NativeHost.** `host` is where the process is: one of the three loops that read
frames (`serving` in process, `relaying` to a WebSocket, `refusing` until there
is a request to answer with setup-required), the waits of the startup, the
wait for a handler (`handling`), the shutdown of the WSL daemon (`stopping`), or
the end. `Runtime` is `select_runtime` with the configuration it is given.
`pipe` is the stdin; a frame in `Large` arrives in two reads, and `reading` is
what a `read_native_message` that is still waiting has consumed: it is a local
of a future that `select!` drops when the other branch is ready (`DropRead`), so
what follows in the pipe is the middle of a frame. The next read takes it for a
length. Four bytes of JSON text make one above the limit, which ends the loop
(`FrameFails`); a rest of fewer bytes (`scrap`) makes one with the bytes of the
next frame's length, which may be within the limit: `astray` says that
`read_native_message` is in such a length, or in the text that it announces and
that runs through the following frames (`ReadAstray`). That text ends where a
frame does or within one, is handled like any other (`Misread`) unless it is not
UTF-8, and `lost` collects the requests whose bytes went that way. `Leave` is the
common end of every loop: the sockets are dropped, an in-process connection
fails its turn, and a WSL daemon's stdin is closed. `daemon`, `handling` and
`toDaemon` are the other process; in process, `handling` is the host's own and
`fromDaemon` its event receiver. `crashed` excuses a daemon that died.

**TurnStream.** `pipe` is what the process wrote and nobody has read. A line
carries its turn and, as its text, its place among the lines of that turn, so
that a property can say which text was taken. `reader` is `asking` in
`read_response` and `streaming` in `stream_turn_notifications`; `Answers`,
`Tells`, `Finishes`, `TellsStale` and `Garbles` are the app-server, which may
write of a turn before it answers its start, after it ended, and after the
daemon gave it up. A read of the pipe is an action with everything the code
does up to its next read or send. `chan` is the bounded channel of the stream,
and `task` with `deltas` and `final` the locals of `spawn_turn_stream`; what
`turn_is_active` says and what follows it are one action, since nothing is
awaited in between. `said`, `missed` and `trouble` are history, for the
properties. `tagged` says whether the messages of this app-server have phases.

**Redaction.** A text is a sequence of pieces, not of characters: tokens
(readable words, runs described by the lengths of their parts, groups of
digits) and the characters between them, each with the number of times it is
percent-encoded. That is what the code tells texts apart by: the words of a
key, the shape of a token, separators, and how many times they must be decoded
before they are seen. An operator stands for one function of `redaction.rs`
and has its name where that says what it is for.

**BrowserContext.** `page` starts as one of `Pages`: an address and items, the
title and the selection first and then the controls, each with its texts; each `Redirect` encodes
the address so far and puts it into the query, the fragment, a hash route or
the path of the next one. `conn` is the one connection, `ready` its
`initialized` flag, `reply` the answer its caller has not read, `stored` the
attachment, `prompted` what Codex was given. `proved` is history: the
connection has shown what it must. `HttpForeign`, `Preflight` and `HttpCapture`
are the endpoint that the daemon and the desktop's bridge each have, with
tokens of their own (the two files have the same functions).

## The runs

| run | shows |
|---|---|
| `store` | two sessions, two keys, three turns, an attachment, every order of calls of one process: the tables agree, one turn is active, ends and final answers stay, and the store implements `TurnLifecycle` |
| `daemon` | a WebSocket connection and a native-host connection on one daemon, two turns, a channel of two events: each end is announced once, nothing follows it, a subscriber is told or cut off, an owned turn is never forgotten |
| `daemon_restart` | one daemon that may die between any two steps and recovers as it starts, a native-host connection, two sessions and two Codex threads, and a store that may fail any operation: every active turn has someone to end it unless an error of the store stranded it, every other turn ends, no message goes to Codex twice, no session is linked to another's thread, and the store is used as `SessionClients` says |
| `daemon_two` | two daemons on one database, one of them recovering in the middle of what the other does: a session still has one active turn, and the refinement holds with `SharedStore` |
| `codex` | two turns, a readiness probe, three processes that may exit at any time: one process at most runs, its output has one owner, a follow-up is accepted at once, a probe never kills a process that has streamed, every start is answered and every stream ends |
| `side_panel` | two WebSocket connections, two sessions, two questions, timeouts, stalls, losses, a reload, a daemon that lost its sessions: a question that may have been sent keeps its key until the page is told its fate, an active turn that is shown is watched, and asking is possible again after every failure |
| `native_host` | a host in each of its runtimes, five requests, two of them in two reads and one with an answer that is too long: what its daemon is given is what was sent, in order, and only what was misread after a dropped read is passed over; setup-required is said alone; every request is answered or misread, or the host ends; with the port ends the host and the WSL daemon, and (but for WSL) the turn it owned |
| `turn_stream` | two turns on one process, each with up to two lines and an end, lines about the first in the output of the second: the stored answer is the last message of this turn (or all its deltas), the deltas shown are those that were sent, a turn fails for its own reasons only, and it ends unless its end came before the answer to its start |
| `browser_context` | thirteen kinds of secret and harmless pages behind up to two redirects, captured by HTTP and attached over a connection, with every order of requests, credentials, versions and bodies: nothing secret leaves, nothing harmless is masked but a UUID that an escape makes a card number of, the warnings and counts fit what is given, and nothing happens before the caller is known |
| `daemon_revive`, `side_panel_native`, `native_host_wsl` | counterexamples; see [below](#disagreements-with-documents-and-code) |

What each property says and the behaviour it is about stands above it in its
module. Every property of a passing run has a mutant in `PROJECT.json`: a
plausible bug (a dropped guard, a forgotten UPDATE, an event sent too early)
under which TLC finds it violated. Only the store's `TypeOK` is among the
runs; in the other modules it documents the variables.

## Bounds

- *Sessions, keys, hashes.* Two sessions are needed for an index per session
  to differ from a check of the whole store, two keys for two messages of a
  session, two hashes for a conflict. Runs in which only one session matters
  (`daemon`, `daemon_two`) have one.
- *Turns.* Three in the store (one ended, one active, one refused), two in the
  daemon (one whose late events meet the other's). A turn is never reused.
- *Connections and daemons.* One of each kind: a connection that cleans up
  (native host, sidecar) and one that does not; a daemon that recovers and one
  that does not.
- *Channel.* `Cap` is 1 or 2 events where the code has 256; what matters is
  that it can be full, which two events reach.
- *Processes.* Three of the app-server: the first, its replacement, and the
  replacement's. When no name is left a spawn can only fail, which is a
  behaviour of the code too.
- *Threads.* One or two; when none is left a start can only fail or time out.

- *The panel's connections.* Two: the first and the one a recovery or a later
  ask opens; when none is left the daemon cannot be reached, which is a
  behaviour of the code too. With three connections and one question the same
  properties hold. Two sessions, for the chat that is
  begun after the daemon has lost the first. Two questions and two texts, for
  the retry of one and the replacement of another. `MaxLate` bounds the timed-out
  requests that wait in an open connection to one; nothing depends on how many
  there are, since their answers are ignored.

- *The host's requests.* Five: initialize, the one that begins a turn, two whose
  read can be dropped, so that a misread text can end in the head of another
  frame, and one after them that can be lost, or handled after others were (and
  whose answer exceeds the limit). Two reads stand for many: what matters is
  that something was consumed and whether four bytes were left. A length and a
  text that are misread may run through as many frames as there are; which of
  the lengths that the bytes can make it is, is not told apart.

- *Lines and events.* In `turn_stream` two lines of a turn beside its end are
  what it takes for a message to follow a delta or another message, and the
  end to follow both; one line about the earlier turn can come anywhere. A pipe
  and a channel of one line make every writer wait; larger ones add
  interleavings that the properties do not tell apart. `MaxStale` bounds what
  an app-server may still say of a turn that is over.
- *Redirects.* Two: a secret that is a value in a value. The first may encode
  the address `MaxEncodings` = 6 times, one more than the code decodes, so
  both sides of that limit are reached; with two, no piece is encoded more than
  `MaxNested` = 2 times, which keeps the number of addresses small and still
  nests one URL in another. `MCPages` has a page for each way a secret is
  recognised (key, value-aware key, code, hexadecimal run, JWT, user, card,
  label) and for each that must not be (two UUIDs, one of which has fifteen digits
  with nothing but hyphens between them, slug, camel-case name, settings page).

The models have no other counters, and TLC explores each completely. Symmetry
is used over ids in runs that check no liveness.

## Fairness

`Daemon.FairSpec`: a handler goes on (`WF(Handler)`): the scheduler runs it, and
its wait for Codex is cut off by `codex_start_timeout` (30 s, around Codex's
own 25 s). A closing connection finishes its cleanup. A stream ends
(`WF(StreamEnds)`): the app-server ends its turns or its output ends, and
`CodexClient.EveryTurnTold` shows that the stream then does. A daemon that died
is started again, with recovery: `docs/dev/native-messaging-primary-transport-master-plan.md:104`
leaves stale turns to the normal daemon, the owner of the database, and
`TurnsEnd` says what that is worth: an active turn ends if its owner's daemon
is ever back. Nothing is assumed of clients: they need not send, receive,
subscribe or leave.

`CodexClient.FairSpec`: a task that can run does, each wait for the app-server
has a timeout (`StartBroken`, `ProbeInitializes`), and a stream ends as above.
The drop of a start by the daemon's own timeout is not needed and not assumed.

`SidePanel.FairSpec`: the page's event loop runs its tasks and reads its
connections; a connect ends one way or the other; every request has a timer
(`daemonRequestTimeoutMs`), so a request is answered or times out; a WebSocket
that is closing tells the page in the end; the daemon serves what it is sent and
Codex ends its turns (`Daemon.TurnsEnd`). Nothing is assumed of losses and of
the user.

`NativeHost.FairSpec`: the host's task runs and its timers fire (15 s for the
status line, 5 s for the end of the child); a browser that began a frame
finishes it or closes the port; a daemon that runs serves the connection and
notices that it was left. That `wsl.exe` ends when its stdin does is assumed only
for a host that was killed; one that runs kills the child instead. Nothing
is assumed of Codex: a turn need not end by itself.

`TurnStream.FairSpec`: the reader, `start_turn` and the stream task are tasks
that run when they can, and the app-server answers a start and ends a turn that
it accepted while its process lives (`WF(Answers)`, `WF(Finishes)`). It need not
write anything else. `BrowserContext` has no liveness.

## The proofs

Every proof is of a specification without fairness, from the assumptions on the
constants that its module states and nothing else, unless a table says so.

### The store

`SessionClientsProofs` proves, for all `Sessions`, `Keys`, `Hashes`, `Turns`,
`Attachments` and `Threads` (assuming only that `None` is in none of them):

| theorem | assuming | |
|---|---|---|
| `TypeCorrect` | | `TypeOK` |
| `OneActiveTurnHolds` | `SharedStore = FALSE` | one active turn in the store |
| `LedgersAgreeHolds` | `SharedStore = FALSE` | the tables agree about each turn |
| `TurnEndsOnceHolds` | `SharedStore = FALSE` | an ended turn stays as it ended |
| `RetryAnswerIsFinalHolds` | `SharedStore = FALSE` | the answer to a repeated request |
| `StoreImplementsLifecycle` | `SharedStore = FALSE` | the refinement of `TurnLifecycle` |
| `OneActiveTurnPerSessionHolds` | | one active turn in a session |
| `AttachmentsInSessionHolds` | | a linked attachment names a turn of its session |
| `AttachmentLinkedOnceHolds` | | a linked attachment is not given away |

The first group rests on an inductive invariant, `IInv`. `OneActiveTurn` and
`LedgersAgree` are not inductive alone: `MarkTurnRunning` writes `running` over
any status, so one must know that the turn it is given is still pending
(`StartingPending`), and `CancelTurn` is called for a turn with a Codex turn id,
which must not be one that is still starting (`CodexTurnMarked`). `BeginTurn`
takes a turn with no row, so that no session, message or key already names it
(`TurnsKnown`, `RowsNamed`). Each kind of step preserves `IInv` by one lemma; what
complete, fail and cancel share is `FinishTurnInv`, and the recovery is shown to
be the failing of the one active turn (`RecoverIsFail`), or of none, which lets
the later proofs treat it as such. `StepKinds` sorts every step into four
kinds (a turn begins, ends, is marked, or no turn changes), over which the
action properties and the refinement are argued.

With a second process on the database `IInv` is false (this is the
`daemon_revive` run). What survives needs no assumption: `SharedInv`, from
which the last three theorems follow, for the unique index and the condition
`message_id IS NULL` hold in one statement each.

### The Codex client

`CodexClientProofs` proves, for all `Turns`, `Probes` and `Procs` (assuming that
no turn is a probe and `None` is neither these nor a process), `Inductive` and:

| theorem | |
|---|---|
| `OneProcessHolds` | every app-server process that runs is the cached one |
| `OutputHasOneOwnerHolds` | the output missing from a live process is with a reader |
| `ProbeSparesStreamsHolds` | a probe never kills a process that has streamed a turn |
| `FollowUpAcceptedHolds` | when every stream has told its end, the next start is not refused |

The inductive invariant adds to the types three facts that the lock is for.
`LockInv`: whoever is between two uses of the process still heads the queue
(a dropped call leaves the queue from its middle, `LeaveKeepsHolder`), and a
probe in the middle of `initialize` found nobody had done it. `ReaderInv`: a
reader has the output of a process that was spawned, and its stream is told
nothing until it is done. `ProcInv`: a process that was killed does not run, and
one that has streamed is initialized, so a probe that discards the cached
process discards one that never streamed. `StepKinds` says that a step discards
the process, replaces a dead one, starts a stream, loses the process, or keeps
it; the properties are argued over these five, not over the seventeen actions.
`FollowUpAccepted` then follows from `OutputHasOneOwner` and `ReaderInv`.

### The daemon

`DaemonProofs` proves, for all `Daemons`, `Conns` (with any `daemonOf`),
`Sessions`, `Keys`, `Turns`, `Threads` and every `Cap`, whichever daemons
recover and whichever connections clean up:

| theorem | assuming | |
|---|---|---|
| `TypeCorrect` | | `TypeOK` |
| `JobsInductive` | | `JobInv`, which the others rest on |
| `OneCodexTurnHolds` | | a message goes to Codex as one turn |
| `LinkIsOwnThreadHolds` | | a session is linked to a thread created for it |
| `ActiveTurnIsDrivenHolds` | | an active turn has someone to end it, or is `stranded` |
| `OneEndNoticeHolds` | | the end is broadcast once, and is the one stored |
| `NothingAfterEndHolds` | | nothing about a turn follows its end in a queue |
| `OneActiveTurnPerSessionHolds` | | one active turn in a session |
| `OwnerKnowsTurnHolds` | `StoreMayFail = FALSE` | a connection that cleans up knows its active turns |
| `SubscriberLearnsEndHolds` | one daemon | who was told a turn is active will be told its end, or is cut off, unless the turn is `unheard` |

`JobInv` says whose a turn is. A handler between `begin_turn` and its return
works on a turn that its own connection began and that has no stream yet
(`JobStarts`); two handlers never work on one turn, since a connection runs one
and `sender` is written once, when the turn is born. Outside the handler, what
is owned by a connection has a stream (`OwnedStreams`), and one that has a Codex
turn id has no handler that still starts it (`CodexTurnsStarted`; it need not have
a stream, since the mark may have been committed and not read back), so that a
cancel or a cleanup never meets a turn that is still starting. `TurnSteps` sorts every step by what it does to the store (it
begins a turn, marks one, ends one, recovers, or leaves all turns alone), and
`JobSteps`, `StreamSteps`, `NoticeSteps`, `QueueSteps` and `ViewSteps` do the same for
the other state, so that a proof argues over kinds of steps and not over actions.

Over `JobInv` each property adds what it needs. `CodexInv`: a handler that has
yet to call `start_turn`, or calls it again on a fresh thread, has given Codex
nothing. `ThreadInv`: the thread in a handler's job belongs to its session, the
one it read or the one created for it. `DrivenInv`: a stream that is done left
its turn ended, or stranded. `NoticeInv` is the one for the announcements: a
turn that was announced has ended in the store (`EndedTold`), so that
whoever comes second finds it inactive and says nothing; a handler's turn is
not announced before it returns (`StartsUntold`); and an end in a queue was
broadcast (`QueueTold`), so that a broadcast about a turn never finds the end of
that turn in a queue. `SubscriberInv` follows an end from the broadcast to the
client: it is behind the event that says the turn started, or behind the
snapshot that said so, until it is taken or the receiver lags.

A committed end that the store could not read back is in no queue, which is the
one exception (`unheard`). The two assumptions are needed. When the store fails, a cleanup gives up at the
first error and its connection is gone, with its turns still active. A client
of one daemon does not hear what another one broadcasts.

`DaemonImplementsClients` is the refinement: every step of any number
of daemons is a step of `SessionClients` or a stutter, with `starting` the turns
that handlers work on and `SharedStore` true when there are two daemons. It
needs `JobInv`: that a handler marks the turn it began, that two handlers
never work on one, and that a crash abandons only turns that were starting. With
one daemon `SharedStore` is false, and the theorems of `SessionClientsProofs`
become theorems about the daemon: `OneActiveTurnAtATime`, `LedgersAgreeInDaemon`,
`TurnEndsOnceHolds` and `RetryAnswerIsFinalInDaemon`, through any crashes,
restarts and errors of the store. With two daemons they are false
(`daemon_revive`).

### The native host

`NativeHostProofs` proves, for every number of requests, whichever are large,
which one asks and whichever answer is too long:

| theorem | |
|---|---|
| `TypeCorrect` | `TypeOK` |
| `RequestsInOrderHolds` | the daemon is given what the extension sent, in order, each request once; what it is not given before a later request was misread, and the first to be lost is a large frame, whose read was dropped |
| `SetupMeansNothingDoneHolds` | after setup-required nothing else is said, and nothing beyond initialize was done |

The inductive invariant has one part for what lies in the pipe and one for what
was given. `PipeInOrder` and `ReadInOrder` say that requests follow each other
in the pipe as they were sent, the second part of a frame after the first, and
that the read that is waiting is of the request at its head. `LostInOrder` says
that a lost request comes no more, but for the end of the text that swallowed
it, and that a large one was lost before it. From these follows what a step
does to what is still to come (`ToCome`): the extension adds the next request,
the host takes the first, or some of it is lost. So what the daemon was given or
will be (`Given`) comes before all that is to come (`NoneSkipped`), and while the
host passes requests on (`HostInStep`) each is given, lost or to come. Nothing
is asked of a host that has left its loop.
`ToldInv` is for the second theorem: a host says nothing before its daemon has
answered initialize, and the extension sends nothing more until then, so a
host that says setup-required has said nothing and passed on one request at
most.

### The stream of a turn

`TurnStreamProofs` proves, for every number of turns and lines and every size of
the pipe and of the channel, with messages that have phases or not:

| theorem | |
|---|---|
| `FailureIsItsOwnHolds` | a turn fails for its own reasons only |
| `ShownIsHeardHolds` | the deltas shown are those heard, in order, none left out |
| `AnswerIsFinalHolds` | the answer stored is the last message of the turn |

The inductive invariant says that there is a line `r` of the turn which cuts
what the app-server said of it in two. The reader has read the lines up to `r`,
and the pipe holds the others, in order, among lines about earlier turns
(`ReaderInv`, `PipeInv`). While the stream task listens, each delta and each
message up to `r` is with the task or in the channel, in order (`DeltasTo`,
`MessagesTo`), and an end is the last event of the channel (`EndAt`). The reader
stops at the first end, so nothing that is said later changes what was heard.
That the last message is a maximum of a finite set of lines is `MaxProperties`,
from the well-foundedness of the naturals.

### The side panel

`SidePanelProofs` proves, for any numbers of connections, sessions, keys and
texts, whether or not the daemon may forget its sessions and the page be closed,
the first two over WebSockets (`Native = FALSE`) and over native messaging, the
third over WebSockets:

| theorem | |
|---|---|
| `TypeCorrect` | `TypeOK`: no current client is a closed one |
| `SentQuestionIsKept` | `QuestionIsKept`: a question that may have reached the daemon keeps its key |
| `ActiveTurnWatched` | `ActiveTurnIsWatched`: the page never waits for a turn whose end nobody tells it |

`IInv` is the inductive invariant. `KeptInv` is its heart: a question that is
asked again is retained for another retry, and of one that was sent, at least
one of three things is true: it is retained, its chat is no longer the one shown,
or its request is still waiting on a connection that has not closed. So when the
request is rejected the first or the second holds, and the `catch` does not drop the question.
This needs to know that an answer the ask receives is the answer to what it
asked, on a connection where calls of other tasks are under way, time out and
are answered late. `CallOK` says so: of the three places where a call of a task can be on
an open connection (the inbox, the handler, the outbox) at most one has it, it is
what the task waits for now, and its answer fits (`Fits`). A timeout removes the
call from whichever place it is in (`CallDropped`), a request adds one where there was
none (`CallMade`), and the daemon moves it along (`CallTaken`, `CallReturned`).
`TasksInv` keeps the tasks apart: a recovery is of a connection that is closed,
and no two tasks wait for one connection to open. `KeyInv` says that what the page
keeps of a question is what was asked, so that a snapshot that shows its text
shows it. A snapshot is searched for the text of the question, not for its key, so
that a told question may be taken for a later one with the same text:
`QuestionIsKept` says nothing of that later one. The lemmas on `Retained`, `Dropped`, `Known`, `Cleared`, `Caught` and
`Rendered` say what each does to a panel, and every handler's proof cites them.

`ActiveTurnWatched` rests on a second invariant, `WInv`, which follows a turn
from the daemon to the page. The turns that connection `c` will be told the end
of are `Watched(c)`: those that are active, of a session `c` is subscribed to.
`OutInv` says of everything in an outbox that announces a turn as active (the
answer "accepted", a snapshot) that the turn is watched there, or that its end
comes later in the same outbox (`EndsAfter`). It holds as the daemon posts an
answer before it looks at the next request, and as the end of a turn is posted
on every connection that watches it. So when the page receives the
announcement, the end is still to come, and `TurnInv` is kept. That the
connection it is received on is the one that counts is `ChatInv`: one connection
is open, it is the current one, and while the chat relies on its subscription
the connection has it; an ask that attaches, sends or fetches is of the chat
shown, on a connection that is subscribed to its session. This is what a
second connection breaks, one that takes the place of one the chat relies on, and
where `crossed` is needed. `AnswersInv` says that "ok" and "not found" are still
true when they are received, as sessions are only ever created and then
forgotten, and `FetchInv` that a recovery fetches what it has subscribed to. The proof has one
lemma for each handler of the page (`...Watch`, from `PageWatch`), which shows
`ChatInv` and `TurnInv`, and one for each step of the daemon (from `ServedWatch`,
`PostsWatch` and `TellsWatch`), which shows that what it posts is true and that
the end of a watched turn is in it. Over native messaging the theorem is false
(`side_panel_native`): a snapshot may show a turn of a port that is gone.

### The browser context

`BrowserContextProofs` proves, for every set of pages and secrets, every number of
redirects and encodings, and whatever `TextRule` and `UrlRule` are:

| theorem | relying on | |
|---|---|---|
| `TypeCorrect` | | `TypeOK` |
| `EntryIsCheckedHolds` | | nothing is stored, told or given to Codex before the caller is known |
| `NothingHidesHolds` | `RulesHide` | no secret is in a reply, in the store or in what Codex is given |
| `ReviewMatchesHolds` | `RulesTell` | the review stored and given to Codex is about the page that was seen |
| `BenignKeptHolds` | `RulesKeep` | a harmless page reaches Codex as it is |

`EntryInv` says that a connection that is ready has proved who it is, and that
where there is no connection nothing is stored; a failed `initialize`, a second
one, or an earlier connection take nothing away from that. `FlowInv` is the
invariant of the other three: whatever was captured, stored or given to Codex
is `ProcessCapture` of the page as it is now, through any order of captures over
HTTP, connections and requests, since the page is the last of its redirects
before anything of it is read. The three theorems are about what is between the
rules and Codex: that every text goes through a rule, the visible and the hidden
ones, the address and the label that the prompt and the summary choose; that the
review is made of the page before it is masked and counts what was masked, once
each (`MaskedCount`, over the finite set of a page's texts); and that nothing else of the page
is passed on. What they rely on is said of the texts of the page at hand, as
three state predicates: the rules return nothing that can be read (`RulesHide`),
say that they masked a text exactly if they changed it (`RulesTell`), and change
nothing of a harmless page (`RulesKeep`).

### Only model-checked

- What the rules of `Redaction` make of a text: a URL within a URL is redacted
  within a URL, as in the code, and what such a recursion computes is beyond the
  proof system. So `RulesHide`, `RulesTell` and `RulesKeep` are not proved of
  them; `browser_context` checks what follows from the three, on its pages.
- All liveness (`TurnsEnd`, `EveryTurnTold`, `AskComesBack`, `RequestsAnswered`,
  `EndsWithPort`, `OwnedTurnEnds`, `EndsUnlessMissed`), for which the proof
  system has no support.

## Disagreements with documents and code

- `daemon_revive`: `mark_turn_running` has no condition on the status. A turn
  that another process's recovery failed comes back to life, while its message
  and its idempotency row say it failed.
- `side_panel_native`: over native messaging, a panel that loses its port while
  the host is in `message/send` reconnects to a second host, subscribes and
  fetches a session whose turn is still active. The first host ends that turn
  and tells nobody else, so the panel shows it, and keeps its Ask button
  disabled, until it is loaded again.
- `native_host_wsl`: `docs/development.md:201` says that a turn begun through a
  WSL daemon's relay is failed when the relay closes. The port's end closes the
  relay and the daemon's stdin together, and the daemon then drops its runtime
  without waiting for its WebSocket task. A task that is waiting for Codex in
  `message/send` never reaches its cleanup; one that is idle may not. The turn
  stays active in the common database, where it blocks every later message
  until the desktop's daemon recovers.

More that the models show without a run of their own. An error of the store after
`begin_turn` is returned with `?` (`handlers/turn.rs:86` and on), and one in the
stream task ends it: the turn stays active, every later message is refused
until a daemon that recovers is started, though
`docs/dev/chat-first-browser-mvp-master-plan.md:130` says that a failed turn must
be visible as failed. `ActiveTurnIsDriven` and `TurnsEnd` hold up to such a turn
(`stranded`). If it is the end of the turn that is committed and not read back
(`session/src/turn.rs:205`), the turn has ended and no subscriber is told
(`unheard`). And the reader of a broken stream kills whichever process is
cached by then (`codex-client/src/lib.rs:395`); after a cleanup and a crash
that is the process of the next turn, which fails with it, where
`docs/codex-companion-direction.md:413` says that the current turn fails.
`EveryTurnTold` holds all the same: both turns are told.

Another is in `RequestsInOrder` and `RequestsAnswered`, as the requests in
`lost`: `read_native_message` is not safe to drop (`native-host/src/lib.rs:131`),
and `select!` drops it whenever an event is ready. With one byte of a frame left,
the next read takes that byte and three of the following length for a length,
which is within 256 KiB if the following frame is shorter than 1024 bytes. The
host then waits for that many bytes and takes the next requests for them. None
of those is answered, and once enough has come the reads may be in step again,
so that a later request is handled and the lost ones are not. (A longer rest
makes too large a length, so that the host ends and the extension is told.)

`BenignKept` excludes a page that the code does not keep. The digits of a card
may be joined by hyphens, and a UUID is spared only as a whole token
(`safety-rules/src/redaction.rs:847`). Behind an encoded slash the token is
`2F550e8400-e29b-...`, so `716-446655440000` is a card number of fifteen digits, and the
value of the redirect is redacted. No document says otherwise of such a page.

A smaller one is not a run: `docs/codex-companion-direction.md:1544` says that a
repeated `message/send` returns the existing message and turn;
`outcome_for_retry` returns an error without them once the turn has failed or
was cancelled, and `RetryAnswerIsFinal` is about that answer.

Two more, not runs of their own, are the reason for `crossed` in the panel's
properties. `ensure()` has no guard against being called twice: an ask that was
capturing and a recovery may each connect; the later client becomes the current
one, while the subscription was made on the earlier one, which stays open: the
end of a turn may be heard there before the answer that names the turn here. And
when `ensure()` replaces a client whose socket is closing, it closes it on
purpose, so that no `connection_lost` follows, and keeps `subscribedSessionId`
and the active turn; if the new connection fails, or asks without subscribing,
nobody watches the turn. `ActiveTurnIsWatched` and `AskComesBack` say what holds
as long as neither has happened.

## What is left out

- *Within the modelled parts.* Texts, timestamps, titles, error codes and
  payloads. Connections are taken to be initialized. Requests that are refused
  change nothing and are no steps. Notifications about anything but a turn
  (`session/updated`, `message/created`) are not in the queues, though they take
  room in the channel; a smaller `Cap` stands for that. `get_session`
  is one step, though it takes the lock four times: within a process nothing
  runs in between. The stdio client reports no support for cancelling a turn,
  so `FinishCancel` with `codexAgrees` is reachable only with another client;
  it is kept because the handler has it. The 64-event channel between a reader
  and its stream is not a variable: a reader that waits for room is one that
  has not read its last event.
- *A rule the code does not have.* `docs/codex-companion-direction.md:414` asks
  that restarts stop after repeated crashes; the client has no such counter,
  and neither has the model.
- *Within the output of Codex.* JSON is parsed or it is not (`bad`), and a
  notification has what it needs or not (`wrong`). The phases of one
  app-server's messages are uniform: tagged or not. A start that is refused
  because the previous reader still streams is in `CodexClient`, a cancel
  during a start in `Daemon`; here a turn starts when the last stream is closed.
- *Within redaction.* Lists of words are represented by some of their entries;
  the `sk-` signal, URLs without an authority, hosts that look like secrets,
  and groups of more than nineteen digits are left out. The code puts the redacted
  path back by replacing the first place where it occurs in the text of the URL
  (`redaction.rs:79`). That is another one than the path itself only if the
  host begins with a segment that is redacted, and a host here never is one.
- *Within the browser context.* One session and one attachment, and a caller
  that reads its answer before it asks again. Values of inputs are never sent by
  the extension (`value: None`), so the count of masked ones is zero and is
  not modelled; nor are screenshots, timestamps and the disabled flag.
- *Within the side panel.* One daemon identity: the attempt over native
  messaging and the fallback to the WebSocket are one connect, and a change of
  the saved settings is not modelled. The debug capture, the transcript and the
  deltas of an answer are left out, cancelled turns are failed ones, awaits of
  the browser's storage are not waits, and the stored marker is always the
  state's. A fresh ask that is refused for its size, or whose answer does not
  parse, fails like one the daemon refuses.
- *Within the native host.* The parsing of the configuration, of URLs and of the
  status line is a choice of outcomes. Chrome writes valid UTF-8, so the one
  frame error that keeps the loop going occurs only in a misread text; the
  daemon sends no pings and no binary messages. Notifications other than the turn's end, an
  error of the store in the cleanup (`Daemon` has it), and sockets so full that
  both sides wait are left out.
- *Not modelled.* The page capture reads a page once and keeps nothing; its
  permission request is a planned step of the side panel. The protocol types
  have no behaviour. A snapshot torn by a second process (`session.rs:39`) needs
  two daemons behind one panel and is planned.

## Plan

Done, in this order: `TurnLifecycle`, `SessionStore`, `SessionClients`,
`SessionClientsProofs`, `Daemon`, `CodexClient`, `SidePanel`, `NativeHost`,
`TurnStream`, `Redaction`, `BrowserContext`, `CodexClientProofs`, `DaemonProofs`,
`NativeHostProofs`, `TurnStreamProofs`, `SidePanelProofs`, `BrowserContextProofs`.

1. The snapshot of `get_session` in four steps, with a second daemon that
   writes in between, and the side panel's capture permission.
2. What the rules of `Redaction` compute (`RulesHide`, `RulesTell` and
   `RulesKeep`), for the parts of it that can be written without recursion.

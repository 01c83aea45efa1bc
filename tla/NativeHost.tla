----------------------------- MODULE NativeHost -----------------------------
(***************************************************************************)
(* crates/sidekick-native-host: the process a browser starts for one       *)
(* native-messaging port.  It chooses a runtime, reads framed requests     *)
(* from its stdin, has a daemon handle them (in its own process, over a    *)
(* WebSocket, or in a WSL daemon it starts), writes framed answers and     *)
(* notifications to its stdout, and ends with its port.                    *)
(*                                                                         *)
(* The daemon's side is reduced to what the host can tell apart: it takes  *)
(* one request of a connection at a time, one of them begins a turn, and   *)
(* the end of the turn is notified to an extension that has subscribed.    *)
(* Daemon has the rest.                                                    *)
(***************************************************************************)
EXTENDS Naturals, Sequences

CONSTANTS
    N,       \* requests the extension sends, numbered; 1 is initialize
    Ask,     \* the request that begins a turn
    Large,   \* requests whose frame reaches the host in two reads
    Big,     \* requests whose response exceeds MAX_NATIVE_OUTGOING_MESSAGE_BYTES
    None     \* no request

Requests == 1..N

\* A text that is none of the extension's requests.
Misread == 0
Inputs == Requests \cup {Misread}

ASSUME HostAssumption ==
    /\ N \in Nat \ {0} /\ None \notin Inputs
    /\ Ask \in 2..N /\ Large \subseteq 2..N /\ Big \subseteq 2..N

VARIABLES
    env,        \* what the host finds in its environment
    host,       \* where the host is
    port,       \* whether the browser holds the other end of the pipes
    sent,       \* requests the extension has begun to write
    rest,       \* the request whose second part is still to be written
    pipe,       \* what lies in stdin
    reading,    \* the request whose first part read_native_message has taken
    astray,     \* what it reads out of step: nothing, a length or a text
    lost,       \* history: requests whose bytes it has taken so
    told,       \* what was written to stdout
    first,      \* first_request_text
    answered,   \* wrote_first_sidecar_response
    socket,     \* the WebSocket between the host and the daemon
    toDaemon,   \* texts in it, towards the daemon
    fromDaemon, \* texts in it (or in the in-process event channel), to the host
    daemon,     \* the other daemon process
    stdinHeld,  \* the host holds the stdin of the WSL daemon it started
    handling,   \* the request the daemon's connection works on
    done,       \* history: requests the daemon has taken, in order
    turn,       \* the turn begun by Ask
    crashed     \* history: the other daemon died or was killed

browserVars == <<port, sent, rest, pipe>>
readVars == <<reading, astray, lost>>
relayVars == <<first, answered>>
wireVars == <<socket, toDaemon, fromDaemon>>
daemonVars == <<daemon, handling, done, turn, crashed>>
vars == <<env, host, browserVars, readVars, told, relayVars, wireVars, daemonVars, stdinHeld>>

Environments == [sidecar : BOOLEAN, windows : BOOLEAN, config : {"valid", "absent", "invalid"}]

\* An invalid configuration is an error that only Windows can meet: elsewhere
\* none is looked for.
Runtime ==
    CASE env.sidecar -> "sidecar"
      [] ~env.sidecar /\ ~env.windows -> "inProcess"
      [] ~env.sidecar /\ env.windows /\ env.config = "valid" -> "wsl"
      [] OTHER -> "setup"

Loops == {"serving", "relaying", "refusing"}
Phases == {"launched", "starting", "connecting", "handling", "stopping", "over", "killed"} \cup Loops
\* What a read finds: a frame, its first part, the rest of it, or a rest that is
\* too short for a length.
Pieces == [req : Requests, part : {"whole", "head", "tail", "scrap"}]
Texts == [kind : {"response", "setup", "notification", "frameError"}, req : Inputs \cup {None}]

TypeOK ==
    /\ env \in Environments
    /\ host \in Phases
    /\ port \in {"open", "closed"}
    /\ sent \in 0..N
    /\ rest \in Large \cup {None}
    /\ pipe \in Seq(Pieces)
    /\ reading \in Large \cup {None}
    /\ astray \in {"no", "length", "text"}
    /\ lost \subseteq Requests
    /\ told \in Seq(Texts)
    /\ first \in {1, None} /\ answered \in BOOLEAN
    /\ socket \in {"none", "open", "left", "closed", "gone"}
    /\ toDaemon \in Seq(Inputs) /\ fromDaemon \in Seq(Texts)
    /\ daemon \in {"none", "starting", "up", "down"}
    /\ stdinHeld \in BOOLEAN
    /\ handling \in Inputs \cup {None}
    /\ done \in Seq(Requests)
    /\ turn \in {"none", "active", "ended"}
    /\ crashed \in BOOLEAN

Init ==
    /\ env \in {e \in Environments : ~e.windows => e.config = "absent"}
    /\ host = "launched" /\ port = "open" /\ sent = 0 /\ rest = None /\ pipe = <<>>
    /\ reading = None /\ astray = "no" /\ lost = {} /\ told = <<>> /\ first = None /\ answered = FALSE
    /\ socket = "none" /\ toDaemon = <<>> /\ fromDaemon = <<>>
    /\ daemon \in IF env.sidecar THEN {"up", "down"} ELSE {"none"}
    /\ stdinHeld = FALSE /\ handling = None /\ done = <<>>
    /\ turn = "none" /\ crashed = FALSE

-----------------------------------------------------------------------------
\* The browser.  The extension initializes before it sends anything else
\* (NativeMessagingSidekickClient.connect).

Alive == host \notin {"over", "killed"}
Initialized == \E k \in DOMAIN told : told[k] = [kind |-> "response", req |-> 1]

Send ==
    /\ port = "open" /\ Alive /\ sent < N /\ rest = None
    /\ sent > 0 => Initialized
    /\ LET i == sent + 1 IN
       /\ sent' = i
       /\ rest' = IF i \in Large THEN i ELSE None
       /\ pipe' = Append(pipe, [req |-> i, part |-> IF i \in Large THEN "head" ELSE "whole"])
    /\ UNCHANGED <<env, host, port, readVars, told, relayVars, wireVars, daemonVars, stdinHeld>>

SendRest ==
    /\ port = "open" /\ rest # None
    /\ rest' = None
    /\ \E p \in {"tail", "scrap"} : pipe' = Append(pipe, [req |-> rest, part |-> p])
    /\ UNCHANGED <<env, host, port, sent, readVars, told, relayVars, wireVars, daemonVars, stdinHeld>>

Disconnect ==
    /\ port = "open"
    /\ port' = "closed"
    /\ UNCHANGED <<env, host, sent, rest, pipe, readVars, told, relayVars, wireVars, daemonVars, stdinHeld>>

\* A browser does not wait for ever for a host whose port is closed.
Kill ==
    /\ port = "closed" /\ Alive
    /\ host' = "killed" /\ stdinHeld' = FALSE
    /\ socket' = IF socket = "open" THEN "left" ELSE socket
    /\ handling' = IF Runtime = "inProcess" THEN None ELSE handling
    /\ UNCHANGED <<env, browserVars, readVars, told, relayVars, toDaemon, fromDaemon,
                   daemon, done, turn, crashed>>

-----------------------------------------------------------------------------
\* Frames and the way out.

\* read_native_message can return request i, or the end of a text that it has
\* misread.
Complete(i) ==
    /\ pipe # <<>>
    /\ IF i = Misread THEN astray = "text"
       ELSE /\ astray = "no" /\ Head(pipe).req = i
            /\ \/ reading = None /\ Head(pipe).part = "whole"
               \/ reading = i /\ Head(pipe).part \in {"tail", "scrap"}

\* A misread text ends where a frame does, or within one.
TakeFrame(i) ==
    /\ reading' = None /\ astray' = "no"
    /\ UNCHANGED <<port, sent, rest>>
    /\ IF i = Misread
       THEN /\ lost' = lost \cup {Head(pipe).req}
            /\ \/ pipe' = Tail(pipe)
               \/ \E p \in {"tail", "scrap"} : pipe' = [pipe EXCEPT ![1].part = p]
       ELSE pipe' = Tail(pipe) /\ UNCHANGED lost

\* select! runs its other branch: the read is dropped with what it had taken.
DropRead == reading' = None /\ astray' = "no" /\ UNCHANGED <<lost, browserVars>>

Response(i) == [kind |-> "response", req |-> i]
SetupRequired(i) == [kind |-> "setup", req |-> i]
Notification == [kind |-> "notification", req |-> None]
FrameError == [kind |-> "frameError", req |-> None]

CanWrite(text) == port = "open" /\ ~(text.kind = "response" /\ text.req \in Big)
Write(text) == told' = IF CanWrite(text) THEN Append(told, text) ELSE told

\* Mutant of Leave: an in-process host that ends without the cleanup.
LeaveTurn(t) ==
    /\ host' = IF stdinHeld THEN "stopping" ELSE "over"
    /\ stdinHeld' = FALSE
    /\ socket' = IF socket = "open" THEN "left" ELSE socket
    /\ turn' = t

\* The host leaves its loop, the turn being in state t by then: it drops its
\* sockets, fails the turn if the connection is its own, and stops a WSL daemon.
Leave(t) ==
    /\ host' = IF stdinHeld THEN "stopping" ELSE "over"
    /\ stdinHeld' = FALSE
    /\ socket' = IF socket = "open" THEN "left" ELSE socket
    /\ turn' = IF Runtime = "inProcess" /\ t = "active" THEN "ended" ELSE t

Continue(where, t) == host' = where /\ turn' = t /\ UNCHANGED <<stdinHeld, socket>>

\* A frame whose first read had to wait for the rest.
TakeHead ==
    /\ host \in Loops /\ reading = None /\ astray = "no"
    /\ pipe # <<>> /\ Head(pipe).part = "head"
    /\ reading' = Head(pipe).req /\ pipe' = Tail(pipe)
    /\ UNCHANGED <<env, host, port, sent, rest, astray, lost, told, relayVars, wireVars, daemonVars, stdinHeld>>

\* Mutant of FrameFails: an oversized frame does not close the connection.
FrameSkipped ==
    /\ host \in Loops /\ reading = None /\ astray = "no"
    /\ pipe # <<>> /\ Head(pipe).part = "tail"
    /\ pipe' = Tail(pipe) /\ Write(FrameError)
    /\ UNCHANGED <<env, host, port, sent, rest, readVars, relayVars, wireVars, daemonVars, stdinHeld>>

\* The rest of a frame whose head was dropped is read as a length.  Fewer than
\* four bytes wait for those of the next frame's length, and what they
\* make may be a length that the limit allows: the read goes on
\* through the frames that follow.
ReadAstray ==
    /\ host \in Loops /\ reading = None /\ pipe # <<>>
    /\ \/ astray # "text" /\ Head(pipe).part = "scrap" /\ astray' = "length"
       \/ astray = "length" /\ Head(pipe).part \in {"whole", "head"} /\ astray' = "text"
       \/ astray = "text" /\ UNCHANGED astray
    /\ pipe' = Tail(pipe) /\ lost' = lost \cup {Head(pipe).req}
    /\ UNCHANGED <<env, host, port, sent, rest, reading, told, relayVars, wireVars, daemonVars,
                   stdinHeld>>

\* Four bytes of JSON text are too large a length, and most that a scrap begins
\* are; a misread text may not be UTF-8, which ends every loop but the
\* in-process one; a port that closes in the middle of a frame leaves it partial.
FrameFails ==
    /\ host \in Loops
    /\ \/ reading = None /\ astray = "no" /\ pipe # <<>> /\ Head(pipe).part = "tail"
       \/ astray = "length" /\ pipe # <<>>
       \/ host # "serving" /\ Complete(Misread)
       \/ (reading # None \/ astray # "no") /\ pipe = <<>> /\ port = "closed"
    /\ Write(FrameError)
    /\ Leave(turn)
    /\ UNCHANGED <<env, browserVars, readVars, relayVars, toDaemon, fromDaemon,
                   daemon, handling, done, crashed>>

EndOfInput ==
    /\ host \in Loops
    /\ reading = None /\ astray = "no" /\ pipe = <<>> /\ port = "closed"
    /\ Leave(turn)
    /\ UNCHANGED <<env, browserVars, readVars, told, relayVars, toDaemon, fromDaemon,
                   daemon, handling, done, crashed>>

-----------------------------------------------------------------------------
\* Startup.

Launch ==
    /\ host = "launched"
    /\ \/ /\ \/ Runtime = "setup" /\ host' = "refusing"
             \/ Runtime = "sidecar" /\ host' = "connecting"
             \/ Runtime = "inProcess" /\ host' \in {"serving", "over"}
             \/ Runtime = "wsl" /\ host' = "refusing"
          /\ UNCHANGED <<daemon, stdinHeld>>
       \/ /\ Runtime = "wsl" /\ host' = "starting"
          /\ daemon' = "starting" /\ stdinHeld' = TRUE
    /\ UNCHANGED <<env, browserVars, readVars, told, relayVars, wireVars,
                   handling, done, turn, crashed>>

ReadStatus ==
    /\ host = "starting" /\ daemon = "up"
    /\ host' = "connecting"
    /\ UNCHANGED <<env, browserVars, readVars, told, relayVars, wireVars, daemonVars, stdinHeld>>

\* No status line, an invalid one, or none within 15 seconds: the child is
\* dropped, and killed as it is.
StatusFails ==
    /\ host = "starting"
    /\ host' = "refusing" /\ daemon' = "down" /\ stdinHeld' = FALSE
    /\ UNCHANGED <<env, browserVars, readVars, told, relayVars, wireVars,
                   handling, done, turn, crashed>>

Connect ==
    /\ host = "connecting" /\ daemon = "up"
    /\ host' = "relaying" /\ socket' = "open"
    /\ UNCHANGED <<env, browserVars, readVars, told, relayVars, toDaemon, fromDaemon,
                   daemonVars, stdinHeld>>

CannotConnect ==
    /\ host = "connecting"
    /\ IF Runtime = "wsl" THEN Continue("refusing", turn) ELSE Leave(turn)
    /\ UNCHANGED <<env, browserVars, readVars, told, relayVars, toDaemon, fromDaemon,
                   daemon, handling, done, crashed>>

\* write_setup_required_response_for_next_request
Refuse(i) ==
    /\ host = "refusing" /\ Complete(i)
    /\ TakeFrame(i) /\ Write(SetupRequired(i)) /\ Leave(turn)
    /\ UNCHANGED <<env, relayVars, toDaemon, fromDaemon, daemon, handling, done, crashed>>

-----------------------------------------------------------------------------
\* A daemon takes a request, in the host's process or in its own.

TakeRequest(i) ==
    /\ handling' = i
    /\ done' = IF i = Misread THEN done ELSE Append(done, i)
    /\ turn' = IF i = Ask THEN "active" ELSE turn

\* How a turn may stand when its request returns: Codex may have refused it.
TurnsAfter(i) == {turn} \cup (IF i = Ask /\ turn = "active" THEN {"ended"} ELSE {})

Notify(t) == IF t # turn THEN Append(fromDaemon, Notification) ELSE fromDaemon

\* The in-process loop: the handler is awaited inside the branch that read.
HandleFrame(i) ==
    /\ host = "serving" /\ Complete(i)
    /\ TakeFrame(i) /\ TakeRequest(i)
    /\ host' = "handling"
    /\ UNCHANGED <<env, told, relayVars, wireVars, daemon, crashed, stdinHeld>>

\* A misread text that is not UTF-8 does not end this loop.
NotUtf8 ==
    /\ host = "serving" /\ Complete(Misread)
    /\ TakeFrame(Misread) /\ Write(FrameError)
    /\ IF CanWrite(FrameError) THEN Continue("serving", turn) ELSE Leave(turn)
    /\ UNCHANGED <<env, relayVars, toDaemon, fromDaemon, daemon, handling, done, crashed>>

WriteHandled ==
    /\ host = "handling"
    /\ handling' = None
    /\ Write(Response(handling))
    /\ \E t \in TurnsAfter(handling) :
          /\ fromDaemon' = Notify(t)
          /\ IF CanWrite(Response(handling)) THEN Continue("serving", t) ELSE Leave(t)
    /\ UNCHANGED <<env, browserVars, readVars, relayVars, toDaemon, daemon, done, crashed>>

\* An event is written, or the receiver has lagged and the loop ends.
WriteEvent ==
    /\ host = "serving" /\ fromDaemon # <<>>
    /\ fromDaemon' = Tail(fromDaemon) /\ DropRead
    /\ \/ /\ Write(Notification)
          /\ IF CanWrite(Notification) THEN Continue("serving", turn) ELSE Leave(turn)
       \/ UNCHANGED told /\ Leave(turn)
    /\ UNCHANGED <<env, relayVars, toDaemon, daemon, handling, done, crashed>>

-----------------------------------------------------------------------------
\* The relay, run_connected_sidecar_host.

\* Mutant of RelayFails: it waits for the next request in any case.
RelayFailsLater(request) ==
    /\ UNCHANGED told
    /\ IF Runtime = "wsl" /\ ~answered THEN Continue("refusing", turn) ELSE Leave(turn)

\* The relay has failed: before its first answer, a host that started the daemon
\* itself says that setup is required, for the first request if it has come.
RelayFails(request) ==
    IF Runtime = "wsl" /\ ~answered
    THEN IF request # None
         THEN Write(SetupRequired(request)) /\ Leave(turn)
         ELSE UNCHANGED told /\ Continue("refusing", turn)
    ELSE UNCHANGED told /\ Leave(turn)

\* A socket the daemon has closed may refuse a text, or take it in vain.
RelayFrame(i) ==
    /\ host = "relaying" /\ Complete(i)
    /\ TakeFrame(i)
    /\ first' = IF ~answered /\ first = None THEN i ELSE first
    /\ \/ /\ toDaemon' = IF socket = "open" THEN Append(toDaemon, i) ELSE toDaemon
          /\ UNCHANGED told /\ Continue("relaying", turn)
       \/ socket # "open" /\ RelayFails(first') /\ UNCHANGED toDaemon
    /\ UNCHANGED <<env, answered, fromDaemon, daemon, handling, done, crashed>>

\* Mutant of RelayText: it forgets that the daemon has answered.
RelayTextForgotten ==
    /\ host = "relaying" /\ fromDaemon # <<>>
    /\ fromDaemon' = Tail(fromDaemon) /\ DropRead
    /\ Write(Head(fromDaemon))
    /\ IF CanWrite(Head(fromDaemon)) THEN Continue("relaying", turn) ELSE Leave(turn)
    /\ UNCHANGED <<env, relayVars, toDaemon, daemon, handling, done, crashed>>

RelayText ==
    /\ host = "relaying" /\ fromDaemon # <<>>
    /\ fromDaemon' = Tail(fromDaemon) /\ DropRead
    /\ Write(Head(fromDaemon))
    /\ IF CanWrite(Head(fromDaemon))
       THEN answered' = TRUE /\ Continue("relaying", turn)
       ELSE UNCHANGED answered /\ Leave(turn)
    /\ UNCHANGED <<env, first, toDaemon, daemon, handling, done, crashed>>

RelayLost ==
    /\ host = "relaying" /\ socket = "closed" /\ fromDaemon = <<>>
    /\ DropRead /\ RelayFails(first)
    /\ UNCHANGED <<env, relayVars, toDaemon, fromDaemon, daemon, handling, done, crashed>>

-----------------------------------------------------------------------------
\* WslDaemonProcess::shutdown.

ChildStopped ==
    /\ host = "stopping" /\ daemon = "down"
    /\ host' = "over"
    /\ UNCHANGED <<env, browserVars, readVars, told, relayVars, wireVars, daemonVars, stdinHeld>>

\* The other daemon's process ends, and with it what it was doing.
DaemonEnds ==
    /\ daemon' = "down" /\ handling' = None /\ toDaemon' = <<>>
    /\ socket' = CASE socket = "open" -> "closed" [] socket = "left" -> "gone" [] OTHER -> socket
    /\ \E k \in 0..Len(fromDaemon) : fromDaemon' = SubSeq(fromDaemon, 1, k)
    /\ UNCHANGED <<env, browserVars, readVars, told, relayVars, done, turn>>

\* Mutant of ChildKilled: shutdown waits without a timeout.
ChildAwaited ==
    /\ host = "stopping" /\ daemon = "down"
    /\ host' = "over"
    /\ DaemonEnds
    /\ UNCHANGED <<crashed, stdinHeld>>

\* It has not ended 5 seconds after its stdin was closed.
ChildKilled ==
    /\ host = "stopping" /\ daemon # "down"
    /\ host' = "over" /\ crashed' = TRUE
    /\ DaemonEnds
    /\ UNCHANGED stdinHeld

-----------------------------------------------------------------------------
\* The other daemon: websocket_loop and run_stdio_status_daemon.

PrintStatus ==
    /\ daemon = "starting"
    /\ daemon' = "up"
    /\ UNCHANGED <<env, host, browserVars, readVars, told, relayVars, wireVars,
                   handling, done, turn, crashed, stdinHeld>>

DaemonTakes ==
    /\ daemon = "up" /\ socket \in {"open", "left"}
    /\ handling = None /\ toDaemon # <<>>
    /\ TakeRequest(Head(toDaemon))
    /\ toDaemon' = Tail(toDaemon)
    /\ UNCHANGED <<env, host, browserVars, readVars, told, relayVars, socket, fromDaemon,
                   daemon, crashed, stdinHeld>>

\* What the connection sends reaches a host that is still there.
Sends(texts) == fromDaemon' = IF socket = "open" THEN fromDaemon \o texts ELSE fromDaemon

DaemonAnswers ==
    /\ daemon = "up" /\ handling # None
    /\ handling' = None
    /\ \E t \in TurnsAfter(handling) :
          /\ turn' = t
          /\ Sends(<<Response(handling)>> \o (IF t # turn THEN <<Notification>> ELSE <<>>))
    /\ UNCHANGED <<env, host, browserVars, readVars, told, relayVars, socket, toDaemon,
                   daemon, done, crashed, stdinHeld>>

\* Codex ends the turn, in whichever daemon streams it.
TurnEnds ==
    /\ turn = "active" /\ handling # Ask
    /\ turn' = "ended"
    /\ IF Runtime = "inProcess"
       THEN host \in {"serving", "handling"} /\ fromDaemon' = Append(fromDaemon, Notification)
       ELSE daemon = "up" /\ Sends(<<Notification>>)
    /\ UNCHANGED <<env, host, browserVars, readVars, told, relayVars, socket, toDaemon,
                   daemon, handling, done, crashed, stdinHeld>>

\* websocket_loop ends, and its connection fails the turn it owns: the host has
\* left, or the receiver of the connection has lagged.
CloseConnection ==
    /\ daemon = "up" /\ socket \in {"open", "left"} /\ handling = None
    /\ socket' = IF socket = "open" THEN "closed" ELSE "gone"
    /\ turn' = IF turn = "active" THEN "ended" ELSE turn
    /\ toDaemon' = <<>>
    /\ UNCHANGED <<env, host, browserVars, readVars, told, relayVars, fromDaemon,
                   daemon, handling, done, crashed, stdinHeld>>

\* A WSL daemon whose stdin ends drops its runtime, and does not wait for the
\* connections that were upgraded to WebSockets.
StopOnEndOfStdin ==
    /\ Runtime = "wsl" /\ daemon \in {"starting", "up"} /\ ~stdinHeld
    /\ DaemonEnds
    /\ UNCHANGED <<host, crashed, stdinHeld>>

DaemonDies ==
    /\ daemon \in {"starting", "up"}
    /\ crashed' = TRUE
    /\ DaemonEnds
    /\ UNCHANGED <<host, stdinHeld>>

-----------------------------------------------------------------------------
\* What a host refuses is the first request, which is never misread.
FrameStep ==
    \/ TakeHead \/ ReadAstray \/ NotUtf8 \/ FrameFails \/ EndOfInput
    \/ \E i \in Inputs : HandleFrame(i) \/ RelayFrame(i)
    \/ \E i \in Requests : Refuse(i)
OtherBranch == WriteHandled \/ WriteEvent \/ RelayText \/ RelayLost
Startup == Launch \/ ReadStatus \/ StatusFails \/ Connect \/ CannotConnect
Shutdown == ChildStopped \/ ChildKilled
HostStep == FrameStep \/ OtherBranch \/ Startup \/ Shutdown

Browser == Send \/ SendRest \/ Disconnect \/ Kill
OtherDaemon ==
    \/ PrintStatus \/ DaemonTakes \/ DaemonAnswers
    \/ CloseConnection \/ StopOnEndOfStdin \/ DaemonDies

Next == Browser \/ HostStep \/ OtherDaemon \/ TurnEnds

Spec == Init /\ [][Next]_vars

Fairness ==
    /\ WF_vars(HostStep)
    /\ WF_vars(SendRest)
    /\ WF_vars(DaemonTakes \/ DaemonAnswers)
    /\ WF_vars(socket = "left" /\ CloseConnection)
    /\ WF_vars(host = "killed" /\ StopOnEndOfStdin)

FairSpec == Spec /\ Fairness

-----------------------------------------------------------------------------
\* Properties.

\* The daemon is given the extension's requests in order, each once, and the
\* host skips one only by misreading it: never while the reads are in step, and
\* first of all a request whose read it has dropped (read_native_message in
\* select!).
RequestsInOrder ==
    /\ \A k \in DOMAIN done :
          /\ done[k] \in (1..sent) \ lost
          /\ \A j \in 1..k - 1 : done[j] < done[k]
          /\ \A i \in 1..done[k] - 1 : i \in lost \/ \E j \in 1..k - 1 : done[j] = i
    /\ \A i \in lost : \E j \in lost \cap Large : j <= i

\* A host that says setup is required says nothing else, and its daemon has
\* done nothing but, at most, the initialize that it answers so
\* (handle_sidecar_startup_protocol_failure).
SetupMeansNothingDone ==
    (\E k \in DOMAIN told : told[k].kind = "setup") =>
        Len(told) = 1 /\ Len(done) <= 1 /\ turn = "none"

Asked(i) == i <= sent /\ rest # i
AnsweredOrOver(i) ==
    ~Alive \/ \E k \in DOMAIN told : told[k].kind \in {"response", "setup"} /\ told[k].req = i

\* A request the extension has sent is answered, or the host ends, which the
\* extension is told by its port, unless the request was misread.
RequestsAnswered == \A i \in Requests : Asked(i) ~> AnsweredOrOver(i) \/ i \in lost

\* When the port closes, or the host ends for another reason (run_wsl_auto_host),
\* the host and the WSL daemon end, even if wsl.exe hangs
\* (WslDaemonProcess::shutdown) or the browser kills the host (kill_on_drop).
EndsWithPort ==
    port = "closed" \/ host = "over" ~> ~Alive /\ (Runtime = "wsl" => daemon \in {"none", "down"})

\* A turn begun through a native port does not stay active once the host is
\* gone by itself (fail_owned_active_turns_on_disconnect), unless the other
\* daemon died.  RelayTurnEnds is the same of a WSL daemon, and fails.
OwnedTurnEnds ==
    host = "over" /\ Runtime # "wsl" ~> turn # "active" \/ crashed

\* docs/development.md:201 of the WSL daemon: "A turn started by that
\* sidecar-owned WebSocket relay is still failed and cleared if that relay
\* closes before a terminal turn notification."
RelayTurnEnds == host = "over" ~> turn # "active" \/ crashed
=============================================================================

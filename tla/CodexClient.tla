----------------------------- MODULE CodexClient -----------------------------
(***************************************************************************)
(* crates/codex-client: StdioCodexClient, through which one daemon talks   *)
(* to one Codex app-server process that it spawns, caches and replaces.    *)
(* start_turn, the readers of the streams it returns and readiness share   *)
(* the cached process under a fair lock, and give the lock back while the  *)
(* process may still be in use: a reader owns the stdout it took.          *)
(*                                                                         *)
(* The app-server is external.  What a request says, and the events of a   *)
(* turn before its last, are abstracted: a start is accepted, rejected or  *)
(* broken, a stream ends with a terminal event or breaks.                  *)
(***************************************************************************)
EXTENDS Naturals, Sequences

CONSTANTS
    Turns,   \* calls of start_turn
    Probes,  \* concurrent callers of readiness
    Procs,   \* app-server processes that may be spawned
    None

ASSUME ClientAssumption ==
    /\ Turns \cap Probes = {}
    /\ None \notin Procs \cup Turns \cup Probes

VARIABLES
    spawned,  \* processes spawned so far
    alive,    \* those that run
    killedBy, \* who killed a process; None if nobody did
    cached,   \* the cached process
    ready,    \* its `initialized'
    stdout,   \* its `stdout': the process whose output that pipe carries
    lock,     \* who waits for the lock, in order; the head holds it
    call,     \* where a call of start_turn is
    reader,   \* where the reader of the turn's stream is
    pipe,     \* the process whose output the reader took
    told,     \* what the stream or the call said of the turn
    ended,    \* turns the daemon has ended itself, whatever the stream says
    probe     \* where a call of readiness is

procVars == <<spawned, alive, killedBy, cached, ready, stdout>>
readerVars == <<reader, pipe>>
vars == <<procVars, lock, call, readerVars, told, ended, probe>>

TypeOK ==
    /\ spawned \in SUBSET Procs /\ alive \in SUBSET spawned
    /\ killedBy \in [Procs -> Turns \cup Probes \cup {None}]
    /\ cached \in spawned \cup {None}
    /\ ready \in BOOLEAN
    /\ stdout \in spawned \cup {None}
    /\ cached = None => ~ready /\ stdout = None
    /\ lock \in Seq(Turns \cup Probes)
    /\ call \in [Turns -> {"idle", "queued", "starting", "done"}]
    /\ reader \in [Turns -> {"none", "reading", "returning", "discarding", "done"}]
    /\ pipe \in [Turns -> Procs \cup {None}]
    /\ told \in [Turns -> {"nothing", "terminal", "failed"}]
    /\ ended \in SUBSET Turns
    /\ probe \in [Probes -> {"idle", "looking", "version", "queued", "initializing"}]

Init ==
    /\ spawned = {} /\ alive = {}
    /\ killedBy = [p \in Procs |-> None]
    /\ cached = None /\ ready = FALSE /\ stdout = None
    /\ lock = <<>>
    /\ call = [t \in Turns |-> "idle"]
    /\ reader = [t \in Turns |-> "none"]
    /\ pipe = [t \in Turns |-> None]
    /\ told = [t \in Turns |-> "nothing"]
    /\ ended = {}
    /\ probe = [q \in Probes |-> "idle"]

-----------------------------------------------------------------------------
\* The lock and the cached process.

Holds(x) == lock # <<>> /\ Head(lock) = x
Queue(x) == lock' = Append(lock, x)
Unlock == lock' = Tail(lock)
\* A waiter that is dropped leaves the queue from wherever it is.
Leave(x) ==
    \E i \in 1 .. Len(lock) :
        /\ lock[i] = x
        /\ lock' = [j \in 1 .. Len(lock) - 1 |-> lock[IF j < i THEN j ELSE j + 1]]

Forget == cached' = None /\ ready' = FALSE /\ stdout' = None

\* Mutant of Discard: the process is dropped from the cache and lives on.
DiscardAlive(x) == Forget /\ UNCHANGED <<spawned, alive, killedBy>>

\* state.take() and terminate_cached_process: the kill is sent as the lock goes.
Discard(x) ==
    /\ Forget
    /\ alive' = alive \ {cached}
    /\ killedBy' = IF cached \in alive THEN [killedBy EXCEPT ![cached] = x] ELSE killedBy
    /\ UNCHANGED spawned

Spawn(p) ==
    /\ p \notin spawned
    /\ spawned' = spawned \cup {p} /\ alive' = alive \cup {p}
    /\ cached' = p /\ ready' = FALSE /\ stdout' = p
    /\ UNCHANGED killedBy

\* ensure_process: the cached one, or a new one if it has exited.
EnsureProcess ==
    IF cached \in alive THEN UNCHANGED procVars ELSE \E p \in Procs : Spawn(p)

SpawnFails == cached \notin alive /\ Forget /\ UNCHANGED <<spawned, alive, killedBy>>

\* A process exits, or is killed by someone else.
Exit(p) ==
    /\ p \in alive
    /\ alive' = alive \ {p}
    /\ UNCHANGED <<spawned, killedBy, cached, ready, stdout, lock, call, readerVars, told,
                   ended, probe>>

-----------------------------------------------------------------------------
\* start_turn.  The daemon starts a turn when no other is active in its store.

StartStep(t, from) ==
    /\ call[t] = from /\ Holds(t)
    /\ UNCHANGED <<ended, probe>>
StartReturns(t, answer) ==
    /\ call' = [call EXCEPT ![t] = "done"]
    /\ told' = [told EXCEPT ![t] = answer]
    /\ Unlock

CallStartTurn(t) ==
    /\ call[t] = "idle"
    /\ \A u \in Turns : call[u] = "idle" \/ told[u] # "nothing" \/ u \in ended
    /\ call' = [call EXCEPT ![t] = "queued"]
    /\ Queue(t)
    /\ UNCHANGED <<procVars, readerVars, told, ended, probe>>

\* ensure_stdout_available: the output of the live process belongs to a reader.
RefuseStreaming(t) ==
    /\ StartStep(t, "queued")
    /\ cached \in alive /\ stdout = None
    /\ Discard(t)
    /\ StartReturns(t, "failed")
    /\ UNCHANGED readerVars

BeginStart(t) ==
    /\ StartStep(t, "queued")
    /\ ~(cached \in alive /\ stdout = None)
    /\ \/ EnsureProcess /\ call' = [call EXCEPT ![t] = "starting"] /\ UNCHANGED <<lock, told>>
       \/ SpawnFails /\ StartReturns(t, "failed")
    /\ UNCHANGED readerVars

\* initialize, thread/start or thread/resume, turn/start; take_stdout, and the
\* reader is spawned.
StartAccepted(t) ==
    /\ StartStep(t, "starting")
    /\ cached \in alive /\ stdout = cached
    /\ ready' = TRUE /\ stdout' = None
    /\ reader' = [reader EXCEPT ![t] = "reading"]
    /\ pipe' = [pipe EXCEPT ![t] = stdout]
    /\ StartReturns(t, "nothing")
    /\ UNCHANGED <<spawned, alive, killedBy, cached>>

\* An error that keeps the process: RequestFailed, of any request, or
\* ThreadNotFound.
StartRejected(t) ==
    /\ StartStep(t, "starting")
    /\ cached \in alive /\ stdout = cached
    /\ ready' \in {ready, TRUE}
    /\ StartReturns(t, "failed")
    /\ UNCHANGED <<spawned, alive, killedBy, cached, stdout, readerVars>>

\* A timeout, an I/O error, the end of the output or a malformed line.
StartBroken(t) ==
    /\ StartStep(t, "starting")
    /\ Discard(t)
    /\ StartReturns(t, "failed")
    /\ UNCHANGED readerVars

\* The daemon's own timeout drops the call wherever it waits, and with it the
\* lock or the place in the queue; the process is kept as it is.
DropStart(t) ==
    /\ call[t] \in {"queued", "starting"}
    /\ call' = [call EXCEPT ![t] = "done"]
    /\ told' = [told EXCEPT ![t] = "failed"]
    /\ Leave(t)
    /\ \/ UNCHANGED ready
       \/ call[t] = "starting" /\ cached \in alive /\ stdout = cached /\ ready' = TRUE
    /\ UNCHANGED <<spawned, alive, killedBy, cached, stdout, readerVars, ended, probe>>

-----------------------------------------------------------------------------
\* The reader of a stream.

\* Mutant of ReadTerminal: the terminal event is sent before the output is
\* given back.
ReadTerminalEarly(t) ==
    /\ reader[t] = "reading"
    /\ reader' = [reader EXCEPT ![t] = "returning"]
    /\ told' = [told EXCEPT ![t] = "terminal"]
    /\ Queue(t)
    /\ UNCHANGED <<procVars, call, pipe, ended, probe>>

\* What the process wrote before it exited can still be read.
ReadTerminal(t) ==
    /\ reader[t] = "reading"
    /\ reader' = [reader EXCEPT ![t] = "returning"]
    /\ Queue(t)
    /\ UNCHANGED <<procVars, call, pipe, told, ended, probe>>

\* The end of the output, a malformed line, a request of the server; or an
\* event for a daemon that no longer listens.
ReadBroken(t) ==
    /\ reader[t] = "reading"
    /\ reader' = [reader EXCEPT ![t] = "discarding"]
    /\ Queue(t)
    /\ UNCHANGED <<procVars, call, pipe, told, ended, probe>>

\* Mutant of ReturnStdout: the output is kept.
KeepStdout(t) ==
    /\ reader[t] = "returning" /\ Holds(t)
    /\ reader' = [reader EXCEPT ![t] = "done"]
    /\ told' = [told EXCEPT ![t] = "terminal"]
    /\ Unlock
    /\ UNCHANGED <<procVars, call, pipe, ended, probe>>

\* The output goes to the process that is cached now, if any; then the event.
ReturnStdout(t) ==
    /\ reader[t] = "returning" /\ Holds(t)
    /\ stdout' = IF cached # None THEN pipe[t] ELSE stdout
    /\ reader' = [reader EXCEPT ![t] = "done"]
    /\ told' = [told EXCEPT ![t] = "terminal"]
    /\ Unlock
    /\ UNCHANGED <<spawned, alive, killedBy, cached, ready, call, pipe, ended, probe>>

\* Mutant of DiscardProcess: the reader ends without its error.
DiscardSilently(t) ==
    /\ reader[t] = "discarding" /\ Holds(t)
    /\ Discard(t)
    /\ reader' = [reader EXCEPT ![t] = "done"]
    /\ Unlock
    /\ UNCHANGED <<call, pipe, told, ended, probe>>

\* The process that is cached now is taken and killed; then the error.
DiscardProcess(t) ==
    /\ reader[t] = "discarding" /\ Holds(t)
    /\ Discard(t)
    /\ reader' = [reader EXCEPT ![t] = "done"]
    /\ told' = [told EXCEPT ![t] = "failed"]
    /\ Unlock
    /\ UNCHANGED <<call, pipe, ended, probe>>

\* turn/cancel, or the cleanup of the connection that owns the turn.
EndTurn(t) ==
    /\ reader[t] # "none" /\ told[t] = "nothing"
    /\ ended' = ended \cup {t}
    /\ UNCHANGED <<procVars, lock, call, readerVars, told, probe>>

-----------------------------------------------------------------------------
\* readiness.

ProbeStep(q, from) == probe[q] = from /\ UNCHANGED <<call, readerVars, told, ended>>
ProbeGoes(q, to) == probe' = [probe EXCEPT ![q] = to]

CallReadiness(q) ==
    /\ ProbeStep(q, "idle")
    /\ ProbeGoes(q, "looking") /\ Queue(q)
    /\ UNCHANGED procVars

\* A process that is initialized and streaming is ready; the lock is given back
\* before the version of the CLI is read.
ProbeLooks(q) ==
    /\ ProbeStep(q, "looking") /\ Holds(q)
    /\ IF cached \notin alive THEN Forget ELSE UNCHANGED <<cached, ready, stdout>>
    /\ ProbeGoes(q, IF cached \in alive /\ ready /\ stdout = None THEN "idle" ELSE "version")
    /\ Unlock
    /\ UNCHANGED <<spawned, alive, killedBy>>

ProbeVersion(q, found) ==
    /\ ProbeStep(q, "version")
    /\ IF found THEN ProbeGoes(q, "queued") /\ Queue(q)
       ELSE ProbeGoes(q, "idle") /\ UNCHANGED lock
    /\ UNCHANGED procVars

\* Mutant of ProbeLocks: the probe initializes whatever process it finds.
ProbeLocksAgain(q) ==
    /\ ProbeStep(q, "queued") /\ Holds(q)
    /\ \/ EnsureProcess /\ ProbeGoes(q, "initializing") /\ UNCHANGED lock
       \/ SpawnFails /\ ProbeGoes(q, "idle") /\ Unlock

ProbeLocks(q) ==
    /\ ProbeStep(q, "queued") /\ Holds(q)
    /\ \/ /\ EnsureProcess
          /\ IF ready' THEN ProbeGoes(q, "idle") /\ Unlock
             ELSE ProbeGoes(q, "initializing") /\ UNCHANGED lock
       \/ SpawnFails /\ ProbeGoes(q, "idle") /\ Unlock

ProbeInitializes(q) ==
    /\ ProbeStep(q, "initializing") /\ Holds(q)
    /\ \/ /\ cached \in alive /\ stdout = cached
          /\ ready' = TRUE
          /\ UNCHANGED <<spawned, alive, killedBy, cached, stdout>>
       \/ Discard(q)
    /\ ProbeGoes(q, "idle") /\ Unlock

StartTurn(t) ==
    \/ RefuseStreaming(t) \/ BeginStart(t)
    \/ StartAccepted(t) \/ StartRejected(t) \/ StartBroken(t)
Reads(t) == ReadTerminal(t) \/ ReadBroken(t) \/ ReturnStdout(t) \/ DiscardProcess(t)
Readiness(q) ==
    \/ ProbeLooks(q) \/ ProbeLocks(q) \/ ProbeInitializes(q)
    \/ \E found \in BOOLEAN : ProbeVersion(q, found)

Next ==
    \/ \E t \in Turns : CallStartTurn(t) \/ StartTurn(t) \/ DropStart(t) \/ Reads(t) \/ EndTurn(t)
    \/ \E q \in Probes : CallReadiness(q) \/ Readiness(q)
    \/ \E p \in Procs : Exit(p)

Spec == Init /\ [][Next]_vars

\* A task that can run is scheduled, and every wait for the app-server has a
\* timeout; Codex ends every turn or its output ends.
FairSpec ==
    /\ Spec
    /\ \A t \in Turns : WF_vars(StartTurn(t)) /\ WF_vars(Reads(t))
    /\ \A q \in Probes : WF_vars(Readiness(q))

-----------------------------------------------------------------------------
\* A daemon has one app-server process: every one that runs is the cached one,
\* and none is left behind by an error, a probe or a reader.
OneProcess == alive \subseteq {cached}

\* The end of a turn is told once its output is back, so a daemon that starts
\* the next turn at once is not refused.
FollowUpAccepted ==
    (\A t \in Turns : reader[t] = "none" \/ told[t] # "nothing")
        => ~(cached \in alive /\ stdout = None)

\* readiness, which gives the lock back and takes it again, never kills a
\* process that has streamed a turn.
ProbeSparesStreams ==
    \A t \in Turns : pipe[t] # None => killedBy[pipe[t]] \notin Probes

\* The output of a live process is in the cache or with one reader.
OutputHasOneOwner ==
    cached \in alive /\ stdout = None =>
        \E t \in Turns : pipe[t] = cached /\ reader[t] \in {"reading", "returning", "discarding"}

\* Every call of start_turn returns, and every stream it returns ends.
EveryTurnTold == \A t \in Turns : call[t] = "queued" ~> told[t] # "nothing"
=============================================================================

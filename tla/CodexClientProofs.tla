-------------------------- MODULE CodexClientProofs --------------------------
(***************************************************************************)
(* Theorems about the cached app-server process, for every number of       *)
(* turns, probes and processes.                                            *)
(***************************************************************************)
EXTENDS CodexClient, SequenceTheorems, TLAPS

USE ClientAssumption

Callers == Turns \cup Probes
Busy == {"reading", "returning", "discarding"}

\* Who is in the middle of using the process holds the lock, and a probe that
\* initializes found a process that nobody had initialized.
LockInv ==
    /\ \A t \in Turns : call[t] = "starting" => Holds(t)
    /\ \A q \in Probes : probe[q] = "initializing" => Holds(q) /\ ~ready

\* A reader comes from a start that has returned and has the output of a process
\* that was spawned; until it ends, its stream has been told nothing.
ReaderInv ==
    \A t \in Turns :
        /\ reader[t] = "none" => pipe[t] = None
        /\ reader[t] # "none" => call[t] = "done" /\ pipe[t] \in spawned
        /\ reader[t] \in Busy => told[t] = "nothing"

\* A process that was killed is over, and one that has streamed is initialized.
ProcInv ==
    /\ \A p \in Procs : killedBy[p] # None => p \in spawned \ alive
    /\ \A t \in Turns : pipe[t] # None /\ pipe[t] = cached => ready

IInv ==
    /\ TypeOK /\ LockInv /\ ReaderInv /\ ProcInv
    /\ OneProcess /\ OutputHasOneOwner /\ ProbeSparesStreams

-----------------------------------------------------------------------------
\* The lock.

LEMMA QueueKeepsHolder ==
    ASSUME lock \in Seq(Callers), NEW x \in Callers, Queue(x)
    PROVE  lock' \in Seq(Callers) /\ \A y \in Callers : Holds(y) => Holds(y)'
  BY DEF Queue, Holds

LEMMA UnlockKeepsType ==
    ASSUME lock \in Seq(Callers), NEW x \in Callers, Holds(x), Unlock
    PROVE  lock' \in Seq(Callers)
  BY DEF Unlock, Holds

LEMMA LeaveKeepsHolder ==
    ASSUME lock \in Seq(Callers), NEW x \in Callers, Leave(x)
    PROVE  lock' \in Seq(Callers) /\ \A y \in Callers \ {x} : Holds(y) => Holds(y)'
<1>1. PICK i \in 1 .. Len(lock) :
          /\ lock[i] = x
          /\ lock' = [j \in 1 .. Len(lock) - 1 |-> lock[IF j < i THEN j ELSE j + 1]]
  BY DEF Leave
<1>2. Len(lock) \in Nat /\ \A j \in 1 .. Len(lock) : lock[j] \in Callers
  BY ElementOfSeq, LenProperties
<1>3. \A j \in 1 .. Len(lock) - 1 : lock[IF j < i THEN j ELSE j + 1] \in Callers
  BY <1>2
<1>4. lock' \in Seq(Callers) /\ Len(lock') = Len(lock) - 1
  <2> DEFINE rest(j) == lock[IF j < i THEN j ELSE j + 1]
  <2>1. Len(lock) - 1 \in Nat
    BY <1>1, <1>2
  <2>2. \A j \in 1 .. Len(lock) - 1 : rest(j) \in Callers
    BY <1>3
  <2>3. lock' = [j \in 1 .. Len(lock) - 1 |-> rest(j)]
    BY <1>1
  <2> HIDE DEF rest
  <2>4. lock' \in [1 .. Len(lock) - 1 -> Callers]
    BY <2>2, <2>3
  <2>5. QED BY <2>1, <2>4, SeqDef, LenProperties
<1>5. ASSUME NEW y \in Callers \ {x}, Holds(y) PROVE Holds(y)'
  <2>1. lock[1] = y /\ lock # <<>> /\ i # 1
    BY <1>1, <1>5 DEF Holds
  <2>2. Len(lock) > 1 /\ 1 < i
    BY <1>1, <1>2, <2>1
  <2>3. lock'[1] = y
    BY <1>1, <1>2, <2>1, <2>2
  <2>4. lock' # <<>>
    BY <1>2, <1>4, <2>2
  <2>5. QED BY <1>4, <2>3, <2>4 DEF Holds
<1>6. QED BY <1>4, <1>5

-----------------------------------------------------------------------------
\* Types.  `killedBy', `told' and the like are written one entry at a time.

\* The process: what a caller does to it under the lock.
ProcTypeOK ==
    /\ spawned \in SUBSET Procs /\ alive \in SUBSET spawned
    /\ killedBy \in [Procs -> Turns \cup Probes \cup {None}]
    /\ cached \in spawned \cup {None}
    /\ ready \in BOOLEAN
    /\ stdout \in spawned \cup {None}
    /\ cached = None => ~ready /\ stdout = None

LEMMA ProcTypes ==
    ASSUME ProcTypeOK,
           \/ \E x \in Callers : Discard(x)
           \/ EnsureProcess
           \/ SpawnFails
    PROVE  ProcTypeOK'
<1>1. CASE \E x \in Callers : Discard(x)
  <2>1. PICK x \in Callers : Discard(x)
    BY <1>1
  <2>2. killedBy' \in [Procs -> Turns \cup Probes \cup {None}]
    BY <2>1 DEF ProcTypeOK, Discard, Callers
  <2>3. QED BY <2>1, <2>2 DEF ProcTypeOK, Discard, Forget
<1>2. CASE EnsureProcess
  BY <1>2 DEF ProcTypeOK, EnsureProcess, Spawn, procVars
<1>3. CASE SpawnFails
  BY <1>3 DEF ProcTypeOK, SpawnFails, Forget
<1>4. QED BY <1>1, <1>2, <1>3

LEMMA TypePreserved ==
    ASSUME TypeOK, ReaderInv, [Next]_vars
    PROVE  TypeOK'
<1> USE DEF TypeOK, Callers
<1>0. ProcTypeOK /\ lock \in Seq(Callers)
  BY DEF ProcTypeOK
<1>1. ASSUME NEW t \in Turns, CallStartTurn(t) PROVE TypeOK'
  BY <1>1, QueueKeepsHolder DEF CallStartTurn, procVars, readerVars
<1>2. ASSUME NEW t \in Turns, RefuseStreaming(t) PROVE TypeOK'
  <2>1. ProcTypeOK'
    BY <1>0, <1>2, ProcTypes DEF RefuseStreaming
  <2>2. lock' \in Seq(Callers)
    BY <1>0, <1>2, UnlockKeepsType DEF RefuseStreaming, StartStep, StartReturns
  <2>3. QED BY <1>2, <2>1, <2>2 DEF RefuseStreaming, StartStep, StartReturns, readerVars, ProcTypeOK
<1>3. ASSUME NEW t \in Turns, BeginStart(t) PROVE TypeOK'
  <2>1. ProcTypeOK'
    BY <1>0, <1>3, ProcTypes DEF BeginStart
  <2>2. lock' \in Seq(Callers)
    BY <1>0, <1>3, UnlockKeepsType DEF BeginStart, StartStep, StartReturns
  <2>3. QED BY <1>3, <2>1, <2>2 DEF BeginStart, StartStep, StartReturns, readerVars, ProcTypeOK
<1>4. ASSUME NEW t \in Turns, StartAccepted(t) PROVE TypeOK'
  <2>2. lock' \in Seq(Callers)
    BY <1>0, <1>4, UnlockKeepsType DEF StartAccepted, StartStep, StartReturns
  <2>3. QED BY <1>4, <2>2 DEF StartAccepted, StartStep, StartReturns
<1>5. ASSUME NEW t \in Turns, StartRejected(t) PROVE TypeOK'
  <2>2. lock' \in Seq(Callers)
    BY <1>0, <1>5, UnlockKeepsType DEF StartRejected, StartStep, StartReturns
  <2>3. QED BY <1>5, <2>2 DEF StartRejected, StartStep, StartReturns, readerVars
<1>6. ASSUME NEW t \in Turns, StartBroken(t) PROVE TypeOK'
  <2>1. ProcTypeOK'
    BY <1>0, <1>6, ProcTypes DEF StartBroken
  <2>2. lock' \in Seq(Callers)
    BY <1>0, <1>6, UnlockKeepsType DEF StartBroken, StartStep, StartReturns
  <2>3. QED BY <1>6, <2>1, <2>2 DEF StartBroken, StartStep, StartReturns, readerVars, ProcTypeOK
<1>7. ASSUME NEW t \in Turns, DropStart(t) PROVE TypeOK'
  <2>1. lock' \in Seq(Callers)
    BY <1>0, <1>7, LeaveKeepsHolder DEF DropStart
  <2>2. cached \in alive => cached # None
    OBVIOUS
  <2>3. ProcTypeOK'
    <3>1. CASE ready' = ready
      BY <1>0, <1>7, <3>1 DEF DropStart, ProcTypeOK
    <3>2. CASE cached \in alive /\ ready' = TRUE
      BY <1>0, <1>7, <2>2, <3>2 DEF DropStart, ProcTypeOK
    <3>3. QED BY <1>7, <3>1, <3>2 DEF DropStart
  <2>4. QED BY <1>7, <2>1, <2>3 DEF DropStart, readerVars, ProcTypeOK
<1>8. ASSUME NEW t \in Turns, ReadTerminal(t) \/ ReadBroken(t) PROVE TypeOK'
  BY <1>0, <1>8, QueueKeepsHolder DEF ReadTerminal, ReadBroken, procVars
<1>9. ASSUME NEW t \in Turns, ReturnStdout(t) PROVE TypeOK'
  <2>1. pipe[t] \in spawned
    BY <1>9 DEF ReturnStdout, ReaderInv
  <2>2. lock' \in Seq(Callers)
    BY <1>0, <1>9, UnlockKeepsType DEF ReturnStdout
  <2>3. QED BY <1>9, <2>1, <2>2 DEF ReturnStdout
<1>10. ASSUME NEW t \in Turns, DiscardProcess(t) PROVE TypeOK'
  <2>1. ProcTypeOK'
    BY <1>0, <1>10, ProcTypes DEF DiscardProcess
  <2>2. lock' \in Seq(Callers)
    BY <1>0, <1>10, UnlockKeepsType DEF DiscardProcess
  <2>3. QED BY <1>10, <2>1, <2>2 DEF DiscardProcess, ProcTypeOK
<1>11. ASSUME NEW t \in Turns, EndTurn(t) PROVE TypeOK'
  BY <1>11 DEF EndTurn, procVars, readerVars
<1>12. ASSUME NEW q \in Probes, CallReadiness(q) PROVE TypeOK'
  BY <1>0, <1>12, QueueKeepsHolder DEF CallReadiness, ProbeStep, ProbeGoes, procVars, readerVars
<1>13. ASSUME NEW q \in Probes, ProbeLooks(q) PROVE TypeOK'
  <2>2. lock' \in Seq(Callers)
    BY <1>0, <1>13, UnlockKeepsType DEF ProbeLooks
  <2>3. QED BY <1>13, <2>2 DEF ProbeLooks, ProbeStep, ProbeGoes, Forget, readerVars
<1>14. ASSUME NEW q \in Probes, NEW found \in BOOLEAN, ProbeVersion(q, found) PROVE TypeOK'
  BY <1>0, <1>14, QueueKeepsHolder DEF ProbeVersion, ProbeStep, ProbeGoes, procVars, readerVars
<1>15. ASSUME NEW q \in Probes, ProbeLocks(q) PROVE TypeOK'
  <2>1. ProcTypeOK'
    BY <1>0, <1>15, ProcTypes DEF ProbeLocks
  <2>2. lock' \in Seq(Callers)
    BY <1>0, <1>15, UnlockKeepsType DEF ProbeLocks
  <2>3. probe' \in [Probes -> {"idle", "looking", "version", "queued", "initializing"}]
    BY <1>15 DEF ProbeLocks, ProbeGoes
  <2>4. QED BY <1>15, <2>1, <2>2, <2>3 DEF ProbeLocks, ProbeStep, readerVars, ProcTypeOK
<1>16. ASSUME NEW q \in Probes, ProbeInitializes(q) PROVE TypeOK'
  <2>1. ProcTypeOK'
    <3>1. CASE Discard(q)
      BY <1>0, <3>1, ProcTypes
    <3>2. CASE ~Discard(q)
      BY <1>0, <1>16, <3>2 DEF ProbeInitializes, ProcTypeOK
    <3>3. QED BY <3>1, <3>2
  <2>2. lock' \in Seq(Callers)
    BY <1>0, <1>16, UnlockKeepsType DEF ProbeInitializes
  <2>3. QED BY <1>16, <2>1, <2>2 DEF ProbeInitializes, ProbeStep, ProbeGoes, readerVars, ProcTypeOK
<1>17. ASSUME NEW p \in Procs, Exit(p) PROVE TypeOK'
  BY <1>17 DEF Exit, readerVars
<1>18. CASE UNCHANGED vars
  BY <1>18 DEF vars, procVars, readerVars
<1>19. QED
  BY <1>1, <1>2, <1>3, <1>4, <1>5, <1>6, <1>7, <1>8, <1>9, <1>10, <1>11, <1>12, <1>13,
     <1>14, <1>15, <1>16, <1>17, <1>18 DEF Next, StartTurn, Reads, Readiness

-----------------------------------------------------------------------------
\* Who is in the middle of using the process keeps the lock.

\* A step lets nobody into the middle of its use of the process but the caller at
\* the head of the queue, and moves that head only when it is done.
LEMMA LockPreserved ==
    ASSUME TypeOK, LockInv, ReaderInv, [Next]_vars
    PROVE  LockInv'
<1> USE DEF TypeOK, Callers, LockInv
<1>0. lock \in Seq(Callers)
  OBVIOUS
<1>a. ASSUME NEW x \in Callers, NEW y \in Callers, Holds(x), Holds(y) PROVE x = y
  BY <1>a DEF Holds
<1>b. /\ \A t \in Turns : t \in Callers /\ t \notin Probes
      /\ \A q \in Probes : q \in Callers /\ q \notin Turns
  OBVIOUS
<1>1. ASSUME NEW t \in Turns, CallStartTurn(t) PROVE LockInv'
  <2>1. \A y \in Callers : Holds(y) => Holds(y)'
    BY <1>0, <1>1, QueueKeepsHolder DEF CallStartTurn
  <2>2. QED BY <1>1, <2>1 DEF CallStartTurn, procVars
<1>2. ASSUME NEW t \in Turns, RefuseStreaming(t) \/ StartAccepted(t) \/ StartRejected(t) \/ StartBroken(t)
      PROVE LockInv'
  <2>1. Holds(t) /\ call' = [call EXCEPT ![t] = "done"] /\ probe' = probe
    BY <1>2 DEF RefuseStreaming, StartAccepted, StartRejected, StartBroken, StartStep, StartReturns
  <2>2. \A u \in Turns : call'[u] # "starting"
    BY <1>a, <1>b, <2>1
  <2>3. \A q \in Probes : probe'[q] # "initializing"
    BY <1>a, <1>b, <2>1
  <2>4. QED BY <2>2, <2>3
<1>3. ASSUME NEW t \in Turns, BeginStart(t) PROVE LockInv'
  <2>1. Holds(t) /\ probe' = probe
    BY <1>3 DEF BeginStart, StartStep
  <2>2. \A q \in Probes : probe'[q] # "initializing"
    BY <1>a, <1>b, <2>1
  <2>3. CASE call' = [call EXCEPT ![t] = "starting"] /\ UNCHANGED <<lock, told>>
    BY <2>1, <2>2, <2>3 DEF Holds
  <2>4. CASE call' = [call EXCEPT ![t] = "done"]
    <3>1. \A u \in Turns : call'[u] # "starting"
      BY <1>a, <1>b, <2>1, <2>4
    <3>2. QED BY <2>2, <3>1
  <2>5. QED BY <1>3, <2>3, <2>4 DEF BeginStart, StartReturns
<1>4. ASSUME NEW t \in Turns, DropStart(t) PROVE LockInv'
  <2>1. \A y \in Callers \ {t} : Holds(y) => Holds(y)'
    BY <1>0, <1>4, LeaveKeepsHolder DEF DropStart
  <2>2. \A u \in Turns : call'[u] = "starting" => u # t /\ Holds(u)
    BY <1>4 DEF DropStart
  <2>3. \A q \in Probes : probe'[q] = "initializing" => Holds(q) /\ q # t /\ ready' = ready /\ ~ready
    <3>1. call[t] = "starting" => Holds(t)
      OBVIOUS
    <3>2. QED BY <1>4, <1>a, <1>b, <3>1 DEF DropStart
  <2>4. QED BY <1>b, <2>1, <2>2, <2>3
<1>5. ASSUME NEW t \in Turns, ReadTerminal(t) \/ ReadBroken(t) PROVE LockInv'
  <2>1. \A y \in Callers : Holds(y) => Holds(y)'
    BY <1>0, <1>5, QueueKeepsHolder DEF ReadTerminal, ReadBroken
  <2>2. QED BY <1>5, <2>1 DEF ReadTerminal, ReadBroken, procVars
<1>6. ASSUME NEW t \in Turns, ReturnStdout(t) \/ DiscardProcess(t) PROVE LockInv'
  <2>1. Holds(t) /\ call' = call /\ probe' = probe /\ call[t] = "done"
    BY <1>6 DEF ReturnStdout, DiscardProcess, ReaderInv
  <2>2. \A u \in Turns : call'[u] # "starting"
    BY <1>a, <1>b, <2>1
  <2>3. \A q \in Probes : probe'[q] # "initializing"
    BY <1>a, <1>b, <2>1
  <2>4. QED BY <2>2, <2>3
<1>7. ASSUME NEW t \in Turns, EndTurn(t) PROVE LockInv'
  BY <1>7 DEF EndTurn, procVars, Holds
<1>8. ASSUME NEW q \in Probes, CallReadiness(q) PROVE LockInv'
  <2>1. \A y \in Callers : Holds(y) => Holds(y)'
    BY <1>0, <1>8, QueueKeepsHolder DEF CallReadiness
  <2>2. QED BY <1>8, <2>1 DEF CallReadiness, ProbeStep, ProbeGoes, procVars
<1>9. ASSUME NEW q \in Probes, ProbeLooks(q) \/ ProbeInitializes(q) PROVE LockInv'
  <2>1. Holds(q) /\ call' = call /\ probe'[q] # "initializing"
        /\ \A r \in Probes \ {q} : probe'[r] = probe[r]
    BY <1>9 DEF ProbeLooks, ProbeInitializes, ProbeStep, ProbeGoes
  <2>2. \A u \in Turns : call'[u] # "starting"
    BY <1>a, <1>b, <2>1
  <2>3. \A r \in Probes : probe'[r] # "initializing"
    BY <1>a, <1>b, <2>1
  <2>4. QED BY <2>2, <2>3
<1>10. ASSUME NEW q \in Probes, NEW found \in BOOLEAN, ProbeVersion(q, found) PROVE LockInv'
  <2>1. \A y \in Callers : Holds(y) => Holds(y)'
    BY <1>0, <1>10, QueueKeepsHolder DEF ProbeVersion, Holds
  <2>2. QED BY <1>10, <2>1 DEF ProbeVersion, ProbeStep, ProbeGoes, procVars
<1>11. ASSUME NEW q \in Probes, ProbeLocks(q) PROVE LockInv'
  <2>1. Holds(q) /\ call' = call /\ \A r \in Probes \ {q} : probe'[r] = probe[r]
    BY <1>11 DEF ProbeLocks, ProbeStep, ProbeGoes
  <2>2. \A u \in Turns : call'[u] # "starting"
    BY <1>a, <1>b, <2>1
  <2>3. \A r \in Probes \ {q} : probe'[r] # "initializing"
    BY <1>a, <1>b, <2>1
  <2>4. probe'[q] = "initializing" => Holds(q)' /\ ~ready'
    BY <1>11, <2>1 DEF ProbeLocks, ProbeGoes, Holds
  <2>5. QED BY <2>2, <2>3, <2>4
<1>12. ASSUME NEW p \in Procs, Exit(p) PROVE LockInv'
  BY <1>12 DEF Exit, Holds
<1>13. CASE UNCHANGED vars
  BY <1>13 DEF vars, procVars, Holds
<1>14. QED
  BY <1>1, <1>2, <1>3, <1>4, <1>5, <1>6, <1>7, <1>8, <1>9, <1>10, <1>11, <1>12, <1>13
     DEF Next, StartTurn, Reads, Readiness

-----------------------------------------------------------------------------
\* The readers.

LEMMA ReaderPreserved ==
    ASSUME TypeOK, ReaderInv, [Next]_vars
    PROVE  ReaderInv'
<1> USE DEF TypeOK, ReaderInv, Busy
<1>1. spawned \subseteq spawned'
  BY DEF Next, StartTurn, Reads, Readiness, CallStartTurn, RefuseStreaming, BeginStart,
         StartAccepted, StartRejected, StartBroken, DropStart, ReadTerminal, ReadBroken,
         ReturnStdout, DiscardProcess, EndTurn, CallReadiness, ProbeLooks, ProbeVersion,
         ProbeLocks, ProbeInitializes, Exit, Discard, EnsureProcess, Spawn, SpawnFails,
         procVars, vars
<1>2. ASSUME NEW t \in Turns, CallStartTurn(t) PROVE ReaderInv'
  BY <1>1, <1>2 DEF CallStartTurn, readerVars
<1>3. ASSUME NEW t \in Turns, RefuseStreaming(t) \/ StartRejected(t) \/ StartBroken(t)
      PROVE ReaderInv'
  <2>1. /\ reader[t] = "none" /\ UNCHANGED readerVars
        /\ \A u \in Turns \ {t} : call'[u] = call[u] /\ told'[u] = told[u]
    BY <1>3 DEF RefuseStreaming, StartRejected, StartBroken, StartStep, StartReturns
  <2>2. QED BY <1>1, <2>1 DEF readerVars
<1>4. ASSUME NEW t \in Turns, BeginStart(t) PROVE ReaderInv'
  <2>1. /\ reader[t] = "none" /\ UNCHANGED readerVars
        /\ \A u \in Turns \ {t} : call'[u] = call[u] /\ told'[u] = told[u]
    BY <1>4 DEF BeginStart, StartStep, StartReturns
  <2>2. QED BY <1>1, <2>1 DEF readerVars
<1>5. ASSUME NEW t \in Turns, StartAccepted(t) PROVE ReaderInv'
  <2>1. call'[t] = "done" /\ reader'[t] = "reading" /\ told'[t] = "nothing"
    BY <1>5 DEF StartAccepted, StartReturns
  <2>2. pipe'[t] \in spawned'
    BY <1>5 DEF StartAccepted
  <2>3. \A u \in Turns \ {t} : /\ call'[u] = call[u] /\ told'[u] = told[u]
                               /\ reader'[u] = reader[u] /\ pipe'[u] = pipe[u]
    BY <1>5 DEF StartAccepted, StartReturns
  <2>4. QED BY <1>1, <2>1, <2>2, <2>3
<1>6. ASSUME NEW t \in Turns, DropStart(t) PROVE ReaderInv'
  BY <1>1, <1>6 DEF DropStart, readerVars
<1>7. ASSUME NEW t \in Turns, ReadTerminal(t) \/ ReadBroken(t) PROVE ReaderInv'
  BY <1>1, <1>7 DEF ReadTerminal, ReadBroken, procVars
<1>8. ASSUME NEW t \in Turns, ReturnStdout(t) \/ DiscardProcess(t) PROVE ReaderInv'
  <2>1. /\ reader[t] # "none" /\ reader'[t] = "done" /\ UNCHANGED <<call, pipe>>
        /\ \A u \in Turns \ {t} : reader'[u] = reader[u] /\ told'[u] = told[u]
    BY <1>8 DEF ReturnStdout, DiscardProcess
  <2>2. QED BY <1>1, <2>1
<1>9. CASE UNCHANGED <<call, readerVars, told>>
  BY <1>1, <1>9 DEF readerVars
<1>10. ASSUME NEW t \in Turns, EndTurn(t) PROVE UNCHANGED <<call, readerVars, told>>
  BY <1>10 DEF EndTurn
<1>11. ASSUME NEW q \in Probes, CallReadiness(q) \/ Readiness(q)
       PROVE UNCHANGED <<call, readerVars, told>>
  BY <1>11 DEF CallReadiness, Readiness, ProbeLooks, ProbeVersion, ProbeLocks,
               ProbeInitializes, ProbeStep
<1>12. ASSUME NEW p \in Procs, Exit(p) PROVE UNCHANGED <<call, readerVars, told>>
  BY <1>12 DEF Exit
<1>13. CASE UNCHANGED vars
  BY <1>9, <1>13 DEF vars
<1>14. QED
  BY <1>2, <1>3, <1>4, <1>5, <1>6, <1>7, <1>8, <1>9, <1>10, <1>11, <1>12, <1>13
     DEF Next, StartTurn, Reads

-----------------------------------------------------------------------------
\* The process.  What a step does to it is one of five things.

Discards ==
    /\ \E x \in Callers : Discard(x) /\ (x \in Probes => ~ready)
    /\ UNCHANGED pipe
Replaces == (EnsureProcess \/ SpawnFails) /\ UNCHANGED readerVars
Keeps ==
    /\ UNCHANGED <<spawned, alive, killedBy, cached, pipe>>
    /\ ready' \in {ready, TRUE}
    /\ stdout' = stdout \/ stdout' \in spawned \/ cached = None
    /\ \A t \in Turns : reader[t] \in Busy =>
           reader'[t] \in Busy \/ cached = None \/ stdout' \in spawned

LEMMA StepKinds ==
    ASSUME TypeOK, LockInv, ReaderInv, [Next]_vars
    PROVE  \/ Discards \/ Replaces \/ Keeps
           \/ \E t \in Turns : StartAccepted(t)
           \/ \E p \in Procs : Exit(p)
<1> USE DEF TypeOK
<1>1. ASSUME NEW t \in Turns, CallStartTurn(t) PROVE Keeps
  BY <1>1 DEF CallStartTurn, Keeps, procVars, readerVars
<1>2. ASSUME NEW t \in Turns, RefuseStreaming(t) \/ StartBroken(t) \/ DiscardProcess(t)
      PROVE Discards
  <2>1. Discard(t) /\ UNCHANGED pipe
    BY <1>2 DEF RefuseStreaming, StartBroken, DiscardProcess, readerVars
  <2>2. t \in Callers /\ t \notin Probes
    BY DEF Callers
  <2>3. QED BY <2>1, <2>2 DEF Discards
<1>3. ASSUME NEW t \in Turns, BeginStart(t) PROVE Replaces
  BY <1>3 DEF BeginStart, Replaces
<1>4. ASSUME NEW t \in Turns, StartRejected(t) PROVE Keeps
  BY <1>4 DEF StartRejected, Keeps, readerVars
<1>5. ASSUME NEW t \in Turns, DropStart(t) PROVE Keeps
  BY <1>5 DEF DropStart, Keeps, readerVars
<1>6. ASSUME NEW t \in Turns, ReadTerminal(t) \/ ReadBroken(t) PROVE Keeps
  BY <1>6 DEF ReadTerminal, ReadBroken, Keeps, Busy, procVars
<1>7. ASSUME NEW t \in Turns, ReturnStdout(t) PROVE Keeps
  <2>1. cached = None \/ stdout' \in spawned
    BY <1>7 DEF ReturnStdout, ReaderInv
  <2>2. QED BY <1>7, <2>1 DEF ReturnStdout, Keeps
<1>8. ASSUME NEW t \in Turns, EndTurn(t) PROVE Keeps
  BY <1>8 DEF EndTurn, Keeps, procVars, readerVars
<1>9. ASSUME NEW q \in Probes, CallReadiness(q) \/ \E found \in BOOLEAN : ProbeVersion(q, found)
      PROVE Keeps
  BY <1>9 DEF CallReadiness, ProbeVersion, ProbeStep, Keeps, procVars, readerVars
<1>10. ASSUME NEW q \in Probes, ProbeLooks(q) PROVE Keeps \/ Replaces
  BY <1>10 DEF ProbeLooks, ProbeStep, Keeps, Replaces, SpawnFails, readerVars
<1>11. ASSUME NEW q \in Probes, ProbeLocks(q) PROVE Replaces
  BY <1>11 DEF ProbeLocks, ProbeStep, Replaces
<1>12. ASSUME NEW q \in Probes, ProbeInitializes(q) PROVE Discards \/ Keeps
  <2>1. CASE Discard(q)
    <3>1. ~ready /\ UNCHANGED pipe /\ q \in Callers
      BY <1>12 DEF ProbeInitializes, ProbeStep, LockInv, Callers, readerVars
    <3>2. QED BY <2>1, <3>1 DEF Discards
  <2>2. CASE ~Discard(q)
    BY <1>12, <2>2 DEF ProbeInitializes, ProbeStep, Keeps, readerVars
  <2>3. QED BY <2>1, <2>2
<1>13. CASE UNCHANGED vars
  BY <1>13 DEF vars, Keeps, procVars, readerVars
<1>14. QED
  BY <1>1, <1>2, <1>3, <1>4, <1>5, <1>6, <1>7, <1>8, <1>9, <1>10, <1>11, <1>12, <1>13
     DEF Next, StartTurn, Reads, Readiness

LEMMA ProcPreserved ==
    ASSUME IInv, [Next]_vars
    PROVE  ProcInv' /\ OneProcess' /\ OutputHasOneOwner' /\ ProbeSparesStreams'
<1> USE DEF IInv, TypeOK, ProcInv, OneProcess, OutputHasOneOwner, ProbeSparesStreams
<1>0. \A t \in Turns : pipe[t] # None => pipe[t] \in spawned
  BY DEF ReaderInv
<1>a. None \notin alive
  OBVIOUS
<1>1. CASE Discards
  <2>1. PICK x \in Callers : Discard(x) /\ (x \in Probes => ~ready)
    BY <1>1 DEF Discards
  <2>2. cached' = None /\ alive' = {} /\ spawned' = spawned /\ pipe' = pipe
    BY <1>1, <2>1 DEF Discard, Forget, Discards
  <2>3. \A p \in Procs : killedBy'[p] = killedBy[p] \/ (p = cached /\ cached \in alive /\ killedBy'[p] = x)
    BY <2>1 DEF Discard
  <2>4. ProcInv'
    BY <2>2, <2>3
  <2>5. ProbeSparesStreams'
    <3>1. SUFFICES ASSUME NEW t \in Turns, pipe[t] # None
                   PROVE  killedBy'[pipe[t]] \notin Probes
      BY <2>2
    <3>2. CASE killedBy'[pipe[t]] = killedBy[pipe[t]]
      BY <3>1, <3>2
    <3>3. CASE pipe[t] = cached /\ killedBy'[pipe[t]] = x
      BY <2>1, <3>1, <3>3
    <3>4. QED BY <1>0, <2>3, <3>1, <3>2, <3>3
  <2>6. QED BY <2>2, <2>4, <2>5
<1>2. CASE Replaces
  <2>1. UNCHANGED <<killedBy, reader, pipe>>
    BY <1>2 DEF Replaces, EnsureProcess, Spawn, SpawnFails, procVars, readerVars
  <2>2. CASE UNCHANGED procVars
    BY <2>1, <2>2 DEF procVars
  <2>3. CASE cached \notin alive /\ \E p \in Procs : Spawn(p)
    <3>1. PICK p \in Procs : Spawn(p)
      BY <2>3
    <3>2. /\ alive' = {p} /\ spawned' = spawned \cup {p} /\ p \notin spawned
          /\ cached' = p /\ stdout' = p /\ p # None
      BY <2>3, <3>1 DEF Spawn
    <3>3. QED BY <1>0, <2>1, <3>2
  <2>4. CASE SpawnFails
    BY <2>1, <2>4 DEF SpawnFails, Forget
  <2>5. QED BY <1>2, <2>2, <2>3, <2>4 DEF Replaces, EnsureProcess
<1>3. CASE Keeps
  <2>0. UNCHANGED <<spawned, alive, killedBy, cached, pipe>>
    BY <1>3 DEF Keeps
  <2>1. ready => ready'
    BY <1>3, Zenon DEF Keeps
  <2>2. OneProcess' /\ ProbeSparesStreams' /\ \A p \in Procs : killedBy'[p] # None => p \in spawned' \ alive'
    BY <2>0
  <2>3. \A t \in Turns : pipe'[t] # None /\ pipe'[t] = cached' => ready'
    BY <2>0, <2>1, Zenon
  <2>4. OutputHasOneOwner'
    <3>1. SUFFICES ASSUME cached' \in alive', stdout' = None
                   PROVE  \E t \in Turns : pipe'[t] = cached' /\ reader'[t] \in Busy
      BY DEF Busy
    <3>2. /\ cached \in alive /\ cached # None /\ stdout' \notin spawned /\ stdout = None
          /\ cached' = cached /\ pipe' = pipe
      BY <1>3, <3>1 DEF Keeps
    <3>3. PICK t \in Turns : pipe[t] = cached /\ reader[t] \in Busy
      BY <3>2 DEF Busy
    <3>4. reader'[t] \in Busy
      BY <1>3, <3>2, <3>3 DEF Keeps
    <3>5. QED BY <3>2, <3>3, <3>4
  <2>5. QED BY <2>2, <2>3, <2>4
<1>4. ASSUME NEW t \in Turns, StartAccepted(t)
      PROVE  ProcInv' /\ OneProcess' /\ OutputHasOneOwner' /\ ProbeSparesStreams'
  <2>1. /\ UNCHANGED <<spawned, alive, killedBy, cached>> /\ ready' = TRUE
        /\ cached \in alive /\ killedBy[cached] = None
        /\ pipe'[t] = cached /\ reader'[t] = "reading"
        /\ \A u \in Turns \ {t} : pipe'[u] = pipe[u]
    BY <1>4 DEF StartAccepted
  <2>2. QED BY <2>1
<1>5. ASSUME NEW p \in Procs, Exit(p)
      PROVE  ProcInv' /\ OneProcess' /\ OutputHasOneOwner' /\ ProbeSparesStreams'
  BY <1>5 DEF Exit, readerVars
<1>6. QED BY <1>1, <1>2, <1>3, <1>4, <1>5, StepKinds

-----------------------------------------------------------------------------
LEMMA InitEstablishes == Init => IInv
<1> SUFFICES ASSUME Init PROVE IInv
  OBVIOUS
<1>1. <<>> \in Seq(Callers)
  OBVIOUS
<1>2. TypeOK
  BY <1>1 DEF Init, TypeOK, Callers
<1>3. LockInv /\ ReaderInv /\ ProcInv
  BY DEF Init, LockInv, ReaderInv, ProcInv, Busy
<1>4. OneProcess /\ OutputHasOneOwner /\ ProbeSparesStreams
  BY DEF Init, OneProcess, OutputHasOneOwner, ProbeSparesStreams
<1>5. QED BY <1>2, <1>3, <1>4 DEF IInv

\* The inductive invariant: types, who is in the middle of using the process,
\* what a reader has, and the three safety properties, which lean on each other.
THEOREM Inductive == Spec => []IInv
<1>1. IInv /\ [Next]_vars => IInv'
  <2> SUFFICES ASSUME IInv, [Next]_vars PROVE IInv'
    OBVIOUS
  <2>1. TypeOK' /\ LockInv' /\ ReaderInv'
    BY TypePreserved, LockPreserved, ReaderPreserved DEF IInv
  <2>2. QED BY <2>1, ProcPreserved DEF IInv
<1>2. QED BY <1>1, InitEstablishes, PTL DEF Spec

\* However many turns, probes and restarts interleave, no app-server process
\* lives on outside the daemon's cache (ensure_process, discard_process).
THEOREM OneProcessHolds == Spec => []OneProcess
<1>1. IInv => OneProcess
  BY DEF IInv
<1>2. QED BY <1>1, Inductive, PTL

\* The output that take_stdout took from a live process is with a reader that
\* will give it back or discard the process.
THEOREM OutputHasOneOwnerHolds == Spec => []OutputHasOneOwner
<1>1. IInv => OutputHasOneOwner
  BY DEF IInv
<1>2. QED BY <1>1, Inductive, PTL

\* readiness gives the lock back between its two looks at the process, and still
\* never kills one that has streamed a turn.
THEOREM ProbeSparesStreamsHolds == Spec => []ProbeSparesStreams
<1>1. IInv => ProbeSparesStreams
  BY DEF IInv
<1>2. QED BY <1>1, Inductive, PTL

\* Once every stream has told its end, the next start_turn finds the output of
\* the process in the cache (run_turn_stream sends the event after return_stdout).
THEOREM FollowUpAcceptedHolds == Spec => []FollowUpAccepted
<1>1. IInv => FollowUpAccepted
  <2>1. SUFFICES ASSUME IInv, cached \in alive, stdout = None
                 PROVE  \E t \in Turns : reader[t] # "none" /\ told[t] = "nothing"
    BY DEF FollowUpAccepted
  <2>2. PICK t \in Turns : reader[t] \in Busy
    BY <2>1 DEF IInv, OutputHasOneOwner, Busy
  <2>3. QED BY <2>1, <2>2 DEF IInv, ReaderInv, Busy
<1>2. QED BY <1>1, Inductive, PTL
=============================================================================

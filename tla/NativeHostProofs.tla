--------------------------- MODULE NativeHostProofs ---------------------------
(***************************************************************************)
(* Theorems about the native host, for every number of requests, whichever *)
(* of them are large, too big to be answered or the one that asks.         *)
(***************************************************************************)
EXTENDS NativeHost, SequenceTheorems, TLAPS

USE HostAssumption

\* What the daemon says.
Replies == {text \in Texts : text.kind \in {"response", "notification"}}

\* As TypeOK, without what the order of the requests says of their sizes.
Types ==
    /\ env \in Environments
    /\ host \in Phases
    /\ port \in {"open", "closed"}
    /\ sent \in 0..N
    /\ rest \in Requests \cup {None}
    /\ pipe \in Seq(Pieces)
    /\ reading \in Requests \cup {None}
    /\ astray \in {"no", "length", "text"}
    /\ lost \subseteq Requests
    /\ told \in Seq(Texts)
    /\ first \in Inputs \cup {None} /\ answered \in BOOLEAN
    /\ socket \in {"none", "open", "left", "closed", "gone"}
    /\ toDaemon \in Seq(Inputs) /\ fromDaemon \in Seq(Replies)
    /\ daemon \in {"none", "starting", "up", "down"}
    /\ stdinHeld \in BOOLEAN
    /\ handling \in Inputs \cup {None}
    /\ done \in Seq(Requests)
    /\ turn \in {"none", "active", "ended"}
    /\ crashed \in BOOLEAN

-----------------------------------------------------------------------------
\* What lies in the pipe: a request follows another in the order in which the
\* extension sent them, and the second part of one follows its first.  Only
\* what is at the head of the pipe may be the end of a misread text.

HeadPieces ==
    \A k \in 1..Len(pipe) : pipe[k].part = "head" =>
        /\ pipe[k].req \in Large
        /\ IF k = Len(pipe) THEN rest = pipe[k].req
           ELSE /\ rest # pipe[k].req /\ pipe[k + 1].req = pipe[k].req
                /\ \A m \in k + 2..Len(pipe) : pipe[k].req < pipe[m].req

PipeInOrder ==
    /\ \A k \in 1..Len(pipe) : pipe[k].req <= sent
    /\ \A k, m \in 1..Len(pipe) : k < m => pipe[k].req <= pipe[m].req
    /\ \A k, m \in 1..Len(pipe) :
          k < m /\ pipe[m].part \in {"whole", "head"} => pipe[k].req < pipe[m].req
    /\ \A k \in 1..Len(pipe) : pipe[k].part = "whole" =>
          pipe[k].req # rest /\ \A m \in k + 1..Len(pipe) : pipe[k].req < pipe[m].req
    /\ HeadPieces

\* The request that is read in two parts is the first of those to come.
ReadInOrder ==
    /\ rest # None => rest = sent /\ rest \in Large
    /\ reading # None =>
          /\ reading \in Large /\ astray = "no"
          /\ IF pipe = <<>> THEN rest = reading
             ELSE /\ rest # reading /\ pipe[1].req = reading
                  /\ \A k \in 2..Len(pipe) : reading < pipe[k].req

\* What is still to come of a request, or of those after it.
ToCome(i) == rest = i \/ reading = i \/ \E k \in 1..Len(pipe) : pipe[k].req = i

\* A request that is lost comes no more, but for the end of a misread text; the
\* first to be lost is a large one.
LostInOrder ==
    /\ \A l \in lost :
          /\ l <= sent /\ (reading # None => l < reading)
          /\ \A k \in 1..Len(pipe) :
                l <= pipe[k].req /\ (pipe[k].part \in {"whole", "head"} => l < pipe[k].req)
          /\ \E j \in lost \cap Large : j <= l
    /\ astray # "no" => lost # {}
    /\ lost = {} => \A k \in 1..Len(pipe) :
          pipe[k].part \in {"tail", "scrap"} => pipe[k].req \in Large

\* What the daemon was given, and what is on its way to it.
Done == {done[k] : k \in 1..Len(done)}
Pending == {toDaemon[k] : k \in 1..Len(toDaemon)} \ {Misread}
Given == Done \cup Pending

GivenInOrder ==
    /\ \A j, k \in 1..Len(done) : j < k => done[j] < done[k]
    /\ \A j, k \in 1..Len(toDaemon) : j < k /\ toDaemon[k] # Misread => toDaemon[j] < toDaemon[k]
    /\ \A d \in Done, p \in Pending : d < p

\* Nothing that was given is lost or still to come, and what was not given
\* before it is lost.
NoneSkipped ==
    \A g \in Given :
        /\ g <= sent /\ g \notin lost
        /\ \A i \in Requests : ToCome(i) => g < i
        /\ \A i \in Requests : i < g => i \in Given \cup lost

\* The host passes on everything that comes, or loses it.
InStep ==
    \/ host \in {"launched", "starting", "connecting", "serving", "handling"}
    \/ host = "relaying" /\ socket = "open"

HostInStep == InStep => \A i \in 1..sent : i \in Given \cup lost \/ ToCome(i)

NoSocketYet ==
    host \in {"launched", "starting", "connecting", "serving", "handling"} =>
        socket = "none" /\ toDaemon = <<>>

TurnAsked == turn # "none" => Ask \in Done

\* What was written to the extension, and when the host falls silent.
Gone == {"stopping", "over", "killed"}
Quiet ==
    \/ host \in {"launched", "starting", "connecting", "refusing"}
    \/ host = "relaying" /\ ~answered

ToldInv ==
    /\ Quiet => told = <<>>
    /\ (\E k \in DOMAIN told : told[k].kind = "setup") => Len(told) = 1 /\ host \in Gone
    /\ ~Initialized => sent <= 1

FirstIsInitialize == first \in {1, None}

InputInv == PipeInOrder /\ ReadInOrder /\ LostInOrder
GivenInv == GivenInOrder /\ NoneSkipped /\ HostInStep /\ NoSocketYet

IInv == Types /\ InputInv /\ GivenInv /\ TurnAsked /\ ToldInv /\ FirstIsInitialize

-----------------------------------------------------------------------------
\* Types.

LEMMA TextTypes ==
    /\ Notification \in Texts /\ FrameError \in Texts
    /\ \A i \in Inputs \cup {None} : Response(i) \in Texts /\ SetupRequired(i) \in Texts
    /\ \A i \in Inputs \cup {None} : Response(i) \in Replies
    /\ Notification \in Replies /\ Replies \subseteq Texts
  BY DEF Texts, Replies, Notification, FrameError, Response, SetupRequired

LEMMA WriteTypes ==
    ASSUME Types, NEW text \in Texts, Write(text)
    PROVE  /\ told' \in Seq(Texts)
           /\ \/ told' = told
              \/ told' = Append(told, text) /\ Len(told') = Len(told) + 1
  BY AppendProperties DEF Types, Write

LEMMA LeaveTypes ==
    ASSUME Types, NEW t \in {"none", "active", "ended"}, Leave(t)
    PROVE  /\ host' \in {"stopping", "over"} /\ stdinHeld' = FALSE
           /\ socket' = IF socket = "open" THEN "left" ELSE socket
           /\ turn' \in {t, "ended"} /\ (t = "none" => turn' = "none")
  BY DEF Leave

LEMMA ContinueTypes ==
    ASSUME NEW where, NEW t, Continue(where, t)
    PROVE  host' = where /\ turn' = t /\ stdinHeld' = stdinHeld /\ socket' = socket
  BY DEF Continue

LEMMA WayTypes ==
    ASSUME Types, NEW t \in {"none", "active", "ended"}, NEW where \in Phases,
           Leave(t) \/ Continue(where, t)
    PROVE  /\ host' \in Phases /\ stdinHeld' \in BOOLEAN
           /\ socket' \in {"none", "open", "left", "closed", "gone"}
           /\ turn' \in {"none", "active", "ended"}
<1>1. CASE Leave(t)
  BY <1>1, LeaveTypes DEF Types, Phases
<1>2. CASE Continue(where, t)
  BY <1>2, ContinueTypes DEF Types
<1>3. QED BY <1>1, <1>2

LEMMA LoopPhases == {"serving", "relaying", "refusing"} \subseteq Phases
  BY DEF Phases, Loops

LEMMA InputTypes ==
    /\ Requests \subseteq Inputs /\ Misread \in Inputs /\ Misread \notin Requests
    /\ None \notin Inputs /\ Inputs \subseteq Nat
    /\ \A i \in Inputs : i # Misread => i \in Requests
  BY DEF Inputs, Requests, Misread

LEMMA TakeRequestTypes ==
    ASSUME Types, NEW i \in Inputs, TakeRequest(i)
    PROVE  /\ handling' = i /\ done' \in Seq(Requests)
           /\ i = Misread => done' = done
           /\ i # Misread => done' = Append(done, i)
           /\ turn' = IF i = Ask THEN "active" ELSE turn
  BY InputTypes, AppendProperties DEF Types, TakeRequest

LEMMA TailTypes ==
    ASSUME NEW S, NEW s \in Seq(S), s # <<>>
    PROVE  /\ Head(s) \in S /\ Head(s) = s[1] /\ Tail(s) \in Seq(S)
           /\ Len(s) \in Nat \ {0} /\ Len(Tail(s)) = Len(s) - 1
           /\ \A k \in 1..Len(s) - 1 : Tail(s)[k] = s[k + 1]
           /\ Tail(s) = <<>> <=> Len(s) = 1
<1>1. Tail(s) \in Seq(S) /\ Len(Tail(s)) = Len(s) - 1 /\ Head(s) \in S
  BY HeadTailProperties
<1>2. \A k \in 1..Len(Tail(s)) : Tail(s)[k] = s[k + 1]
  BY HeadTailProperties
<1>3. Len(s) \in Nat \ {0}
  BY EmptySeq
<1>4. Tail(s) # <<>> => Len(Tail(s)) \in Nat \ {0}
  BY <1>1, EmptySeq
<1>5. Tail(s) = <<>> => Len(Tail(s)) = 0
  BY EmptySeq
<1>6. Head(s) = s[1]
  BY <1>3
<1>7. QED BY <1>1, <1>2, <1>3, <1>4, <1>5, <1>6

\* The pipe after a frame has been taken from it.
LEMMA CutTypes ==
    ASSUME NEW s \in Seq(Pieces), s # <<>>, NEW p \in {"tail", "scrap"}
    PROVE  /\ [s EXCEPT ![1].part = p] \in Seq(Pieces)
           /\ Len([s EXCEPT ![1].part = p]) = Len(s)
           /\ [s EXCEPT ![1].part = p][1] = [req |-> s[1].req, part |-> p]
           /\ \A k \in 2..Len(s) : [s EXCEPT ![1].part = p][k] = s[k]
<1>1. Len(s) \in Nat \ {0} /\ s[1] \in Pieces
  BY TailTypes
<1>2. [s[1] EXCEPT !.part = p] = [req |-> s[1].req, part |-> p]
  BY <1>1 DEF Pieces
<1>3. [req |-> s[1].req, part |-> p] \in Pieces
  BY <1>1 DEF Pieces
<1> DEFINE t == [s EXCEPT ![1] = [req |-> s[1].req, part |-> p]]
<1>4. [s EXCEPT ![1].part = p] = t
  BY <1>2
<1>5. t \in Seq(Pieces) /\ Len(t) = Len(s)
  BY <1>1, <1>3, ExceptSeq
<1>6. t[1] = [req |-> s[1].req, part |-> p] /\ \A k \in 2..Len(s) : t[k] = s[k]
  BY <1>1, LenProperties
<1>7. QED BY <1>4, <1>5, <1>6

LEMMA TakeFrameTypes ==
    ASSUME Types, NEW i \in Inputs, Complete(i), TakeFrame(i)
    PROVE  /\ pipe # <<>> /\ pipe' \in Seq(Pieces) /\ lost' \subseteq Requests
           /\ reading' = None /\ astray' = "no" /\ UNCHANGED <<port, sent, rest>>
<1>1. pipe # <<>> /\ pipe \in Seq(Pieces) /\ lost \subseteq Requests
  BY DEF Complete, Types
<1>2. Tail(pipe) \in Seq(Pieces) /\ Head(pipe).req \in Requests
  <2>1. Tail(pipe) \in Seq(Pieces) /\ Head(pipe) \in Pieces
    BY <1>1, TailTypes
  <2>2. QED BY <2>1 DEF Pieces
<1>3. \/ pipe' = Tail(pipe)
      \/ \E p \in {"tail", "scrap"} : pipe' = [pipe EXCEPT ![1].part = p]
  BY DEF TakeFrame
<1>4. pipe' \in Seq(Pieces)
  <2>1. ASSUME NEW p \in {"tail", "scrap"} PROVE [pipe EXCEPT ![1].part = p] \in Seq(Pieces)
    BY <1>1, CutTypes
  <2>2. QED BY <1>2, <1>3, <2>1
<1>5. lost' \subseteq Requests
  BY <1>1, <1>2 DEF TakeFrame
<1>6. QED BY <1>1, <1>4, <1>5 DEF TakeFrame

LEMMA DaemonEndsTypes ==
    ASSUME Types, DaemonEnds
    PROVE  /\ daemon' = "down" /\ handling' = None /\ toDaemon' = <<>>
           /\ socket' = CASE socket = "open" -> "closed" [] socket = "left" -> "gone"
                          [] OTHER -> socket
           /\ fromDaemon' \in Seq(Replies)
           /\ UNCHANGED <<env, browserVars, readVars, told, relayVars, done, turn>>
<1>1. PICK k \in 0..Len(fromDaemon) : fromDaemon' = SubSeq(fromDaemon, 1, k)
  BY DEF DaemonEnds
<1>2. fromDaemon \in Seq(Replies) /\ Len(fromDaemon) \in Nat
  BY LenProperties DEF Types
<1>3. \A i \in 1..k : fromDaemon[i] \in Replies
  BY <1>2, ElementOfSeq
<1>4. SubSeq(fromDaemon, 1, k) \in Seq(Replies)
  BY <1>2, <1>3, SubSeqProperties
<1>5. QED BY <1>1, <1>4 DEF DaemonEnds

LEMMA BrowserTypes ==
    ASSUME Types, Browser
    PROVE  Types'
<1>1. CASE Send
  <2>1. sent + 1 \in Requests /\ Len(pipe) \in Nat
    BY <1>1 DEF Send, Types, Requests
  <2>2. [req |-> sent + 1, part |-> IF sent + 1 \in Large THEN "head" ELSE "whole"] \in Pieces
    BY <2>1 DEF Pieces
  <2>3. pipe' \in Seq(Pieces)
    BY <1>1, <2>2, AppendProperties DEF Send, Types
  <2>4. QED BY <1>1, <2>1, <2>3 DEF Send, Types, Requests, readVars, relayVars, wireVars, daemonVars
<1>2. CASE SendRest
  <2>1. PICK p \in {"tail", "scrap"} : pipe' = Append(pipe, [req |-> rest, part |-> p])
    BY <1>2 DEF SendRest
  <2>2. [req |-> rest, part |-> p] \in Pieces
    BY <1>2 DEF SendRest, Pieces, Types
  <2>3. pipe' \in Seq(Pieces)
    BY <2>1, <2>2, AppendProperties DEF Types
  <2>4. QED BY <1>2, <2>3 DEF SendRest, Types, readVars, relayVars, wireVars, daemonVars
<1>3. CASE Disconnect
  BY <1>3 DEF Disconnect, Types, readVars, relayVars, wireVars, daemonVars
<1>4. CASE Kill
  <2>1. /\ host' \in Phases /\ stdinHeld' \in BOOLEAN
        /\ socket' \in {"none", "open", "left", "closed", "gone"}
        /\ handling' \in Inputs \cup {None}
    BY <1>4 DEF Kill, Types, Phases
  <2>2. UNCHANGED <<env, port, sent, rest, pipe, reading, astray, lost, told, first, answered,
                    toDaemon, fromDaemon, daemon, done, turn, crashed>>
    BY <1>4 DEF Kill, browserVars, readVars, relayVars
  <2>3. QED BY <2>1, <2>2 DEF Types
<1>5. QED BY <1>1, <1>2, <1>3, <1>4 DEF Browser

LEMMA FrameTypes ==
    ASSUME Types, FrameStep
    PROVE  Types'
<1>1. CASE TakeHead
  <2>1. Head(pipe) \in Pieces /\ pipe' \in Seq(Pieces)
    BY <1>1, HeadTailProperties DEF TakeHead, Types
  <2>2. QED BY <1>1, <2>1 DEF TakeHead, Types, Pieces, relayVars, wireVars, daemonVars
<1>0. turn \in {"none", "active", "ended"} /\ host \in Phases
  BY DEF Types
<1>2. CASE FrameFails
  <2>1. told' \in Seq(Texts)
    BY <1>2, WriteTypes, TextTypes DEF FrameFails
  <2>2. /\ host' \in Phases /\ stdinHeld' \in BOOLEAN
        /\ socket' \in {"none", "open", "left", "closed", "gone"}
        /\ turn' \in {"none", "active", "ended"}
    BY <1>0, <1>2, WayTypes DEF FrameFails
  <2>3. QED BY <1>2, <2>1, <2>2 DEF FrameFails, Types, browserVars, readVars, relayVars
<1>7. CASE ReadAstray
  <2>1. Head(pipe).req \in Requests /\ pipe' \in Seq(Pieces)
    <3>1. Tail(pipe) \in Seq(Pieces) /\ Head(pipe) \in Pieces /\ pipe' = Tail(pipe)
      BY <1>7, TailTypes DEF ReadAstray, Types
    <3>2. QED BY <3>1 DEF Pieces
  <2>2. astray' \in {"no", "length", "text"} /\ lost' \subseteq Requests
    BY <1>7, <2>1 DEF ReadAstray, Types
  <2>3. QED BY <1>7, <2>1, <2>2 DEF ReadAstray, Types, relayVars, wireVars, daemonVars
<1>8. CASE NotUtf8
  <2>1. /\ pipe' \in Seq(Pieces) /\ lost' \subseteq Requests
        /\ reading' = None /\ astray' = "no" /\ UNCHANGED <<port, sent, rest>>
    BY <1>8, TakeFrameTypes, InputTypes DEF NotUtf8
  <2>2. told' \in Seq(Texts)
    BY <1>8, WriteTypes, TextTypes DEF NotUtf8
  <2>3. Leave(turn) \/ Continue("serving", turn)
    BY <1>8 DEF NotUtf8
  <2>4. /\ host' \in Phases /\ stdinHeld' \in BOOLEAN
        /\ socket' \in {"none", "open", "left", "closed", "gone"}
        /\ turn' \in {"none", "active", "ended"}
    BY <1>0, <2>3, WayTypes, LoopPhases
  <2>5. QED BY <1>8, <2>1, <2>2, <2>4 DEF NotUtf8, Types, relayVars
<1>3. CASE EndOfInput
  <2>1. /\ host' \in Phases /\ stdinHeld' \in BOOLEAN
        /\ socket' \in {"none", "open", "left", "closed", "gone"}
        /\ turn' \in {"none", "active", "ended"}
    BY <1>0, <1>3, WayTypes DEF EndOfInput
  <2>2. QED BY <1>3, <2>1 DEF EndOfInput, Types, browserVars, readVars, relayVars
<1>4. ASSUME NEW i \in Inputs, HandleFrame(i) PROVE Types'
  <2>1. /\ pipe' \in Seq(Pieces) /\ lost' \subseteq Requests
        /\ reading' = None /\ astray' = "no" /\ UNCHANGED <<port, sent, rest>>
    BY <1>4, TakeFrameTypes DEF HandleFrame
  <2>2. TakeRequest(i)
    BY <1>4 DEF HandleFrame
  <2>3. QED BY <1>4, <2>1, <2>2, TakeRequestTypes
            DEF HandleFrame, Types, relayVars, wireVars, Phases
<1>5. ASSUME NEW i \in Inputs, RelayFrame(i) PROVE Types'
  <2>1. /\ pipe' \in Seq(Pieces) /\ lost' \subseteq Requests
        /\ reading' = None /\ astray' = "no" /\ UNCHANGED <<port, sent, rest>>
    BY <1>5, TakeFrameTypes DEF RelayFrame
  <2>3. first' \in Inputs \cup {None}
    BY <1>5 DEF RelayFrame, Types
  <2>4. toDaemon' \in Seq(Inputs)
    <3>1. toDaemon' = toDaemon \/ toDaemon' = Append(toDaemon, i)
      BY <1>5 DEF RelayFrame
    <3>2. toDaemon \in Seq(Inputs) /\ Append(toDaemon, i) \in Seq(Inputs)
      BY <1>5, AppendProperties DEF Types
    <3>3. QED BY <3>1, <3>2
  <2>5. \/ first' \in Inputs /\ Write(SetupRequired(first')) /\ Leave(turn)
        \/ UNCHANGED told /\ Continue("refusing", turn)
        \/ UNCHANGED told /\ Leave(turn)
        \/ UNCHANGED told /\ Continue("relaying", turn)
    BY <1>5, <2>3 DEF RelayFrame, RelayFails
  <2>6. told' \in Seq(Texts)
    BY <2>5, WriteTypes, TextTypes DEF Types
  <2>7. /\ host' \in Phases /\ stdinHeld' \in BOOLEAN
        /\ socket' \in {"none", "open", "left", "closed", "gone"}
        /\ turn' \in {"none", "active", "ended"}
    BY <1>0, <2>5, WayTypes, LoopPhases
  <2>8. QED BY <1>5, <2>1, <2>3, <2>4, <2>6, <2>7 DEF RelayFrame, Types
<1>6. ASSUME NEW i \in Requests, Refuse(i) PROVE Types'
  <2>1. /\ pipe' \in Seq(Pieces) /\ lost' \subseteq Requests
        /\ reading' = None /\ astray' = "no" /\ UNCHANGED <<port, sent, rest>>
    BY <1>6, TakeFrameTypes, InputTypes DEF Refuse
  <2>3. told' \in Seq(Texts)
    BY <1>6, WriteTypes, TextTypes, InputTypes DEF Refuse
  <2>4. /\ host' \in Phases /\ stdinHeld' \in BOOLEAN
        /\ socket' \in {"none", "open", "left", "closed", "gone"}
        /\ turn' \in {"none", "active", "ended"}
    BY <1>0, <1>6, WayTypes DEF Refuse
  <2>5. QED BY <1>6, <2>1, <2>3, <2>4 DEF Refuse, Types, relayVars
<1>9. QED BY <1>1, <1>2, <1>3, <1>4, <1>5, <1>6, <1>7, <1>8 DEF FrameStep

LEMMA BranchTypes ==
    ASSUME Types, OtherBranch
    PROVE  Types'
<1>0. turn \in {"none", "active", "ended"} /\ host \in Phases
  BY DEF Types
<1>1. CASE WriteHandled
  <2>1. PICK t \in TurnsAfter(handling) :
            /\ fromDaemon' = Notify(t)
            /\ IF CanWrite(Response(handling)) THEN Continue("serving", t) ELSE Leave(t)
    BY <1>1 DEF WriteHandled
  <2>2. t \in {"none", "active", "ended"}
    BY <1>0 DEF TurnsAfter
  <2>3. fromDaemon' \in Seq(Replies)
    BY <2>1, TextTypes, AppendProperties DEF Notify, Types
  <2>4. told' \in Seq(Texts)
    <3>1. Response(handling) \in Texts /\ Write(Response(handling))
      BY <1>1, TextTypes DEF WriteHandled, Types
    <3>2. QED BY <3>1, WriteTypes
  <2>5. /\ host' \in Phases /\ stdinHeld' \in BOOLEAN
        /\ socket' \in {"none", "open", "left", "closed", "gone"}
        /\ turn' \in {"none", "active", "ended"}
    BY <2>1, <2>2, WayTypes, LoopPhases
  <2>6. QED BY <1>1, <2>3, <2>4, <2>5 DEF WriteHandled, Types, browserVars, readVars, relayVars
<1>2. CASE WriteEvent
  <2>1. fromDaemon' \in Seq(Replies)
    BY <1>2, HeadTailProperties DEF WriteEvent, Types
  <2>2. \/ Write(Notification) /\ (Continue("serving", turn) \/ Leave(turn))
        \/ UNCHANGED told /\ Leave(turn)
    BY <1>2 DEF WriteEvent
  <2>3. told' \in Seq(Texts)
    BY <2>2, WriteTypes, TextTypes DEF Types
  <2>4. /\ host' \in Phases /\ stdinHeld' \in BOOLEAN
        /\ socket' \in {"none", "open", "left", "closed", "gone"}
        /\ turn' \in {"none", "active", "ended"}
    BY <1>0, <2>2, WayTypes, LoopPhases
  <2>5. QED BY <1>2, <2>1, <2>3, <2>4 DEF WriteEvent, DropRead, Types, browserVars, readVars, relayVars
<1>3. CASE RelayText
  <2>1. fromDaemon' \in Seq(Replies) /\ Head(fromDaemon) \in Texts
    BY <1>3, HeadTailProperties, TextTypes DEF RelayText, Types
  <2>2. told' \in Seq(Texts)
    BY <1>3, <2>1, WriteTypes DEF RelayText
  <2>3. /\ host' \in Phases /\ stdinHeld' \in BOOLEAN
        /\ socket' \in {"none", "open", "left", "closed", "gone"}
        /\ turn' \in {"none", "active", "ended"}
    BY <1>0, <1>3, WayTypes, LoopPhases DEF RelayText
  <2>4. answered' \in BOOLEAN
    BY <1>3 DEF RelayText, Types
  <2>5. QED BY <1>3, <2>1, <2>2, <2>3, <2>4 DEF RelayText, DropRead, Types, browserVars
<1>4. CASE RelayLost
  <2>1. \/ first \in Inputs /\ Write(SetupRequired(first)) /\ Leave(turn)
        \/ UNCHANGED told /\ Continue("refusing", turn)
        \/ UNCHANGED told /\ Leave(turn)
    BY <1>4 DEF RelayLost, RelayFails, Types
  <2>2. told' \in Seq(Texts)
    BY <2>1, WriteTypes, TextTypes DEF Types
  <2>3. /\ host' \in Phases /\ stdinHeld' \in BOOLEAN
        /\ socket' \in {"none", "open", "left", "closed", "gone"}
        /\ turn' \in {"none", "active", "ended"}
    BY <1>0, <2>1, WayTypes, LoopPhases
  <2>4. QED BY <1>4, <2>2, <2>3 DEF RelayLost, DropRead, Types, browserVars, readVars, relayVars
<1>5. QED BY <1>1, <1>2, <1>3, <1>4 DEF OtherBranch

LEMMA StartTypes ==
    ASSUME Types, Startup \/ Shutdown
    PROVE  Types'
<1>0. turn \in {"none", "active", "ended"} /\ host \in Phases
  BY DEF Types
<1>1. CASE Launch
  <2>1. /\ host' \in Phases
        /\ \/ daemon' = daemon /\ stdinHeld' = stdinHeld
           \/ daemon' = "starting" /\ stdinHeld' = TRUE
    BY <1>1 DEF Launch, Phases, Loops
  <2>2. daemon' \in {"none", "starting", "up", "down"} /\ stdinHeld' \in BOOLEAN
    BY <2>1 DEF Types
  <2>3. QED BY <1>1, <2>1, <2>2 DEF Launch, Types, browserVars, readVars, relayVars, wireVars
<1>2. CASE ReadStatus
  BY <1>2 DEF ReadStatus, Types, Phases, browserVars, readVars, relayVars, wireVars, daemonVars
<1>3. CASE StatusFails
  <2>1. host' = "refusing" /\ daemon' = "down" /\ stdinHeld' = FALSE
    BY <1>3 DEF StatusFails
  <2>2. "refusing" \in Phases
    BY DEF Phases, Loops
  <2>3. UNCHANGED <<env, port, sent, rest, pipe, reading, astray, lost, told, first, answered,
                    socket, toDaemon, fromDaemon, handling, done, turn, crashed>>
    BY <1>3 DEF StatusFails, browserVars, readVars, relayVars, wireVars
  <2>4. /\ host' \in Phases /\ daemon' \in {"none", "starting", "up", "down"}
        /\ stdinHeld' \in BOOLEAN
    BY <2>1, <2>2
  <2>5. QED BY <2>3, <2>4 DEF Types
<1>4. CASE Connect
  BY <1>4 DEF Connect, Types, Phases, Loops, browserVars, readVars, relayVars, daemonVars
<1>5. CASE CannotConnect
  <2>1. /\ host' \in Phases /\ stdinHeld' \in BOOLEAN
        /\ socket' \in {"none", "open", "left", "closed", "gone"}
        /\ turn' \in {"none", "active", "ended"}
    BY <1>0, <1>5, WayTypes, LoopPhases DEF CannotConnect
  <2>2. QED BY <1>5, <2>1 DEF CannotConnect, Types, browserVars, readVars, relayVars
<1>6. CASE ChildStopped
  BY <1>6 DEF ChildStopped, Types, Phases, browserVars, readVars, relayVars, wireVars, daemonVars
<1>7. CASE ChildKilled
  <2>1. DaemonEnds
    BY <1>7 DEF ChildKilled
  <2>2. socket' \in {"none", "open", "left", "closed", "gone"}
    BY <2>1, DaemonEndsTypes DEF Types
  <2>3. QED BY <1>7, <2>1, <2>2, DaemonEndsTypes, EmptySeq
            DEF ChildKilled, Types, Phases, browserVars, readVars, relayVars
<1>8. QED BY <1>1, <1>2, <1>3, <1>4, <1>5, <1>6, <1>7 DEF Startup, Shutdown

LEMMA DaemonTypes ==
    ASSUME Types, OtherDaemon \/ TurnEnds
    PROVE  Types'
<1>1. CASE PrintStatus
  BY <1>1 DEF PrintStatus, Types, browserVars, readVars, relayVars, wireVars
<1>2. CASE DaemonTakes
  <2>1. Head(toDaemon) \in Inputs /\ toDaemon' \in Seq(Inputs) /\ TakeRequest(Head(toDaemon))
    BY <1>2, HeadTailProperties DEF DaemonTakes, Types
  <2>2. QED BY <1>2, <2>1, TakeRequestTypes DEF DaemonTakes, Types, browserVars, readVars, relayVars
<1>3. CASE DaemonAnswers
  <2>1. PICK t \in TurnsAfter(handling) :
            /\ turn' = t
            /\ Sends(<<Response(handling)>> \o (IF t # turn THEN <<Notification>> ELSE <<>>))
    BY <1>3 DEF DaemonAnswers
  <2>2. t \in {"none", "active", "ended"}
    BY DEF TurnsAfter, Types
  <2>3. <<Response(handling)>> \in Seq(Replies) /\ <<Notification>> \in Seq(Replies)
    BY TextTypes DEF Types
  <2>4. <<Response(handling)>> \o (IF t # turn THEN <<Notification>> ELSE <<>>) \in Seq(Replies)
    BY <2>3, ConcatProperties, EmptySeq
  <2>5. fromDaemon' \in Seq(Replies)
    BY <2>1, <2>4, ConcatProperties DEF Sends, Types
  <2>6. QED BY <1>3, <2>1, <2>2, <2>5 DEF DaemonAnswers, Types, browserVars, readVars, relayVars
<1>4. CASE CloseConnection
  BY <1>4, EmptySeq DEF CloseConnection, Types, browserVars, readVars, relayVars
<1>5. CASE StopOnEndOfStdin
  <2>1. DaemonEnds
    BY <1>5 DEF StopOnEndOfStdin
  <2>2. socket' \in {"none", "open", "left", "closed", "gone"}
    BY <2>1, DaemonEndsTypes DEF Types
  <2>3. QED BY <1>5, <2>1, <2>2, DaemonEndsTypes, EmptySeq
            DEF StopOnEndOfStdin, Types, browserVars, readVars, relayVars
<1>6. CASE DaemonDies
  <2>1. DaemonEnds
    BY <1>6 DEF DaemonDies
  <2>2. socket' \in {"none", "open", "left", "closed", "gone"}
    BY <2>1, DaemonEndsTypes DEF Types
  <2>3. QED BY <1>6, <2>1, <2>2, DaemonEndsTypes, EmptySeq
            DEF DaemonDies, Types, browserVars, readVars, relayVars
<1>7. CASE TurnEnds
  <2>1. <<Notification>> \in Seq(Replies)
    BY TextTypes
  <2>2. fromDaemon' \in Seq(Replies)
    <3>1. \/ fromDaemon' = Append(fromDaemon, Notification)
          \/ fromDaemon' = fromDaemon \o <<Notification>>
          \/ fromDaemon' = fromDaemon
      BY <1>7 DEF TurnEnds, Sends
    <3>2. /\ fromDaemon \in Seq(Replies) /\ Append(fromDaemon, Notification) \in Seq(Replies)
          /\ fromDaemon \o <<Notification>> \in Seq(Replies)
      BY <2>1, TextTypes, AppendProperties, ConcatProperties DEF Types
    <3>3. QED BY <3>1, <3>2
  <2>3. QED BY <1>7, <2>2 DEF TurnEnds, Types, browserVars, readVars, relayVars
<1>8. QED BY <1>1, <1>2, <1>3, <1>4, <1>5, <1>6, <1>7 DEF OtherDaemon

LEMMA TypesKept ==
    ASSUME Types, [Next]_vars
    PROVE  Types'
<1>1. CASE UNCHANGED vars
  BY <1>1 DEF vars, browserVars, readVars, relayVars, wireVars, daemonVars, Types
<1>2. CASE Next
  BY <1>2, BrowserTypes, FrameTypes, BranchTypes, StartTypes, DaemonTypes DEF Next, HostStep
<1>3. QED BY <1>1, <1>2
-----------------------------------------------------------------------------
\* The order of what lies in the pipe, and of what has been taken from it.

LEMMA PipeTypes ==
    ASSUME Types
    PROVE  /\ Len(pipe) \in Nat /\ sent \in Nat /\ (pipe # <<>> <=> Len(pipe) >= 1)
           /\ pipe # <<>> => Head(pipe) = pipe[1]
           /\ \A k \in 1..Len(pipe) :
                 /\ pipe[k].req \in Requests /\ pipe[k].req \in Nat /\ pipe[k].req # None
                 /\ pipe[k].part \in {"whole", "head", "tail", "scrap"}
<1>1. pipe \in Seq(Pieces) /\ sent \in 0..N
  BY DEF Types
<1>2. \A k \in 1..Len(pipe) : pipe[k] \in Pieces
  BY <1>1, ElementOfSeq
<1>3. \A k \in 1..Len(pipe) : pipe[k].req \in Requests /\ pipe[k].part \in {"whole", "head", "tail", "scrap"}
  BY <1>2 DEF Pieces
<1>4. Len(pipe) \in Nat /\ (pipe # <<>> <=> Len(pipe) >= 1)
  BY <1>1, EmptySeq, LenProperties
<1>5. pipe # <<>> => Head(pipe) = pipe[1]
  BY <1>1, TailTypes
<1>6. \A i \in Requests : i \in Nat /\ i # None
  BY InputTypes
<1>7. QED BY <1>1, <1>3, <1>4, <1>5, <1>6

\* What a step does to the pipe and to the read of it.
InputSame == UNCHANGED <<sent, rest, pipe, readVars>>
InputDropped == UNCHANGED <<sent, rest, pipe, lost>> /\ reading' = None /\ astray' = "no"
Takes(i) == Complete(i) /\ TakeFrame(i)
InputStep ==
    \/ Send \/ SendRest \/ TakeHead \/ ReadAstray \/ \E i \in Inputs : Takes(i)
    \/ InputSame \/ InputDropped

LEMMA InputSteps ==
    ASSUME [Next]_vars
    PROVE  InputStep
<1>1. CASE UNCHANGED vars
  BY <1>1 DEF vars, browserVars, InputSame, InputStep
<1>2. CASE Browser
  BY <1>2 DEF Browser, Disconnect, Kill, browserVars, InputSame, InputStep
<1>3. CASE FrameStep
  <2>1. CASE TakeHead \/ ReadAstray
    BY <2>1 DEF InputStep
  <2>2. CASE FrameFails \/ EndOfInput
    BY <2>2 DEF FrameFails, EndOfInput, browserVars, InputSame, InputStep
  <2>3. ASSUME NEW i \in Inputs, HandleFrame(i) \/ RelayFrame(i) \/ Refuse(i) PROVE InputStep
    <3>1. Takes(i)
      BY <2>3 DEF HandleFrame, RelayFrame, Refuse, Takes
    <3>2. QED BY <3>1 DEF InputStep
  <2>4. CASE NotUtf8
    <3>1. Takes(Misread)
      BY <2>4 DEF NotUtf8, Takes
    <3>2. QED BY <3>1, InputTypes DEF InputStep
  <2>5. QED BY <1>3, <2>1, <2>2, <2>3, <2>4, InputTypes DEF FrameStep
<1>4. CASE OtherBranch
  BY <1>4 DEF OtherBranch, WriteHandled, WriteEvent, RelayText, RelayLost, DropRead, browserVars,
              InputSame, InputDropped, InputStep
<1>5. CASE Startup \/ Shutdown
  BY <1>5 DEF Startup, Shutdown, Launch, ReadStatus, StatusFails, Connect, CannotConnect,
              ChildStopped, ChildKilled, DaemonEnds, browserVars, InputSame, InputStep
<1>6. CASE OtherDaemon \/ TurnEnds
  BY <1>6 DEF OtherDaemon, PrintStatus, DaemonTakes, DaemonAnswers, CloseConnection,
              StopOnEndOfStdin, DaemonDies, DaemonEnds, TurnEnds, browserVars, InputSame, InputStep
<1>7. QED BY <1>1, <1>2, <1>3, <1>4, <1>5, <1>6 DEF Next, HostStep

\* The extension writes a piece: the first of the next request, or the second of
\* the one it has begun.
LEMMA WriteFacts ==
    ASSUME Types, InputInv, Send \/ SendRest
    PROVE  /\ Len(pipe') = Len(pipe) + 1 /\ UNCHANGED readVars
           /\ \A k \in 1..Len(pipe) : pipe'[k] = pipe[k]
           /\ LET new == pipe'[Len(pipe) + 1] IN
              /\ new.req = sent' /\ sent' \in Requests
              /\ \/ /\ rest = None /\ sent' = sent + 1
                    /\ \/ sent' \in Large /\ new.part = "head" /\ rest' = sent'
                       \/ sent' \notin Large /\ new.part = "whole" /\ rest' = None
                 \/ /\ rest # None /\ sent' = sent /\ rest = sent /\ rest \in Large /\ rest' = None
                    /\ new.part \in {"tail", "scrap"}
<1>0. pipe \in Seq(Pieces) /\ sent \in 0..N /\ Len(pipe) \in Nat
  BY LenProperties DEF Types
<1>1. CASE Send
  <2> DEFINE new == [req |-> sent + 1, part |-> IF sent + 1 \in Large THEN "head" ELSE "whole"]
  <2>1. /\ pipe' = Append(pipe, new) /\ sent' = sent + 1 /\ rest = None /\ sent < N
        /\ rest' = IF sent + 1 \in Large THEN sent + 1 ELSE None
        /\ UNCHANGED readVars
    BY <1>1 DEF Send
  <2>2. sent' \in Requests
    BY <1>0, <2>1 DEF Requests
  <2>3. new \in Pieces
    BY <2>1, <2>2 DEF Pieces
  <2>4. /\ Len(pipe') = Len(pipe) + 1 /\ pipe'[Len(pipe) + 1] = new
        /\ \A k \in 1..Len(pipe) : pipe'[k] = pipe[k]
    BY <1>0, <2>1, <2>3, AppendProperties
  <2>5. new.req = sent' /\ new.part = IF sent' \in Large THEN "head" ELSE "whole"
    BY <2>1
  <2>6. QED BY <2>1, <2>2, <2>4, <2>5
<1>2. CASE SendRest
  <2>1. PICK p \in {"tail", "scrap"} : pipe' = Append(pipe, [req |-> rest, part |-> p])
    BY <1>2 DEF SendRest
  <2>2. rest # None /\ rest' = None /\ sent' = sent /\ UNCHANGED readVars
    BY <1>2 DEF SendRest
  <2>3. rest = sent /\ rest \in Large /\ rest \in Requests
    BY <2>2 DEF InputInv, ReadInOrder, Types
  <2>4. [req |-> rest, part |-> p] \in Pieces
    BY <2>3 DEF Pieces
  <2>5. /\ Len(pipe') = Len(pipe) + 1 /\ pipe'[Len(pipe) + 1] = [req |-> rest, part |-> p]
        /\ \A k \in 1..Len(pipe) : pipe'[k] = pipe[k]
    BY <1>0, <2>1, <2>4, AppendProperties
  <2>6. QED BY <2>2, <2>3, <2>5
<1>3. QED BY <1>1, <1>2

LEMMA WritesInOrder ==
    ASSUME Types, InputInv, Send \/ SendRest
    PROVE  InputInv'
<1> DEFINE n == Len(pipe)
<1> DEFINE new == pipe'[n + 1]
<1>0. /\ n \in Nat /\ sent \in Nat /\ (pipe # <<>> <=> n >= 1)
      /\ \A k \in 1..n : /\ pipe[k].req \in Nat /\ pipe[k].req # None
                         /\ pipe[k].part \in {"whole", "head", "tail", "scrap"}
  BY PipeTypes
<1>1. /\ Len(pipe') = n + 1 /\ reading' = reading /\ astray' = astray /\ lost' = lost
      /\ \A k \in 1..n : pipe'[k] = pipe[k]
      /\ new.req = sent' /\ sent' \in Nat /\ sent' # None
      /\ \/ /\ rest = None /\ sent' = sent + 1
            /\ \/ sent' \in Large /\ new.part = "head" /\ rest' = sent'
               \/ sent' \notin Large /\ new.part = "whole" /\ rest' = None
         \/ /\ rest # None /\ sent' = sent /\ rest = sent /\ rest \in Large /\ rest' = None
            /\ new.part \in {"tail", "scrap"}
  BY WriteFacts, InputTypes DEF readVars
<1>2. pipe' # <<>>
  <2>1. pipe' \in Seq(Pieces)
    BY BrowserTypes DEF Browser, Types
  <2>2. QED BY <1>0, <1>1, <2>1, EmptySeq
<1>3. /\ \A k \in 1..n : pipe[k].req <= sent
      /\ \A k, m \in 1..n : k < m => pipe[k].req <= pipe[m].req
      /\ \A k \in 1..n : pipe[k].part = "whole" =>
            pipe[k].req # rest /\ \A m \in k + 1..n : pipe[k].req < pipe[m].req
  BY DEF InputInv, PipeInOrder
<1>4. \A k \in 1..n : pipe[k].part = "head" =>
        /\ pipe[k].req \in Large
        /\ IF k = n THEN rest = pipe[k].req
           ELSE /\ rest # pipe[k].req /\ pipe[k + 1].req = pipe[k].req
                /\ \A m \in k + 2..n : pipe[k].req < pipe[m].req
  BY DEF InputInv, PipeInOrder, HeadPieces
<1> HIDE DEF n, new
<1>5. \A k \in 1..n + 1 : k \in 1..n \/ k = n + 1
  BY <1>0
<1>6. \A k \in 1..n + 1 : pipe'[k].req <= sent'
  BY <1>0, <1>1, <1>3, <1>5 DEF new
<1>7. \A k, m \in 1..n + 1 : k < m => pipe'[k].req <= pipe'[m].req
  BY <1>0, <1>1, <1>3, <1>5 DEF new
<1>8. \A k \in 1..n + 1 : pipe'[k].part = "whole" =>
            pipe'[k].req # rest' /\ \A m \in k + 1..n + 1 : pipe'[k].req < pipe'[m].req
  <2> SUFFICES ASSUME NEW k \in 1..n + 1, pipe'[k].part = "whole"
               PROVE  pipe'[k].req # rest' /\ \A m \in k + 1..n + 1 : pipe'[k].req < pipe'[m].req
    OBVIOUS
  <2>1. CASE k = n + 1
    BY <1>0, <1>1, <2>1 DEF new
  <2>2. CASE k \in 1..n
    <3>1. pipe[k].req # rest /\ pipe[k].req <= sent /\ pipe[k].req \in Nat /\ pipe[k].req # None
      BY <1>0, <1>1, <1>3, <2>2
    <3>2. pipe[k].req < sent'
      BY <1>0, <1>1, <3>1
    <3>3. QED BY <1>0, <1>1, <1>3, <1>5, <2>2, <3>1, <3>2 DEF new
  <2>3. QED BY <1>5, <2>1, <2>2
<1>9. \A k \in 1..n + 1 : pipe'[k].part = "head" =>
        /\ pipe'[k].req \in Large
        /\ IF k = n + 1 THEN rest' = pipe'[k].req
           ELSE /\ rest' # pipe'[k].req /\ pipe'[k + 1].req = pipe'[k].req
                /\ \A m \in k + 2..n + 1 : pipe'[k].req < pipe'[m].req
  <2> SUFFICES ASSUME NEW k \in 1..n + 1, pipe'[k].part = "head"
               PROVE  /\ pipe'[k].req \in Large
                      /\ IF k = n + 1 THEN rest' = pipe'[k].req
                         ELSE /\ rest' # pipe'[k].req /\ pipe'[k + 1].req = pipe'[k].req
                              /\ \A m \in k + 2..n + 1 : pipe'[k].req < pipe'[m].req
    OBVIOUS
  <2>1. CASE k = n + 1
    BY <1>0, <1>1, <2>1 DEF new
  <2>2. CASE k = n /\ k \in 1..n
    BY <1>0, <1>1, <1>4, <2>2 DEF new
  <2>3. CASE k \in 1..n /\ k # n
    <3>1. k + 1 \in 1..n /\ pipe'[k] = pipe[k] /\ pipe'[k + 1] = pipe[k + 1]
      BY <1>0, <1>1, <2>3
    <3>2. /\ pipe[k].req \in Large /\ rest # pipe[k].req /\ pipe[k + 1].req = pipe[k].req
          /\ \A m \in k + 2..n : pipe[k].req < pipe[m].req
      BY <1>4, <2>3, <3>1
    <3>3. pipe[k].req <= sent /\ pipe[k].req \in Nat /\ pipe[k].req # None
      BY <1>0, <1>3, <2>3
    <3>4. pipe[k].req < sent' /\ rest' # pipe[k].req
      BY <1>0, <1>1, <3>2, <3>3
    <3>5. \A m \in k + 2..n + 1 : pipe'[k].req < pipe'[m].req
      <4>1. \A m \in k + 2..n + 1 : m \in k + 2..n \/ m = n + 1
        BY <1>0
      <4>2. \A m \in k + 2..n : m \in 1..n
        BY <1>0, <2>3
      <4>3. pipe'[n + 1].req = sent'
        BY <1>1 DEF new
      <4>4. \A m \in k + 2..n : pipe'[m] = pipe[m]
        BY <1>1, <4>2
      <4>5. \A m \in k + 2..n : pipe'[k].req < pipe'[m].req
        BY <3>1, <3>2, <4>4
      <4>6. pipe'[k].req < pipe'[n + 1].req
        BY <3>1, <3>4, <4>3
      <4>7. QED BY <4>1, <4>5, <4>6
    <3>6. QED BY <1>0, <2>3, <3>1, <3>2, <3>4, <3>5
  <2>4. QED BY <1>5, <2>1, <2>2, <2>3
<1>14. \A k, m \in 1..n + 1 :
          k < m /\ pipe'[m].part \in {"whole", "head"} => pipe'[k].req < pipe'[m].req
  <2> SUFFICES ASSUME NEW k \in 1..n + 1, NEW m \in 1..n + 1, k < m,
                      pipe'[m].part \in {"whole", "head"}
               PROVE  pipe'[k].req < pipe'[m].req
    OBVIOUS
  <2>1. k \in 1..n /\ pipe'[k] = pipe[k] /\ pipe[k].req <= sent /\ pipe[k].req \in Nat
    BY <1>0, <1>1, <1>3
  <2>2. CASE m = n + 1
    BY <1>0, <1>1, <2>1, <2>2 DEF new
  <2>3. CASE m \in 1..n
    <3>1. pipe'[m] = pipe[m]
      BY <1>1, <2>3
    <3>2. pipe[k].req < pipe[m].req
      BY <2>1, <2>3, <3>1 DEF InputInv, PipeInOrder, n
    <3>3. QED BY <2>1, <3>1, <3>2
  <2>4. QED BY <1>5, <2>2, <2>3
<1>10. PipeInOrder'
  BY <1>1, <1>6, <1>7, <1>8, <1>9, <1>14 DEF PipeInOrder, HeadPieces
<1>11. ReadInOrder'
  <2>1. rest' # None => rest' = sent' /\ rest' \in Large
    BY <1>1
  <2>2. ASSUME reading # None, pipe = <<>>
        PROVE  rest' # reading /\ pipe'[1].req = reading /\ \A k \in 2..n + 1 : reading < pipe'[k].req
    <3>1. n = 0 /\ rest = reading
      BY <1>0, <2>2 DEF InputInv, ReadInOrder
    <3>2. QED BY <1>1, <2>2, <3>1 DEF new
  <2>3. ASSUME reading # None, pipe # <<>>
        PROVE  rest' # reading /\ pipe'[1].req = reading /\ \A k \in 2..n + 1 : reading < pipe'[k].req
    <3>1. rest # reading /\ pipe[1].req = reading /\ \A k \in 2..n : reading < pipe[k].req
      BY <2>3 DEF InputInv, ReadInOrder, n
    <3>2. reading <= sent /\ reading \in Nat /\ n >= 1
      BY <1>0, <1>3, <2>3, <3>1
    <3>3. reading < sent' /\ rest' # reading
      BY <1>0, <1>1, <2>3, <3>1, <3>2
    <3>4. QED BY <1>0, <1>1, <1>5, <3>1, <3>2, <3>3 DEF new
  <2>4. reading # None => reading \in Large /\ astray = "no"
    BY DEF InputInv, ReadInOrder
  <2>5. QED BY <1>1, <1>2, <2>1, <2>2, <2>3, <2>4 DEF ReadInOrder
<1>12. LostInOrder'
  <2>1. /\ \A l \in lost : /\ l <= sent /\ (reading # None => l < reading)
                           /\ \A k \in 1..n : /\ l <= pipe[k].req
                                              /\ pipe[k].part \in {"whole", "head"} => l < pipe[k].req
                           /\ \E j \in lost \cap Large : j <= l
        /\ astray # "no" => lost # {}
        /\ lost = {} => \A k \in 1..n : pipe[k].part \in {"tail", "scrap"} => pipe[k].req \in Large
    BY DEF InputInv, LostInOrder, n
  <2>2. \A l \in lost : l \in Nat
    BY InputTypes DEF Types
  <2>3. \A l \in lost : /\ l <= sent'
                        /\ \A k \in 1..n + 1 :
                              /\ l <= pipe'[k].req
                              /\ pipe'[k].part \in {"whole", "head"} => l < pipe'[k].req
    <3>0. \/ sent' = sent + 1
          \/ sent' = sent /\ new.part \in {"tail", "scrap"}
      BY <1>1
    <3>1. \A l \in lost : l <= sent' /\ (new.part \in {"whole", "head"} => l < sent')
      <4> SUFFICES ASSUME NEW l \in lost
                   PROVE  l <= sent' /\ (new.part \in {"whole", "head"} => l < sent')
        OBVIOUS
      <4>1. l \in Nat /\ l <= sent
        BY <2>1, <2>2
      <4>2. CASE sent' = sent + 1
        BY <1>0, <4>1, <4>2
      <4>3. CASE sent' = sent /\ new.part \in {"tail", "scrap"}
        BY <4>1, <4>3
      <4>4. QED BY <3>0, <4>2, <4>3
    <3>2. QED BY <1>1, <1>5, <2>1, <3>1 DEF new
  <2>4. lost = {} => \A k \in 1..n + 1 : pipe'[k].part \in {"tail", "scrap"} => pipe'[k].req \in Large
    <3> SUFFICES ASSUME lost = {}, NEW k \in 1..n + 1, pipe'[k].part \in {"tail", "scrap"}
                 PROVE  pipe'[k].req \in Large
      OBVIOUS
    <3>1. CASE k \in 1..n
      <4>1. pipe'[k] = pipe[k]
        BY <1>1, <3>1
      <4>2. pipe[k].part \in {"tail", "scrap"} => pipe[k].req \in Large
        BY <1>1, <2>1, <3>1
      <4>3. QED BY <4>1, <4>2
    <3>2. CASE k = n + 1
      BY <1>1, <1>5, <3>2 DEF new
    <3>3. QED BY <1>0, <3>1, <3>2
  <2>5. QED BY <1>1, <2>1, <2>3, <2>4 DEF LostInOrder
<1>13. QED BY <1>10, <1>11, <1>12 DEF InputInv

\* The host takes what is at the head of the pipe, or what a misread text has
\* left of it.
LEMMA TailInOrder ==
    ASSUME Types, PipeInOrder, pipe # <<>>, pipe' = Tail(pipe), UNCHANGED <<sent, rest>>
    PROVE  /\ PipeInOrder' /\ Len(pipe') = Len(pipe) - 1 /\ (pipe' = <<>> <=> Len(pipe) = 1)
           /\ \A k \in 1..Len(pipe) - 1 : pipe'[k] = pipe[k + 1]
<1> DEFINE n == Len(pipe)
<1>1. /\ n \in Nat \ {0} /\ Len(pipe') = n - 1 /\ (pipe' = <<>> <=> n = 1)
      /\ \A k \in 1..n - 1 : pipe'[k] = pipe[k + 1]
  BY TailTypes DEF Types
<1>2. \A k \in 1..n - 1 : k + 1 \in 1..n
  BY <1>1
<1>3. \A k \in 1..n - 1 : pipe'[k].req <= sent
  BY <1>1, <1>2 DEF PipeInOrder
<1>4. \A k, m \in 1..n - 1 : k < m => pipe'[k].req <= pipe'[m].req
  BY <1>1, <1>2 DEF PipeInOrder
<1>8. \A k, m \in 1..n - 1 :
          k < m /\ pipe'[m].part \in {"whole", "head"} => pipe'[k].req < pipe'[m].req
  BY <1>1, <1>2 DEF PipeInOrder
<1>5. \A k \in 1..n - 1 : pipe'[k].part = "whole" =>
            pipe'[k].req # rest /\ \A m \in k + 1..n - 1 : pipe'[k].req < pipe'[m].req
  BY <1>1, <1>2 DEF PipeInOrder
<1>6. \A k \in 1..n - 1 : pipe'[k].part = "head" =>
        /\ pipe'[k].req \in Large
        /\ IF k = n - 1 THEN rest = pipe'[k].req
           ELSE /\ rest # pipe'[k].req /\ pipe'[k + 1].req = pipe'[k].req
                /\ \A m \in k + 2..n - 1 : pipe'[k].req < pipe'[m].req
  <2> SUFFICES ASSUME NEW k \in 1..n - 1, pipe'[k].part = "head"
               PROVE  /\ pipe'[k].req \in Large
                      /\ IF k = n - 1 THEN rest = pipe'[k].req
                         ELSE /\ rest # pipe'[k].req /\ pipe'[k + 1].req = pipe'[k].req
                              /\ \A m \in k + 2..n - 1 : pipe'[k].req < pipe'[m].req
    OBVIOUS
  <2> DEFINE j == k + 1
  <2>1. j \in 1..n /\ pipe'[k] = pipe[j] /\ (j = n <=> k = n - 1)
    BY <1>1, <1>2
  <2>2. /\ pipe[j].req \in Large
        /\ IF j = n THEN rest = pipe[j].req
           ELSE /\ rest # pipe[j].req /\ pipe[j + 1].req = pipe[j].req
                /\ \A m \in j + 2..n : pipe[j].req < pipe[m].req
    BY <2>1 DEF PipeInOrder, HeadPieces
  <2>3. k # n - 1 => pipe'[k + 1] = pipe[j + 1]
    <3>0. n \in Nat /\ k \in Int /\ 1 <= k /\ k <= n - 1
      BY <1>1
    <3> HIDE DEF n
    <3>1. k # n - 1 => k + 1 \in 1..n - 1
      BY <3>0
    <3>2. QED BY <1>1, <3>1
  <2>4. \A m \in k + 2..n - 1 : pipe'[m] = pipe[m + 1] /\ m + 1 \in j + 2..n
    BY <1>1
  <2>5. QED BY <2>1, <2>2, <2>3, <2>4
<1>7. HeadPieces'
  <2>1. Len(pipe') = n - 1
    BY <1>1
  <2>2. QED BY <1>6, <2>1, Zenon DEF HeadPieces
<1>9. PipeInOrder'
  BY <1>1, <1>3, <1>4, <1>5, <1>7, <1>8 DEF PipeInOrder
<1>10. QED BY <1>1, <1>9

LEMMA CutInOrder ==
    ASSUME Types, PipeInOrder, pipe # <<>>, UNCHANGED <<sent, rest>>,
           NEW p \in {"tail", "scrap"}, pipe' = [pipe EXCEPT ![1].part = p]
    PROVE  /\ PipeInOrder' /\ Len(pipe') = Len(pipe) /\ pipe' # <<>>
           /\ pipe'[1] = [req |-> pipe[1].req, part |-> p]
           /\ \A k \in 2..Len(pipe) : pipe'[k] = pipe[k]
<1> DEFINE n == Len(pipe)
<1>1. n \in Nat \ {0} /\ \A k \in 1..n : pipe[k].req \in Nat
  BY PipeTypes
<1>2. /\ pipe' \in Seq(Pieces) /\ Len(pipe') = n /\ pipe'[1] = [req |-> pipe[1].req, part |-> p]
      /\ \A k \in 2..n : pipe'[k] = pipe[k]
  <2>1. pipe \in Seq(Pieces) /\ pipe # <<>>
    BY DEF Types
  <2> DEFINE t == [pipe EXCEPT ![1].part = p]
  <2>2. /\ t \in Seq(Pieces) /\ Len(t) = Len(pipe) /\ t[1] = [req |-> pipe[1].req, part |-> p]
        /\ \A k \in 2..Len(pipe) : t[k] = pipe[k]
    BY <2>1, CutTypes, Zenon
  <2>3. QED BY <2>2, Zenon
<1>3. pipe' # <<>>
  BY <1>1, <1>2, EmptySeq
<1>4. /\ \A k \in 1..n : pipe'[k].req = pipe[k].req
      /\ \A k \in 1..n : pipe'[k].part \in {"whole", "head"} => pipe'[k] = pipe[k] /\ k # 1
  <2>1. \A k \in 1..n : k = 1 \/ k \in 2..n
    BY <1>1
  <2>2. QED BY <1>2, <2>1
<1>5. \A k \in 1..n : pipe'[k].req <= sent
  BY <1>4 DEF PipeInOrder
<1>6. \A k, m \in 1..n : k < m => pipe'[k].req <= pipe'[m].req
  BY <1>4 DEF PipeInOrder
<1>10. \A k, m \in 1..n :
          k < m /\ pipe'[m].part \in {"whole", "head"} => pipe'[k].req < pipe'[m].req
  BY <1>4 DEF PipeInOrder
<1>7. \A k \in 1..n : pipe'[k].part = "whole" =>
            pipe'[k].req # rest /\ \A m \in k + 1..n : pipe'[k].req < pipe'[m].req
  BY <1>1, <1>4 DEF PipeInOrder
<1>8. \A k \in 1..n : pipe'[k].part = "head" =>
        /\ pipe'[k].req \in Large
        /\ IF k = n THEN rest = pipe'[k].req
           ELSE /\ rest # pipe'[k].req /\ pipe'[k + 1].req = pipe'[k].req
                /\ \A m \in k + 2..n : pipe'[k].req < pipe'[m].req
  BY <1>1, <1>4 DEF PipeInOrder, HeadPieces
<1>9. QED BY <1>2, <1>3, <1>5, <1>6, <1>7, <1>8, <1>10 DEF PipeInOrder, HeadPieces

LEMMA HeadTakenInOrder ==
    ASSUME Types, InputInv, TakeHead
    PROVE  InputInv'
<1> DEFINE n == Len(pipe)
<1>1. /\ pipe # <<>> /\ pipe' = Tail(pipe) /\ pipe[1].part = "head" /\ reading' = pipe[1].req
      /\ n \in Nat \ {0} /\ astray = "no"
      /\ UNCHANGED <<sent, rest, astray, lost>>
  BY PipeTypes DEF TakeHead
<1>2. /\ PipeInOrder' /\ Len(pipe') = n - 1 /\ (pipe' = <<>> <=> n = 1)
      /\ \A k \in 1..n - 1 : pipe'[k] = pipe[k + 1]
  BY <1>1, TailInOrder DEF InputInv
<1>3. /\ reading' \in Large
      /\ IF n = 1 THEN rest = reading'
         ELSE rest # reading' /\ pipe[2].req = reading' /\ \A m \in 3..n : reading' < pipe[m].req
  <2>1. 1 \in 1..n /\ (n = 1 \/ n # 1)
    BY <1>1
  <2>2. /\ pipe[1].req \in Large
        /\ IF 1 = n THEN rest = pipe[1].req
           ELSE /\ rest # pipe[1].req /\ pipe[1 + 1].req = pipe[1].req
                /\ \A m \in 1 + 2..n : pipe[1].req < pipe[m].req
    BY <1>1, <2>1 DEF InputInv, PipeInOrder, HeadPieces
  <2>3. QED BY <1>1, <2>2
<1>4. ReadInOrder'
  <2>1. n # 1 => pipe'[1] = pipe[2]
    BY <1>1, <1>2
  <2>2. \A k \in 2..n - 1 : k + 1 \in 3..n /\ pipe'[k] = pipe[k + 1]
    BY <1>1, <1>2
  <2>3. QED BY <1>1, <1>2, <1>3, <2>1, <2>2 DEF ReadInOrder, InputInv
<1>5. LostInOrder'
  <2>1. \A l \in lost : l < pipe[1].req
    BY <1>1 DEF InputInv, LostInOrder
  <2>2. \A k \in 1..n - 1 : k + 1 \in 1..n /\ pipe'[k] = pipe[k + 1]
    BY <1>1, <1>2
  <2>3. QED BY <1>1, <1>2, <2>1, <2>2 DEF InputInv, LostInOrder
<1>6. QED BY <1>2, <1>4, <1>5 DEF InputInv

\* What is misread is lost.
LEMMA LostMore ==
    ASSUME Types, InputInv, pipe # <<>>, lost' = lost \cup {pipe[1].req},
           lost # {} \/ pipe[1].part = "scrap", sent' = sent, reading' = None,
           \/ \A k \in 1..Len(pipe') : k + 1 \in 1..Len(pipe) /\ pipe'[k] = pipe[k + 1]
           \/ \A k \in 1..Len(pipe') :
                 /\ k \in 1..Len(pipe) /\ pipe'[k].req = pipe[k].req
                 /\ pipe'[k].part \in {"whole", "head"} => k # 1 /\ pipe'[k] = pipe[k]
    PROVE  LostInOrder'
<1> DEFINE n == Len(pipe)
<1> DEFINE h == pipe[1].req
<1>0. /\ n \in Nat \ {0} /\ sent \in Nat /\ h \in Nat
      /\ \A k \in 1..n : pipe[k].req \in Nat
  BY PipeTypes
<1>1. \A l \in lost : l \in Nat /\ l <= sent /\ l <= h
  <2>1. 1 \in 1..n
    BY <1>0
  <2>2. \A l \in lost : l \in Requests /\ l <= sent /\ l <= h
    BY <2>1 DEF Types, InputInv, LostInOrder
  <2>3. QED BY <2>2, InputTypes
<1>2. /\ h <= sent
      /\ \A k \in 1..n : k = 1 \/ h <= pipe[k].req
      /\ \A k \in 1..n : k # 1 /\ pipe[k].part \in {"whole", "head"} => h < pipe[k].req
  BY <1>0 DEF InputInv, PipeInOrder
<1>3. \A l \in lost' : l \in Nat /\ l <= h /\ l <= sent
  BY <1>0, <1>1, <1>2
<1>4. \A k \in 1..n : /\ h <= pipe[k].req
                      /\ k # 1 /\ pipe[k].part \in {"whole", "head"} => h < pipe[k].req
  BY <1>0, <1>2
<1>5. \A l \in lost' : \A k \in 1..n :
          /\ l <= pipe[k].req
          /\ k # 1 /\ pipe[k].part \in {"whole", "head"} => l < pipe[k].req
  <2> SUFFICES ASSUME NEW l \in lost', NEW k \in 1..n
               PROVE  /\ l <= pipe[k].req
                      /\ k # 1 /\ pipe[k].part \in {"whole", "head"} => l < pipe[k].req
    OBVIOUS
  <2>1. l \in Nat /\ l <= h /\ pipe[k].req \in Nat
    BY <1>0, <1>3
  <2>2. QED BY <1>0, <1>4, <2>1
<1> HIDE DEF n, h
<1>6. \A l \in lost' : \A k \in 1..Len(pipe') :
          l <= pipe'[k].req /\ (pipe'[k].part \in {"whole", "head"} => l < pipe'[k].req)
  <2>1. CASE \A k \in 1..Len(pipe') : k + 1 \in 1..n /\ pipe'[k] = pipe[k + 1]
    <3>1. \A k \in 1..Len(pipe') : k + 1 # 1
      OBVIOUS
    <3>2. QED BY <1>5, <2>1, <3>1
  <2>2. CASE \A k \in 1..Len(pipe') :
                 /\ k \in 1..n /\ pipe'[k].req = pipe[k].req
                 /\ pipe'[k].part \in {"whole", "head"} => k # 1 /\ pipe'[k] = pipe[k]
    BY <1>5, <2>2
  <2>3. QED BY <2>1, <2>2 DEF n
<1>7. \A l \in lost' : \E j \in lost' \cap Large : j <= l
  <2>1. CASE lost # {}
    <3>1. PICK l0 \in lost : TRUE
      BY <2>1
    <3>2. \A l \in lost : \E j \in lost \cap Large : j <= l
      BY DEF InputInv, LostInOrder
    <3>3. PICK j \in lost \cap Large : j <= l0
      BY <3>1, <3>2
    <3>4. j \in Nat /\ j <= h
      BY <1>1, <3>3
    <3>5. QED BY <3>2, <3>3, <3>4 DEF h
  <2>2. CASE lost = {}
    <3>1. pipe[1].part = "scrap" /\ lost' = {h}
      BY <2>2 DEF h
    <3>2. h \in Large
      BY <1>0, <2>2, <3>1 DEF InputInv, LostInOrder, n, h
    <3>3. QED BY <1>0, <3>1, <3>2
  <2>3. QED BY <2>1, <2>2
<1>8. QED BY <1>3, <1>6, <1>7 DEF LostInOrder

LEMMA AstrayInOrder ==
    ASSUME Types, InputInv, ReadAstray
    PROVE  InputInv'
<1>1. /\ pipe # <<>> /\ pipe' = Tail(pipe) /\ reading' = None /\ lost' = lost \cup {pipe[1].req}
      /\ UNCHANGED <<sent, rest>>
      /\ astray # "no" \/ pipe[1].part = "scrap"
  BY PipeTypes DEF ReadAstray
<1>2. /\ PipeInOrder' /\ Len(pipe') = Len(pipe) - 1
      /\ \A k \in 1..Len(pipe) - 1 : pipe'[k] = pipe[k + 1]
  BY <1>1, TailInOrder DEF InputInv
<1>3. ReadInOrder'
  BY <1>1 DEF InputInv, ReadInOrder
<1>4. LostInOrder'
  <2>1. \A k \in 1..Len(pipe') : k + 1 \in 1..Len(pipe) /\ pipe'[k] = pipe[k + 1]
    BY <1>2, PipeTypes
  <2>2. lost # {} \/ pipe[1].part = "scrap"
    BY <1>1 DEF InputInv, LostInOrder
  <2>3. QED BY <1>1, <2>1, <2>2, LostMore
<1>5. QED BY <1>2, <1>3, <1>4 DEF InputInv

LEMMA TakenInOrder ==
    ASSUME Types, InputInv, NEW i \in Inputs, Takes(i)
    PROVE  InputInv'
<1>1. /\ pipe # <<>> /\ reading' = None /\ astray' = "no" /\ UNCHANGED <<sent, rest>>
      /\ Head(pipe) = pipe[1] /\ Len(pipe) \in Nat \ {0}
  BY PipeTypes DEF Takes, Complete, TakeFrame
<1>2. ReadInOrder'
  BY <1>1 DEF InputInv, ReadInOrder
<1>3. CASE i # Misread
  <2>1. pipe' = Tail(pipe) /\ lost' = lost
    BY <1>3 DEF Takes, TakeFrame
  <2>2. /\ PipeInOrder' /\ Len(pipe') = Len(pipe) - 1
        /\ \A k \in 1..Len(pipe) - 1 : pipe'[k] = pipe[k + 1]
    BY <1>1, <2>1, TailInOrder DEF InputInv
  <2>3. \A k \in 1..Len(pipe') : k + 1 \in 1..Len(pipe) /\ pipe'[k] = pipe[k + 1]
    BY <1>1, <2>2
  <2>4. LostInOrder'
    BY <1>1, <2>1, <2>3 DEF InputInv, LostInOrder
  <2>5. QED BY <1>2, <2>2, <2>4 DEF InputInv
<1>4. CASE i = Misread
  <2>1. astray = "text" /\ lost' = lost \cup {pipe[1].req}
    BY <1>1, <1>4 DEF Takes, Complete, TakeFrame
  <2>2. lost # {}
    BY <2>1 DEF InputInv, LostInOrder
  <2>3. CASE pipe' = Tail(pipe)
    <3>1. /\ PipeInOrder' /\ Len(pipe') = Len(pipe) - 1
          /\ \A k \in 1..Len(pipe) - 1 : pipe'[k] = pipe[k + 1]
      BY <1>1, <2>3, TailInOrder DEF InputInv
    <3>2. \A k \in 1..Len(pipe') : k + 1 \in 1..Len(pipe) /\ pipe'[k] = pipe[k + 1]
      BY <1>1, <3>1
    <3>3. LostInOrder'
      BY <1>1, <2>1, <2>2, <3>2, LostMore
    <3>4. QED BY <1>2, <3>1, <3>3 DEF InputInv
  <2>4. ASSUME NEW p \in {"tail", "scrap"}, pipe' = [pipe EXCEPT ![1].part = p] PROVE InputInv'
    <3>1. /\ PipeInOrder' /\ Len(pipe') = Len(pipe)
          /\ pipe'[1] = [req |-> pipe[1].req, part |-> p]
          /\ \A k \in 2..Len(pipe) : pipe'[k] = pipe[k]
      BY <1>1, <2>4, CutInOrder DEF InputInv
    <3>2. \A k \in 1..Len(pipe) : k = 1 \/ k \in 2..Len(pipe)
      BY <1>1
    <3>3. \A k \in 1..Len(pipe') :
              /\ k \in 1..Len(pipe) /\ pipe'[k].req = pipe[k].req
              /\ pipe'[k].part \in {"whole", "head"} => k # 1 /\ pipe'[k] = pipe[k]
      BY <3>1, <3>2
    <3>4. LostInOrder'
      BY <1>1, <2>1, <2>2, <3>3, LostMore
    <3>5. QED BY <1>2, <3>1, <3>4 DEF InputInv
  <2>5. QED BY <1>4, <2>3, <2>4 DEF Takes, TakeFrame
<1>5. QED BY <1>3, <1>4

LEMMA DroppedInOrder ==
    ASSUME InputInv, InputSame \/ InputDropped
    PROVE  InputInv'
<1>1. CASE InputSame
  BY <1>1 DEF InputSame, readVars, InputInv, PipeInOrder, HeadPieces, ReadInOrder, LostInOrder
<1>2. CASE InputDropped
  <2>1. UNCHANGED <<sent, rest, pipe, lost>> /\ reading' = None /\ astray' = "no"
    BY <1>2 DEF InputDropped
  <2>2. PipeInOrder'
    BY <2>1 DEF InputInv, PipeInOrder, HeadPieces
  <2>3. ReadInOrder' /\ LostInOrder'
    BY <2>1 DEF InputInv, ReadInOrder, LostInOrder
  <2>4. QED BY <2>2, <2>3 DEF InputInv
<1>3. QED BY <1>1, <1>2

LEMMA InputKept ==
    ASSUME Types, InputInv, [Next]_vars
    PROVE  InputInv'
  BY InputSteps, WritesInOrder, HeadTakenInOrder, AstrayInOrder, TakenInOrder, DroppedInOrder
     DEF InputStep

-----------------------------------------------------------------------------
\* What is still to come.

\* The extension sends one more request; or nothing comes but what was to come,
\* and what comes no more is lost; or the host takes request i, the first to come.
ComesMore ==
    /\ sent' = sent + 1 /\ lost' = lost /\ sent' \in Requests
    /\ \A j \in Requests : ToCome(j)' <=> ToCome(j) \/ j = sent'
ComesNoMore ==
    /\ sent' = sent /\ lost \subseteq lost' /\ \A j \in lost' \ lost : ToCome(j)
    /\ \A j \in Requests : (ToCome(j)' => ToCome(j)) /\ (ToCome(j) => ToCome(j)' \/ j \in lost')
Comes(i) ==
    /\ sent' = sent /\ lost' = lost /\ ToCome(i) /\ i \notin lost /\ i <= sent
    /\ \A j \in Requests : (ToCome(j) => ToCome(j)' \/ j = i) /\ (ToCome(j)' => i < j /\ ToCome(j))

LEMMA ToComeBounded ==
    ASSUME Types, InputInv, NEW i \in Requests, ToCome(i)
    PROVE  i <= sent
<1>1. sent \in Nat /\ (rest = i => i = sent)
  BY InputTypes, PipeTypes DEF InputInv, ReadInOrder
<1>2. \A k \in 1..Len(pipe) : pipe[k].req <= sent
  BY DEF InputInv, PipeInOrder
<1>3. reading = i => rest = i \/ (\E k \in 1..Len(pipe) : pipe[k].req = i)
  <2>1. pipe # <<>> => 1 \in 1..Len(pipe)
    BY PipeTypes
  <2>2. QED BY <2>1, InputTypes DEF InputInv, ReadInOrder
<1>4. QED BY <1>1, <1>2, <1>3, PipeTypes DEF ToCome

LEMMA WriteComes ==
    ASSUME Types, InputInv, Send \/ SendRest
    PROVE  ComesMore \/ ComesNoMore
<1> DEFINE n == Len(pipe)
<1>0. n \in Nat
  BY PipeTypes
<1>1. /\ Len(pipe') = n + 1 /\ reading' = reading /\ lost' = lost
      /\ \A k \in 1..n : pipe'[k] = pipe[k]
      /\ pipe'[n + 1].req = sent' /\ sent' \in Requests
      /\ \/ rest = None /\ sent' = sent + 1 /\ rest' \in {sent', None}
         \/ rest # None /\ sent' = sent /\ rest = sent /\ rest' = None
  BY WriteFacts DEF readVars
<1>2. \A j \in Requests :
          (\E k \in 1..Len(pipe') : pipe'[k].req = j) <=> (\E k \in 1..n : pipe[k].req = j) \/ j = sent'
  <2>1. \A k \in 1..n + 1 : k \in 1..n \/ k = n + 1
    BY <1>0
  <2>2. n + 1 \in 1..n + 1 /\ \A k \in 1..n : k \in 1..n + 1
    BY <1>0
  <2>3. QED BY <1>1, <2>1, <2>2
<1>3. CASE rest = None /\ sent' = sent + 1
  <2>1. \A j \in Requests : ToCome(j)' <=> ToCome(j) \/ j = sent'
    BY <1>1, <1>2, <1>3, InputTypes DEF ToCome
  <2>2. QED BY <1>1, <1>3, <2>1 DEF ComesMore
<1>4. CASE rest # None /\ sent' = sent /\ rest = sent /\ rest' = None
  <2>1. \A j \in Requests : ToCome(j)' <=> ToCome(j)
    BY <1>1, <1>2, <1>4, InputTypes DEF ToCome
  <2>2. QED BY <1>1, <1>4, <2>1 DEF ComesNoMore
<1>5. QED BY <1>1, <1>3, <1>4

LEMMA SameComes ==
    ASSUME Types, InputInv, TakeHead \/ InputSame \/ InputDropped
    PROVE  ComesNoMore
<1>1. sent' = sent /\ lost' = lost /\ rest' = rest
  BY DEF TakeHead, InputSame, InputDropped, readVars
<1>2. \A j \in Requests : ToCome(j)' <=> ToCome(j)
  <2>1. CASE TakeHead
    <3>1. /\ pipe # <<>> /\ reading = None /\ reading' = pipe[1].req /\ Len(pipe) \in Nat \ {0}
          /\ pipe' = Tail(pipe)
      BY <2>1, PipeTypes DEF TakeHead
    <3>2. /\ Len(pipe') = Len(pipe) - 1
          /\ \A k \in 1..Len(pipe) - 1 : pipe'[k] = pipe[k + 1]
      BY <1>1, <3>1, TailInOrder DEF InputInv
    <3>3. \A j \in Requests : (\E k \in 1..Len(pipe) : pipe[k].req = j)
                              <=> pipe[1].req = j \/ \E k \in 1..Len(pipe') : pipe'[k].req = j
      <4>1. \A k \in 1..Len(pipe) : k = 1 \/ (k - 1 \in 1..Len(pipe') /\ pipe'[k - 1] = pipe[k])
        BY <3>1, <3>2
      <4>2. \A k \in 1..Len(pipe') : k + 1 \in 1..Len(pipe) /\ pipe'[k] = pipe[k + 1]
        BY <3>1, <3>2
      <4>3. 1 \in 1..Len(pipe)
        BY <3>1
      <4>4. QED BY <4>1, <4>2, <4>3
    <3>4. QED BY <1>1, <3>1, <3>3, InputTypes DEF ToCome
  <2>2. CASE InputSame
    BY <2>2 DEF InputSame, readVars, ToCome
  <2>3. CASE InputDropped
    <3>1. UNCHANGED <<rest, pipe>> /\ reading' = None
      BY <2>3 DEF InputDropped
    <3>2. reading # None => rest = reading \/ \E k \in 1..Len(pipe) : pipe[k].req = reading
      <4>1. pipe # <<>> => 1 \in 1..Len(pipe)
        BY PipeTypes
      <4>2. QED BY <4>1 DEF InputInv, ReadInOrder
    <3>3. QED BY <3>1, <3>2, InputTypes DEF ToCome
  <2>4. QED BY <2>1, <2>2, <2>3
<1>3. QED BY <1>1, <1>2 DEF ComesNoMore

LEMMA MisreadComes ==
    ASSUME Types, InputInv, ReadAstray \/ Takes(Misread)
    PROVE  ComesNoMore
<1>1. /\ pipe # <<>> /\ sent' = sent /\ rest' = rest /\ reading' = None
      /\ lost' = lost \cup {pipe[1].req} /\ Len(pipe) \in Nat \ {0}
      /\ reading = None
  <2>1. CASE ReadAstray
    BY <2>1, PipeTypes DEF ReadAstray
  <2>2. CASE Takes(Misread)
    <3>1. astray = "text"
      BY <2>2 DEF Takes, Complete
    <3>2. reading = None
      BY <3>1 DEF InputInv, ReadInOrder
    <3>3. QED BY <2>2, <3>2, PipeTypes DEF Takes, Complete, TakeFrame
  <2>3. QED BY <2>1, <2>2
<1>2. \/ /\ Len(pipe') = Len(pipe) - 1
         /\ \A k \in 1..Len(pipe) - 1 : pipe'[k] = pipe[k + 1]
      \/ /\ Len(pipe') = Len(pipe) /\ pipe'[1].req = pipe[1].req
         /\ \A k \in 2..Len(pipe) : pipe'[k] = pipe[k]
  <2>1. CASE pipe' = Tail(pipe)
    BY <1>1, <2>1, TailInOrder DEF InputInv
  <2>2. ASSUME NEW p \in {"tail", "scrap"}, pipe' = [pipe EXCEPT ![1].part = p]
        PROVE  /\ Len(pipe') = Len(pipe) /\ pipe'[1].req = pipe[1].req
               /\ \A k \in 2..Len(pipe) : pipe'[k] = pipe[k]
    BY <1>1, <2>2, CutInOrder DEF InputInv
  <2>3. pipe' = Tail(pipe) \/ \E p \in {"tail", "scrap"} : pipe' = [pipe EXCEPT ![1].part = p]
    BY DEF ReadAstray, Takes, TakeFrame
  <2>4. CASE \E p \in {"tail", "scrap"} : pipe' = [pipe EXCEPT ![1].part = p]
    <3>1. PICK p \in {"tail", "scrap"} : pipe' = [pipe EXCEPT ![1].part = p]
      BY <2>4
    <3>2. QED BY <2>2, <3>1
  <2>5. QED BY <2>1, <2>3, <2>4, ZenonT(60)
<1>3. \A j \in Requests :
          /\ (\E k \in 1..Len(pipe') : pipe'[k].req = j) => \E k \in 1..Len(pipe) : pipe[k].req = j
          /\ (\E k \in 1..Len(pipe) : pipe[k].req = j) =>
                pipe[1].req = j \/ \E k \in 1..Len(pipe') : pipe'[k].req = j
  <2>1. CASE /\ Len(pipe') = Len(pipe) - 1
             /\ \A k \in 1..Len(pipe) - 1 : pipe'[k] = pipe[k + 1]
    <3>1. \A k \in 1..Len(pipe) : k = 1 \/ (k - 1 \in 1..Len(pipe') /\ pipe'[k - 1] = pipe[k])
      BY <1>1, <2>1
    <3>2. \A k \in 1..Len(pipe') : k + 1 \in 1..Len(pipe) /\ pipe'[k] = pipe[k + 1]
      BY <1>1, <2>1
    <3>3. QED BY <3>1, <3>2
  <2>2. CASE /\ Len(pipe') = Len(pipe) /\ pipe'[1].req = pipe[1].req
             /\ \A k \in 2..Len(pipe) : pipe'[k] = pipe[k]
    <3>1. \A k \in 1..Len(pipe) : pipe'[k].req = pipe[k].req
      BY <1>1, <2>2
    <3>2. QED BY <2>2, <3>1
  <2>3. QED BY <1>2, <2>1, <2>2
<1>4. ToCome(pipe[1].req)
  BY <1>1 DEF ToCome
<1>5. QED BY <1>1, <1>3, <1>4, InputTypes DEF ToCome, ComesNoMore

LEMMA TakenComes ==
    ASSUME Types, InputInv, NEW i \in Requests, Takes(i)
    PROVE  Comes(i)
<1> DEFINE n == Len(pipe)
<1>0. i # Misread /\ i # None /\ i \in Nat
  BY InputTypes
<1>1. /\ pipe # <<>> /\ pipe' = Tail(pipe) /\ pipe[1].req = i /\ astray = "no"
      /\ \/ reading = None /\ pipe[1].part = "whole"
         \/ reading = i /\ pipe[1].part \in {"tail", "scrap"}
      /\ reading' = None /\ UNCHANGED <<sent, rest, lost>> /\ n \in Nat \ {0}
  BY <1>0, PipeTypes DEF Takes, Complete, TakeFrame
<1>2. /\ Len(pipe') = n - 1 /\ \A k \in 1..n - 1 : pipe'[k] = pipe[k + 1]
  BY <1>1, TailInOrder DEF InputInv
<1>3. i # rest /\ i <= sent /\ \A k \in 1..n : k # 1 => i < pipe[k].req
  <2>1. 1 \in 1..n /\ (\A k \in 1..n : k # 1 => k \in 2..n)
    BY <1>1
  <2>2. CASE reading = None /\ pipe[1].part = "whole"
    BY <1>1, <2>1, <2>2 DEF InputInv, PipeInOrder
  <2>3. CASE reading = i
    BY <1>0, <1>1, <2>1, <2>3 DEF InputInv, PipeInOrder, ReadInOrder
  <2>4. QED BY <1>1, <2>2, <2>3
<1>4. rest # None => i < rest
  <2>1. rest # None => rest = sent
    BY DEF InputInv, ReadInOrder
  <2>2. sent \in Nat
    BY PipeTypes
  <2>3. QED BY <1>0, <1>3, <2>1, <2>2
<1>5. i \notin lost
  <2>1. CASE pipe[1].part = "whole"
    <3>1. \A l \in lost : l < pipe[1].req
      BY <1>1, <2>1 DEF InputInv, LostInOrder
    <3>2. QED BY <1>0, <1>1, <3>1
  <2>2. CASE reading = i
    <3>1. \A l \in lost : l < i
      BY <1>0, <2>2 DEF InputInv, LostInOrder
    <3>2. QED BY <1>0, <3>1
  <2>3. QED BY <1>1, <2>1, <2>2
<1>6. \A k \in 1..Len(pipe') : k + 1 \in 1..n /\ k + 1 # 1 /\ pipe'[k] = pipe[k + 1]
  BY <1>1, <1>2
<1>7. \A k \in 1..n : k # 1 => k - 1 \in 1..Len(pipe') /\ pipe'[k - 1] = pipe[k]
  BY <1>1, <1>2
<1>8. ToCome(i)
  BY <1>1 DEF ToCome
<1>9. \A j \in Requests : ToCome(j)' => i < j /\ ToCome(j)
  <2> SUFFICES ASSUME NEW j \in Requests, ToCome(j)' PROVE i < j /\ ToCome(j)
    OBVIOUS
  <2>1. CASE rest = j
    BY <1>4, <2>1, InputTypes DEF ToCome
  <2>2. ASSUME NEW k \in 1..Len(pipe'), pipe'[k].req = j PROVE i < j /\ ToCome(j)
    BY <1>3, <1>6, <2>2 DEF ToCome
  <2>3. QED BY <1>1, <2>1, <2>2, InputTypes DEF ToCome
<1>10. \A j \in Requests : ToCome(j) => ToCome(j)' \/ j = i
  <2> SUFFICES ASSUME NEW j \in Requests, ToCome(j), j # i PROVE ToCome(j)'
    OBVIOUS
  <2>1. CASE rest = j
    BY <1>1, <2>1 DEF ToCome
  <2>2. ASSUME NEW k \in 1..n, pipe[k].req = j PROVE ToCome(j)'
    <3>1. k # 1
      BY <1>1, <2>2
    <3>2. QED BY <1>7, <2>2, <3>1 DEF ToCome
  <2>3. reading # j
    BY <1>1, InputTypes
  <2>4. QED BY <2>1, <2>2, <2>3 DEF ToCome
<1>11. QED BY <1>1, <1>3, <1>5, <1>8, <1>9, <1>10 DEF Comes

-----------------------------------------------------------------------------
\* What the daemon is given.

LEMMA GivenTypes ==
    ASSUME Types
    PROVE  /\ done \in Seq(Requests) /\ Len(done) \in Nat /\ DOMAIN done = 1..Len(done)
           /\ toDaemon \in Seq(Inputs) /\ Len(toDaemon) \in Nat
           /\ Done \subseteq Requests /\ Pending \subseteq Requests /\ Given \subseteq Requests
           /\ \A k \in 1..Len(done) : done[k] \in Done /\ done[k] \in Nat
           /\ \A k \in 1..Len(toDaemon) : /\ toDaemon[k] \in Nat
                                          /\ toDaemon[k] # Misread => toDaemon[k] \in Pending
<1>1. done \in Seq(Requests) /\ toDaemon \in Seq(Inputs)
  BY DEF Types
<1>2. /\ \A k \in 1..Len(done) : done[k] \in Requests
      /\ \A k \in 1..Len(toDaemon) : toDaemon[k] \in Inputs
  BY <1>1, ElementOfSeq
<1>3. Len(done) \in Nat /\ DOMAIN done = 1..Len(done) /\ Len(toDaemon) \in Nat
  BY <1>1, LenProperties
<1>4. Done \subseteq Requests /\ Pending \subseteq Requests /\ Given \subseteq Requests
  BY <1>2, InputTypes DEF Done, Pending, Given
<1>5. /\ \A k \in 1..Len(done) : done[k] \in Done /\ done[k] \in Nat
      /\ \A k \in 1..Len(toDaemon) : /\ toDaemon[k] \in Nat
                                     /\ toDaemon[k] # Misread => toDaemon[k] \in Pending
  BY <1>2, InputTypes DEF Done, Pending
<1>6. QED BY <1>1, <1>3, <1>4, <1>5

LEMMA AppendSet ==
    ASSUME NEW S, NEW s \in Seq(S), NEW e \in S
    PROVE  {Append(s, e)[k] : k \in 1..Len(Append(s, e))} = {s[k] : k \in 1..Len(s)} \cup {e}
<1>1. /\ Len(s) \in Nat /\ Len(Append(s, e)) = Len(s) + 1 /\ Append(s, e)[Len(s) + 1] = e
      /\ \A k \in 1..Len(s) : Append(s, e)[k] = s[k]
  BY AppendProperties, LenProperties
<1>2. \A k \in 1..Len(s) + 1 : k \in 1..Len(s) \/ k = Len(s) + 1
  BY <1>1
<1>3. Len(s) + 1 \in 1..Len(s) + 1 /\ \A k \in 1..Len(s) : k \in 1..Len(s) + 1
  BY <1>1
<1>4. QED BY <1>1, <1>2, <1>3

\* No step but these gives the daemon anything, and a host that is in step
\* afterwards has taken no request.
InputQuiet ==
    \/ Send \/ SendRest \/ TakeHead \/ ReadAstray \/ Takes(Misread)
    \/ InputSame \/ InputDropped
Passes ==
    /\ done' = done /\ toDaemon' \in {toDaemon, <<>>} /\ NoSocketYet'
    /\ InStep' => InStep /\ InputQuiet /\ toDaemon' = toDaemon

LEMMA DaemonEndsPasses ==
    ASSUME NoSocketYet, DaemonEnds, host' \in {host, "over"}
    PROVE  Passes
<1>1. socket' # "open" /\ (socket = "none" => socket' = "none")
  BY DEF DaemonEnds
<1>2. done' = done /\ toDaemon' = <<>> /\ InputSame
  BY DEF DaemonEnds, browserVars, InputSame
<1>3. QED BY <1>1, <1>2 DEF Passes, InputQuiet, InStep, NoSocketYet

LEMMA LeavePasses ==
    ASSUME NEW t, Leave(t), done' = done, toDaemon' = toDaemon
    PROVE  Passes
  BY DEF Leave, Passes, InStep, NoSocketYet

LEMMA ContinuePasses ==
    ASSUME NoSocketYet, NEW t, NEW where, Continue(where, t), done' = done, toDaemon' = toDaemon,
           InputQuiet,
           \/ where = "refusing"
           \/ where = "relaying" /\ host = "relaying"
           \/ where = "serving" /\ host \in {"serving", "handling"}
    PROVE  Passes
  BY DEF Continue, Passes, InStep, NoSocketYet

LEMMA GivenSteps ==
    ASSUME NoSocketYet, [Next]_vars
    PROVE  \/ DaemonTakes \/ Passes
           \/ \E i \in Inputs : HandleFrame(i) \/ (RelayFrame(i) /\ socket = "open")
<1>1. CASE UNCHANGED vars
  BY <1>1 DEF vars, browserVars, daemonVars, wireVars, InputSame, InputQuiet, Passes, InStep,
              NoSocketYet
<1>2. CASE Browser
  BY <1>2 DEF Browser, Send, SendRest, Disconnect, Kill, browserVars, daemonVars, wireVars,
              InputSame, InputQuiet, Passes, InStep, NoSocketYet
<1>3. CASE FrameStep
  <2>1. CASE FrameFails \/ EndOfInput
    BY <2>1, LeavePasses DEF FrameFails, EndOfInput
  <2>2. ASSUME NEW i \in Requests, Refuse(i) PROVE Passes
    BY <2>2, LeavePasses DEF Refuse
  <2>3. CASE TakeHead \/ ReadAstray
    BY <2>3 DEF TakeHead, ReadAstray, daemonVars, wireVars, InputQuiet, Passes, InStep, NoSocketYet
  <2>4. CASE NotUtf8
    <3>1. Takes(Misread) /\ host = "serving" /\ done' = done /\ toDaemon' = toDaemon
      BY <2>4 DEF NotUtf8, Takes
    <3>2. Continue("serving", turn) \/ Leave(turn)
      BY <2>4 DEF NotUtf8
    <3>3. QED BY <3>1, <3>2, LeavePasses, ContinuePasses DEF InputQuiet
  <2>5. ASSUME NEW i \in Inputs, RelayFrame(i), socket # "open" PROVE Passes
    <3>1. done' = done /\ toDaemon' = toDaemon /\ host = "relaying"
      BY <2>5 DEF RelayFrame
    <3>2. Continue("relaying", turn) \/ Continue("refusing", turn) \/ Leave(turn)
      BY <2>5 DEF RelayFrame, RelayFails
    <3>3. CASE Leave(turn)
      BY <3>1, <3>3, LeavePasses
    <3>4. CASE Continue("relaying", turn) \/ Continue("refusing", turn)
      BY <2>5, <3>1, <3>4 DEF Continue, Passes, InStep, NoSocketYet
    <3>5. QED BY <3>2, <3>3, <3>4
  <2>6. QED BY <1>3, <2>1, <2>2, <2>3, <2>4, <2>5 DEF FrameStep
<1>4. CASE OtherBranch
  <2>1. CASE WriteHandled
    <3>1. PICK t : IF CanWrite(Response(handling)) THEN Continue("serving", t) ELSE Leave(t)
      BY <2>1 DEF WriteHandled
    <3>2. InputSame /\ host = "handling" /\ done' = done /\ toDaemon' = toDaemon
      BY <2>1 DEF WriteHandled, browserVars, InputSame
    <3>3. QED BY <3>1, <3>2, LeavePasses, ContinuePasses DEF InputQuiet
  <2>2. ASSUME WriteEvent \/ RelayText \/ RelayLost PROVE InputQuiet
    BY <2>2 DEF WriteEvent, RelayText, RelayLost, DropRead, browserVars, InputDropped, InputQuiet
  <2>3. CASE WriteEvent
    <3>1. /\ host = "serving" /\ done' = done /\ toDaemon' = toDaemon
          /\ Continue("serving", turn) \/ Leave(turn)
      BY <2>3 DEF WriteEvent
    <3>2. QED BY <2>2, <2>3, <3>1, LeavePasses, ContinuePasses
  <2>4. CASE RelayText
    <3>1. /\ host = "relaying" /\ done' = done /\ toDaemon' = toDaemon
          /\ Continue("relaying", turn) \/ Leave(turn)
      BY <2>4 DEF RelayText
    <3>2. QED BY <2>2, <2>4, <3>1, LeavePasses, ContinuePasses
  <2>5. CASE RelayLost
    <3>1. /\ done' = done /\ toDaemon' = toDaemon
          /\ Continue("refusing", turn) \/ Leave(turn)
      BY <2>5 DEF RelayLost, RelayFails
    <3>2. QED BY <2>2, <2>5, <3>1, LeavePasses, ContinuePasses
  <2>6. QED BY <1>4, <2>1, <2>3, <2>4, <2>5 DEF OtherBranch
<1>5. CASE Startup
  <2>1. CASE CannotConnect
    <3>1. /\ done' = done /\ toDaemon' = toDaemon /\ InputSame
          /\ Continue("refusing", turn) \/ Leave(turn)
      BY <2>1 DEF CannotConnect, browserVars, InputSame
    <3>2. QED BY <3>1, LeavePasses, ContinuePasses DEF InputQuiet
  <2>2. CASE Launch
    BY <2>2 DEF Launch, browserVars, wireVars, InputSame, InputQuiet, Passes, InStep, NoSocketYet
  <2>3. CASE ReadStatus \/ StatusFails \/ Connect
    BY <2>3 DEF ReadStatus, StatusFails, Connect, browserVars, wireVars, daemonVars, InputSame,
                InputQuiet, Passes, InStep, NoSocketYet
  <2>4. QED BY <1>5, <2>1, <2>2, <2>3 DEF Startup
<1>6. CASE Shutdown
  <2>1. CASE ChildStopped
    BY <2>1 DEF ChildStopped, browserVars, wireVars, daemonVars, InputSame, InputQuiet, Passes,
                InStep, NoSocketYet
  <2>2. CASE ChildKilled
    BY <2>2, DaemonEndsPasses DEF ChildKilled
  <2>3. QED BY <1>6, <2>1, <2>2 DEF Shutdown
<1>7. CASE OtherDaemon \/ TurnEnds
  <2>1. CASE StopOnEndOfStdin \/ DaemonDies
    BY <2>1, DaemonEndsPasses DEF StopOnEndOfStdin, DaemonDies
  <2>2. CASE CloseConnection
    BY <2>2 DEF CloseConnection, browserVars, InputSame, InputQuiet, Passes, InStep, NoSocketYet
  <2>3. CASE PrintStatus \/ DaemonAnswers \/ TurnEnds
    BY <2>3 DEF PrintStatus, DaemonAnswers, TurnEnds, browserVars, wireVars, InputSame, InputQuiet,
                Passes, InStep, NoSocketYet
  <2>4. QED BY <1>7, <2>1, <2>2, <2>3 DEF OtherDaemon
<1>8. QED BY <1>1, <1>2, <1>3, <1>4, <1>5, <1>6, <1>7 DEF Next, HostStep

LEMMA Coming ==
    ASSUME Types, InputInv
    PROVE  /\ InputQuiet => ComesMore \/ ComesNoMore
           /\ InputStep => ComesMore \/ ComesNoMore \/ \E i \in Requests : Comes(i)
<1>1. InputQuiet => ComesMore \/ ComesNoMore
  BY WriteComes, SameComes, MisreadComes DEF InputQuiet
<1>2. ASSUME InputStep PROVE InputQuiet \/ \E i \in Requests : Takes(i)
  BY <1>2, InputTypes DEF InputStep, InputQuiet
<1>3. QED BY <1>1, <1>2, TakenComes

\* Nothing more is given, and nothing is skipped.
LEMMA NothingMore ==
    ASSUME Types, Types', InputInv, GivenInv, Given' \in {Given, Done},
           ComesMore \/ ComesNoMore \/ \E i \in Requests : Comes(i)
    PROVE  NoneSkipped'
<1>0. /\ sent \in Nat /\ Given \subseteq Requests /\ Requests \subseteq Nat /\ Given = Done \cup Pending
      /\ Done \subseteq Requests /\ Pending \subseteq Requests
  BY GivenTypes, PipeTypes, InputTypes DEF Given
<1>a. Given' = Given \/ Given' = Done
  OBVIOUS
<1>b. ComesMore \/ ComesNoMore \/ \E i \in Requests : Comes(i)
  OBVIOUS
<1> SUFFICES ASSUME NEW g \in Given'
             PROVE  /\ g <= sent' /\ g \notin lost'
                    /\ \A i \in Requests : ToCome(i)' => g < i
                    /\ \A i \in Requests : i < g => i \in Given' \cup lost'
  BY DEF NoneSkipped
<1>1. g \in Given /\ g \in Nat
  BY <1>0, <1>a
<1>2. /\ g <= sent /\ g \notin lost
      /\ \A i \in Requests : ToCome(i) => g < i
      /\ \A i \in Requests : i < g => i \in Given \cup lost
  BY <1>1 DEF GivenInv, NoneSkipped
<1>3. lost \subseteq lost' /\ sent <= sent'
  BY <1>0, <1>b DEF ComesMore, ComesNoMore, Comes
<1>4. g \notin lost'
  <2>1. \A j \in lost' \ lost : ToCome(j) /\ j \in Requests
    BY <1>b DEF ComesMore, ComesNoMore, Comes, Types
  <2>2. QED BY <1>0, <1>1, <1>2, <2>1
<1>5. \A i \in Requests : ToCome(i)' => g < i
  <2> SUFFICES ASSUME NEW i \in Requests, ToCome(i)' PROVE g < i
    OBVIOUS
  <2>1. CASE ComesMore
    <3>1. ToCome(i) \/ i = sent'
      BY <2>1 DEF ComesMore
    <3>2. i = sent' => g < i
      BY <1>0, <1>1, <1>2, <2>1 DEF ComesMore
    <3>3. QED BY <1>2, <3>1, <3>2
  <2>2. CASE ComesNoMore
    BY <1>2, <2>2 DEF ComesNoMore
  <2>3. ASSUME NEW j \in Requests, Comes(j) PROVE g < i
    <3>1. ToCome(i)
      BY <2>3 DEF Comes
    <3>2. QED BY <1>2, <3>1
  <2>4. QED BY <1>b, <2>1, <2>2, <2>3
<1>6. \A i \in Requests : i < g => i \in Given' \cup lost'
  <2> SUFFICES ASSUME NEW i \in Requests, i < g PROVE i \in Given' \cup lost'
    OBVIOUS
  <2>1. i \in Given \cup lost
    BY <1>2
  <2>2. ASSUME Given' = Done, i \in Pending PROVE FALSE
    BY <1>0, <2>2, <1>1 DEF GivenInv, GivenInOrder
  <2>3. QED BY <1>0, <1>a, <1>3, <2>1, <2>2
<1>7. QED BY <1>b, <1>2, <1>4, <1>5, <1>6, <1>0, <1>1 DEF ComesMore, ComesNoMore, Comes

LEMMA StillInStep ==
    ASSUME Types, Types', GivenInv,
           InStep' => InStep /\ (ComesMore \/ ComesNoMore) /\ Given' = Given
    PROVE  HostInStep'
<1>0. /\ sent \in Nat /\ Given \subseteq Requests /\ Requests \subseteq Nat /\ Given = Done \cup Pending
      /\ Done \subseteq Requests /\ Pending \subseteq Requests
  BY GivenTypes, PipeTypes, InputTypes DEF Given
<1> SUFFICES ASSUME InStep', NEW i \in 1..sent' PROVE i \in Given' \cup lost' \/ ToCome(i)'
  BY DEF HostInStep
<1>1. InStep /\ (ComesMore \/ ComesNoMore) /\ Given' = Given
  OBVIOUS
<1>2. \A j \in 1..sent : j \in Given \cup lost \/ ToCome(j)
  BY <1>1 DEF GivenInv, HostInStep
<1>3. i \in Requests
  BY DEF Types, Requests
<1>4. CASE ComesMore
  <2>1. i \in 1..sent \/ i = sent'
    BY <1>0, <1>4 DEF ComesMore
  <2>2. QED BY <1>1, <1>2, <1>3, <1>4, <2>1 DEF ComesMore
<1>5. CASE ComesNoMore
  BY <1>1, <1>2, <1>3, <1>5 DEF ComesNoMore
<1>6. QED BY <1>1, <1>4, <1>5

LEMMA PassedBy ==
    ASSUME Types, InputInv, GivenInv, [Next]_vars, Passes
    PROVE  GivenInv'
<1>0. /\ sent \in Nat /\ Given \subseteq Requests /\ Requests \subseteq Nat /\ Given = Done \cup Pending
      /\ Done \subseteq Requests /\ Pending \subseteq Requests
  BY GivenTypes, PipeTypes, InputTypes DEF Given
<1>1. \/ Given' = Given /\ Done' = Done
      \/ Given' = Done /\ Done' = Done
  <2>1. Done' = Done
    BY DEF Passes, Done
  <2>2. CASE toDaemon' = toDaemon
    BY <2>1, <2>2 DEF Given, Pending
  <2>3. CASE toDaemon' = <<>>
    <3>1. Len(toDaemon') = 0
      BY <2>3, EmptySeq
    <3>2. Pending' = {}
      BY <3>1 DEF Pending
    <3>3. QED BY <2>1, <3>2 DEF Given
  <2>4. QED BY <2>2, <2>3 DEF Passes
<1>2. ComesMore \/ ComesNoMore \/ \E i \in Requests : Comes(i)
  BY InputSteps, Coming
<1>3. NoneSkipped' /\ Types'
  BY <1>1, <1>2, TypesKept, NothingMore
<1>4. HostInStep'
  <2>1. InStep' => InStep /\ (ComesMore \/ ComesNoMore) /\ Given' = Given
    BY Coming DEF Passes, Given, Done, Pending
  <2>2. QED BY <1>3, <2>1, StillInStep
<1>5. GivenInOrder'
  <2>1. CASE toDaemon' = toDaemon
    BY <2>1 DEF Passes, GivenInv, GivenInOrder, Done, Pending
  <2>2. CASE toDaemon' = <<>>
    <3>1. Len(toDaemon') = 0
      BY <2>2, EmptySeq
    <3>2. 1..Len(toDaemon') = {} /\ Pending' = {}
      BY <3>1 DEF Pending
    <3>3. QED BY <3>2 DEF Passes, GivenInv, GivenInOrder
  <2>3. QED BY <2>1, <2>2 DEF Passes
<1>6. QED BY <1>3, <1>4, <1>5 DEF GivenInv, Passes

\* A host in step gives the first request to come.
LEMMA NextGiven ==
    ASSUME Types, InputInv, GivenInv, InStep, NEW i \in Requests, Takes(i), Given' = Given \cup {i}
    PROVE  NoneSkipped' /\ HostInStep' /\ \A g \in Given : g < i
<1>0. /\ sent \in Nat /\ Given \subseteq Requests /\ Requests \subseteq Nat
  BY GivenTypes, PipeTypes, InputTypes
<1>1. Comes(i)
  BY TakenComes
<1>2. \A g \in Given :
        /\ g <= sent /\ g \notin lost
        /\ \A j \in Requests : ToCome(j) => g < j
        /\ \A j \in Requests : j < g => j \in Given \cup lost
  BY DEF GivenInv, NoneSkipped
<1>3. \A g \in Given : g < i
  BY <1>1, <1>2 DEF Comes
<1>4. \A j \in 1..sent : j \in Given \cup lost \/ ToCome(j)
  BY DEF GivenInv, HostInStep
<1>5. \A j \in Requests : j < i => j \in Given \cup lost
  <2> SUFFICES ASSUME NEW j \in Requests, j < i PROVE j \in Given \cup lost
    OBVIOUS
  <2>1. j \in 1..sent
    BY <1>0, <1>1 DEF Comes, Requests
  <2>2. ASSUME ToCome(j) PROVE FALSE
    BY <1>0, <1>1, <2>2 DEF Comes
  <2>3. QED BY <1>4, <2>1, <2>2
<1>6. NoneSkipped'
  <2>1. \A g \in Given' :
        /\ g <= sent' /\ g \notin lost'
        /\ \A j \in Requests : ToCome(j)' => g < j
        /\ \A j \in Requests : j < g => j \in Given' \cup lost'
    BY <1>1, <1>2, <1>5 DEF Comes
  <2>2. QED BY <2>1 DEF NoneSkipped
<1>7. HostInStep'
  <2>1. \A j \in 1..sent' : j \in Given' \cup lost' \/ ToCome(j)'
    <3> SUFFICES ASSUME NEW j \in 1..sent' PROVE j \in Given' \cup lost' \/ ToCome(j)'
      OBVIOUS
    <3>1. j \in Requests /\ sent' = sent /\ lost' = lost
      BY <1>1 DEF Comes, Types, Requests
    <3>2. QED BY <1>1, <1>4, <3>1 DEF Comes
  <2>2. QED BY <2>1 DEF HostInStep
<1>8. QED BY <1>3, <1>6, <1>7

\* The sequence of what was given stays in order, and with it that of what is
\* on its way.
LEMMA DoneMore ==
    ASSUME Types, NEW i \in Requests, done' = Append(done, i)
    PROVE  /\ Done' = Done \cup {i}
           /\ (\A j, k \in 1..Len(done) : j < k => done[j] < done[k]) /\ (\A d \in Done : d < i)
              => \A j, k \in 1..Len(done') : j < k => done'[j] < done'[k]
<1>1. Done' = Done \cup {i}
  <2>1. {Append(done, i)[k] : k \in 1..Len(Append(done, i))} = {done[k] : k \in 1..Len(done)} \cup {i}
    BY GivenTypes, AppendSet
  <2>2. QED BY <2>1 DEF Done
<1>2. /\ Len(done) \in Nat /\ Len(done') = Len(done) + 1 /\ done'[Len(done) + 1] = i
      /\ \A k \in 1..Len(done) : done'[k] = done[k] /\ done[k] \in Done
  BY GivenTypes, AppendProperties
<1>3. ASSUME \A j, k \in 1..Len(done) : j < k => done[j] < done[k], \A d \in Done : d < i,
             NEW j \in 1..Len(done'), NEW k \in 1..Len(done'), j < k
      PROVE  done'[j] < done'[k]
  <2>1. j \in 1..Len(done) /\ (k \in 1..Len(done) \/ k = Len(done) + 1)
    BY <1>2, <1>3
  <2>2. QED BY <1>2, <1>3, <2>1
<1>4. QED BY <1>1, <1>3

LEMMA WayMore ==
    ASSUME Types, NEW i \in Inputs, toDaemon' = Append(toDaemon, i)
    PROVE  /\ Pending' = Pending \cup ({i} \ {Misread})
           /\ /\ \A j, k \in 1..Len(toDaemon) :
                    j < k /\ toDaemon[k] # Misread => toDaemon[j] < toDaemon[k]
              /\ i # Misread => \A p \in Pending : p < i
              => \A j, k \in 1..Len(toDaemon') :
                    j < k /\ toDaemon'[k] # Misread => toDaemon'[j] < toDaemon'[k]
<1>1. Pending' = Pending \cup ({i} \ {Misread})
  <2>1. {Append(toDaemon, i)[k] : k \in 1..Len(Append(toDaemon, i))}
            = {toDaemon[k] : k \in 1..Len(toDaemon)} \cup {i}
    BY GivenTypes, AppendSet
  <2>2. QED BY <2>1 DEF Pending
<1>2. /\ Len(toDaemon) \in Nat /\ Len(toDaemon') = Len(toDaemon) + 1 /\ toDaemon'[Len(toDaemon) + 1] = i
      /\ \A k \in 1..Len(toDaemon) : /\ toDaemon'[k] = toDaemon[k] /\ toDaemon[k] \in Nat
                                     /\ toDaemon[k] # Misread => toDaemon[k] \in Pending
  BY GivenTypes, AppendProperties
<1>3. ASSUME \A j, k \in 1..Len(toDaemon) :
                j < k /\ toDaemon[k] # Misread => toDaemon[j] < toDaemon[k],
             i # Misread => \A p \in Pending : p < i,
             NEW j \in 1..Len(toDaemon'), NEW k \in 1..Len(toDaemon'), j < k, toDaemon'[k] # Misread
      PROVE  toDaemon'[j] < toDaemon'[k]
  <2>1. j \in 1..Len(toDaemon) /\ (k \in 1..Len(toDaemon) \/ k = Len(toDaemon) + 1)
    BY <1>2, <1>3
  <2>2. CASE k \in 1..Len(toDaemon)
    BY <1>2, <1>3, <2>1, <2>2
  <2>3. CASE k = Len(toDaemon) + 1
    <3>1. i # Misread /\ toDaemon'[k] = i /\ toDaemon'[j] = toDaemon[j]
      BY <1>2, <1>3, <2>1, <2>3
    <3>2. toDaemon[j] # Misread => toDaemon[j] < i
      BY <1>2, <1>3, <2>1, <3>1
    <3>3. toDaemon[j] = Misread => toDaemon[j] < i
      BY <3>1 DEF Misread, Inputs, Requests
    <3>4. QED BY <3>1, <3>2, <3>3
  <2>4. QED BY <2>1, <2>2, <2>3
<1>4. QED BY <1>1, <1>3

LEMMA HandledInOrder ==
    ASSUME Types, InputInv, GivenInv, [Next]_vars, NEW i \in Inputs, HandleFrame(i)
    PROVE  GivenInv'
<1>1. /\ Takes(i) /\ TakeRequest(i) /\ host = "serving" /\ host' = "handling"
      /\ toDaemon' = toDaemon /\ socket' = socket
  BY DEF HandleFrame, Takes, wireVars
<1>2. NoSocketYet' /\ toDaemon = <<>> /\ InStep
  BY <1>1 DEF GivenInv, NoSocketYet, InStep
<1>3. CASE i = Misread
  <2>1. Passes
    BY <1>1, <1>2, <1>3, TakeRequestTypes DEF Passes, InputQuiet
  <2>2. QED BY <2>1, PassedBy
<1>4. CASE i # Misread
  <2>1. i \in Requests /\ done' = Append(done, i)
    BY <1>1, <1>4, InputTypes, TakeRequestTypes
  <2>2. Done' = Done \cup {i}
    BY <2>1, DoneMore
  <2>3. Pending = {} /\ Pending' = {} /\ 1..Len(toDaemon') = {}
    <3>1. Len(toDaemon) = 0 /\ toDaemon' = toDaemon
      BY <1>1, <1>2, EmptySeq
    <3>2. QED BY <3>1 DEF Pending
  <2>4. Given = Done /\ Given' = Given \cup {i}
    BY <2>2, <2>3 DEF Given
  <2>5. NoneSkipped' /\ HostInStep' /\ \A g \in Given : g < i
    BY <1>1, <1>2, <2>1, <2>4, NextGiven
  <2>6. \A j, k \in 1..Len(done') : j < k => done'[j] < done'[k]
    BY <2>1, <2>4, <2>5, DoneMore DEF GivenInv, GivenInOrder
  <2>7. GivenInOrder'
    BY <2>3, <2>6 DEF GivenInOrder
  <2>8. QED BY <1>2, <2>5, <2>7 DEF GivenInv
<1>5. QED BY <1>3, <1>4

LEMMA RelayedInOrder ==
    ASSUME Types, InputInv, GivenInv, [Next]_vars, NEW i \in Inputs, RelayFrame(i), socket = "open"
    PROVE  GivenInv'
<1>1. /\ Takes(i) /\ host = "relaying" /\ done' = done /\ InStep
      /\ toDaemon' = Append(toDaemon, i) /\ Continue("relaying", turn)
  BY DEF RelayFrame, Takes, InStep
<1>2. NoSocketYet' /\ Done' = Done
  BY <1>1 DEF NoSocketYet, Continue, Done
<1>3. Types'
  BY TypesKept
<1>4. /\ \A j, k \in 1..Len(done) : j < k => done[j] < done[k]
      /\ \A j, k \in 1..Len(toDaemon) : j < k /\ toDaemon[k] # Misread => toDaemon[j] < toDaemon[k]
      /\ \A d \in Done, p \in Pending : d < p
  BY DEF GivenInv, GivenInOrder
<1>5. \A j, k \in 1..Len(done') : j < k => done'[j] < done'[k]
  BY <1>1, <1>4
<1>6. CASE i = Misread
  <2>1. Pending' = Pending /\ \A j, k \in 1..Len(toDaemon') :
            j < k /\ toDaemon'[k] # Misread => toDaemon'[j] < toDaemon'[k]
    BY <1>1, <1>4, <1>6, WayMore
  <2>2. Given' = Given /\ ComesNoMore
    BY <1>1, <1>2, <1>6, <2>1, MisreadComes DEF Given
  <2>3. NoneSkipped' /\ HostInStep'
    BY <1>1, <1>3, <2>2, NothingMore, StillInStep
  <2>4. GivenInOrder'
    BY <1>2, <1>4, <1>5, <2>1 DEF GivenInOrder
  <2>5. QED BY <1>2, <2>3, <2>4 DEF GivenInv
<1>7. CASE i # Misread
  <2>1. i \in Requests /\ Pending' = Pending \cup {i}
    BY <1>1, <1>7, InputTypes, WayMore
  <2>2. Given' = Given \cup {i}
    BY <1>2, <2>1 DEF Given
  <2>3. NoneSkipped' /\ HostInStep' /\ \A g \in Given : g < i
    BY <1>1, <2>1, <2>2, NextGiven
  <2>4. \A p \in Pending : p < i
    BY <2>3 DEF Given
  <2>5. \A j, k \in 1..Len(toDaemon') :
            j < k /\ toDaemon'[k] # Misread => toDaemon'[j] < toDaemon'[k]
    BY <1>1, <1>4, <2>4, WayMore
  <2>6. \A d \in Done', p \in Pending' : d < p
    BY <1>2, <1>4, <2>1, <2>3 DEF Given
  <2>7. GivenInOrder'
    BY <1>5, <2>5, <2>6 DEF GivenInOrder
  <2>8. QED BY <1>2, <2>3, <2>7 DEF GivenInv
<1>8. QED BY <1>6, <1>7

\* What the daemon takes was given to it before.
LEMMA TakenInTurn ==
    ASSUME Types, InputInv, GivenInv, [Next]_vars, DaemonTakes
    PROVE  GivenInv'
<1> DEFINE i == Head(toDaemon)
<1>1. /\ toDaemon # <<>> /\ toDaemon' = Tail(toDaemon) /\ TakeRequest(i)
      /\ host' = host /\ socket' = socket /\ InputSame /\ socket \in {"open", "left"}
  BY DEF DaemonTakes, browserVars, InputSame
<1>2. /\ i \in Inputs /\ i = toDaemon[1] /\ Len(toDaemon) \in Nat \ {0}
      /\ Len(toDaemon') = Len(toDaemon) - 1
      /\ \A k \in 1..Len(toDaemon') : toDaemon'[k] = toDaemon[k + 1] /\ k + 1 \in 1..Len(toDaemon)
  BY <1>1, GivenTypes, TailTypes
<1>3. NoSocketYet'
  BY <1>1 DEF GivenInv, NoSocketYet
<1>4. /\ \A j, k \in 1..Len(done) : j < k => done[j] < done[k]
      /\ \A j, k \in 1..Len(toDaemon) : j < k /\ toDaemon[k] # Misread => toDaemon[j] < toDaemon[k]
      /\ \A d \in Done, p \in Pending : d < p
  BY DEF GivenInv, GivenInOrder
<1>5. /\ \A j, k \in 1..Len(toDaemon') :
            j < k /\ toDaemon'[k] # Misread => toDaemon'[j] < toDaemon'[k]
      /\ \A k \in 1..Len(toDaemon') : toDaemon'[k] # Misread => i < toDaemon'[k]
  <2>1. 1 \in 1..Len(toDaemon)
    BY <1>2
  <2>2. ASSUME NEW j \in 1..Len(toDaemon'), NEW k \in 1..Len(toDaemon'), j < k,
               toDaemon'[k] # Misread
        PROVE  toDaemon'[j] < toDaemon'[k]
    <3>1. /\ j + 1 \in 1..Len(toDaemon) /\ k + 1 \in 1..Len(toDaemon) /\ j + 1 < k + 1
          /\ toDaemon'[j] = toDaemon[j + 1] /\ toDaemon'[k] = toDaemon[k + 1]
      BY <1>2, <2>2
    <3>2. QED BY <1>4, <2>2, <3>1
  <2>3. ASSUME NEW k \in 1..Len(toDaemon'), toDaemon'[k] # Misread
        PROVE  i < toDaemon'[k]
    <3>1. 1 < k + 1 /\ k + 1 \in 1..Len(toDaemon) /\ toDaemon[k + 1] = toDaemon'[k]
      BY <1>2
    <3>2. toDaemon[1] < toDaemon[k + 1]
      BY <1>4, <2>1, <2>3, <3>1
    <3>3. QED BY <1>2, <3>1, <3>2
  <2>4. QED BY <2>2, <2>3
<1>6. Pending = Pending' \cup ({i} \ {Misread}) /\ \A p \in Pending' : i < p
  <2>1. \A k \in 1..Len(toDaemon) : k = 1 \/ (k - 1 \in 1..Len(toDaemon') /\ toDaemon[k] = toDaemon'[k - 1])
    <3> SUFFICES ASSUME NEW k \in 1..Len(toDaemon), k # 1
                 PROVE  k - 1 \in 1..Len(toDaemon') /\ toDaemon[k] = toDaemon'[k - 1]
      OBVIOUS
    <3>1. k - 1 \in 1..Len(toDaemon') /\ (k - 1) + 1 = k
      BY <1>2
    <3>2. QED BY <1>2, <3>1
  <2>2. 1 \in 1..Len(toDaemon) /\ toDaemon[1] = i
    BY <1>2
  <2>3. \A p \in Pending : p \in Pending' \/ p = i
    BY <2>1, <2>2 DEF Pending
  <2>4. \A p \in Pending' : p \in Pending
    BY <1>2 DEF Pending
  <2>5. i # Misread => i \in Pending
    BY <2>2 DEF Pending
  <2>6. \A p \in Pending : p # Misread
    BY DEF Pending
  <2>7. \A p \in Pending' : i < p
    BY <1>5 DEF Pending
  <2>8. QED BY <2>3, <2>4, <2>5, <2>6, <2>7
<1>7. Given' = Given /\ GivenInOrder'
  <2>1. CASE i = Misread
    <3>1. Done' = Done /\ done' = done
      BY <1>1, <1>2, <2>1, TakeRequestTypes DEF Done
    <3>2. Pending' = Pending
      BY <1>6, <2>1
    <3>3. QED BY <1>4, <1>5, <3>1, <3>2 DEF Given, GivenInOrder
  <2>2. CASE i # Misread
    <3>1. i \in Requests /\ done' = Append(done, i) /\ i \in Pending
      BY <1>1, <1>2, <1>6, <2>2, InputTypes, TakeRequestTypes
    <3>2. Done' = Done \cup {i}
      BY <3>1, DoneMore
    <3>3. \A j, k \in 1..Len(done') : j < k => done'[j] < done'[k]
      BY <1>4, <3>1, DoneMore
    <3>4. \A d \in Done', p \in Pending' : d < p
      BY <1>4, <1>6, <3>2
    <3>5. Given' = Given
      BY <1>6, <2>2, <3>2 DEF Given
    <3>6. QED BY <1>5, <3>3, <3>4, <3>5 DEF GivenInOrder
  <2>3. QED BY <2>1, <2>2
<1>8. Types' /\ ComesNoMore
  BY <1>1, TypesKept, SameComes
<1>9. NoneSkipped' /\ HostInStep'
  <2>1. InStep' => InStep
    BY <1>1 DEF InStep
  <2>2. QED BY <1>7, <1>8, <2>1, NothingMore, StillInStep
<1>10. QED BY <1>3, <1>7, <1>9 DEF GivenInv

LEMMA GivenKept ==
    ASSUME Types, InputInv, GivenInv, [Next]_vars
    PROVE  GivenInv'
  BY GivenSteps, PassedBy, HandledInOrder, RelayedInOrder, TakenInTurn DEF GivenInv

-----------------------------------------------------------------------------
\* What the extension is told.

\* What a step writes: nothing; that setup is required, as the last text; or
\* something else, after which it is quiet no more.
SaysNothing ==
    told' = told /\ (Quiet' => Quiet) /\ (host \in Gone => host' \in Gone)
SaysSetup ==
    \E i \in Inputs : told' = Append(told, SetupRequired(i)) /\ Quiet /\ host' \in Gone
SaysMore ==
    \E text \in Texts : told' = Append(told, text) /\ text.kind # "setup" /\ ~Quiet' /\ host \notin Gone
Says == SaysNothing \/ SaysSetup \/ SaysMore

LEMMA OtherKinds ==
    /\ Notification.kind # "setup" /\ FrameError.kind # "setup"
    /\ \A i : Response(i).kind # "setup"
  BY DEF Notification, FrameError, Response

\* A text that is not about setup, with the host quiet no more.
LEMMA WriteSays ==
    ASSUME NEW text \in Texts, text.kind # "setup", Write(text), ~Quiet', host \notin Gone
    PROVE  Says
<1>1. told' = told \/ told' = Append(told, text)
  BY DEF Write
<1>2. QED BY <1>1 DEF Says, SaysNothing, SaysMore

LEMMA SetupSays ==
    ASSUME NEW i \in Inputs, Write(SetupRequired(i)), Quiet, host' \in Gone
    PROVE  Says
<1>1. told' = told \/ told' = Append(told, SetupRequired(i))
  BY DEF Write
<1>2. ~Quiet'
  BY DEF Quiet, Gone
<1>3. QED BY <1>1, <1>2 DEF Says, SaysNothing, SaysSetup

LEMMA LeaveIsGone ==
    ASSUME NEW t, Leave(t)
    PROVE  host' \in Gone /\ ~Quiet'
  BY DEF Leave, Gone, Quiet

LEMMA ToldSteps ==
    ASSUME Types, [Next]_vars
    PROVE  Says
<1>1. CASE UNCHANGED vars
  BY <1>1 DEF vars, relayVars, Says, SaysNothing, Quiet
<1>2. CASE Browser
  BY <1>2 DEF Browser, Send, SendRest, Disconnect, Kill, relayVars, Says, SaysNothing, Quiet, Gone,
              Alive
<1>3. CASE FrameStep
  <2>1. CASE TakeHead
    BY <2>1 DEF TakeHead, relayVars, Says, SaysNothing, Quiet
  <2>2. CASE FrameFails
    BY <2>2, LeaveIsGone, TextTypes, OtherKinds, WriteSays DEF FrameFails, Loops, Gone
  <2>3. CASE EndOfInput
    BY <2>3, LeaveIsGone DEF EndOfInput, Says, SaysNothing
  <2>4. ASSUME NEW i \in Inputs, HandleFrame(i) PROVE Says
    BY <2>4 DEF HandleFrame, relayVars, Says, SaysNothing, Quiet, Gone
  <2>5. ASSUME NEW i \in Inputs, RelayFrame(i) PROVE Says
    <3>1. host = "relaying" /\ answered' = answered
      BY <2>5 DEF RelayFrame
    <3>2. \/ first' \in Inputs /\ Write(SetupRequired(first')) /\ Leave(turn) /\ ~answered
          \/ UNCHANGED told /\ Continue("refusing", turn) /\ ~answered
          \/ UNCHANGED told /\ Leave(turn)
          \/ UNCHANGED told /\ Continue("relaying", turn)
      BY <2>5 DEF RelayFrame, RelayFails, Types
    <3>3. CASE first' \in Inputs /\ Write(SetupRequired(first')) /\ Leave(turn) /\ ~answered
      BY <3>1, <3>3, LeaveIsGone, SetupSays DEF Quiet
    <3>4. CASE UNCHANGED told /\ Continue("refusing", turn) /\ ~answered
      BY <3>1, <3>4 DEF Continue, Says, SaysNothing, Quiet, Gone
    <3>5. CASE UNCHANGED told /\ Leave(turn)
      BY <3>5, LeaveIsGone DEF Says, SaysNothing
    <3>6. CASE UNCHANGED told /\ Continue("relaying", turn)
      BY <3>1, <3>6 DEF Continue, Says, SaysNothing, Quiet, Gone
    <3>7. QED BY <3>2, <3>3, <3>4, <3>5, <3>6
  <2>6. ASSUME NEW i \in Requests, Refuse(i) PROVE Says
    BY <2>6, LeaveIsGone, SetupSays, InputTypes DEF Refuse, Quiet
  <2>7. CASE ReadAstray
    BY <2>7 DEF ReadAstray, relayVars, Says, SaysNothing, Quiet
  <2>8. CASE NotUtf8
    <3>1. Write(FrameError) /\ host = "serving" /\ (Continue("serving", turn) \/ Leave(turn))
      BY <2>8 DEF NotUtf8
    <3>2. ~Quiet' /\ host \notin Gone
      BY <3>1, LeaveIsGone DEF Continue, Quiet, Gone
    <3>3. QED BY <3>1, <3>2, TextTypes, OtherKinds, WriteSays
  <2>9. QED BY <1>3, <2>1, <2>2, <2>3, <2>4, <2>5, <2>6, <2>7, <2>8 DEF FrameStep
<1>4. CASE OtherBranch
  <2>1. CASE WriteHandled
    <3>1. Response(handling) \in Texts /\ Response(handling).kind # "setup"
          /\ Write(Response(handling)) /\ host \notin Gone
      BY <2>1, TextTypes, OtherKinds DEF WriteHandled, Types, Gone
    <3>2. ~Quiet'
      BY <2>1, LeaveIsGone DEF WriteHandled, Continue, Quiet
    <3>3. QED BY <3>1, <3>2, WriteSays
  <2>2. CASE WriteEvent
    <3>1. host \notin Gone /\ ~Quiet'
      BY <2>2, LeaveIsGone DEF WriteEvent, Continue, Quiet, Gone
    <3>2. Write(Notification) \/ told' = told
      BY <2>2 DEF WriteEvent
    <3>3. QED BY <3>1, <3>2, TextTypes, OtherKinds, WriteSays DEF Says, SaysNothing
  <2>3. CASE RelayText
    <3>1. host \notin Gone /\ ~Quiet' /\ Write(Head(fromDaemon)) /\ fromDaemon # <<>>
      BY <2>3, LeaveIsGone DEF RelayText, Continue, Quiet, Gone
    <3>2. Head(fromDaemon) \in Replies
      BY <3>1, HeadTailProperties DEF Types
    <3>3. Head(fromDaemon) \in Texts /\ Head(fromDaemon).kind # "setup"
      BY <3>2 DEF Replies
    <3>4. QED BY <3>1, <3>3, WriteSays
  <2>4. CASE RelayLost
    <3>1. host = "relaying" /\ answered' = answered
      BY <2>4 DEF RelayLost, relayVars
    <3>2. \/ first \in Inputs /\ Write(SetupRequired(first)) /\ Leave(turn) /\ ~answered
          \/ UNCHANGED told /\ Continue("refusing", turn) /\ ~answered
          \/ UNCHANGED told /\ Leave(turn)
      BY <2>4 DEF RelayLost, RelayFails, Types
    <3>3. CASE first \in Inputs /\ Write(SetupRequired(first)) /\ Leave(turn) /\ ~answered
      BY <3>1, <3>3, LeaveIsGone, SetupSays DEF Quiet
    <3>4. CASE UNCHANGED told /\ Continue("refusing", turn) /\ ~answered
      BY <3>1, <3>4 DEF Continue, Says, SaysNothing, Quiet, Gone
    <3>5. CASE UNCHANGED told /\ Leave(turn)
      BY <3>5, LeaveIsGone DEF Says, SaysNothing
    <3>6. QED BY <3>2, <3>3, <3>4, <3>5
  <2>5. QED BY <1>4, <2>1, <2>2, <2>3, <2>4 DEF OtherBranch
<1>5. CASE Startup
  <2>1. CASE CannotConnect
    BY <2>1, LeaveIsGone DEF CannotConnect, Continue, Says, SaysNothing, Quiet, Gone
  <2>2. CASE Launch
    BY <2>2 DEF Launch, Says, SaysNothing, Quiet, Gone
  <2>3. CASE ReadStatus \/ StatusFails \/ Connect
    BY <2>3 DEF ReadStatus, StatusFails, Connect, Says, SaysNothing, Quiet, Gone
  <2>4. QED BY <1>5, <2>1, <2>2, <2>3 DEF Startup
<1>6. CASE Shutdown
  BY <1>6 DEF Shutdown, ChildStopped, ChildKilled, DaemonEnds, Says, SaysNothing, Quiet, Gone
<1>7. CASE OtherDaemon \/ TurnEnds
  BY <1>7 DEF OtherDaemon, PrintStatus, DaemonTakes, DaemonAnswers, CloseConnection,
              StopOnEndOfStdin, DaemonDies, DaemonEnds, TurnEnds, relayVars, Says, SaysNothing, Quiet
<1>8. QED BY <1>1, <1>2, <1>3, <1>4, <1>5, <1>6, <1>7 DEF Next, HostStep

LEMMA ToldKept ==
    ASSUME Types, ToldInv, [Next]_vars
    PROVE  ToldInv'
<1>1. /\ told \in Seq(Texts) /\ Len(told) \in Nat /\ DOMAIN told = 1..Len(told) /\ sent \in Nat
  BY LenProperties DEF Types
<1>2. Says
  BY ToldSteps
<1>3. Initialized => Initialized'
  <2>1. CASE told' = told
    BY <2>1 DEF Initialized
  <2>2. ASSUME NEW text \in Texts, told' = Append(told, text) PROVE Initialized => Initialized'
    <3>1. /\ DOMAIN told' = 1..Len(told) + 1
          /\ \A k \in 1..Len(told) : told'[k] = told[k]
      BY <1>1, <2>2, AppendProperties, LenProperties
    <3>2. QED BY <1>1, <3>1 DEF Initialized
  <2>3. QED BY <1>2, <2>1, <2>2, TextTypes DEF Says, SaysNothing, SaysSetup, SaysMore
<1>4. ~Initialized' => sent' <= 1
  <2>1. sent' = sent \/ (sent' = sent + 1 /\ (sent > 0 => Initialized))
    BY InputSteps DEF InputStep, Send, SendRest, TakeHead, ReadAstray, Takes, TakeFrame, InputSame,
                      InputDropped
  <2>2. QED BY <1>1, <1>3, <2>1 DEF ToldInv
<1>5. CASE SaysNothing
  BY <1>4, <1>5 DEF SaysNothing, ToldInv
<1>6. CASE SaysSetup
  <2>1. PICK i \in Inputs : told' = Append(told, SetupRequired(i)) /\ Quiet /\ host' \in Gone
    BY <1>6 DEF SaysSetup
  <2>2. Len(told) = 0 /\ Len(told') = Len(told) + 1
    BY <1>1, <2>1, AppendProperties, EmptySeq, TextTypes DEF ToldInv
  <2>3. ~Quiet'
    BY <2>1 DEF Quiet, Gone
  <2>4. QED BY <1>4, <2>1, <2>2, <2>3 DEF ToldInv
<1>7. CASE SaysMore
  <2>1. PICK text \in Texts : /\ told' = Append(told, text) /\ text.kind # "setup"
                              /\ ~Quiet' /\ host \notin Gone
    BY <1>7 DEF SaysMore
  <2>2. /\ DOMAIN told' = 1..Len(told) + 1 /\ told'[Len(told) + 1] = text
        /\ \A k \in 1..Len(told) : told'[k] = told[k]
    BY <1>1, <2>1, AppendProperties, LenProperties
  <2>3. \A k \in 1..Len(told) + 1 : k \in 1..Len(told) \/ k = Len(told) + 1
    BY <1>1
  <2>4. \A k \in DOMAIN told' : told'[k].kind # "setup"
    BY <1>1, <2>1, <2>2, <2>3 DEF ToldInv
  <2>5. QED BY <1>4, <2>1, <2>4 DEF ToldInv
<1>8. QED BY <1>2, <1>5, <1>6, <1>7 DEF Says
-----------------------------------------------------------------------------
\* The turn, and the first request.

\* A turn is begun by the request that asks, and what is done stays done.
LEMMA TurnSteps ==
    ASSUME Types, [Next]_vars
    PROVE  \/ done' = done /\ (turn = "none" => turn' = "none")
           \/ \E i \in Requests : /\ done' = Append(done, i)
                                  /\ turn' = IF i = Ask THEN "active" ELSE turn
<1> DEFINE Same == done' = done /\ (turn = "none" => turn' = "none")
<1> DEFINE Goal == Same \/ \E i \in Requests :
                      /\ done' = Append(done, i)
                      /\ turn' = IF i = Ask THEN "active" ELSE turn
<1> SUFFICES Goal
  OBVIOUS
<1>8. ASSUME NEW i \in Inputs, TakeRequest(i) PROVE Goal
  <2>1. /\ i = Misread => done' = done /\ i # Ask
        /\ i # Misread => i \in Requests /\ done' = Append(done, i)
        /\ turn' = IF i = Ask THEN "active" ELSE turn
    BY <1>8, TakeRequestTypes, InputTypes DEF Misread
  <2>2. QED BY <2>1
<1>0. \A t, where : /\ Leave(t) => (t = "none" => turn' = "none")
                    /\ Continue(where, t) => turn' = t
  BY DEF Leave, Continue
<1>1. CASE UNCHANGED vars
  BY <1>1 DEF vars, daemonVars
<1>2. CASE Browser
  BY <1>2 DEF Browser, Send, SendRest, Disconnect, Kill, daemonVars
<1>3. CASE FrameStep
  <2>1. CASE TakeHead \/ ReadAstray \/ NotUtf8 \/ FrameFails \/ EndOfInput
    BY <1>0, <2>1 DEF TakeHead, ReadAstray, NotUtf8, FrameFails, EndOfInput, daemonVars
  <2>2. ASSUME NEW i \in Inputs, HandleFrame(i) PROVE Goal
    BY <1>8, <2>2 DEF HandleFrame
  <2>3. ASSUME NEW i \in Inputs, RelayFrame(i) PROVE Goal
    <3>1. done' = done /\ (Continue("relaying", turn) \/ Continue("refusing", turn) \/ Leave(turn))
      BY <2>3 DEF RelayFrame, RelayFails
    <3>2. QED BY <1>0, <3>1
  <2>4. ASSUME NEW i \in Requests, Refuse(i) PROVE Goal
    BY <1>0, <2>4 DEF Refuse
  <2>5. QED BY <1>3, <2>1, <2>2, <2>3, <2>4 DEF FrameStep
<1>4. CASE OtherBranch
  <2>1. CASE WriteHandled
    <3>1. PICK t \in TurnsAfter(handling) :
              IF CanWrite(Response(handling)) THEN Continue("serving", t) ELSE Leave(t)
      BY <2>1 DEF WriteHandled
    <3>2. turn = "none" => t = "none"
      BY DEF TurnsAfter
    <3>3. QED BY <1>0, <2>1, <3>1, <3>2 DEF WriteHandled
  <2>2. CASE WriteEvent
    BY <1>0, <2>2 DEF WriteEvent
  <2>3. CASE RelayText
    BY <1>0, <2>3 DEF RelayText
  <2>4. CASE RelayLost
    BY <1>0, <2>4 DEF RelayLost, RelayFails
  <2>5. QED BY <1>4, <2>1, <2>2, <2>3, <2>4 DEF OtherBranch
<1>5. CASE Startup \/ Shutdown
  BY <1>0, <1>5 DEF Startup, Launch, ReadStatus, StatusFails, Connect, CannotConnect, Shutdown,
                    ChildStopped, ChildKilled, DaemonEnds, daemonVars
<1>6. CASE OtherDaemon \/ TurnEnds
  <2>1. CASE DaemonTakes
    <3>1. Head(toDaemon) \in Inputs /\ TakeRequest(Head(toDaemon))
      BY <2>1, HeadTailProperties DEF DaemonTakes, Types
    <3>2. QED BY <1>8, <3>1
  <2>2. CASE DaemonAnswers
    BY <2>2 DEF DaemonAnswers, TurnsAfter
  <2>3. CASE PrintStatus \/ CloseConnection \/ StopOnEndOfStdin \/ DaemonDies \/ TurnEnds
    BY <2>3 DEF PrintStatus, CloseConnection, StopOnEndOfStdin, DaemonDies, DaemonEnds, TurnEnds
  <2>4. QED BY <1>6, <2>1, <2>2, <2>3 DEF OtherDaemon
<1>7. QED BY <1>1, <1>2, <1>3, <1>4, <1>5, <1>6 DEF Next, HostStep

LEMMA TurnAskedKept ==
    ASSUME Types, TurnAsked, [Next]_vars
    PROVE  TurnAsked'
<1>1. CASE done' = done /\ (turn = "none" => turn' = "none")
  BY <1>1 DEF TurnAsked, Done
<1>2. ASSUME NEW i \in Requests, done' = Append(done, i),
             turn' = IF i = Ask THEN "active" ELSE turn
      PROVE  TurnAsked'
  <2>1. Done' = Done \cup {i}
    BY <1>2, DoneMore
  <2>2. QED BY <1>2, <2>1 DEF TurnAsked
<1>3. QED BY <1>1, <1>2, TurnSteps

\* Until it is answered, the extension has sent nothing but initialize, which
\* is read as it is.
LEMMA FirstKept ==
    ASSUME Types, InputInv, ToldInv, FirstIsInitialize, [Next]_vars
    PROVE  FirstIsInitialize'
<1>1. CASE first' = first
  BY <1>1 DEF FirstIsInitialize
<1>2. ASSUME NEW i \in Inputs, RelayFrame(i), first' # first PROVE FirstIsInitialize'
  <2>1. ~answered /\ host = "relaying" /\ Takes(i) /\ first' = i
    BY <1>2 DEF RelayFrame, Takes
  <2>2. told = <<>>
    BY <2>1 DEF ToldInv, Quiet
  <2>3. sent <= 1 /\ sent \in Nat
    BY <2>2, PipeTypes DEF ToldInv, Initialized
  <2>4. i # Misread
    <3> SUFFICES ASSUME i = Misread PROVE FALSE
      OBVIOUS
    <3>1. lost # {}
      BY <2>1 DEF Takes, Complete, InputInv, LostInOrder
    <3>2. PICK l \in lost : TRUE
      BY <3>1
    <3>3. PICK j \in lost \cap Large : TRUE
      BY <3>2 DEF InputInv, LostInOrder
    <3>4. j <= sent /\ j \in 2..N
      BY <3>3 DEF InputInv, LostInOrder
    <3>5. QED BY <2>3, <3>4
  <2>5. i \in Requests
    BY <2>4, InputTypes
  <2>6. i <= sent
    BY <2>1, <2>5, TakenComes DEF Comes
  <2>7. i = 1
    BY <2>3, <2>5, <2>6 DEF Requests
  <2>8. QED BY <2>1, <2>7 DEF FirstIsInitialize
<1>3. first' = first \/ \E i \in Inputs : RelayFrame(i)
  <2>1. CASE UNCHANGED vars
    BY <2>1 DEF vars, relayVars
  <2>2. CASE Browser
    BY <2>2 DEF Browser, Send, SendRest, Disconnect, Kill, relayVars
  <2>3. CASE FrameStep
    BY <2>3 DEF FrameStep, TakeHead, ReadAstray, NotUtf8, FrameFails, EndOfInput, HandleFrame, Refuse,
                relayVars
  <2>4. CASE OtherBranch
    BY <2>4 DEF OtherBranch, WriteHandled, WriteEvent, RelayText, RelayLost, relayVars
  <2>5. CASE Startup \/ Shutdown
    BY <2>5 DEF Startup, Launch, ReadStatus, StatusFails, Connect, CannotConnect, Shutdown,
                ChildStopped, ChildKilled, DaemonEnds, relayVars
  <2>6. CASE OtherDaemon \/ TurnEnds
    BY <2>6 DEF OtherDaemon, PrintStatus, DaemonTakes, DaemonAnswers, CloseConnection,
                StopOnEndOfStdin, DaemonDies, DaemonEnds, TurnEnds, relayVars
  <2>7. QED BY <2>1, <2>2, <2>3, <2>4, <2>5, <2>6 DEF Next, HostStep
<1>4. QED BY <1>1, <1>2, <1>3
-----------------------------------------------------------------------------
\* The theorems.

LEMMA InitIInv == Init => IInv
<1> SUFFICES ASSUME Init PROVE IInv
  OBVIOUS
<1>1. Types
  <2>1. N \in Nat /\ None \notin Inputs
    BY InputTypes
  <2>2. env \in Environments /\ host \in Phases /\ daemon \in {"none", "starting", "up", "down"}
    BY DEF Init, Phases
  <2>3. <<>> \in Seq(Pieces) /\ <<>> \in Seq(Texts) /\ <<>> \in Seq(Requests) /\ <<>> \in Seq(Inputs)
        /\ <<>> \in Seq(Replies)
    BY EmptySeq
  <2>4. /\ port = "open" /\ sent = 0 /\ rest = None /\ pipe = <<>> /\ reading = None
        /\ astray = "no" /\ lost = {} /\ told = <<>> /\ first = None /\ answered = FALSE /\ socket = "none"
        /\ toDaemon = <<>> /\ fromDaemon = <<>> /\ stdinHeld = FALSE /\ handling = None
        /\ done = <<>> /\ turn = "none" /\ crashed = FALSE
    BY DEF Init
  <2>5. /\ pipe \in Seq(Pieces) /\ told \in Seq(Texts) /\ toDaemon \in Seq(Inputs)
        /\ fromDaemon \in Seq(Replies) /\ done \in Seq(Requests)
    BY <2>3, <2>4
  <2>6. answered \in BOOLEAN /\ stdinHeld \in BOOLEAN /\ crashed \in BOOLEAN
    BY <2>4
  <2>7. sent \in 0..N
    BY <2>1, <2>4
  <2>8. QED BY <2>2, <2>4, <2>5, <2>6, <2>7 DEF Types
<1>2. Len(done) = 0 /\ Len(toDaemon) = 0 /\ Len(pipe) = 0 /\ Len(told) = 0
      /\ DOMAIN done = {} /\ DOMAIN toDaemon = {} /\ DOMAIN told = {}
  BY EmptySeq DEF Init
<1>3. InputInv
  BY <1>2 DEF Init, InputInv, PipeInOrder, HeadPieces, ReadInOrder, LostInOrder
<1>4. GivenInv
  <2>1. Given = {}
    BY <1>2 DEF Given, Done, Pending
  <2>2. GivenInOrder /\ NoneSkipped
    BY <1>2, <2>1 DEF GivenInOrder, NoneSkipped, Done, Pending
  <2>3. HostInStep /\ NoSocketYet
    BY DEF Init, HostInStep, NoSocketYet
  <2>4. QED BY <2>2, <2>3 DEF GivenInv
<1>5. QED BY <1>1, <1>2, <1>3, <1>4 DEF Init, IInv, TurnAsked, ToldInv, FirstIsInitialize

LEMMA Inductive == Spec => []IInv
<1>1. IInv /\ [Next]_vars => IInv'
  <2> SUFFICES ASSUME IInv, [Next]_vars PROVE IInv'
    OBVIOUS
  <2>1. Types' /\ InputInv' /\ GivenInv'
    BY TypesKept, InputKept, GivenKept DEF IInv
  <2>2. ToldInv' /\ FirstIsInitialize' /\ TurnAsked'
    BY ToldKept, FirstKept, TurnAskedKept DEF IInv
  <2>3. QED BY <2>1, <2>2 DEF IInv
<1>2. QED BY <1>1, InitIInv, PTL DEF Spec

\* Every variable has its type: what a host reads in two parts is a large
\* request, and what it keeps for a failure of its daemon is initialize.
THEOREM TypeCorrect == Spec => []TypeOK
<1>1. IInv => TypeOK
  <2> SUFFICES ASSUME IInv PROVE TypeOK
    OBVIOUS
  <2>1. Types /\ FirstIsInitialize /\ ReadInOrder
    BY DEF IInv, InputInv
  <2>2. fromDaemon \in Seq(Texts)
    <3>1. fromDaemon \in Seq(Replies) /\ Replies \subseteq Texts
      BY <2>1, TextTypes DEF Types
    <3>2. QED BY <3>1
  <2>3. rest \in Large \cup {None} /\ reading \in Large \cup {None}
    BY <2>1 DEF ReadInOrder, Types
  <2>4. QED BY <2>1, <2>2, <2>3 DEF TypeOK, Types, FirstIsInitialize
<1>2. QED BY <1>1, Inductive, PTL

\* The daemon is given the requests in order, each once, and none is left out
\* before it but one that the host has misread, which takes the drop of a read in
\* the middle of a large frame: however the reads are cut and dropped, and
\* whenever the connection is lost.
THEOREM RequestsInOrderHolds == Spec => []RequestsInOrder
<1>1. IInv => RequestsInOrder
  <2> SUFFICES ASSUME IInv PROVE RequestsInOrder
    OBVIOUS
  <2>1. Types /\ GivenInOrder /\ NoneSkipped /\ LostInOrder
    BY DEF IInv, GivenInv, InputInv
  <2>2. DOMAIN done = 1..Len(done) /\ Len(done) \in Nat /\ Done \subseteq Given /\ sent \in Nat
    BY <2>1, GivenTypes, PipeTypes DEF Given
  <2>3. ASSUME NEW k \in DOMAIN done
        PROVE  /\ done[k] \in (1..sent) \ lost
               /\ \A j \in 1..k - 1 : done[j] < done[k]
               /\ \A i \in 1..done[k] - 1 : i \in lost \/ \E j \in 1..k - 1 : done[j] = i
    <3>1. k \in 1..Len(done) /\ done[k] \in Requests /\ done[k] \in Done
      BY <2>1, <2>2, <2>3, GivenTypes
    <3>2. /\ done[k] <= sent /\ done[k] \notin lost
          /\ \A i \in Requests : i < done[k] => i \in Given \cup lost
      BY <2>1, <2>2, <3>1 DEF NoneSkipped
    <3>3. \A j \in 1..k - 1 : done[j] < done[k]
      BY <2>1, <2>2, <3>1 DEF GivenInOrder
    <3>4. ASSUME NEW i \in 1..done[k] - 1, i \notin lost PROVE \E j \in 1..k - 1 : done[j] = i
      <4>1. i \in Requests /\ i < done[k]
        BY <3>1 DEF Requests
      <4>2. i \in Done
        <5>1. i \in Given
          BY <3>2, <3>4, <4>1
        <5>2. i \notin Pending
          BY <2>1, <3>1, <4>1 DEF GivenInOrder, Requests
        <5>3. QED BY <5>1, <5>2 DEF Given
      <4>3. PICK j \in 1..Len(done) : done[j] = i
        BY <4>2 DEF Done
      <4>4. j < k
        BY <2>1, <2>2, <3>1, <4>1, <4>3 DEF GivenInOrder, Requests
      <4>5. QED BY <2>2, <4>3, <4>4
    <3>5. done[k] \in 1..sent
      BY <2>2, <3>1, <3>2 DEF Requests
    <3>6. QED BY <3>2, <3>3, <3>4, <3>5
  <2>4. \A i \in lost : \E j \in lost \cap Large : j <= i
    BY <2>1 DEF LostInOrder
  <2>5. QED BY <2>3, <2>4 DEF RequestsInOrder
<1>2. QED BY <1>1, Inductive, PTL

\* A host that says setup is required has said nothing else, and its daemon has
\* done nothing but initialize.
THEOREM SetupMeansNothingDoneHolds == Spec => []SetupMeansNothingDone
<1>1. IInv => SetupMeansNothingDone
  <2> SUFFICES ASSUME IInv, NEW k \in DOMAIN told, told[k].kind = "setup"
               PROVE  Len(told) = 1 /\ Len(done) <= 1 /\ turn = "none"
    BY DEF SetupMeansNothingDone
  <2>1. Types /\ GivenInOrder /\ NoneSkipped /\ TurnAsked /\ ToldInv
    BY DEF IInv, GivenInv
  <2>2. Len(told) = 1 /\ DOMAIN told = 1..Len(told)
    BY <2>1, LenProperties DEF ToldInv, Types
  <2>3. k = 1 /\ DOMAIN told = {1}
    BY <2>2
  <2>4. ~Initialized
    BY <2>3 DEF Initialized
  <2>5. sent <= 1
    BY <2>1, <2>4 DEF ToldInv
  <2>6. Len(done) \in Nat /\ \A j \in 1..Len(done) : done[j] \in Done /\ done[j] = 1
    <3>1. \A d \in Done : d <= sent /\ d \in Requests
      BY <2>1, GivenTypes DEF NoneSkipped, Given
    <3>2. \A d \in Done : d = 1
      BY <2>1, <2>5, <3>1, PipeTypes DEF Requests
    <3>3. QED BY <2>1, <3>2, GivenTypes
  <2>7. Len(done) <= 1
    <3> SUFFICES ASSUME Len(done) > 1 PROVE FALSE
      BY <2>6
    <3>1. 1 \in 1..Len(done) /\ 2 \in 1..Len(done)
      BY <2>6
    <3>2. done[1] < done[2]
      BY <2>1, <3>1 DEF GivenInOrder
    <3>3. QED BY <2>6, <3>1, <3>2
  <2>8. turn = "none"
    <3>1. Ask # 1
      OBVIOUS
    <3>2. QED BY <2>1, <2>6, <3>1 DEF TurnAsked, Done
  <2>9. QED BY <2>2, <2>7, <2>8
<1>2. QED BY <1>1, Inductive, PTL
===============================================================================

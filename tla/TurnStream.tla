----------------------------- MODULE TurnStream -----------------------------
(***************************************************************************)
(* What the output of the Codex app-server becomes: crates/codex-client    *)
(* (read_response, stream_turn_notifications and the mapping of a line to  *)
(* an event) and the task of the daemon that turns the events of one turn  *)
(* into the deltas a side panel shows and the answer the store keeps.      *)
(*                                                                         *)
(* The app-server is external: it writes lines in any order, may write of  *)
(* a turn before it has answered turn/start, and goes on about a turn that *)
(* has ended or that the daemon gave up.  A text is the place its line has *)
(* among the lines of its turn, 0 if that turn is an earlier one.  What is *)
(* known of a turn is kept for the newest one.  How processes are cached   *)
(* and locked is CodexClient; who hears how a turn ends, Daemon.           *)
(***************************************************************************)
EXTENDS Naturals, Sequences, Functions, FiniteSetsExt

CONSTANTS
    Turns,     \* the daemon starts the turns 1 .. Turns, one after another
    MaxLines,  \* lines the app-server may write of a turn, its end not counted
    MaxStale,  \* lines it may write of earlier turns once the next has started
    PipeCap,   \* lines the pipe of the process holds
    ChanCap,   \* events the channel of a stream holds: 64 in the code
    None

ASSUME StreamAssumption ==
    /\ Turns \in Nat /\ MaxLines \in Nat /\ MaxStale \in Nat
    /\ PipeCap \in Nat \ {0} /\ ChanCap \in Nat \ {0}
    /\ None \notin Nat

VARIABLES
    alive,    \* the cached process runs
    pipe,     \* the lines it wrote that nobody has read
    owed,     \* turns whose turn/start it has not answered
    serving,  \* turns it may write of
    said,     \* the lines it wrote of the newest turn
    stale,    \* how many of earlier ones since
    tagged,   \* its messages carry a phase (older models give none)
    turn,     \* the newest turn
    reader,   \* "idle", "asking" (read_response) or "streaming"
    chan,     \* events sent that the task of the daemon has not taken
    task,     \* that task: "none" or "listening"
    deltas,   \* its assistant_delta_text, as the texts it is made of
    final,    \* its final_assistant_text
    status,   \* the turn in the store; "ended": by a cancel or a cleanup
    shown,    \* the deltas broadcast for the turn
    answer,   \* the text of the assistant message, once the turn is completed
    missed,   \* how many lines of the turn read_response has dropped
    trouble   \* the start of the turn failed or its output broke

serverVars == <<owed, serving, said, stale, tagged>>
taskVars == <<chan, task, deltas, final>>
storeVars == <<status, shown, answer>>
vars == <<alive, pipe, serverVars, turn, reader, taskVars, storeVars, missed, trouble>>

Ends == {"completed", "failed"}

\* "skipped": an error that will be retried; "noted": a method that names no turn
\* and that the client does not know; "wrong": a notification that lacks what it
\* needs; "failed": turn/completed that says so or a final error; "bad": a line
\* that cannot be parsed, or a request.
IsLine(l) ==
    /\ l.turn \in 1 .. turn /\ l.text \in 0 .. MaxLines + 2
    /\ l.kind \in {"delta", "item", "noted", "skipped", "wrong", "response", "rejected", "bad"}
                  \cup Ends
    /\ l.kind = "item" => l.phase \in {"final_answer", "commentary", "none"}
    /\ l.kind = "completed" => l.full \in BOOLEAN /\ Len(l.items) <= MaxLines

TypeOK ==
    /\ alive \in BOOLEAN /\ tagged \in BOOLEAN /\ trouble \in BOOLEAN
    /\ Len(pipe) <= PipeCap /\ \A i \in DOMAIN pipe : IsLine(pipe[i])
    /\ turn \in 0 .. Turns /\ owed \subseteq serving /\ serving \subseteq 1 .. turn
    /\ stale \in 0 .. MaxStale /\ missed \in 0 .. Len(said)
    /\ \A i \in DOMAIN said : IsLine(said[i]) /\ said[i].text = i
    /\ reader \in {"idle", "asking", "streaming"} /\ task \in {"none", "listening"}
    /\ Len(chan) <= ChanCap
    /\ \A i \in DOMAIN chan :
          chan[i].kind \in {"delta", "message", "completed", "failed", "noted", "error"}
    /\ deltas \in Seq(Nat) /\ shown \in Seq(Nat) /\ answer \in Seq(Nat)
    /\ final \in Nat \cup {None}
    /\ status \in {"none", "active", "completed", "failed", "ended"}

Init ==
    /\ alive = FALSE /\ pipe = <<>>
    /\ owed = {} /\ serving = {} /\ said = <<>> /\ stale = 0 /\ tagged \in BOOLEAN
    /\ turn = 0 /\ reader = "idle"
    /\ chan = <<>> /\ task = "none" /\ deltas = <<>> /\ final = None
    /\ status = "none" /\ shown = <<>> /\ answer = <<>>
    /\ missed = 0 /\ trouble = FALSE

-----------------------------------------------------------------------------
\* The texts of an answer.

Messages(s, ph) == {i \in DOMAIN s : s[i].kind = "item" /\ s[i].phase = ph}

\* The last message tagged as the final answer, else the last without a phase.
FinalText(s) ==
    LET tag == IF Messages(s, "final_answer") # {} THEN "final_answer" ELSE "none"
    IN IF Messages(s, tag) = {} THEN None ELSE s[Max(Messages(s, tag))].text

\* Mutant of CompletedText: the items count whatever itemsView says.
CompletedTextOfAny(l) == FinalText(l.items)

\* final_assistant_text_from_turn_items: only a full view of the items counts.
CompletedText(l) == IF l.full THEN FinalText(l.items) ELSE None

-----------------------------------------------------------------------------
\* The app-server.

Serve == UNCHANGED <<alive, turn, reader, taskVars, storeVars, missed>>
Room == alive /\ Len(pipe) < PipeCap
Writes(l) == Room /\ pipe' = Append(pipe, l)
Plain(k, t, n) == [kind |-> k, turn |-> t, text |-> n]
Over == \E i \in DOMAIN said : said[i].kind \in Ends

\* It accepts a turn, or rejects it before it writes of it.
Answers(t) ==
    /\ t \in owed
    /\ owed' = owed \ {t}
    /\ \/ Writes(Plain("response", t, 0)) /\ UNCHANGED <<serving, trouble>>
       \/ /\ t = turn => said = <<>>
          /\ Writes(Plain("rejected", t, 0)) /\ serving' = serving \ {t}
          /\ trouble' = (trouble \/ t = turn)
    /\ UNCHANGED <<said, stale, tagged>> /\ Serve

Says(l) == Writes(l) /\ said' = Append(said, l)

\* A line about the newest turn, also before its response and after its end.
Tells ==
    /\ turn \in serving /\ Len(said) < MaxLines + (IF Over THEN 1 ELSE 0)
    /\ \/ \E k \in {"delta", "noted", "skipped", "wrong"} \cup (IF Over THEN {"failed"} ELSE {}) :
             Says(Plain(k, turn, Len(said) + 1))
       \/ \E ph \in IF tagged THEN {"final_answer", "commentary"} ELSE {"none"} :
             Says([kind |-> "item", turn |-> turn, text |-> Len(said) + 1, phase |-> ph])
    /\ UNCHANGED <<owed, serving, stale, tagged, trouble>> /\ Serve

\* turn/completed, with all items or some, or an error that is final.
Finishes ==
    /\ turn \in serving /\ ~Over
    /\ \/ Says(Plain("failed", turn, Len(said) + 1))
       \/ \E full \in BOOLEAN : \E k \in IF full THEN {Len(said)} ELSE 0 .. Len(said) :
             Says([kind |-> "completed", turn |-> turn, text |-> Len(said) + 1,
                   full |-> full, items |-> SubSeq(said, 1, k)])
    /\ UNCHANGED <<owed, serving, stale, tagged, trouble>> /\ Serve

\* A line about an earlier turn.
TellsStale(t) ==
    /\ t \in serving \ {turn} /\ stale < MaxStale
    /\ stale' = stale + 1
    /\ \/ \E k \in {"delta", "wrong", "failed"} : Writes(Plain(k, t, 0))
       \/ Writes([kind |-> "item", turn |-> t, text |-> 0,
                  phase |-> IF tagged THEN "final_answer" ELSE "none"])
       \/ Writes([kind |-> "completed", turn |-> t, text |-> 0, full |-> FALSE, items |-> <<>>])
    /\ UNCHANGED <<owed, serving, said, tagged, trouble>> /\ Serve

\* A line that cannot be parsed, or a request to the client.
Garbles ==
    /\ serving # {} /\ ~trouble
    /\ Writes(Plain("bad", turn, 0))
    /\ trouble' = TRUE
    /\ UNCHANGED serverVars /\ Serve

\* The process exits; what it wrote can still be read.
Exits ==
    /\ alive /\ alive' = FALSE
    /\ owed' = {} /\ serving' = {} /\ trouble' = TRUE
    /\ UNCHANGED <<pipe, said, stale, tagged, turn, reader, taskVars, storeVars, missed>>

-----------------------------------------------------------------------------
\* start_turn, up to the response of turn/start.

Kill == alive' = FALSE /\ pipe' = <<>> /\ owed' = {} /\ serving' = {}
Keep == UNCHANGED <<alive, owed, serving>>
Reads == pipe' = Tail(pipe)
Shut == reader' = "idle"
FailsInStore ==
    /\ status' = IF status = "active" THEN "failed" ELSE status
    /\ UNCHANGED <<shown, answer>>

\* The daemon starts a turn when no other is active; here also once the stream
\* of the last one is closed (CodexClient has the other case).
Start ==
    /\ turn < Turns /\ status # "active" /\ reader = "idle" /\ task = "none"
    /\ turn' = turn + 1 /\ status' = "active" /\ reader' = "asking"
    /\ alive' = TRUE
    /\ IF alive THEN UNCHANGED pipe ELSE pipe' = <<>>
    /\ owed' = owed \cup {turn'} /\ serving' = serving \cup {turn'}
    /\ said' = <<>> /\ stale' = 0 /\ shown' = <<>> /\ answer' = <<>> /\ missed' = 0
    /\ trouble' = \E i \in DOMAIN pipe' : pipe'[i].kind = "bad"
    /\ UNCHANGED <<tagged, taskVars>>

Asking == reader = "asking" /\ UNCHANGED <<said, stale, tagged, turn>>
IsAnswer(l) == l.kind \in {"response", "rejected"} /\ l.turn = turn
Answered(k) == pipe # <<>> /\ IsAnswer(Head(pipe)) /\ Head(pipe).kind = k

\* read_response: notifications and the answers to other requests are dropped.
SkipLine ==
    /\ Asking /\ pipe # <<>> /\ ~IsAnswer(Head(pipe)) /\ Head(pipe).kind # "bad"
    /\ missed' = IF Head(pipe).turn = turn THEN missed + 1 ELSE missed
    /\ Reads /\ Keep
    /\ UNCHANGED <<reader, taskVars, storeVars, trouble>>

\* The stream is spawned, and the task of the daemon with nothing heard yet.
Accepted ==
    /\ Asking /\ Answered("response")
    /\ reader' = "streaming" /\ task' = "listening"
    /\ Reads /\ Keep
    /\ UNCHANGED <<chan, deltas, final, storeVars, missed, trouble>>

Rejected ==
    /\ Asking /\ Answered("rejected")
    /\ Shut /\ FailsInStore /\ Reads /\ Keep
    /\ UNCHANGED <<taskVars, missed, trouble>>

\* A line that breaks the request, or the end of the output.
StartBroken ==
    /\ Asking
    /\ IF pipe = <<>> THEN ~alive ELSE Head(pipe).kind = "bad"
    /\ Shut /\ FailsInStore /\ Kill
    /\ UNCHANGED <<taskVars, missed, trouble>>

\* The timeout of the client kills the process; the daemon's own drops the call
\* and keeps the process, which goes on with the turn.
StartTimesOut ==
    /\ Asking
    /\ Shut /\ FailsInStore
    /\ trouble' = TRUE
    /\ \/ Kill
       \/ Keep /\ UNCHANGED pipe
    /\ UNCHANGED <<taskVars, missed>>

-----------------------------------------------------------------------------
\* stream_turn_notifications.

\* Mutant of IsOther: notifications are not told apart by their turn.
IsOtherNever(l) == FALSE
\* classify_notification: one that names another turn is ignored.
IsOther(l) == l.kind # "noted" /\ l.turn # turn

\* Mutant of Maps: an error that will be retried ends the turn.
MapsRetry(l) == IF l.kind = "skipped" THEN <<[kind |-> "failed"]>> ELSE <<>>

\* The event a notification becomes, if any.
Maps(l) ==
    CASE l.kind = "delta" -> <<[kind |-> "delta", text |-> l.text]>>
      [] l.kind = "item" /\ l.phase # "commentary" -> <<[kind |-> "message", text |-> l.text]>>
      [] l.kind = "completed" -> <<[kind |-> "completed", text |-> CompletedText(l)]>>
      [] l.kind \in {"failed", "noted"} -> <<[kind |-> l.kind]>>
      [] OTHER -> <<>>

Breaks(l) == l.kind = "bad" \/ (l.kind = "wrong" /\ ~IsOther(l))
Emits(l) == ~IsOther(l) /\ Maps(l) # <<>>
\* event_is_terminal_for_active_turn
IsEnd(l) == l.kind \in Ends /\ l.turn = turn

\* The channel has room; without a task nothing is delivered.
Sends(ev) ==
    /\ IF task = "listening" THEN Len(chan) < ChanCap /\ chan' = Append(chan, ev)
       ELSE UNCHANGED chan
    /\ UNCHANGED <<task, deltas, final>>

Streaming ==
    /\ reader = "streaming"
    /\ UNCHANGED <<said, stale, tagged, turn, storeVars, missed, trouble>>

ReadIgnored ==
    /\ Streaming /\ pipe # <<>> /\ ~Breaks(Head(pipe)) /\ ~Emits(Head(pipe))
    /\ Reads /\ Keep /\ UNCHANGED <<reader, taskVars>>

\* An event goes to the task; without a task the process is given up.
ReadEvent ==
    /\ Streaming /\ pipe # <<>> /\ Emits(Head(pipe)) /\ ~IsEnd(Head(pipe))
    /\ Sends(Maps(Head(pipe))[1])
    /\ IF task = "listening" THEN Reads /\ Keep /\ UNCHANGED reader ELSE Kill /\ Shut

\* The end of the turn gives the output back and is sent.
ReadEnd ==
    /\ Streaming /\ pipe # <<>> /\ Emits(Head(pipe)) /\ IsEnd(Head(pipe))
    /\ Sends(Maps(Head(pipe))[1])
    /\ Reads /\ Keep /\ Shut

ReadBroken ==
    /\ Streaming
    /\ IF pipe = <<>> THEN ~alive ELSE Breaks(Head(pipe))
    /\ Sends([kind |-> "error"])
    /\ Kill /\ Shut

-----------------------------------------------------------------------------
\* spawn_turn_stream.  A read of the store is one step with what follows it.

Taking(ev) ==
    /\ task = "listening" /\ chan # <<>> /\ Head(chan).kind = ev
    /\ UNCHANGED <<alive, pipe, serverVars, turn, reader, missed, trouble>>
Goes == task' = "none" /\ deltas' = <<>> /\ final' = None /\ chan' = <<>>
GoesOn == chan' = Tail(chan) /\ UNCHANGED task

TakeDelta ==
    /\ Taking("delta")
    /\ IF status = "active"
       THEN /\ GoesOn
            /\ deltas' = Append(deltas, Head(chan).text)
            /\ shown' = Append(shown, Head(chan).text)
            /\ UNCHANGED final
       ELSE Goes /\ UNCHANGED shown
    /\ UNCHANGED <<status, answer>>

TakeMessage ==
    /\ Taking("message")
    /\ IF status = "active" THEN GoesOn /\ final' = Head(chan).text /\ UNCHANGED deltas
       ELSE Goes
    /\ UNCHANGED storeVars

\* The items of turn/completed, else the last message, else the deltas.
TakeCompleted ==
    /\ Taking("completed")
    /\ IF status = "active"
       THEN /\ status' = "completed"
            /\ LET text == IF Head(chan).text # None THEN Head(chan).text ELSE final
               IN answer' = IF text # None THEN <<text>> ELSE deltas
       ELSE UNCHANGED <<status, answer>>
    /\ Goes
    /\ UNCHANGED shown

\* Mutant of TakeFailed: an error of the stream ends the task only.
TakeFailedEvent ==
    /\ Taking("failed") \/ Taking("error")
    /\ IF Head(chan).kind = "failed" THEN FailsInStore ELSE UNCHANGED storeVars
    /\ Goes

TakeFailed ==
    /\ Taking("failed") \/ Taking("error")
    /\ FailsInStore
    /\ Goes

TakeNoted == Taking("noted") /\ GoesOn /\ UNCHANGED <<deltas, final, storeVars>>

\* turn/cancel, or the cleanup of the connection that owns the turn; one that
\* comes during the start is in Daemon.
EndElsewhere ==
    /\ task = "listening" /\ status = "active"
    /\ status' = "ended"
    /\ UNCHANGED <<alive, pipe, serverVars, turn, reader, taskVars, shown, answer, missed, trouble>>

ReadsResponse == SkipLine \/ Accepted \/ Rejected \/ StartBroken
ReadsStream == ReadIgnored \/ ReadEvent \/ ReadEnd \/ ReadBroken
Takes == TakeDelta \/ TakeMessage \/ TakeCompleted \/ TakeFailed \/ TakeNoted

Next ==
    \/ \E t \in 1 .. Turns : Answers(t) \/ TellsStale(t)
    \/ Tells \/ Finishes \/ Garbles \/ Exits
    \/ Start \/ StartTimesOut \/ EndElsewhere
    \/ ReadsResponse \/ ReadsStream \/ Takes

Spec == Init /\ [][Next]_vars

\* Tasks that can run are scheduled; the app-server answers and ends what it
\* accepted, or dies.
FairSpec ==
    /\ Spec
    /\ WF_vars(ReadsResponse) /\ WF_vars(ReadsStream) /\ WF_vars(Takes)
    /\ \A t \in 1 .. Turns : WF_vars(Answers(t))
    /\ WF_vars(Finishes)

-----------------------------------------------------------------------------
\* What was heard of the turn: the lines after the response of its turn/start,
\* up to its first end.
Heard == {i \in missed + 1 .. Len(said) : \A j \in missed + 1 .. i - 1 : said[j].kind \notin Ends}
HeardDeltas == {i \in Heard : said[i].kind = "delta"}

\* s holds members of S in their order and leaves none out up to where it ends.
Begins(s, S) ==
    /\ \A i, j \in DOMAIN s : i < j => s[i] < s[j]
    /\ Range(s) \subseteq S
    /\ \A i \in DOMAIN s, k \in S : k < s[i] => k \in Range(s)

\* The answer the store keeps is the last message of this turn that is one:
\* never a comment, an earlier message or a text of another turn.  If the turn
\* had no message it is every delta, in order.  Only a turn/completed without
\* its items may miss a message that came before the response.
AnswerIsFinal ==
    status = "completed" =>
        \E e \in Heard :
            LET messages == {i \in 1 .. e : /\ said[i].kind = "item" /\ said[i].phase # "commentary"
                                            /\ said[e].full \/ i > missed}
            IN /\ said[e].kind = "completed"
               /\ IF messages = {} THEN Begins(answer, HeardDeltas) /\ Range(answer) = HeardDeltas
                  ELSE answer = <<Max(messages)>>

\* A side panel is shown the deltas of the turn it watches, in order and with
\* none left out, and has all of them when the turn is completed.
ShownIsHeard ==
    /\ Begins(shown, HeardDeltas)
    /\ status = "completed" => Range(shown) = HeardDeltas

\* A turn fails for what the app-server said of this turn, or because its start
\* failed or its output broke: not for a line of an earlier turn, an error that
\* is retried or a method that is not known.
FailureIsItsOwn ==
    status = "failed" => trouble \/ \E i \in Heard : said[i].kind \in {"failed", "wrong"}

\* Every turn ends, unless its end was among the lines that read_response drops
\* while it waits for the response of turn/start.
EndsUnlessMissed ==
    status = "active" ~>
        status # "active" \/ \E i \in 1 .. missed : said[i].kind \in Ends
=============================================================================

-------------------------- MODULE TurnStreamProofs --------------------------
(***************************************************************************)
(* Theorems about the lines of the app-server and the events, deltas and   *)
(* answer made of them, for every number of turns and lines and every      *)
(* size of the pipe and of the channel.                                    *)
(***************************************************************************)
EXTENDS TurnStream, SequenceTheorems, WellFoundedInduction, TLAPS

USE StreamAssumption

Phases == {"final_answer", "commentary", "none"}
Said == {"delta", "noted", "skipped", "wrong", "failed"}
Basic == [kind : Said \cup {"response", "rejected", "bad"}, turn : Nat, text : Nat]
Item == [kind : {"item"}, turn : Nat, text : Nat, phase : Phases]
Whole == [kind : {"completed"}, turn : Nat, text : Nat, full : BOOLEAN,
          items : Seq(Basic \cup Item)]
Lines == Basic \cup Item \cup Whole

TextEvents == [kind : {"delta", "message"}, text : Nat]
WholeEvents == [kind : {"completed"}, text : Nat \cup {None}]
SignEvents == [kind : {"failed", "noted", "error"}]
Events == TextEvents \cup WholeEvents \cup SignEvents

Types ==
    /\ alive \in BOOLEAN /\ tagged \in BOOLEAN /\ trouble \in BOOLEAN
    /\ pipe \in Seq(Lines) /\ said \in Seq(Lines) /\ chan \in Seq(Events)
    /\ turn \in Nat /\ owed \subseteq serving /\ serving \subseteq 1 .. turn
    /\ stale \in Nat /\ missed \in Nat
    /\ reader \in {"idle", "asking", "streaming"} /\ task \in {"none", "listening"}
    /\ deltas \in Seq(Nat) /\ shown \in Seq(Nat) /\ answer \in Seq(Nat)
    /\ final \in Nat \cup {None}
    /\ status \in {"none", "active", "completed", "failed", "ended"}

\* What the app-server wrote of the newest turn: the number of a line is its
\* text, and a full view of the items has all that came before it.
SaidInv ==
    \A k \in 1 .. Len(said) :
        /\ said[k].turn = turn /\ said[k].text = k
        /\ said[k].kind \in Said \cup {"item", "completed"}
        /\ said[k].kind = "item" =>
              said[k].phase \in IF tagged THEN {"final_answer", "commentary"} ELSE {"none"}
        /\ said[k].kind = "completed" /\ said[k].full =>
              /\ Len(said[k].items) = k - 1
              /\ \A i \in 1 .. k - 1 : said[k].items[i] = said[i]

\* A line of the newest turn, told from its answers and the broken ones.
IsOfTurn(l) == l.turn = turn /\ l.text > 0

PipeInv ==
    /\ \A i \in DOMAIN pipe :
          /\ pipe[i].turn <= turn
          /\ IsOfTurn(pipe[i]) => pipe[i].text <= Len(said) /\ pipe[i] = said[pipe[i].text]
          /\ pipe[i].turn = turn /\ ~IsOfTurn(pipe[i]) =>
                pipe[i].kind \in {"response", "rejected", "bad"}
          /\ pipe[i].kind = "bad" => trouble
          /\ pipe[i].kind = "rejected" /\ pipe[i].turn = turn => trouble
    /\ \A i, j \in DOMAIN pipe :
          i < j /\ IsOfTurn(pipe[i]) /\ IsOfTurn(pipe[j]) => pipe[i].text < pipe[j].text

\* The lines of the turn up to r were read, and the pipe holds the others.
ReadUpTo(r) ==
    \A k \in 1 .. Len(said) :
        k > r <=> \E i \in DOMAIN pipe : IsOfTurn(pipe[i]) /\ pipe[i].text = k

\* No line from the response of turn/start to line r ends the turn.
GoesOnTo(r) == \A k \in missed + 1 .. r : said[k].kind \notin Ends

ReaderInv(r) ==
    /\ r <= Len(said) /\ missed <= Len(said)
    /\ reader # "idle" => missed <= r /\ ReadUpTo(r) /\ (alive \/ trouble)
    /\ reader = "asking" => /\ r = missed /\ task = "none"
                            /\ status = "active" /\ shown = <<>>
    /\ reader = "streaming" => GoesOnTo(r)

IsMessage(k) == said[k].kind = "item" /\ said[k].phase # "commentary"
Sent(kind, k) == \E i \in DOMAIN chan : chan[i].kind = kind /\ chan[i].text = k

\* The task has the deltas up to r, or they are on their way to it in order.
DeltasTo(r) ==
    /\ deltas = shown
    /\ \A k \in missed + 1 .. r :
          said[k].kind = "delta" => k \in Range(shown) \/ Sent("delta", k)
    /\ \A i \in DOMAIN shown : /\ shown[i] \in missed + 1 .. r
                               /\ said[shown[i]].kind = "delta"
    /\ \A i \in DOMAIN chan : chan[i].kind = "delta" =>
          /\ chan[i].text \in missed + 1 .. r
          /\ said[chan[i].text].kind = "delta"
          /\ \A j \in DOMAIN shown : shown[j] < chan[i].text
          /\ \A j \in DOMAIN chan : chan[j].kind = "delta" /\ i < j => chan[i].text < chan[j].text

\* The same for the messages, of which the task keeps the last.
MessagesTo(r) ==
    /\ final # None => final \in missed + 1 .. r /\ IsMessage(final)
    /\ \A k \in missed + 1 .. r :
          IsMessage(k) => (final # None /\ k <= final) \/ Sent("message", k)
    /\ \A i \in DOMAIN chan : chan[i].kind = "message" =>
          /\ chan[i].text \in missed + 1 .. r
          /\ IsMessage(chan[i].text)
          /\ final # None => final < chan[i].text
          /\ \A j \in DOMAIN chan :
                chan[j].kind = "message" /\ i < j => chan[i].text < chan[j].text

Cause == trouble \/ \E i \in Heard : said[i].kind \in {"failed", "wrong"}

\* An end is the last event, sent for line r.
EndAt(r) ==
    \A i \in DOMAIN chan :
        /\ chan[i].kind = "completed" =>
              /\ i = Len(chan) /\ reader = "idle"
              /\ r > missed /\ said[r].kind = "completed"
              /\ chan[i].text = CompletedText(said[r])
        /\ chan[i].kind \in {"failed", "error"} => Cause

TaskInv(r) ==
    /\ task = "none" => chan = <<>> /\ deltas = <<>> /\ final = None
    /\ task = "none" /\ reader # "asking" => status # "active"
    /\ task = "listening" =>
          /\ status \in {"active", "ended"}
          /\ missed <= r /\ GoesOnTo(r - 1)
          /\ DeltasTo(r) /\ MessagesTo(r) /\ EndAt(r)

StreamInv == \E r \in 0 .. Len(said) : ReaderInv(r) /\ TaskInv(r)

IInv ==
    /\ Types /\ SaidInv /\ PipeInv /\ StreamInv
    /\ FailureIsItsOwn /\ ShownIsHeard /\ AnswerIsFinal

-----------------------------------------------------------------------------
\* Types.

LEMMA LineTypes ==
    ASSUME NEW l \in Lines
    PROVE  /\ l.turn \in Nat /\ l.text \in Nat
           /\ l.kind \in Said \cup {"response", "rejected", "bad", "item", "completed"}
           /\ l.kind = "item" => l.phase \in Phases
           /\ l.kind # "completed" => l \in Basic \cup Item
           /\ l.kind = "completed" =>
                 l.full \in BOOLEAN /\ l.items \in Seq(Basic \cup Item)
<1>1. CASE l \in Basic
  BY <1>1 DEF Basic, Said
<1>2. CASE l \in Item
  BY <1>2 DEF Item
<1>3. CASE l \in Whole
  BY <1>3 DEF Whole
<1>4. QED BY <1>1, <1>2, <1>3 DEF Lines

LEMMA PlainTypes ==
    ASSUME NEW k \in Said \cup {"response", "rejected", "bad"}, NEW t \in Nat, NEW n \in Nat
    PROVE  /\ Plain(k, t, n) \in Lines
           /\ Plain(k, t, n).kind = k /\ Plain(k, t, n).turn = t /\ Plain(k, t, n).text = n
  BY DEF Plain, Lines, Basic

LEMMA TailTypes ==
    ASSUME NEW S, NEW s \in Seq(S), s # <<>>
    PROVE  /\ Head(s) \in S /\ Head(s) = s[1] /\ Tail(s) \in Seq(S)
           /\ Len(s) \in Nat \ {0} /\ Len(Tail(s)) = Len(s) - 1
           /\ \A k \in 1..Len(s) - 1 : Tail(s)[k] = s[k + 1]
           /\ DOMAIN Tail(s) = 1..Len(s) - 1 /\ DOMAIN s = 1..Len(s)
<1>1. Tail(s) \in Seq(S) /\ Len(Tail(s)) = Len(s) - 1 /\ Head(s) \in S
  BY HeadTailProperties
<1>2. \A k \in 1..Len(Tail(s)) : Tail(s)[k] = s[k + 1]
  BY HeadTailProperties
<1>3. Len(s) \in Nat \ {0}
  BY EmptySeq
<1>4. Head(s) = s[1]
  BY <1>3
<1>5. DOMAIN s = 1..Len(s) /\ DOMAIN Tail(s) = 1..Len(Tail(s))
  BY <1>1
<1>6. QED BY <1>1, <1>2, <1>3, <1>4, <1>5

LEMMA EventTypes ==
    ASSUME NEW ev \in Events
    PROVE  /\ ev.kind \in {"delta", "message", "completed", "failed", "noted", "error"}
           /\ ev.kind \in {"delta", "message"} => ev.text \in Nat
           /\ ev.kind = "completed" => ev.text \in Nat \cup {None}
<1>1. CASE ev \in TextEvents
  BY <1>1 DEF TextEvents
<1>2. CASE ev \in WholeEvents
  BY <1>2 DEF WholeEvents
<1>3. CASE ev \in SignEvents
  BY <1>3 DEF SignEvents
<1>4. QED BY <1>1, <1>2, <1>3 DEF Events

\* The largest member of a set of numbers up to n.
LEMMA MaxProperties ==
    ASSUME NEW n \in Nat, NEW S \in SUBSET (1 .. n), S # {}
    PROVE  /\ Max(S) \in S
           /\ \A k \in S : Max(S) >= k
           /\ \A m \in S : (\A k \in S : m >= k) => Max(S) = m
<1> DEFINE Below == {n - k : k \in S}
<1>0. \A k \in S : k \in Nat /\ k <= n /\ n - k \in Nat
  OBVIOUS
<1>1. Below \subseteq Nat /\ Below # {}
  BY <1>0
<1>2. PICK d \in Below : \A e \in Below : ~ (<<e, d>> \in OpToRel(<, Nat))
  BY <1>1, NatLessThanWellFounded, WFMin
<1>3. \A e \in Below : ~ (e < d)
  BY <1>1, <1>2 DEF OpToRel
<1>4. PICK m \in S : d = n - m
  BY <1>2
<1>5. \A k \in S : m >= k
  <2>1. TAKE k \in S
  <2>2. n - k \in Below
    OBVIOUS
  <2>3. ~ (n - k < n - m)
    BY <1>3, <1>4, <2>2
  <2>4. QED BY <1>0, <2>3
<1>6. Max(S) \in S /\ \A k \in S : Max(S) >= k
  BY <1>5 DEF Max
<1>7. ASSUME NEW o \in S, \A k \in S : o >= k PROVE Max(S) = o
  <2>1. Max(S) >= o /\ o >= Max(S) /\ o \in Nat /\ Max(S) \in Nat
    BY <1>0, <1>6, <1>7
  <2>2. QED BY <2>1
<1>8. QED BY <1>6, <1>7

LEMMA FinalTextTypes ==
    ASSUME NEW s \in Seq(Basic \cup Item)
    PROVE  FinalText(s) \in Nat \cup {None}
<1> DEFINE tag == IF Messages(s, "final_answer") # {} THEN "final_answer" ELSE "none"
<1>1. CASE Messages(s, tag) = {}
  BY <1>1 DEF FinalText
<1>2. CASE Messages(s, tag) # {}
  <2>1. Len(s) \in Nat /\ Messages(s, tag) \in SUBSET (1 .. Len(s))
    BY DEF Messages
  <2>2. Max(Messages(s, tag)) \in 1 .. Len(s)
    <3> HIDE DEF tag
    <3>1. Max(Messages(s, tag)) \in Messages(s, tag)
      BY <1>2, <2>1, MaxProperties
    <3>2. QED BY <2>1, <3>1
  <2>3. s[Max(Messages(s, tag))] \in Lines
    BY <2>2, ElementOfSeq DEF Lines
  <2>4. s[Max(Messages(s, tag))].text \in Nat
    BY <2>3, LineTypes
  <2>5. FinalText(s) = s[Max(Messages(s, tag))].text
    BY <1>2 DEF FinalText
  <2>6. QED BY <2>4, <2>5
<1>3. QED BY <1>1, <1>2

LEMMA MapsTypes ==
    ASSUME NEW l \in Lines, Emits(l)
    PROVE  Maps(l)[1] \in Events
<1>1. CASE l.kind = "delta"
  <2>1. Maps(l)[1] = [kind |-> "delta", text |-> l.text]
    BY <1>1 DEF Maps
  <2>2. QED BY <2>1, LineTypes DEF Events, TextEvents
<1>2. CASE l.kind = "item"
  <2>1. Maps(l)[1] = [kind |-> "message", text |-> l.text]
    BY <1>2 DEF Maps, Emits
  <2>2. QED BY <2>1, LineTypes DEF Events, TextEvents
<1>3. CASE l.kind = "completed"
  <2>1. Maps(l)[1] = [kind |-> "completed", text |-> CompletedText(l)]
    BY <1>3 DEF Maps
  <2>2. CompletedText(l) \in Nat \cup {None}
    BY <1>3, LineTypes, FinalTextTypes DEF CompletedText
  <2>3. QED BY <2>1, <2>2 DEF Events, WholeEvents
<1>4. CASE l.kind \in {"failed", "noted"}
  <2>1. Maps(l)[1] = [kind |-> l.kind]
    BY <1>4 DEF Maps
  <2>2. QED BY <1>4, <2>1 DEF Events, SignEvents
<1>5. l.kind \in {"delta", "item", "completed", "failed", "noted"}
  BY DEF Emits, Maps
<1>6. QED BY <1>1, <1>2, <1>3, <1>4, <1>5

LEMMA SendsTypes ==
    ASSUME Types, NEW ev \in Events, Sends(ev)
    PROVE  /\ chan' \in Seq(Events) /\ UNCHANGED <<task, deltas, final>>
           /\ IF task = "listening"
              THEN /\ chan' = Append(chan, ev) /\ Len(chan') = Len(chan) + 1
                   /\ DOMAIN chan' = 1 .. Len(chan) + 1 /\ DOMAIN chan = 1 .. Len(chan)
                   /\ chan'[Len(chan) + 1] = ev
                   /\ \A i \in 1 .. Len(chan) : chan'[i] = chan[i]
              ELSE chan' = chan
<1>1. chan \in Seq(Events) /\ Append(chan, ev) \in Seq(Events)
  BY AppendProperties DEF Types
<1>2. chan' \in Seq(Events) /\ UNCHANGED <<task, deltas, final>>
  BY <1>1 DEF Sends
<1>3. CASE task = "listening"
  <2>1. chan' = Append(chan, ev)
    BY <1>3 DEF Sends
  <2>2. /\ Len(chan') = Len(chan) + 1 /\ chan'[Len(chan) + 1] = ev
        /\ \A i \in 1 .. Len(chan) : chan'[i] = chan[i]
    BY <1>1, <2>1, AppendProperties
  <2>3. DOMAIN chan' = 1 .. Len(chan') /\ DOMAIN chan = 1 .. Len(chan)
    BY <1>1, <1>2
  <2>4. QED BY <1>2, <1>3, <2>1, <2>2, <2>3
<1>4. CASE task # "listening"
  BY <1>2, <1>4 DEF Sends
<1>5. QED BY <1>3, <1>4

LEMMA WritesTypes ==
    ASSUME Types, NEW l \in Lines, Writes(l)
    PROVE  /\ pipe' \in Seq(Lines) /\ Len(pipe') = Len(pipe) + 1
           /\ DOMAIN pipe' = 1 .. Len(pipe) + 1 /\ DOMAIN pipe = 1 .. Len(pipe)
           /\ pipe'[Len(pipe) + 1] = l
           /\ \A i \in 1 .. Len(pipe) : pipe'[i] = pipe[i]
<1>1. pipe' = Append(pipe, l) /\ pipe \in Seq(Lines) /\ Append(pipe, l) \in Seq(Lines)
  BY AppendProperties DEF Types, Writes
<1>2. /\ Len(pipe') = Len(pipe) + 1 /\ pipe'[Len(pipe) + 1] = l
      /\ \A i \in 1 .. Len(pipe) : pipe'[i] = pipe[i]
  BY <1>1, AppendProperties
<1>3. DOMAIN pipe' = 1 .. Len(pipe') /\ DOMAIN pipe = 1 .. Len(pipe)
  BY <1>1
<1>4. QED BY <1>1, <1>2, <1>3

LEMMA SaysTypes ==
    ASSUME Types, NEW l \in Lines, Says(l)
    PROVE  /\ Writes(l)
           /\ said' \in Seq(Lines) /\ Len(said') = Len(said) + 1 /\ Len(said) \in Nat
           /\ said'[Len(said) + 1] = l
           /\ \A i \in 1 .. Len(said) : said'[i] = said[i]
<1>1. said' = Append(said, l) /\ said \in Seq(Lines) /\ Append(said, l) \in Seq(Lines)
  BY AppendProperties DEF Types, Says
<1>2. QED BY <1>1, AppendProperties, LenProperties DEF Says

LEMMA KillTypes ==
    ASSUME Types, Kill
    PROVE  alive' = FALSE /\ pipe' = <<>> /\ pipe' \in Seq(Lines) /\ owed' = {} /\ serving' = {}
  BY DEF Kill

LEMMA ReadsTypes ==
    ASSUME Types, Reads, pipe # <<>>
    PROVE  pipe' \in Seq(Lines) /\ Head(pipe) \in Lines
  BY TailTypes DEF Types, Reads

\* The line a turn ends with, and one of the others.
LEMMA ToldTypes ==
    ASSUME Types, SaidInv, Tells
    PROVE  \E l \in Lines :
              /\ Says(l) /\ l.turn = turn /\ l.text = Len(said) + 1
              /\ l.kind \in Said \cup {"item"}
              /\ l.kind = "item" =>
                    l.phase \in IF tagged THEN {"final_answer", "commentary"} ELSE {"none"}
<1>0. turn \in Nat /\ Len(said) + 1 \in Nat
  BY LenProperties DEF Types
<1>1. ASSUME NEW k \in Said, Says(Plain(k, turn, Len(said) + 1))
      PROVE  Plain(k, turn, Len(said) + 1) \in Lines
  BY <1>0, PlainTypes
<1>2. ASSUME NEW ph \in Phases,
             Says([kind |-> "item", turn |-> turn, text |-> Len(said) + 1, phase |-> ph])
      PROVE  [kind |-> "item", turn |-> turn, text |-> Len(said) + 1, phase |-> ph] \in Lines
  BY <1>0 DEF Lines, Item
<1>3. CASE \E k \in Said : Says(Plain(k, turn, Len(said) + 1))
  <2>1. PICK k \in Said : Says(Plain(k, turn, Len(said) + 1))
    BY <1>3
  <2>2. Plain(k, turn, Len(said) + 1) \in Lines /\ Plain(k, turn, Len(said) + 1).kind # "item"
    BY <1>0, PlainTypes DEF Said
  <2>3. QED BY <1>0, <2>1, <2>2, PlainTypes DEF Said
<1>4. CASE \E ph \in IF tagged THEN {"final_answer", "commentary"} ELSE {"none"} :
             Says([kind |-> "item", turn |-> turn, text |-> Len(said) + 1, phase |-> ph])
  <2>1. PICK ph \in IF tagged THEN {"final_answer", "commentary"} ELSE {"none"} :
             Says([kind |-> "item", turn |-> turn, text |-> Len(said) + 1, phase |-> ph])
    BY <1>4
  <2>2. [kind |-> "item", turn |-> turn, text |-> Len(said) + 1, phase |-> ph] \in Lines
    BY <1>2, <2>1 DEF Phases
  <2>3. QED BY <2>1, <2>2
<1>5. QED BY <1>3, <1>4 DEF Tells, Said

LEMMA FinishedTypes ==
    ASSUME Types, SaidInv, Finishes
    PROVE  \E l \in Lines :
              /\ Says(l) /\ l.turn = turn /\ l.text = Len(said) + 1
              /\ l.kind \in Ends
              /\ l.kind = "completed" /\ l.full =>
                    Len(l.items) = Len(said) /\ \A i \in 1 .. Len(said) : l.items[i] = said[i]
<1>0. turn \in Nat /\ Len(said) \in Nat /\ Len(said) + 1 \in Nat /\ said \in Seq(Lines)
  BY LenProperties DEF Types
<1>1. CASE Says(Plain("failed", turn, Len(said) + 1))
  <2>1. "failed" \in Said
    BY DEF Said
  <2>2. /\ Plain("failed", turn, Len(said) + 1) \in Lines
        /\ Plain("failed", turn, Len(said) + 1).kind = "failed"
    BY <1>0, <2>1, PlainTypes
  <2>3. QED BY <1>0, <1>1, <2>1, <2>2, PlainTypes, ZenonT(60) DEF Ends
<1>2. CASE \E full \in BOOLEAN : \E k \in IF full THEN {Len(said)} ELSE 0 .. Len(said) :
             Says([kind |-> "completed", turn |-> turn, text |-> Len(said) + 1,
                   full |-> full, items |-> SubSeq(said, 1, k)])
  <2>1. PICK full \in BOOLEAN : \E k \in IF full THEN {Len(said)} ELSE 0 .. Len(said) :
             Says([kind |-> "completed", turn |-> turn, text |-> Len(said) + 1,
                   full |-> full, items |-> SubSeq(said, 1, k)])
    BY <1>2
  <2>8. PICK k \in IF full THEN {Len(said)} ELSE 0 .. Len(said) :
             Says([kind |-> "completed", turn |-> turn, text |-> Len(said) + 1,
                   full |-> full, items |-> SubSeq(said, 1, k)])
    BY <2>1
  <2>2. k \in 0 .. Len(said)
    BY <1>0
  <2>3. \A i \in 1 .. k : said[i] \in Basic \cup Item
    <3>1. SUFFICES ASSUME NEW i \in 1 .. k PROVE said[i] \in Basic \cup Item
      OBVIOUS
    <3>2. i \in 1 .. Len(said) /\ i \in DOMAIN said
      BY <1>0, <2>2
    <3>3. said[i] \in Lines
      BY <1>0, <3>2, ElementOfSeq
    <3>4. said[i].kind # "completed"
      BY <1>0, <3>2 DEF Finishes, Over, Ends
    <3>5. QED BY <3>3, <3>4, LineTypes
  <2>4. /\ SubSeq(said, 1, k) \in Seq(Basic \cup Item)
        /\ Len(SubSeq(said, 1, k)) = k
        /\ \A i \in 1 .. k : SubSeq(said, 1, k)[i] = said[i]
    BY <1>0, <2>2, <2>3, SubSeqProperties
  <2> DEFINE l == [kind |-> "completed", turn |-> turn, text |-> Len(said) + 1,
                   full |-> full, items |-> SubSeq(said, 1, k)]
  <2>5. l \in Lines
    BY <1>0, <2>4 DEF Lines, Whole
  <2>6. full => k = Len(said)
    OBVIOUS
  <2>7. QED BY <2>8, <2>4, <2>5, <2>6 DEF Ends
<1>3. QED BY <1>1, <1>2 DEF Finishes

LEMMA ServerTypes ==
    ASSUME Types, SaidInv,
           \/ \E t \in 1 .. Turns : Answers(t) \/ TellsStale(t)
           \/ Tells \/ Finishes \/ Garbles \/ Exits
    PROVE  Types'
<1>0. turn \in Nat /\ stale + 1 \in Nat /\ \A t \in 1 .. Turns : t \in Nat
  BY DEF Types
<1>1. ASSUME NEW t \in 1 .. Turns, Answers(t) PROVE Types'
  <2>1. "response" \in Said \cup {"response", "rejected", "bad"} /\ 0 \in Nat
    OBVIOUS
  <2>2. Plain("response", t, 0) \in Lines /\ Plain("rejected", t, 0) \in Lines
    BY <1>0, PlainTypes
  <2>3. pipe' \in Seq(Lines)
    BY <1>1, <2>2, WritesTypes DEF Answers
  <2>4. owed' \subseteq serving' /\ serving' \subseteq 1 .. turn
    BY <1>1 DEF Answers, Types
  <2>5. trouble' \in BOOLEAN
    BY <1>1 DEF Answers, Types
  <2>6. QED BY <1>1, <2>3, <2>4, <2>5 DEF Answers, Serve, taskVars, storeVars, Types
<1>2. ASSUME NEW t \in 1 .. Turns, TellsStale(t) PROVE Types'
  <2>1. pipe' \in Seq(Lines)
    <3>1. \A k \in {"delta", "wrong", "failed"} : Plain(k, t, 0) \in Lines
      BY <1>0, PlainTypes DEF Said
    <3>2. \A ph \in Phases : [kind |-> "item", turn |-> t, text |-> 0, phase |-> ph] \in Lines
      BY <1>0 DEF Lines, Item
    <3>3. (IF tagged THEN "final_answer" ELSE "none") \in Phases
      BY DEF Phases
    <3>4. [kind |-> "completed", turn |-> t, text |-> 0, full |-> FALSE, items |-> <<>>] \in Lines
      BY <1>0, EmptySeq DEF Lines, Whole
    <3>5. \E l \in Lines : Writes(l)
      BY <1>2, <3>1, <3>2, <3>3, <3>4 DEF TellsStale
    <3>6. QED BY <3>5, WritesTypes
  <2>2. QED BY <1>0, <1>2, <2>1 DEF TellsStale, Serve, taskVars, storeVars, Types
<1>3. CASE Tells
  <2>1. pipe' \in Seq(Lines) /\ said' \in Seq(Lines)
    BY <1>3, ToldTypes, SaysTypes, WritesTypes
  <2>2. QED BY <1>3, <2>1 DEF Tells, Serve, taskVars, storeVars, Types
<1>4. CASE Finishes
  <2>1. pipe' \in Seq(Lines) /\ said' \in Seq(Lines)
    BY <1>4, FinishedTypes, SaysTypes, WritesTypes
  <2>2. QED BY <1>4, <2>1 DEF Finishes, Serve, taskVars, storeVars, Types
<1>5. CASE Garbles
  <2>1. Plain("bad", turn, 0) \in Lines
    BY <1>0, PlainTypes
  <2>2. pipe' \in Seq(Lines)
    BY <1>5, <2>1, WritesTypes DEF Garbles
  <2>3. QED BY <1>5, <2>2 DEF Garbles, Serve, serverVars, taskVars, storeVars, Types
<1>6. CASE Exits
  BY <1>6 DEF Exits, taskVars, storeVars, Types
<1>7. QED BY <1>1, <1>2, <1>3, <1>4, <1>5, <1>6

LEMMA AskingTypes ==
    ASSUME Types, Start \/ StartTimesOut \/ EndElsewhere \/ ReadsResponse
    PROVE  Types'
<1>1. CASE Start
  <2>0. <<>> \in Seq(Lines) /\ <<>> \in Seq(Nat)
    BY EmptySeq
  <2>1. pipe' \in Seq(Lines)
    BY <1>1, <2>0 DEF Start, Types
  <2>2. turn' \in Nat /\ owed' \subseteq serving' /\ serving' \subseteq 1 .. turn'
    BY <1>1 DEF Start, Types
  <2>3. said' \in Seq(Lines) /\ shown' \in Seq(Nat) /\ answer' \in Seq(Nat)
    BY <1>1, <2>0 DEF Start
  <2>4. trouble' \in BOOLEAN
    BY <1>1 DEF Start
  <2>5. QED BY <1>1, <2>1, <2>2, <2>3, <2>4 DEF Start, taskVars, Types
<1>2. CASE StartTimesOut
  <2>1. pipe' \in Seq(Lines) /\ owed' \subseteq serving' /\ serving' \subseteq 1 .. turn
        /\ alive' \in BOOLEAN
    BY <1>2, KillTypes DEF StartTimesOut, Keep, Types
  <2>2. QED BY <1>2, <2>1 DEF StartTimesOut, Asking, Shut, FailsInStore, taskVars, Types
<1>3. CASE EndElsewhere
  BY <1>3 DEF EndElsewhere, serverVars, taskVars, Types
<1>4. CASE SkipLine
  <2>1. pipe' \in Seq(Lines)
    BY <1>4, ReadsTypes DEF SkipLine
  <2>2. missed' \in Nat
    BY <1>4 DEF SkipLine, Types
  <2>3. QED BY <1>4, <2>1, <2>2 DEF SkipLine, Asking, Keep, taskVars, storeVars, Types
<1>5. CASE Accepted
  <2>1. pipe' \in Seq(Lines)
    BY <1>5, ReadsTypes DEF Accepted, Answered
  <2>2. QED BY <1>5, <2>1 DEF Accepted, Asking, Keep, storeVars, Types
<1>6. CASE Rejected
  <2>1. pipe' \in Seq(Lines)
    BY <1>6, ReadsTypes DEF Rejected, Answered
  <2>2. QED BY <1>6, <2>1 DEF Rejected, Asking, Keep, Shut, FailsInStore, taskVars, Types
<1>7. CASE StartBroken
  <2>1. pipe' \in Seq(Lines) /\ owed' \subseteq serving' /\ serving' \subseteq 1 .. turn
        /\ alive' \in BOOLEAN
    BY <1>7, KillTypes DEF StartBroken
  <2>2. QED BY <1>7, <2>1 DEF StartBroken, Asking, Shut, FailsInStore, taskVars, Types
<1>8. QED BY <1>1, <1>2, <1>3, <1>4, <1>5, <1>6, <1>7 DEF ReadsResponse

LEMMA StreamTypes ==
    ASSUME Types, ReadsStream
    PROVE  Types'
<1>1. CASE ReadIgnored
  <2>1. pipe' \in Seq(Lines)
    BY <1>1, ReadsTypes DEF ReadIgnored
  <2>2. QED BY <1>1, <2>1 DEF ReadIgnored, Streaming, Keep, taskVars, storeVars, Types
<1>2. CASE ReadEvent
  <2>1. Head(pipe) \in Lines
    BY <1>2, TailTypes DEF ReadEvent, Types
  <2>2. chan' \in Seq(Events) /\ UNCHANGED <<task, deltas, final>>
    BY <1>2, <2>1, MapsTypes, SendsTypes DEF ReadEvent
  <2>3. /\ pipe' \in Seq(Lines) /\ owed' \subseteq serving' /\ serving' \subseteq 1 .. turn
        /\ alive' \in BOOLEAN /\ reader' \in {"idle", "asking", "streaming"}
    <3>1. CASE task = "listening"
      BY <1>2, <3>1, ReadsTypes DEF ReadEvent, Keep, Types
    <3>2. CASE task # "listening"
      BY <1>2, <3>2, KillTypes DEF ReadEvent, Shut
    <3>3. QED BY <3>1, <3>2
  <2>4. QED BY <1>2, <2>2, <2>3 DEF ReadEvent, Streaming, storeVars, Types
<1>3. CASE ReadEnd
  <2>1. Head(pipe) \in Lines /\ pipe' \in Seq(Lines)
    BY <1>3, TailTypes, ReadsTypes DEF ReadEnd, Types
  <2>2. chan' \in Seq(Events) /\ UNCHANGED <<task, deltas, final>>
    BY <1>3, <2>1, MapsTypes, SendsTypes DEF ReadEnd
  <2>3. QED BY <1>3, <2>1, <2>2 DEF ReadEnd, Streaming, Keep, Shut, storeVars, Types
<1>4. CASE ReadBroken
  <2>1. [kind |-> "error"] \in Events
    BY DEF Events, SignEvents
  <2>2. chan' \in Seq(Events) /\ UNCHANGED <<task, deltas, final>>
    BY <1>4, <2>1, SendsTypes DEF ReadBroken
  <2>3. QED BY <1>4, <2>2, KillTypes DEF ReadBroken, Streaming, Shut, storeVars, Types
<1>5. QED BY <1>1, <1>2, <1>3, <1>4 DEF ReadsStream

LEMMA TakesTypes ==
    ASSUME Types, Takes
    PROVE  Types'
<1>0. <<>> \in Seq(Events) /\ <<>> \in Seq(Nat)
  BY EmptySeq
<1>1. chan # <<>> /\ UNCHANGED <<alive, pipe, serverVars, turn, reader, missed, trouble>>
  BY DEF Takes, Taking, TakeDelta, TakeMessage, TakeCompleted, TakeFailed, TakeNoted
<1>2. Head(chan) \in Events /\ Tail(chan) \in Seq(Events)
  BY <1>1, TailTypes DEF Types
<1>3. CASE TakeDelta
  <2>1. Head(chan).text \in Nat
    BY <1>2, <1>3, EventTypes DEF TakeDelta, Taking
  <2>2. Append(deltas, Head(chan).text) \in Seq(Nat) /\ Append(shown, Head(chan).text) \in Seq(Nat)
    BY <2>1, AppendProperties DEF Types
  <2>3. shown' \in Seq(Nat) /\ deltas' \in Seq(Nat) /\ final' \in Nat \cup {None}
        /\ chan' \in Seq(Events) /\ task' \in {"none", "listening"}
    BY <1>0, <1>2, <1>3, <2>2 DEF TakeDelta, GoesOn, Goes, Types
  <2>4. QED BY <1>1, <1>3, <2>3 DEF TakeDelta, serverVars, Types
<1>4. CASE TakeMessage
  <2>1. Head(chan).text \in Nat
    BY <1>2, <1>4, EventTypes DEF TakeMessage, Taking
  <2>2. deltas' \in Seq(Nat) /\ final' \in Nat \cup {None}
        /\ chan' \in Seq(Events) /\ task' \in {"none", "listening"}
    BY <1>0, <1>2, <1>4, <2>1 DEF TakeMessage, GoesOn, Goes, Types
  <2>3. QED BY <1>1, <1>4, <2>2 DEF TakeMessage, serverVars, storeVars, Types
<1>5. CASE TakeCompleted
  <2>1. deltas' \in Seq(Nat) /\ final' \in Nat \cup {None}
        /\ chan' \in Seq(Events) /\ task' \in {"none", "listening"}
    BY <1>0, <1>5 DEF TakeCompleted, Goes
  <2>2. answer' \in Seq(Nat) /\ status' \in {"none", "active", "completed", "failed", "ended"}
    <3>1. CASE status = "active"
      <4> DEFINE text == IF Head(chan).text # None THEN Head(chan).text ELSE final
      <4>1. text \in Nat \cup {None}
        BY <1>2, <1>5, EventTypes DEF TakeCompleted, Taking, Types
      <4>2. answer' = IF text # None THEN <<text>> ELSE deltas
        BY <1>5, <3>1 DEF TakeCompleted
      <4>3. text # None => <<text>> \in Seq(Nat)
        BY <4>1
      <4>4. QED BY <1>5, <3>1, <4>2, <4>3 DEF TakeCompleted, Types
    <3>2. CASE status # "active"
      BY <1>5, <3>2 DEF TakeCompleted, Types
    <3>3. QED BY <3>1, <3>2
  <2>3. QED BY <1>1, <1>5, <2>1, <2>2 DEF TakeCompleted, serverVars, Types
<1>6. CASE TakeFailed
  BY <1>0, <1>1, <1>6 DEF TakeFailed, Goes, FailsInStore, serverVars, Types
<1>7. CASE TakeNoted
  BY <1>1, <1>2, <1>7 DEF TakeNoted, GoesOn, serverVars, storeVars, Types
<1>8. QED BY <1>3, <1>4, <1>5, <1>6, <1>7 DEF Takes

LEMMA TypesKept ==
    ASSUME Types, SaidInv, Next
    PROVE  Types'
  BY ServerTypes, AskingTypes, StreamTypes, TakesTypes DEF Next

-----------------------------------------------------------------------------
\* What was said of the turn, and what of it lies in the pipe.

LEMMA SaidAfter ==
    ASSUME Types, SaidInv, NEW l \in Lines, Says(l), UNCHANGED <<turn, tagged>>,
           l.turn = turn, l.text = Len(said) + 1, l.kind \in Said \cup {"item", "completed"},
           l.kind = "item" =>
              l.phase \in IF tagged THEN {"final_answer", "commentary"} ELSE {"none"},
           l.kind = "completed" /\ l.full =>
              Len(l.items) = Len(said) /\ \A i \in 1 .. Len(said) : l.items[i] = said[i]
    PROVE  SaidInv'
<1>1. /\ Len(said') = Len(said) + 1 /\ Len(said) \in Nat /\ said'[Len(said) + 1] = l
      /\ \A i \in 1 .. Len(said) : said'[i] = said[i]
  BY SaysTypes
<1>2. SUFFICES ASSUME NEW k \in 1 .. Len(said')
               PROVE  /\ said'[k].turn = turn /\ said'[k].text = k
                      /\ said'[k].kind \in Said \cup {"item", "completed"}
                      /\ said'[k].kind = "item" => said'[k].phase \in
                            IF tagged THEN {"final_answer", "commentary"} ELSE {"none"}
                      /\ said'[k].kind = "completed" /\ said'[k].full =>
                            /\ Len(said'[k].items) = k - 1
                            /\ \A i \in 1 .. k - 1 : said'[k].items[i] = said'[i]
  BY <1>1 DEF SaidInv
<1>3. CASE k = Len(said) + 1
  BY <1>1, <1>3
<1>4. CASE k \in 1 .. Len(said)
  <2>1. said'[k] = said[k] /\ \A i \in 1 .. k - 1 : said'[i] = said[i]
    BY <1>1, <1>4
  <2>2. QED BY <1>4, <2>1 DEF SaidInv
<1>5. QED BY <1>1, <1>3, <1>4

LEMMA SaidKept ==
    ASSUME Types, SaidInv, Next
    PROVE  SaidInv'
<1>1. CASE Tells
  <2>1. PICK l \in Lines :
              /\ Says(l) /\ l.turn = turn /\ l.text = Len(said) + 1
              /\ l.kind \in Said \cup {"item"}
              /\ l.kind = "item" =>
                    l.phase \in IF tagged THEN {"final_answer", "commentary"} ELSE {"none"}
    BY <1>1, ToldTypes
  <2>2. l.kind # "completed" /\ UNCHANGED <<turn, tagged>>
    BY <1>1, <2>1 DEF Said, Tells, Serve
  <2>3. QED BY <2>1, <2>2, SaidAfter
<1>2. CASE Finishes
  <2>1. PICK l \in Lines :
              /\ Says(l) /\ l.turn = turn /\ l.text = Len(said) + 1
              /\ l.kind \in Ends
              /\ l.kind = "completed" /\ l.full =>
                    Len(l.items) = Len(said) /\ \A i \in 1 .. Len(said) : l.items[i] = said[i]
    BY <1>2, FinishedTypes
  <2>2. l.kind # "item" /\ l.kind \in Said \cup {"item", "completed"} /\ UNCHANGED <<turn, tagged>>
    BY <1>2, <2>1 DEF Said, Ends, Finishes, Serve
  <2>3. QED BY <2>1, <2>2, SaidAfter
<1>3. CASE Start
  <2>1. said' = <<>> /\ Len(<<>>) = 0
    BY <1>3 DEF Start
  <2>2. QED BY <2>1 DEF SaidInv
<1>4. CASE UNCHANGED <<said, turn, tagged>>
  BY <1>4 DEF SaidInv
<1>5. ASSUME NEW t \in 1 .. Turns, Answers(t) \/ TellsStale(t) PROVE SaidInv'
  BY <1>5, <1>4 DEF Answers, TellsStale, Serve
<1>6. CASE Garbles \/ Exits \/ StartTimesOut \/ EndElsewhere \/ ReadsResponse
  BY <1>6, <1>4 DEF Garbles, Exits, StartTimesOut, EndElsewhere, ReadsResponse, SkipLine, Accepted,
                    Rejected, StartBroken, Asking, Serve, serverVars
<1>7. CASE ReadsStream \/ Takes
  BY <1>7, <1>4 DEF ReadsStream, ReadIgnored, ReadEvent, ReadEnd, ReadBroken, Streaming, Takes,
                    TakeDelta, TakeMessage, TakeCompleted, TakeFailed, TakeNoted, Taking, serverVars
<1>8. QED BY <1>1, <1>2, <1>3, <1>5, <1>6, <1>7 DEF Next

\* A line that is not of the newest turn is added.
LEMMA PipeWithOther ==
    ASSUME Types, SaidInv, PipeInv, NEW l \in Lines, Writes(l), UNCHANGED <<said, turn>>,
           l.turn <= turn, ~IsOfTurn(l), trouble => trouble',
           l.turn = turn => l.kind \in {"response", "rejected", "bad"},
           l.kind = "bad" \/ (l.kind = "rejected" /\ l.turn = turn) => trouble'
    PROVE  /\ PipeInv'
           /\ \A r \in Nat : ReadUpTo(r) => ReadUpTo(r)'
<1>1. /\ pipe' \in Seq(Lines) /\ DOMAIN pipe' = 1 .. Len(pipe) + 1
      /\ DOMAIN pipe = 1 .. Len(pipe) /\ Len(pipe) \in Nat /\ pipe'[Len(pipe) + 1] = l
      /\ \A i \in 1 .. Len(pipe) : pipe'[i] = pipe[i]
  BY WritesTypes, LenProperties DEF Types
<1>2. ASSUME NEW i \in DOMAIN pipe'
      PROVE  \/ i \in DOMAIN pipe /\ pipe'[i] = pipe[i]
             \/ i = Len(pipe) + 1 /\ pipe'[i] = l
  BY <1>1, <1>2
<1>3. PipeInv'
  <2>1. ASSUME NEW i \in DOMAIN pipe'
        PROVE  /\ pipe'[i].turn <= turn
               /\ IsOfTurn(pipe'[i]) => pipe'[i].text <= Len(said) /\ pipe'[i] = said[pipe'[i].text]
               /\ pipe'[i].turn = turn /\ ~IsOfTurn(pipe'[i]) =>
                     pipe'[i].kind \in {"response", "rejected", "bad"}
               /\ pipe'[i].kind = "bad" => trouble'
               /\ pipe'[i].kind = "rejected" /\ pipe'[i].turn = turn => trouble'
    <3>1. CASE i \in DOMAIN pipe /\ pipe'[i] = pipe[i]
      BY <3>1 DEF PipeInv
    <3>2. CASE pipe'[i] = l
      BY <3>2
    <3>3. QED BY <1>2, <2>1, <3>1, <3>2
  <2>2. ASSUME NEW i \in DOMAIN pipe', NEW j \in DOMAIN pipe', i < j,
               IsOfTurn(pipe'[i]), IsOfTurn(pipe'[j])
        PROVE  pipe'[i].text < pipe'[j].text
    <3>1. i \in DOMAIN pipe /\ pipe'[i] = pipe[i] /\ j \in DOMAIN pipe /\ pipe'[j] = pipe[j]
      BY <1>2, <2>2
    <3>2. QED BY <2>2, <3>1 DEF PipeInv
  <2>3. QED BY <2>1, <2>2 DEF PipeInv, IsOfTurn
<1>4. ASSUME NEW r \in Nat, ReadUpTo(r) PROVE ReadUpTo(r)'
  <2>1. ASSUME NEW k
        PROVE  (\E i \in DOMAIN pipe' : IsOfTurn(pipe'[i]) /\ pipe'[i].text = k)
                  <=> \E i \in DOMAIN pipe : IsOfTurn(pipe[i]) /\ pipe[i].text = k
    <3>1. ASSUME NEW i \in DOMAIN pipe', IsOfTurn(pipe'[i])
          PROVE  i \in DOMAIN pipe /\ pipe'[i] = pipe[i]
      BY <1>2, <3>1
    <3>2. \A i \in DOMAIN pipe : i \in DOMAIN pipe' /\ pipe'[i] = pipe[i]
      BY <1>1
    <3>3. QED BY <3>1, <3>2
  <2>2. QED BY <1>4, <2>1 DEF ReadUpTo, IsOfTurn
<1>5. QED BY <1>3, <1>4

\* The next line of the turn is added.
LEMMA PipeWithNext ==
    ASSUME Types, SaidInv, PipeInv, NEW l \in Lines, Says(l), UNCHANGED <<turn, trouble>>,
           l.turn = turn, l.text = Len(said) + 1, l.kind \in Said \cup {"item", "completed"}
    PROVE  /\ PipeInv'
           /\ \A r \in 0 .. Len(said) : ReadUpTo(r) => ReadUpTo(r)'
<1>1. /\ pipe' \in Seq(Lines) /\ DOMAIN pipe' = 1 .. Len(pipe) + 1
      /\ DOMAIN pipe = 1 .. Len(pipe) /\ Len(pipe) \in Nat /\ pipe'[Len(pipe) + 1] = l
      /\ \A i \in 1 .. Len(pipe) : pipe'[i] = pipe[i]
  BY SaysTypes, WritesTypes, LenProperties DEF Types
<1>2. ASSUME NEW i \in DOMAIN pipe'
      PROVE  \/ i \in DOMAIN pipe /\ pipe'[i] = pipe[i]
             \/ i = Len(pipe) + 1 /\ pipe'[i] = l
  BY <1>1, <1>2
<1>3. /\ Len(said') = Len(said) + 1 /\ Len(said) \in Nat /\ said'[Len(said) + 1] = l
      /\ \A i \in 1 .. Len(said) : said'[i] = said[i]
  BY SaysTypes
<1>4. \A i \in DOMAIN pipe : pipe[i] \in Lines /\ pipe[i].text \in Nat /\ pipe[i].turn \in Nat
  BY ElementOfSeq, LineTypes DEF Types
<1>5. IsOfTurn(l) /\ turn \in Nat
  BY <1>3 DEF IsOfTurn, Types
<1>6. PipeInv'
  <2>1. ASSUME NEW i \in DOMAIN pipe'
        PROVE  /\ pipe'[i].turn <= turn
               /\ IsOfTurn(pipe'[i]) =>
                     pipe'[i].text <= Len(said') /\ pipe'[i] = said'[pipe'[i].text]
               /\ pipe'[i].turn = turn /\ ~IsOfTurn(pipe'[i]) =>
                     pipe'[i].kind \in {"response", "rejected", "bad"}
               /\ pipe'[i].kind = "bad" => trouble
               /\ pipe'[i].kind = "rejected" /\ pipe'[i].turn = turn => trouble
    <3>1. CASE i \in DOMAIN pipe /\ pipe'[i] = pipe[i]
      <4>1. IsOfTurn(pipe[i]) => /\ pipe[i].text \in 1 .. Len(said)
                                 /\ pipe[i].text <= Len(said') /\ pipe[i] = said'[pipe[i].text]
        BY <1>3, <1>4, <3>1 DEF PipeInv, IsOfTurn
      <4>2. QED BY <3>1, <4>1 DEF PipeInv
    <3>2. CASE pipe'[i] = l
      BY <1>3, <1>5, <3>2 DEF Said
    <3>3. QED BY <1>2, <2>1, <3>1, <3>2
  <2>2. ASSUME NEW i \in DOMAIN pipe', NEW j \in DOMAIN pipe', i < j,
               IsOfTurn(pipe'[i]), IsOfTurn(pipe'[j])
        PROVE  pipe'[i].text < pipe'[j].text
    <3>1. i \in DOMAIN pipe /\ pipe'[i] = pipe[i]
      BY <1>1, <1>2, <2>2
    <3>2. CASE j \in DOMAIN pipe /\ pipe'[j] = pipe[j]
      BY <2>2, <3>1, <3>2 DEF PipeInv
    <3>3. CASE pipe'[j] = l
      <4>1. pipe[i].text <= Len(said)
        BY <2>2, <3>1 DEF PipeInv
      <4>2. QED BY <1>3, <1>4, <3>1, <3>3, <4>1
    <3>4. QED BY <1>2, <2>2, <3>2, <3>3
  <2>3. QED BY <2>1, <2>2 DEF PipeInv, IsOfTurn
<1>7. ASSUME NEW r \in 0 .. Len(said), ReadUpTo(r) PROVE ReadUpTo(r)'
  <2>1. SUFFICES ASSUME NEW k \in 1 .. Len(said')
                 PROVE  k > r <=> \E i \in DOMAIN pipe' : IsOfTurn(pipe'[i]) /\ pipe'[i].text = k
    BY DEF ReadUpTo, IsOfTurn
  <2>2. CASE k = Len(said) + 1
    <3>1. Len(pipe) + 1 \in DOMAIN pipe' /\ IsOfTurn(pipe'[Len(pipe) + 1])
          /\ pipe'[Len(pipe) + 1].text = k
      BY <1>1, <1>5, <2>2
    <3>2. QED BY <1>3, <2>2, <3>1
  <2>3. CASE k \in 1 .. Len(said)
    <3>1. \A i \in DOMAIN pipe : i \in DOMAIN pipe' /\ pipe'[i] = pipe[i]
      BY <1>1
    <3>2. k # l.text
      BY <1>3, <2>3
    <3>3. \A i \in DOMAIN pipe' : pipe'[i].text = k => i \in DOMAIN pipe /\ pipe'[i] = pipe[i]
      BY <1>2, <3>2
    <3>4. k > r <=> \E i \in DOMAIN pipe : IsOfTurn(pipe[i]) /\ pipe[i].text = k
      BY <1>7, <2>3 DEF ReadUpTo
    <3>5. QED BY <3>1, <3>3, <3>4
  <2>4. QED BY <1>3, <2>2, <2>3
<1>8. QED BY <1>6, <1>7

\* The first line that is of the turn is the next one of it.
LEMMA HeadIsNext ==
    ASSUME Types, SaidInv, PipeInv, pipe # <<>>, IsOfTurn(Head(pipe)),
           NEW r \in 0 .. Len(said), ReadUpTo(r)
    PROVE  /\ r < Len(said) /\ Head(pipe) = said[r + 1] /\ Head(pipe).text = r + 1
           /\ \A i \in DOMAIN pipe : i > 1 /\ IsOfTurn(pipe[i]) => r + 1 < pipe[i].text
<1>1. Head(pipe) = pipe[1] /\ Len(pipe) \in Nat \ {0} /\ DOMAIN pipe = 1 .. Len(pipe)
  BY TailTypes DEF Types
<1>2. Len(said) \in Nat /\ 1 \in DOMAIN pipe /\ Head(pipe).text \in Nat
  BY <1>1, LenProperties, TailTypes, LineTypes DEF Types
<1>3. /\ Head(pipe).text \in 1 .. Len(said) /\ Head(pipe) = said[Head(pipe).text]
      /\ \A i \in DOMAIN pipe : i > 1 /\ IsOfTurn(pipe[i]) => Head(pipe).text < pipe[i].text
  BY <1>1, <1>2 DEF PipeInv, IsOfTurn
<1>4. Head(pipe).text > r
  BY <1>1, <1>2, <1>3 DEF ReadUpTo
<1>5. r + 1 \in 1 .. Len(said)
  BY <1>2, <1>3, <1>4
<1>6. PICK i \in DOMAIN pipe : IsOfTurn(pipe[i]) /\ pipe[i].text = r + 1
  BY <1>5 DEF ReadUpTo
<1>7. Head(pipe).text = r + 1
  BY <1>1, <1>2, <1>3, <1>4, <1>6
<1>8. QED BY <1>2, <1>3, <1>5, <1>7

\* The first line is read: it is of the turn and the next one, or of another.
LEMMA PipeRead ==
    ASSUME Types, SaidInv, PipeInv, Reads, pipe # <<>>, UNCHANGED <<said, turn, trouble>>
    PROVE  /\ PipeInv'
           /\ \A r \in 0 .. Len(said) : ReadUpTo(r) =>
                 IF IsOfTurn(Head(pipe))
                 THEN /\ r < Len(said) /\ Head(pipe) = said[r + 1] /\ Head(pipe).text = r + 1
                      /\ ReadUpTo(r + 1)'
                 ELSE ReadUpTo(r)'
<1>1. /\ Head(pipe) = pipe[1] /\ pipe' \in Seq(Lines) /\ Len(pipe) \in Nat \ {0}
      /\ DOMAIN pipe' = 1 .. Len(pipe) - 1 /\ DOMAIN pipe = 1 .. Len(pipe)
      /\ \A i \in 1 .. Len(pipe) - 1 : pipe'[i] = pipe[i + 1]
  BY TailTypes DEF Types, Reads
<1>2. \A i \in DOMAIN pipe' : i + 1 \in DOMAIN pipe /\ pipe'[i] = pipe[i + 1] /\ i \in Nat /\ i > 0
  BY <1>1
<1>3. PipeInv'
  <2>1. ASSUME NEW i \in DOMAIN pipe'
        PROVE  /\ pipe'[i].turn <= turn
               /\ IsOfTurn(pipe'[i]) => pipe'[i].text <= Len(said) /\ pipe'[i] = said[pipe'[i].text]
               /\ pipe'[i].turn = turn /\ ~IsOfTurn(pipe'[i]) =>
                     pipe'[i].kind \in {"response", "rejected", "bad"}
               /\ pipe'[i].kind = "bad" => trouble
               /\ pipe'[i].kind = "rejected" /\ pipe'[i].turn = turn => trouble
    BY <1>2, <2>1 DEF PipeInv
  <2>2. ASSUME NEW i \in DOMAIN pipe', NEW j \in DOMAIN pipe', i < j,
               IsOfTurn(pipe'[i]), IsOfTurn(pipe'[j])
        PROVE  pipe'[i].text < pipe'[j].text
    <3>1. i + 1 \in DOMAIN pipe /\ j + 1 \in DOMAIN pipe /\ i + 1 < j + 1
          /\ pipe'[i] = pipe[i + 1] /\ pipe'[j] = pipe[j + 1]
      BY <1>2, <2>2
    <3>2. QED BY <2>2, <3>1 DEF PipeInv
  <2>3. QED BY <2>1, <2>2 DEF PipeInv, IsOfTurn
<1>4. ASSUME NEW r \in 0 .. Len(said), ReadUpTo(r), IsOfTurn(Head(pipe))
      PROVE  /\ r < Len(said) /\ Head(pipe) = said[r + 1] /\ Head(pipe).text = r + 1
             /\ ReadUpTo(r + 1)'
  <2>1. /\ r < Len(said) /\ Head(pipe) = said[r + 1] /\ Head(pipe).text = r + 1
        /\ \A i \in DOMAIN pipe : i > 1 /\ IsOfTurn(pipe[i]) => r + 1 < pipe[i].text
    BY <1>4, HeadIsNext
  <2>6. ASSUME NEW k \in 1 .. Len(said)
        PROVE  k > r + 1 <=> \E j \in DOMAIN pipe' : IsOfTurn(pipe'[j]) /\ pipe'[j].text = k
    <3>1. ASSUME k > r + 1
          PROVE  \E j \in DOMAIN pipe' : IsOfTurn(pipe'[j]) /\ pipe'[j].text = k
      <4>1. PICK j \in DOMAIN pipe : IsOfTurn(pipe[j]) /\ pipe[j].text = k
        BY <1>4, <3>1 DEF ReadUpTo
      <4>2. j # 1
        BY <1>1, <2>1, <3>1, <4>1
      <4>3. j - 1 \in DOMAIN pipe' /\ pipe'[j - 1] = pipe[j]
        BY <1>1, <4>2
      <4>4. QED BY <4>1, <4>3
    <3>2. ASSUME NEW j \in DOMAIN pipe', IsOfTurn(pipe'[j]), pipe'[j].text = k
          PROVE  k > r + 1
      <4>1. j + 1 \in DOMAIN pipe /\ j + 1 > 1 /\ pipe'[j] = pipe[j + 1]
        BY <1>2, <3>2
      <4>2. QED BY <2>1, <3>2, <4>1
    <3>3. QED BY <3>1, <3>2
  <2>7. ReadUpTo(r + 1)'
    BY <2>6 DEF ReadUpTo, IsOfTurn
  <2>8. QED BY <2>1, <2>7
<1>5. ASSUME NEW r \in 0 .. Len(said), ReadUpTo(r), ~IsOfTurn(Head(pipe))
      PROVE  ReadUpTo(r)'
  <2>1. ASSUME NEW k \in 1 .. Len(said)
        PROVE  k > r <=> \E j \in DOMAIN pipe' : IsOfTurn(pipe'[j]) /\ pipe'[j].text = k
    <3>1. ASSUME k > r
          PROVE  \E j \in DOMAIN pipe' : IsOfTurn(pipe'[j]) /\ pipe'[j].text = k
      <4>1. PICK j \in DOMAIN pipe : IsOfTurn(pipe[j]) /\ pipe[j].text = k
        BY <1>5, <3>1 DEF ReadUpTo
      <4>2. j # 1
        BY <1>1, <1>5, <4>1
      <4>3. j - 1 \in DOMAIN pipe' /\ pipe'[j - 1] = pipe[j]
        BY <1>1, <4>2
      <4>4. QED BY <4>1, <4>3
    <3>2. ASSUME NEW j \in DOMAIN pipe', IsOfTurn(pipe'[j]), pipe'[j].text = k
          PROVE  k > r
      <4>1. j + 1 \in DOMAIN pipe /\ pipe'[j] = pipe[j + 1]
        BY <1>2, <3>2
      <4>2. QED BY <1>5, <3>2, <4>1 DEF ReadUpTo
    <3>3. QED BY <3>1, <3>2
  <2>2. QED BY <2>1 DEF ReadUpTo, IsOfTurn
<1>6. QED BY <1>3, <1>4, <1>5

LEMMA PipeEmpty ==
    ASSUME pipe' = <<>>
    PROVE  PipeInv' /\ DOMAIN pipe' = {}
  BY DEF PipeInv

LEMMA PipeSame ==
    ASSUME PipeInv, UNCHANGED <<pipe, said, turn>>, trouble => trouble'
    PROVE  /\ PipeInv'
           /\ \A r \in Nat : ReadUpTo(r) => ReadUpTo(r)'
<1>1. PipeInv'
  BY DEF PipeInv, IsOfTurn
<1>2. ASSUME NEW r \in Nat, ReadUpTo(r) PROVE ReadUpTo(r)'
  BY <1>2 DEF ReadUpTo, IsOfTurn
<1>3. QED BY <1>1, <1>2

\* The three steps of the app-server that add a line not counted in said.
LEMMA OthersWritten ==
    ASSUME Types, SaidInv, PipeInv,
           (\E t \in 1 .. Turns : Answers(t) \/ TellsStale(t)) \/ Garbles
    PROVE  /\ PipeInv' /\ alive /\ (trouble => trouble')
           /\ \A r \in Nat : ReadUpTo(r) => ReadUpTo(r)'
           /\ UNCHANGED <<alive, said, turn, reader, taskVars, storeVars, missed>>
<1>0. turn \in Nat /\ \A t \in 1 .. Turns : t \in Nat
  BY DEF Types
<1>1. ASSUME NEW t \in 1 .. Turns, Answers(t)
      PROVE  \E l \in Lines : /\ Writes(l) /\ l.turn <= turn /\ ~IsOfTurn(l)
                              /\ l.turn = turn => l.kind \in {"response", "rejected", "bad"}
                              /\ l.kind = "bad" \/ (l.kind = "rejected" /\ l.turn = turn)
                                    => trouble'
  <2>1. /\ Plain("response", t, 0) \in Lines /\ Plain("response", t, 0).kind = "response"
        /\ Plain("response", t, 0).text = 0 /\ Plain("response", t, 0).turn = t
    BY <1>0, <1>1, PlainTypes
  <2>2. /\ Plain("rejected", t, 0) \in Lines /\ Plain("rejected", t, 0).kind = "rejected"
        /\ Plain("rejected", t, 0).text = 0 /\ Plain("rejected", t, 0).turn = t
    BY <1>0, <1>1, PlainTypes
  <2>3. t <= turn
    BY <1>0, <1>1 DEF Answers, Types
  <2>4. CASE Writes(Plain("response", t, 0))
    BY <2>1, <2>3, <2>4 DEF IsOfTurn
  <2>5. CASE Writes(Plain("rejected", t, 0)) /\ trouble' = (trouble \/ t = turn)
    <3>1. t = turn => trouble'
      BY <2>5
    <3>2. QED BY <2>2, <2>3, <2>5, <3>1 DEF IsOfTurn
  <2>6. QED BY <1>1, <2>4, <2>5 DEF Answers
<1>2. ASSUME NEW t \in 1 .. Turns, TellsStale(t)
      PROVE  \E l \in Lines : /\ Writes(l) /\ l.turn <= turn /\ ~IsOfTurn(l)
                              /\ l.turn = turn => l.kind \in {"response", "rejected", "bad"}
                              /\ l.kind = "bad" \/ (l.kind = "rejected" /\ l.turn = turn)
                                    => trouble'
  <2>1. t <= turn /\ t # turn
    BY <1>0, <1>2 DEF TellsStale, Types
  <2>2. SUFFICES \E l \in Lines : Writes(l) /\ l.turn = t /\ l.text = 0 /\ l.kind # "bad"
    BY <2>1 DEF IsOfTurn
  <2>3. CASE \E k \in {"delta", "wrong", "failed"} : Writes(Plain(k, t, 0))
    <3>1. PICK k \in {"delta", "wrong", "failed"} : Writes(Plain(k, t, 0))
      BY <2>3
    <3>2. /\ Plain(k, t, 0) \in Lines /\ Plain(k, t, 0).kind # "bad"
          /\ Plain(k, t, 0).turn = t /\ Plain(k, t, 0).text = 0
      BY <1>0, PlainTypes DEF Said
    <3>3. QED BY <3>1, <3>2
  <2>4. CASE Writes([kind |-> "item", turn |-> t, text |-> 0,
                     phase |-> IF tagged THEN "final_answer" ELSE "none"])
    <3>1. [kind |-> "item", turn |-> t, text |-> 0,
           phase |-> IF tagged THEN "final_answer" ELSE "none"] \in Lines
      BY <1>0 DEF Lines, Item, Phases
    <3>2. QED BY <2>4, <3>1
  <2>5. CASE Writes([kind |-> "completed", turn |-> t, text |-> 0, full |-> FALSE,
                     items |-> <<>>])
    <3>1. [kind |-> "completed", turn |-> t, text |-> 0, full |-> FALSE, items |-> <<>>] \in Lines
      BY <1>0, EmptySeq DEF Lines, Whole
    <3>2. QED BY <2>5, <3>1
  <2>6. QED BY <1>2, <2>3, <2>4, <2>5 DEF TellsStale
<1>3. ASSUME Garbles
      PROVE  \E l \in Lines : /\ Writes(l) /\ l.turn <= turn /\ ~IsOfTurn(l)
                              /\ l.turn = turn => l.kind \in {"response", "rejected", "bad"}
                              /\ l.kind = "bad" \/ (l.kind = "rejected" /\ l.turn = turn)
                                    => trouble'
  <2>1. /\ Plain("bad", turn, 0) \in Lines /\ Plain("bad", turn, 0).kind = "bad"
        /\ Plain("bad", turn, 0).text = 0 /\ Plain("bad", turn, 0).turn = turn
    BY <1>0, PlainTypes
  <2>2. QED BY <1>0, <1>3, <2>1 DEF Garbles, IsOfTurn
<1>4. PICK l \in Lines : /\ Writes(l) /\ l.turn <= turn /\ ~IsOfTurn(l)
                         /\ l.turn = turn => l.kind \in {"response", "rejected", "bad"}
                         /\ l.kind = "bad" \/ (l.kind = "rejected" /\ l.turn = turn) => trouble'
  BY <1>1, <1>2, <1>3
<1>5. /\ UNCHANGED <<alive, said, turn, reader, taskVars, storeVars, missed>>
      /\ trouble => trouble'
  <2>1. UNCHANGED <<alive, said, turn, reader, taskVars, storeVars, missed>>
    BY DEF Answers, TellsStale, Garbles, Serve, serverVars
  <2>2. ASSUME NEW t \in 1 .. Turns, Answers(t), trouble PROVE trouble'
    BY <2>2 DEF Answers
  <2>3. ASSUME Garbles \/ \E t \in 1 .. Turns : TellsStale(t), trouble
        PROVE  trouble'
    BY <2>3 DEF TellsStale, Garbles
  <2>4. QED BY <2>1, <2>2, <2>3
<1>6. alive
  BY <1>4 DEF Writes, Room
<1>7. PipeInv' /\ \A r \in Nat : ReadUpTo(r) => ReadUpTo(r)'
  BY <1>4, <1>5, PipeWithOther
<1>8. QED BY <1>5, <1>6, <1>7

\* The two that write the next line of the turn.
LEMMA NextWritten ==
    ASSUME Types, SaidInv, PipeInv, Tells \/ Finishes
    PROVE  /\ PipeInv' /\ UNCHANGED <<alive, turn, reader, taskVars, storeVars, missed, trouble>>
           /\ \A r \in 0 .. Len(said) : ReadUpTo(r) => ReadUpTo(r)'
           /\ Len(said) \in Nat /\ Len(said') = Len(said) + 1
           /\ \A i \in 1 .. Len(said) : said'[i] = said[i]
<1>1. \E l \in Lines : /\ Says(l) /\ l.turn = turn /\ l.text = Len(said) + 1
                       /\ l.kind \in Said \cup {"item", "completed"}
  BY ToldTypes, FinishedTypes DEF Said, Ends
<1>2. UNCHANGED <<alive, turn, reader, taskVars, storeVars, missed, trouble>>
  BY DEF Tells, Finishes, Serve
<1>3. PICK l \in Lines : /\ Says(l) /\ l.turn = turn /\ l.text = Len(said) + 1
                         /\ l.kind \in Said \cup {"item", "completed"}
  BY <1>1
<1>4. PipeInv' /\ \A r \in 0 .. Len(said) : ReadUpTo(r) => ReadUpTo(r)'
  BY <1>2, <1>3, PipeWithNext
<1>5. QED BY <1>2, <1>3, <1>4, SaysTypes

LEMMA PipeKept ==
    ASSUME Types, SaidInv, PipeInv, Next
    PROVE  PipeInv'
<1>1. CASE (\E t \in 1 .. Turns : Answers(t) \/ TellsStale(t)) \/ Garbles
  BY <1>1, OthersWritten
<1>2. CASE Tells \/ Finishes
  BY <1>2, NextWritten
<1>3. CASE Exits
  BY <1>3, PipeSame DEF Exits
<1>4. CASE Start
  <2>1. CASE alive
    <3>1. \A i \in DOMAIN pipe : pipe[i].turn <= turn /\ pipe[i].turn \in Nat
      BY ElementOfSeq, LineTypes DEF PipeInv, Types
    <3>2. turn \in Nat /\ turn' = turn + 1 /\ pipe' = pipe
      BY <1>4, <2>1 DEF Start, Types
    <3>3. \A i \in DOMAIN pipe' : pipe'[i].turn <= turn' /\ pipe'[i].turn # turn'
      BY <3>1, <3>2
    <3>4. \A i \in DOMAIN pipe' : pipe'[i].kind = "bad" => trouble'
      BY <1>4 DEF Start
    <3>5. QED BY <3>3, <3>4 DEF PipeInv, IsOfTurn
  <2>2. CASE ~alive
    BY <1>4, <2>2, PipeEmpty DEF Start
  <2>3. QED BY <2>1, <2>2
<1>5. CASE StartTimesOut
  BY <1>5, PipeEmpty, PipeSame DEF StartTimesOut, Asking, Kill
<1>6. CASE EndElsewhere \/ Takes
  BY <1>6, PipeSame DEF EndElsewhere, Takes, TakeDelta, TakeMessage, TakeCompleted, TakeFailed,
                       TakeNoted, Taking, serverVars
<1>7. CASE StartBroken \/ ReadBroken
  BY <1>7, PipeEmpty DEF StartBroken, ReadBroken, Kill
<1>8. CASE SkipLine \/ Accepted \/ Rejected \/ ReadIgnored \/ ReadEnd
  BY <1>8, PipeRead DEF SkipLine, Accepted, Rejected, ReadIgnored, ReadEnd, Asking, Answered, Streaming
<1>9. CASE ReadEvent
  <2>1. CASE task = "listening"
    BY <1>9, <2>1, PipeRead DEF ReadEvent, Streaming
  <2>2. CASE task # "listening"
    BY <1>9, <2>2, PipeEmpty DEF ReadEvent, Kill
  <2>3. QED BY <2>1, <2>2
<1>10. QED BY <1>1, <1>2, <1>3, <1>4, <1>5, <1>6, <1>7, <1>8, <1>9
           DEF Next, ReadsResponse, ReadsStream

-----------------------------------------------------------------------------
\* What was heard, and what of it was sent.

LEMMA HeardRange ==
    ASSUME Types
    PROVE  Heard \subseteq 1 .. Len(said) /\ Len(said) \in Nat
  BY LenProperties DEF Types, Heard

LEMMA HeardSame ==
    ASSUME UNCHANGED <<said, missed>>
    PROVE  Heard' = Heard /\ HeardDeltas' = HeardDeltas
  BY DEF Heard, HeardDeltas

\* What was heard stays heard, and nothing is heard after an end.
LEMMA HeardAfter ==
    ASSUME Types, UNCHANGED missed, missed <= Len(said), Len(said') = Len(said) + 1,
           \A i \in 1 .. Len(said) : said'[i] = said[i]
    PROVE  /\ Heard \subseteq Heard' /\ Heard' \subseteq Heard \cup {Len(said) + 1}
           /\ \A i \in Heard : said'[i] = said[i]
           /\ (\E e \in Heard : said[e].kind \in Ends) => Heard' = Heard
<1>0. missed \in Nat /\ Len(said) \in Nat
  BY LenProperties DEF Types
<1>1. \A i \in Heard : said'[i] = said[i]
  BY HeardRange
<1>2. ASSUME NEW i \in Heard PROVE i \in Heard'
  <2>1. i \in missed + 1 .. Len(said) /\ \A j \in missed + 1 .. i - 1 : said[j].kind \notin Ends
    BY <1>2 DEF Heard
  <2>2. \A j \in missed + 1 .. i - 1 : said'[j] = said[j]
    BY <1>0, <2>1
  <2>3. QED BY <1>0, <2>1, <2>2 DEF Heard
<1>3. ASSUME NEW i \in Heard', i # Len(said) + 1 PROVE i \in Heard
  <2>1. i \in missed + 1 .. Len(said) + 1 /\ \A j \in missed + 1 .. i - 1 : said'[j].kind \notin Ends
    BY <1>3 DEF Heard
  <2>2. \A j \in missed + 1 .. i - 1 : said'[j] = said[j]
    BY <1>0, <1>3, <2>1
  <2>3. QED BY <1>0, <1>3, <2>1, <2>2 DEF Heard
<1>4. ASSUME NEW e \in Heard, said[e].kind \in Ends PROVE Len(said) + 1 \notin Heard'
  <2>1. e \in missed + 1 .. Len(said) /\ said'[e] = said[e]
    BY <1>1, <1>4 DEF Heard
  <2>2. e \in missed + 1 .. (Len(said) + 1) - 1
    BY <1>0, <2>1
  <2>3. QED BY <1>4, <2>1, <2>2 DEF Heard
<1>5. QED BY <1>1, <1>2, <1>3, <1>4

LEMMA CauseKept ==
    ASSUME Types, Cause, UNCHANGED missed, missed <= Len(said), trouble => trouble',
           \/ UNCHANGED said
           \/ /\ Len(said') = Len(said) + 1
              /\ \A i \in 1 .. Len(said) : said'[i] = said[i]
    PROVE  Cause'
<1>1. CASE UNCHANGED said
  BY <1>1, HeardSame DEF Cause
<1>2. CASE Len(said') = Len(said) + 1 /\ \A i \in 1 .. Len(said) : said'[i] = said[i]
  <2>1. Heard \subseteq Heard' /\ \A i \in Heard : said'[i] = said[i]
    BY <1>2, HeardAfter
  <2>2. QED BY <2>1 DEF Cause
<1>3. QED BY <1>1, <1>2

\* A step that the task does not see.
LEMMA TaskUntouched ==
    ASSUME Types, NEW r \in 0 .. Len(said), TaskInv(r), missed <= Len(said),
           UNCHANGED <<taskVars, shown, missed>>,
           status' = status \/ status' = "ended",
           status' = status \/ task = "listening",
           task = "listening" => reader # "asking" /\ (reader = "idle" => reader' = "idle"),
           reader' # "asking" => reader # "asking" \/ status' # "active",
           trouble => trouble',
           \/ UNCHANGED said
           \/ /\ Len(said') = Len(said) + 1
              /\ \A i \in 1 .. Len(said) : said'[i] = said[i]
    PROVE  TaskInv(r)'
<1>0. missed \in Nat /\ Len(said) \in Nat
  BY LenProperties DEF Types
<1>1. UNCHANGED <<chan, task, deltas, final>>
  BY DEF taskVars
<1>2. \A k \in missed + 1 .. r : said'[k] = said[k]
  BY <1>0
<1>3. CASE task = "none"
  BY <1>1, <1>3 DEF TaskInv
<1>4. CASE task = "listening"
  <2>1. /\ status \in {"active", "ended"} /\ missed <= r /\ GoesOnTo(r - 1)
        /\ DeltasTo(r) /\ MessagesTo(r) /\ EndAt(r)
    BY <1>4 DEF TaskInv
  <2>2. GoesOnTo(r - 1)'
    BY <1>0, <1>2, <2>1 DEF GoesOnTo
  <2>3. DeltasTo(r)'
    BY <1>1, <1>2, <2>1 DEF DeltasTo, Sent
  <2>4. MessagesTo(r)'
    BY <1>1, <1>2, <2>1 DEF MessagesTo, Sent, IsMessage
  <2>5. EndAt(r)'
    <3>1. Cause => Cause'
      BY CauseKept
    <3>2. ASSUME NEW i \in DOMAIN chan, chan[i].kind = "completed"
          PROVE  /\ i = Len(chan) /\ reader' = "idle"
                 /\ r > missed /\ said'[r].kind = "completed"
                 /\ chan[i].text = CompletedText(said'[r])
      <4>1. /\ i = Len(chan) /\ reader = "idle" /\ r > missed /\ said[r].kind = "completed"
            /\ chan[i].text = CompletedText(said[r])
        BY <2>1, <3>2 DEF EndAt
      <4>2. said'[r] = said[r]
        BY <1>0, <1>2, <4>1
      <4>3. QED BY <1>4, <4>1, <4>2
    <3>3. \A i \in DOMAIN chan : chan[i].kind \in {"failed", "error"} => Cause
      BY <2>1 DEF EndAt
    <3> HIDE DEF Cause
    <3>4. QED BY <1>1, <3>1, <3>2, <3>3 DEF EndAt
  <2>6. status' \in {"active", "ended"}
    BY <2>1
  <2>7. QED BY <1>1, <1>4, <2>1, <2>2, <2>3, <2>4, <2>5, <2>6 DEF TaskInv
<1>5. QED BY <1>3, <1>4 DEF Types

\* Line r + 1 is passed over, or what is sent of it is neither delta nor message.
LEMMA PassedOver ==
    ASSUME Types, NEW r \in Nat, DeltasTo(r), MessagesTo(r), missed <= r,
           said[r + 1].kind # "delta", ~IsMessage(r + 1),
           UNCHANGED <<said, missed, shown, deltas, final, chan>>
    PROVE  DeltasTo(r + 1)' /\ MessagesTo(r + 1)'
<1>0. missed \in Nat
  BY DEF Types
<1>1. \A k \in missed + 1 .. r + 1 : k \in missed + 1 .. r \/ k = r + 1
  BY <1>0
<1>2. \A k \in missed + 1 .. r : k \in missed + 1 .. r + 1
  BY <1>0
<1>3. DeltasTo(r + 1)'
  BY <1>1, <1>2 DEF DeltasTo, Sent
<1>4. MessagesTo(r + 1)'
  BY <1>1, <1>2 DEF MessagesTo, Sent, IsMessage
<1>5. QED BY <1>3, <1>4

\* An event is sent: that of line r + 1, or one that belongs to no line of the turn.
LEMMA SentOn ==
    ASSUME Types, NEW r \in Nat, NEW q \in {r, r + 1}, DeltasTo(r), MessagesTo(r), missed <= r,
           NEW ev \in Events, Sends(ev), task = "listening", UNCHANGED <<said, missed, shown>>,
           ev.kind \in {"delta", "message"} => q = r + 1 /\ ev.text = q,
           q = r + 1 => (said[q].kind = "delta" <=> ev.kind = "delta"),
           q = r + 1 => (IsMessage(q) <=> ev.kind = "message")
    PROVE  DeltasTo(q)' /\ MessagesTo(q)'
<1>0. missed \in Nat /\ Len(chan) \in Nat
  BY LenProperties DEF Types
<1>1. /\ DOMAIN chan' = 1 .. Len(chan) + 1 /\ DOMAIN chan = 1 .. Len(chan)
      /\ chan'[Len(chan) + 1] = ev /\ \A i \in 1 .. Len(chan) : chan'[i] = chan[i]
      /\ UNCHANGED <<deltas, final>>
  BY SendsTypes
<1>2. \A k \in missed + 1 .. q : k \in missed + 1 .. r \/ (k = q /\ q = r + 1)
  BY <1>0
<1>3. \A k \in missed + 1 .. r : k \in missed + 1 .. q /\ k < r + 1
  BY <1>0
<1>4. ASSUME NEW i \in DOMAIN chan'
      PROVE  \/ i \in DOMAIN chan /\ chan'[i] = chan[i]
             \/ i = Len(chan) + 1 /\ chan'[i] = ev
  BY <1>0, <1>1
<1>5. \A kind, k : Sent(kind, k) => \E i \in DOMAIN chan' : chan'[i].kind = kind /\ chan'[i].text = k
  BY <1>0, <1>1 DEF Sent
<1>6. q = r + 1 => q \in missed + 1 .. q
  BY <1>0
<1>7. DeltasTo(q)'
  <2>1. deltas' = shown'
    BY <1>1 DEF DeltasTo
  <2>2. ASSUME NEW k \in missed + 1 .. q, said[k].kind = "delta"
        PROVE  k \in Range(shown) \/ \E i \in DOMAIN chan' : chan'[i].kind = "delta" /\ chan'[i].text = k
    <3>1. CASE k \in missed + 1 .. r
      BY <1>5, <2>2, <3>1 DEF DeltasTo
    <3>2. CASE k = q /\ q = r + 1
      BY <1>0, <1>1, <2>2, <3>2
    <3>3. QED BY <1>2, <3>1, <3>2
  <2>3. \A i \in DOMAIN shown : shown[i] \in missed + 1 .. q /\ said[shown[i]].kind = "delta"
    BY <1>3 DEF DeltasTo
  <2>4. ASSUME NEW i \in DOMAIN chan', chan'[i].kind = "delta"
        PROVE  /\ chan'[i].text \in missed + 1 .. q
               /\ said[chan'[i].text].kind = "delta"
               /\ \A j \in DOMAIN shown : shown[j] < chan'[i].text
               /\ \A j \in DOMAIN chan' :
                     chan'[j].kind = "delta" /\ i < j => chan'[i].text < chan'[j].text
    <3>1. CASE i \in DOMAIN chan /\ chan'[i] = chan[i]
      <4>1. /\ chan[i].text \in missed + 1 .. r /\ said[chan[i].text].kind = "delta"
            /\ \A j \in DOMAIN shown : shown[j] < chan[i].text
            /\ \A j \in DOMAIN chan : chan[j].kind = "delta" /\ i < j => chan[i].text < chan[j].text
        BY <2>4, <3>1 DEF DeltasTo
      <4>2. ASSUME NEW j \in DOMAIN chan', chan'[j].kind = "delta", i < j
            PROVE  chan[i].text < chan'[j].text
        <5>1. CASE j \in DOMAIN chan /\ chan'[j] = chan[j]
          BY <4>1, <4>2, <5>1
        <5>2. CASE chan'[j] = ev
          BY <1>3, <4>1, <4>2, <5>2
        <5>3. QED BY <1>4, <4>2, <5>1, <5>2
      <4>3. QED BY <1>3, <3>1, <4>1, <4>2
    <3>2. CASE i = Len(chan) + 1 /\ chan'[i] = ev
      <4>1. q = r + 1 /\ ev.text = q /\ said[q].kind = "delta"
        BY <2>4, <3>2
      <4>2. \A j \in DOMAIN shown : shown[j] < q
        BY <1>3, <4>1 DEF DeltasTo
      <4>3. \A j \in DOMAIN chan' : ~ (i < j)
        BY <1>0, <1>1, <3>2
      <4>4. QED BY <1>6, <3>2, <4>1, <4>2, <4>3
    <3>3. QED BY <1>4, <2>4, <3>1, <3>2
  <2>5. QED BY <2>1, <2>2, <2>3, <2>4 DEF DeltasTo, Sent
<1>8. MessagesTo(q)'
  <2>1. final # None => final \in missed + 1 .. q /\ IsMessage(final) /\ final < r + 1
    BY <1>3 DEF MessagesTo
  <2>2. ASSUME NEW k \in missed + 1 .. q, IsMessage(k)
        PROVE  \/ final # None /\ k <= final
               \/ \E i \in DOMAIN chan' : chan'[i].kind = "message" /\ chan'[i].text = k
    <3>1. CASE k \in missed + 1 .. r
      BY <1>5, <2>2, <3>1 DEF MessagesTo
    <3>2. CASE k = q /\ q = r + 1
      BY <1>0, <1>1, <2>2, <3>2
    <3>3. QED BY <1>2, <3>1, <3>2
  <2>4. ASSUME NEW i \in DOMAIN chan', chan'[i].kind = "message"
        PROVE  /\ chan'[i].text \in missed + 1 .. q
               /\ IsMessage(chan'[i].text)
               /\ final # None => final < chan'[i].text
               /\ \A j \in DOMAIN chan' :
                     chan'[j].kind = "message" /\ i < j => chan'[i].text < chan'[j].text
    <3>1. CASE i \in DOMAIN chan /\ chan'[i] = chan[i]
      <4>1. /\ chan[i].text \in missed + 1 .. r /\ IsMessage(chan[i].text)
            /\ final # None => final < chan[i].text
            /\ \A j \in DOMAIN chan : chan[j].kind = "message" /\ i < j => chan[i].text < chan[j].text
        BY <2>4, <3>1 DEF MessagesTo
      <4>2. ASSUME NEW j \in DOMAIN chan', chan'[j].kind = "message", i < j
            PROVE  chan[i].text < chan'[j].text
        <5>1. CASE j \in DOMAIN chan /\ chan'[j] = chan[j]
          BY <4>1, <4>2, <5>1
        <5>2. CASE chan'[j] = ev
          BY <1>3, <4>1, <4>2, <5>2
        <5>3. QED BY <1>4, <4>2, <5>1, <5>2
      <4>3. QED BY <1>3, <3>1, <4>1, <4>2
    <3>2. CASE i = Len(chan) + 1 /\ chan'[i] = ev
      <4>1. q = r + 1 /\ ev.text = q /\ IsMessage(q)
        BY <2>4, <3>2
      <4>3. \A j \in DOMAIN chan' : ~ (i < j)
        BY <1>0, <1>1, <3>2
      <4>4. QED BY <1>6, <2>1, <3>2, <4>1, <4>3
    <3>3. QED BY <1>4, <2>4, <3>1, <3>2
  <2>5. \A k : IsMessage(k)' <=> IsMessage(k)
    BY DEF IsMessage
  <2>6. QED BY <1>1, <2>1, <2>2, <2>4, <2>5 DEF MessagesTo, Sent, IsMessage
<1>9. QED BY <1>7, <1>8

-----------------------------------------------------------------------------
\* The invariant of the stream, action by action.

LEMMA StreamByServer ==
    ASSUME Types, SaidInv, PipeInv, StreamInv,
           \/ \E t \in 1 .. Turns : Answers(t) \/ TellsStale(t)
           \/ Tells \/ Finishes \/ Garbles \/ Exits
    PROVE  StreamInv'
<1>0. missed \in Nat /\ Len(said) \in Nat
  BY LenProperties DEF Types
<1>1. PICK r \in 0 .. Len(said) : ReaderInv(r) /\ TaskInv(r)
  BY DEF StreamInv
<1>2. task = "listening" => reader # "asking"
  BY <1>1 DEF ReaderInv
<1>3. CASE (\E t \in 1 .. Turns : Answers(t) \/ TellsStale(t)) \/ Garbles
  <2>1. /\ UNCHANGED <<alive, said, turn, reader, taskVars, storeVars, missed>>
        /\ alive /\ (trouble => trouble') /\ (ReadUpTo(r) => ReadUpTo(r)')
    BY <1>3, OthersWritten
  <2>2. TaskInv(r)'
    BY <1>1, <1>2, <2>1, TaskUntouched DEF ReaderInv, storeVars
  <2>3. ReaderInv(r)'
    BY <1>1, <2>1 DEF ReaderInv, GoesOnTo, storeVars, taskVars
  <2>4. r \in 0 .. Len(said')
    BY <2>1
  <2>5. QED BY <2>2, <2>3, <2>4 DEF StreamInv
<1>4. CASE Tells \/ Finishes
  <2>1. /\ UNCHANGED <<alive, turn, reader, taskVars, storeVars, missed, trouble>>
        /\ (ReadUpTo(r) => ReadUpTo(r)') /\ Len(said') = Len(said) + 1
        /\ \A i \in 1 .. Len(said) : said'[i] = said[i]
    BY <1>4, NextWritten
  <2>2. TaskInv(r)'
    BY <1>1, <1>2, <2>1, TaskUntouched DEF ReaderInv, storeVars
  <2>3. ReaderInv(r)'
    <3>1. GoesOnTo(r) => GoesOnTo(r)'
      BY <1>0, <2>1 DEF GoesOnTo
    <3>2. QED BY <1>0, <1>1, <2>1, <3>1 DEF ReaderInv, storeVars, taskVars
  <2>4. r \in 0 .. Len(said')
    BY <1>0, <2>1
  <2>5. QED BY <2>2, <2>3, <2>4 DEF StreamInv
<1>5. CASE Exits
  <2>1. /\ UNCHANGED <<pipe, said, turn, reader, taskVars, storeVars, missed>> /\ trouble'
    BY <1>5 DEF Exits
  <2>2. TaskInv(r)'
    BY <1>1, <1>2, <2>1, TaskUntouched DEF ReaderInv, storeVars
  <2>3. ReadUpTo(r) => ReadUpTo(r)'
    BY <2>1, PipeSame
  <2>4. ReaderInv(r)'
    BY <1>1, <2>1, <2>3 DEF ReaderInv, GoesOnTo, storeVars, taskVars
  <2>5. r \in 0 .. Len(said')
    BY <2>1
  <2>6. QED BY <2>2, <2>4, <2>5 DEF StreamInv
<1>6. QED BY <1>3, <1>4, <1>5

LEMMA StreamByStart ==
    ASSUME Types, SaidInv, PipeInv, StreamInv,
           Start \/ StartTimesOut \/ EndElsewhere \/ ReadsResponse
    PROVE  StreamInv'
<1>0. missed \in Nat /\ Len(said) \in Nat
  BY LenProperties DEF Types
<1>1. PICK r \in 0 .. Len(said) : ReaderInv(r) /\ TaskInv(r)
  BY DEF StreamInv
<1>2. CASE Start
  <2>1. /\ said' = <<>> /\ Len(said') = 0 /\ missed' = 0 /\ reader' = "asking" /\ alive'
        /\ status' = "active" /\ shown' = <<>> /\ task = "none"
        /\ UNCHANGED <<chan, task, deltas, final>>
    BY <1>2 DEF Start, taskVars
  <2>2. ReadUpTo(0)'
    BY <2>1 DEF ReadUpTo
  <2>3. ReaderInv(0)'
    BY <2>1, <2>2 DEF ReaderInv
  <2>4. TaskInv(0)'
    BY <1>1, <2>1 DEF TaskInv
  <2>5. 0 \in 0 .. Len(said')
    BY <2>1
  <2>6. QED BY <2>3, <2>4, <2>5 DEF StreamInv
<1>3. CASE StartTimesOut \/ Rejected \/ StartBroken
  <2>1. /\ UNCHANGED <<said, missed, chan, task, deltas, final>>
        /\ reader = "asking" /\ reader' = "idle" /\ status' # "active"
    BY <1>3 DEF StartTimesOut, Rejected, StartBroken, Asking, Shut, FailsInStore, taskVars
  <2>2. task = "none"
    BY <1>1, <2>1 DEF ReaderInv
  <2>3. ReaderInv(r)'
    BY <1>1, <2>1 DEF ReaderInv
  <2>4. TaskInv(r)'
    BY <1>1, <2>1, <2>2 DEF TaskInv
  <2>5. r \in 0 .. Len(said')
    BY <2>1
  <2>6. QED BY <2>3, <2>4, <2>5 DEF StreamInv
<1>4. CASE EndElsewhere
  <2>1. /\ UNCHANGED <<alive, pipe, said, turn, reader, taskVars, shown, missed, trouble>>
        /\ task = "listening" /\ status' = "ended"
    BY <1>4 DEF EndElsewhere, serverVars
  <2>2. reader # "asking"
    BY <1>1, <2>1 DEF ReaderInv
  <2>3. TaskInv(r)'
    BY <1>1, <2>1, <2>2, TaskUntouched DEF ReaderInv
  <2>4. ReadUpTo(r) => ReadUpTo(r)'
    BY <2>1, PipeSame
  <2>5. ReaderInv(r)'
    BY <1>1, <2>1, <2>2, <2>4 DEF ReaderInv, GoesOnTo
  <2>6. r \in 0 .. Len(said')
    BY <2>1
  <2>7. QED BY <2>3, <2>5, <2>6 DEF StreamInv
<1>5. CASE SkipLine
  <2>1. /\ UNCHANGED <<alive, said, turn, reader, chan, task, deltas, final, storeVars, trouble>>
        /\ reader = "asking" /\ pipe # <<>> /\ Reads
        /\ missed' = IF Head(pipe).turn = turn THEN missed + 1 ELSE missed
    BY <1>5 DEF SkipLine, Asking, Keep, taskVars
  <2>2. /\ r = missed /\ ReadUpTo(r) /\ (alive \/ trouble) /\ task = "none"
        /\ status = "active" /\ shown = <<>>
    BY <1>1, <2>1 DEF ReaderInv
  <2>3. IF IsOfTurn(Head(pipe)) THEN r < Len(said) /\ ReadUpTo(r + 1)' ELSE ReadUpTo(r)'
    BY <2>1, <2>2, PipeRead
  <2>4. IsOfTurn(Head(pipe)) <=> Head(pipe).turn = turn
    <3>1. 1 \in DOMAIN pipe /\ Head(pipe) = pipe[1]
      BY <2>1, TailTypes DEF Types
    <3>2. Head(pipe).kind # "bad" /\ ~IsAnswer(Head(pipe))
      BY <1>5 DEF SkipLine
    <3>3. QED BY <3>1, <3>2 DEF PipeInv, IsAnswer, IsOfTurn
  <2>5. PICK q \in 0 .. Len(said) : q = missed' /\ ReadUpTo(q)'
    <3>1. CASE IsOfTurn(Head(pipe))
      BY <1>0, <2>1, <2>2, <2>3, <2>4, <3>1
    <3>2. CASE ~IsOfTurn(Head(pipe))
      BY <1>0, <2>1, <2>2, <2>3, <2>4, <3>2
    <3>3. QED BY <3>1, <3>2
  <2>6. ReaderInv(q)'
    <3>1. missed' <= Len(said') /\ (alive' \/ trouble') /\ reader' = "asking" /\ task' = "none"
          /\ status' = "active" /\ shown' = <<>> /\ q \in Nat
      BY <1>0, <2>1, <2>2, <2>5 DEF storeVars
    <3>2. QED BY <2>1, <2>5, <3>1 DEF ReaderInv
  <2>7. TaskInv(q)'
    BY <1>1, <2>1, <2>2 DEF TaskInv
  <2>8. q \in 0 .. Len(said')
    BY <2>1
  <2>9. QED BY <2>6, <2>7, <2>8 DEF StreamInv
<1>6. CASE Accepted
  <2>1. /\ UNCHANGED <<alive, said, turn, missed, chan, deltas, final, storeVars, trouble>>
        /\ reader = "asking" /\ pipe # <<>> /\ Reads /\ Head(pipe).kind = "response"
        /\ reader' = "streaming" /\ task' = "listening"
    BY <1>6 DEF Accepted, Asking, Answered, Keep
  <2>2. /\ r = missed /\ ReadUpTo(r) /\ (alive \/ trouble) /\ task = "none"
        /\ status = "active" /\ shown = <<>>
    BY <1>1, <2>1 DEF ReaderInv
  <2>3. ~IsOfTurn(Head(pipe))
    <3>1. 1 \in DOMAIN pipe /\ Head(pipe) = pipe[1] /\ Head(pipe).text \in Nat
      BY <2>1, TailTypes, LineTypes DEF Types
    <3>2. IsOfTurn(Head(pipe)) => /\ Head(pipe).text \in 1 .. Len(said)
                                  /\ Head(pipe) = said[Head(pipe).text]
      BY <3>1 DEF PipeInv, IsOfTurn
    <3>3. QED BY <2>1, <3>2 DEF SaidInv, Said
  <2>4. ReadUpTo(r)'
    BY <2>1, <2>2, <2>3, PipeRead
  <2>5. GoesOnTo(r)' /\ GoesOnTo(r - 1)'
    BY <1>0, <2>1, <2>2 DEF GoesOnTo
  <2>6. ReaderInv(r)'
    BY <1>1, <2>1, <2>2, <2>4, <2>5 DEF ReaderInv
  <2>7. chan' = <<>> /\ deltas' = <<>> /\ final' = None /\ shown' = <<>> /\ DOMAIN <<>> = {}
    BY <1>1, <2>1, <2>2 DEF TaskInv, storeVars
  <2>8. missed' + 1 .. r = {}
    BY <1>0, <2>1, <2>2
  <2>9. DeltasTo(r)' /\ MessagesTo(r)' /\ EndAt(r)'
    BY <2>7, <2>8 DEF DeltasTo, MessagesTo, EndAt
  <2>10. TaskInv(r)'
    BY <1>0, <2>1, <2>2, <2>5, <2>9 DEF TaskInv, storeVars
  <2>11. r \in 0 .. Len(said')
    BY <2>1
  <2>12. QED BY <2>6, <2>10, <2>11 DEF StreamInv
<1>7. QED BY <1>2, <1>3, <1>4, <1>5, <1>6 DEF ReadsResponse

\* The line a stream reads, if it names the turn.
LEMMA HeadOfStream ==
    ASSUME Types, SaidInv, PipeInv, pipe # <<>>, reader = "streaming",
           NEW r \in 0 .. Len(said), ReaderInv(r)
    PROVE  /\ Head(pipe) \in Lines /\ Head(pipe).text \in Nat
           /\ IsOfTurn(Head(pipe)) =>
                 /\ Head(pipe) = said[r + 1] /\ Head(pipe).text = r + 1
                 /\ r + 1 \in Heard /\ r + 1 \in 0 .. Len(said)
           /\ Head(pipe).turn = turn /\ ~IsOfTurn(Head(pipe)) =>
                 Head(pipe).kind \in {"response", "rejected", "bad"}
           /\ Head(pipe).kind = "bad" => trouble
<1>1. /\ Head(pipe) \in Lines /\ Head(pipe).text \in Nat /\ Head(pipe) = pipe[1]
      /\ 1 \in DOMAIN pipe
  BY TailTypes, LineTypes DEF Types
<1>2. /\ Head(pipe).turn = turn /\ ~IsOfTurn(Head(pipe)) =>
            Head(pipe).kind \in {"response", "rejected", "bad"}
      /\ Head(pipe).kind = "bad" => trouble
  BY <1>1 DEF PipeInv
<1>3. missed \in Nat /\ Len(said) \in Nat
  BY LenProperties DEF Types
<1>4. ASSUME IsOfTurn(Head(pipe))
      PROVE  /\ Head(pipe) = said[r + 1] /\ Head(pipe).text = r + 1
             /\ r + 1 \in Heard /\ r + 1 \in 0 .. Len(said)
  <2>1. missed <= r /\ ReadUpTo(r) /\ GoesOnTo(r)
    BY DEF ReaderInv
  <2>2. r < Len(said) /\ Head(pipe) = said[r + 1] /\ Head(pipe).text = r + 1
    BY <1>4, <2>1, HeadIsNext
  <2>3. r + 1 \in missed + 1 .. Len(said) /\ (r + 1) - 1 = r
    BY <1>3, <2>1, <2>2
  <2>4. r + 1 \in Heard
    BY <2>1, <2>3 DEF Heard, GoesOnTo
  <2>5. QED BY <1>3, <2>2, <2>3, <2>4
<1>5. QED BY <1>1, <1>2, <1>4

LEMMA StreamByIgnored ==
    ASSUME Types, SaidInv, PipeInv, StreamInv, ReadIgnored
    PROVE  StreamInv'
<1>0. missed \in Nat /\ Len(said) \in Nat
  BY LenProperties DEF Types
<1>1. PICK r \in 0 .. Len(said) : ReaderInv(r) /\ TaskInv(r)
  BY DEF StreamInv
<1>2. /\ UNCHANGED <<alive, said, turn, reader, taskVars, storeVars, missed, trouble>>
      /\ pipe # <<>> /\ Reads /\ reader = "streaming"
      /\ ~Breaks(Head(pipe)) /\ ~Emits(Head(pipe))
  BY DEF ReadIgnored, Streaming, Keep
<1>3. missed <= r /\ ReadUpTo(r) /\ (alive \/ trouble) /\ GoesOnTo(r) /\ missed <= Len(said)
  BY <1>1, <1>2 DEF ReaderInv
<1>4. CASE ~IsOfTurn(Head(pipe))
  <2>1. ReadUpTo(r)'
    BY <1>2, <1>3, <1>4, PipeRead
  <2>2. TaskInv(r)'
    BY <1>1, <1>2, <1>3, TaskUntouched DEF storeVars
  <2>3. ReaderInv(r)'
    BY <1>1, <1>2, <1>3, <2>1 DEF ReaderInv, GoesOnTo
  <2>4. r \in 0 .. Len(said')
    BY <1>2
  <2>5. QED BY <2>2, <2>3, <2>4 DEF StreamInv
<1>5. CASE IsOfTurn(Head(pipe))
  <2>1. ReadUpTo(r + 1)' /\ Head(pipe) = said[r + 1] /\ r + 1 \in 0 .. Len(said)
    BY <1>1, <1>2, <1>3, <1>5, PipeRead, HeadOfStream
  <2>2. said[r + 1].kind \notin Ends \cup {"delta"} /\ ~IsMessage(r + 1)
    BY <1>2, <1>5, <2>1 DEF Emits, Maps, IsOther, IsOfTurn, IsMessage, Ends
  <2>3. \A k \in missed + 1 .. r + 1 : k \in missed + 1 .. r \/ k = r + 1
    BY <1>0
  <2>4. GoesOnTo(r + 1)'
    BY <1>2, <1>3, <2>2, <2>3 DEF GoesOnTo
  <2>5. ReaderInv(r + 1)'
    BY <1>0, <1>2, <1>3, <2>1, <2>4 DEF ReaderInv
  <2>6. UNCHANGED <<chan, task, deltas, final, status, shown>>
    BY <1>2 DEF taskVars, storeVars
  <2>7. TaskInv(r + 1)'
    <3>1. CASE task = "none"
      BY <1>1, <1>2, <2>6, <3>1 DEF TaskInv
    <3>2. CASE task = "listening"
      <4>1. /\ status \in {"active", "ended"}
            /\ DeltasTo(r) /\ MessagesTo(r) /\ EndAt(r)
        BY <1>1, <3>2 DEF TaskInv
      <4>2. DeltasTo(r + 1)' /\ MessagesTo(r + 1)'
        BY <1>2, <1>3, <2>2, <2>6, <4>1, PassedOver
      <4>3. EndAt(r + 1)'
        <5>1. Cause <=> Cause'
          BY <1>2, HeardSame DEF Cause
        <5>2. \A i \in DOMAIN chan : /\ chan[i].kind # "completed"
                                     /\ chan[i].kind \in {"failed", "error"} => Cause
          BY <1>2, <4>1 DEF EndAt
        <5> HIDE DEF Cause
        <5>3. QED BY <2>6, <5>1, <5>2 DEF EndAt
      <4>4. GoesOnTo((r + 1) - 1)'
        BY <1>2, <1>3 DEF GoesOnTo
      <4>5. missed' <= r + 1
        BY <1>0, <1>2, <1>3
      <4>6. QED BY <2>6, <3>2, <4>1, <4>2, <4>3, <4>4, <4>5 DEF TaskInv
    <3>3. QED BY <3>1, <3>2 DEF Types
  <2>8. r + 1 \in 0 .. Len(said')
    BY <1>2, <2>1
  <2>9. QED BY <2>5, <2>7, <2>8 DEF StreamInv
<1>6. QED BY <1>4, <1>5

LEMMA StreamByEvent ==
    ASSUME Types, SaidInv, PipeInv, StreamInv, ReadEvent
    PROVE  StreamInv'
<1>0. missed \in Nat /\ Len(said) \in Nat
  BY LenProperties DEF Types
<1>1. PICK r \in 0 .. Len(said) : ReaderInv(r) /\ TaskInv(r)
  BY DEF StreamInv
<1>2. /\ UNCHANGED <<said, turn, storeVars, missed, trouble>>
      /\ pipe # <<>> /\ reader = "streaming"
      /\ Emits(Head(pipe)) /\ ~IsEnd(Head(pipe)) /\ Sends(Maps(Head(pipe))[1])
      /\ IF task = "listening" THEN Reads /\ Keep /\ UNCHANGED reader ELSE Kill /\ Shut
  BY DEF ReadEvent, Streaming
<1>3. missed <= r /\ ReadUpTo(r) /\ (alive \/ trouble) /\ GoesOnTo(r) /\ missed <= Len(said)
  BY <1>1, <1>2 DEF ReaderInv
<1>4. Head(pipe) \in Lines /\ Maps(Head(pipe))[1] \in Events
  BY <1>1, <1>2, HeadOfStream, MapsTypes
<1>5. CASE task = "none"
  <2>1. reader' = "idle" /\ UNCHANGED <<chan, task, deltas, final>>
    BY <1>2, <1>4, <1>5, SendsTypes DEF Shut
  <2>2. TaskInv(r)'
    BY <1>1, <1>2, <1>5, <2>1 DEF TaskInv, storeVars
  <2>3. ReaderInv(r)'
    BY <1>2, <1>3, <2>1 DEF ReaderInv
  <2>4. r \in 0 .. Len(said')
    BY <1>2
  <2>5. QED BY <2>2, <2>3, <2>4 DEF StreamInv
<1>6. CASE task = "listening"
  <2> DEFINE ev == Maps(Head(pipe))[1]
  <2>1. /\ Reads /\ UNCHANGED <<alive, reader, task, deltas, final, status, shown>>
        /\ Len(chan) \in Nat
        /\ DOMAIN chan' = 1 .. Len(chan) + 1 /\ DOMAIN chan = 1 .. Len(chan)
        /\ chan'[Len(chan) + 1] = ev /\ \A i \in 1 .. Len(chan) : chan'[i] = chan[i]
    BY <1>2, <1>4, <1>6, SendsTypes, LenProperties DEF Keep, storeVars, Types
  <2>2. /\ status \in {"active", "ended"} /\ DeltasTo(r) /\ MessagesTo(r) /\ EndAt(r)
    BY <1>1, <1>6 DEF TaskInv
  <2>3. PICK q \in {r, r + 1} :
            /\ q \in 0 .. Len(said) /\ ReadUpTo(q)' /\ GoesOnTo(q)
            /\ ev.kind \in {"delta", "message", "noted"}
            /\ ev.kind \in {"delta", "message"} => q = r + 1 /\ ev.text = q
            /\ q = r + 1 => (said[q].kind = "delta" <=> ev.kind = "delta")
            /\ q = r + 1 => (IsMessage(q) <=> ev.kind = "message")
    <3>1. CASE ~IsOfTurn(Head(pipe))
      <4>1. Head(pipe).kind = "noted"
        BY <1>1, <1>2, <3>1, HeadOfStream DEF Emits, IsOther, Maps
      <4>2. ev.kind = "noted"
        BY <4>1 DEF Maps
      <4>3. ReadUpTo(r)'
        BY <1>2, <1>3, <2>1, <3>1, PipeRead
      <4>4. r # r + 1
        OBVIOUS
      <4>5. QED BY <1>3, <4>2, <4>3, <4>4
    <3>2. CASE IsOfTurn(Head(pipe))
      <4>1. /\ ReadUpTo(r + 1)' /\ Head(pipe) = said[r + 1] /\ Head(pipe).text = r + 1
            /\ r + 1 \in 0 .. Len(said)
        BY <1>1, <1>2, <1>3, <2>1, <3>2, PipeRead, HeadOfStream
      <4>2. said[r + 1].kind \notin Ends
        BY <1>2, <3>2, <4>1 DEF IsEnd, IsOfTurn
      <4>3. \A k \in missed + 1 .. r + 1 : k \in missed + 1 .. r \/ k = r + 1
        BY <1>0
      <4>4. GoesOnTo(r + 1)
        BY <1>3, <4>2, <4>3 DEF GoesOnTo
      <4>5. /\ ev.kind \in {"delta", "message", "noted"}
            /\ ev.kind \in {"delta", "message"} => ev.text = r + 1
            /\ said[r + 1].kind = "delta" <=> ev.kind = "delta"
            /\ IsMessage(r + 1) <=> ev.kind = "message"
        <5>1. CASE Head(pipe).kind = "delta"
          <6>1. ev = [kind |-> "delta", text |-> Head(pipe).text]
            BY <5>1 DEF Maps
          <6>2. QED BY <4>1, <5>1, <6>1 DEF IsMessage
        <5>2. CASE Head(pipe).kind = "item"
          <6>1. ev = [kind |-> "message", text |-> Head(pipe).text]
                /\ Head(pipe).phase # "commentary"
            BY <1>2, <5>2 DEF Maps, Emits
          <6>2. QED BY <4>1, <5>2, <6>1 DEF IsMessage
        <5>3. CASE Head(pipe).kind = "noted"
          <6>1. ev = [kind |-> "noted"]
            BY <5>3 DEF Maps
          <6>2. QED BY <4>1, <5>3, <6>1 DEF IsMessage
        <5>4. Head(pipe).kind \in {"delta", "item", "noted"}
          BY <1>2, <4>1, <4>2 DEF Emits, Maps, Ends
        <5>5. QED BY <5>1, <5>2, <5>3, <5>4
      <4>6. QED BY <4>1, <4>4, <4>5
    <3>3. QED BY <3>1, <3>2
  <2>4. DeltasTo(q)' /\ MessagesTo(q)'
    <3>1. UNCHANGED <<said, missed, shown>> /\ r \in Nat
      BY <1>2, <2>1
    <3>2. ev \in Events /\ Sends(ev)
      BY <1>2, <1>4
    <3> HIDE DEF ev
    <3>3. QED BY <1>3, <1>6, <2>2, <2>3, <3>1, <3>2, SentOn
  <2>5. EndAt(q)'
    <3>1. Cause <=> Cause'
      BY <1>2, HeardSame DEF Cause
    <3>2. \A i \in DOMAIN chan : /\ chan[i].kind # "completed"
                                 /\ chan[i].kind \in {"failed", "error"} => Cause
      BY <1>2, <2>2 DEF EndAt
    <3>3. \A i \in DOMAIN chan' : \/ i \in DOMAIN chan /\ chan'[i] = chan[i]
                                  \/ chan'[i] = ev
      BY <2>1
    <3>4. ev.kind \notin {"completed", "failed", "error"}
      BY <2>3
    <3> HIDE DEF Cause, ev
    <3>5. QED BY <3>1, <3>2, <3>3, <3>4 DEF EndAt
  <2>6. missed <= q /\ GoesOnTo(q - 1)
    <3>1. missed <= q /\ q - 1 \in Int /\ \A k \in missed + 1 .. q - 1 : k \in missed + 1 .. q
      BY <1>0, <1>3
    <3>2. QED BY <2>3, <3>1 DEF GoesOnTo
  <2>7. TaskInv(q)'
    <3>1. GoesOnTo(q - 1)'
      BY <1>2, <2>6 DEF GoesOnTo
    <3>2. QED BY <1>2, <1>6, <2>1, <2>2, <2>4, <2>5, <2>6, <3>1 DEF TaskInv
  <2>8. ReaderInv(q)'
    <3>1. GoesOnTo(q)'
      BY <1>2, <2>3 DEF GoesOnTo
    <3>2. q <= Len(said')
      BY <1>0, <1>2, <2>3
    <3>3. QED BY <1>2, <1>3, <2>1, <2>3, <2>6, <3>1, <3>2 DEF ReaderInv
  <2>9. q \in 0 .. Len(said')
    BY <1>2, <2>3
  <2>10. QED BY <2>7, <2>8, <2>9 DEF StreamInv
<1>7. QED BY <1>5, <1>6 DEF Types

LEMMA StreamByEnd ==
    ASSUME Types, SaidInv, PipeInv, StreamInv, ReadEnd
    PROVE  StreamInv'
<1>0. missed \in Nat /\ Len(said) \in Nat
  BY LenProperties DEF Types
<1>1. PICK r \in 0 .. Len(said) : ReaderInv(r) /\ TaskInv(r)
  BY DEF StreamInv
<1>2. /\ UNCHANGED <<said, turn, status, shown, missed, trouble>>
      /\ pipe # <<>> /\ reader = "streaming" /\ reader' = "idle"
      /\ IsEnd(Head(pipe)) /\ Emits(Head(pipe)) /\ Sends(Maps(Head(pipe))[1])
  BY DEF ReadEnd, Streaming, Shut, storeVars
<1>3. missed <= r /\ GoesOnTo(r)
  BY <1>1, <1>2 DEF ReaderInv
<1>4. /\ Head(pipe) \in Lines /\ Head(pipe) = said[r + 1] /\ Head(pipe).text = r + 1
      /\ r + 1 \in Heard /\ r + 1 \in 0 .. Len(said)
  BY <1>1, <1>2, HeadOfStream DEF IsEnd, Ends
<1>5. ReaderInv(r + 1)'
  BY <1>0, <1>2, <1>3, <1>4 DEF ReaderInv
<1>6. CASE task = "none"
  <2>1. UNCHANGED <<chan, task, deltas, final>>
    BY <1>2, <1>4, <1>6, MapsTypes, SendsTypes
  <2>2. TaskInv(r + 1)'
    BY <1>1, <1>2, <1>6, <2>1 DEF TaskInv
  <2>3. r + 1 \in 0 .. Len(said')
    BY <1>2, <1>4
  <2>4. QED BY <1>5, <2>2, <2>3 DEF StreamInv
<1>7. CASE task = "listening"
  <2> DEFINE ev == Maps(Head(pipe))[1]
  <2>1. /\ UNCHANGED <<task, deltas, final>> /\ Len(chan) \in Nat /\ Len(chan') = Len(chan) + 1
        /\ DOMAIN chan' = 1 .. Len(chan) + 1 /\ DOMAIN chan = 1 .. Len(chan)
        /\ chan'[Len(chan) + 1] = ev /\ \A i \in 1 .. Len(chan) : chan'[i] = chan[i]
        /\ ev \in Events
    BY <1>2, <1>4, <1>7, MapsTypes, SendsTypes, LenProperties DEF Types
  <2>2. /\ status \in {"active", "ended"} /\ DeltasTo(r) /\ MessagesTo(r) /\ EndAt(r)
    BY <1>1, <1>7 DEF TaskInv
  <2>3. /\ said[r + 1].kind \in {"completed", "failed"} /\ ev.kind = said[r + 1].kind
        /\ ev.kind = "completed" => ev.text = CompletedText(said[r + 1])
    <3>1. CASE Head(pipe).kind = "completed"
      <4>1. ev = [kind |-> "completed", text |-> CompletedText(Head(pipe))]
        BY <3>1 DEF Maps
      <4>2. QED BY <1>4, <3>1, <4>1
    <3>2. CASE Head(pipe).kind = "failed"
      <4>1. ev = [kind |-> "failed"]
        BY <3>2 DEF Maps
      <4>2. QED BY <1>4, <3>2, <4>1
    <3>3. QED BY <1>2, <3>1, <3>2 DEF IsEnd, Ends
  <2>4. DeltasTo(r + 1)' /\ MessagesTo(r + 1)'
    <3>1. UNCHANGED <<said, missed, shown>> /\ r \in Nat
      BY <1>2
    <3>2. ~IsMessage(r + 1) /\ said[r + 1].kind # "delta" /\ ev.kind \notin {"delta", "message"}
      BY <2>3 DEF IsMessage
    <3>3. Sends(ev)
      BY <1>2
    <3> HIDE DEF ev
    <3>4. QED BY <1>3, <1>7, <2>1, <2>2, <3>1, <3>2, <3>3, SentOn
  <2>5. EndAt(r + 1)'
    <3>1. Cause <=> Cause'
      BY <1>2, HeardSame DEF Cause
    <3>2. said[r + 1].kind = "failed" => Cause
      BY <1>4 DEF Cause
    <3>3. \A i \in DOMAIN chan : /\ chan[i].kind # "completed"
                                 /\ chan[i].kind \in {"failed", "error"} => Cause
      BY <1>2, <2>2 DEF EndAt
    <3>4. \A i \in DOMAIN chan' : \/ i \in DOMAIN chan /\ chan'[i] = chan[i]
                                  \/ i = Len(chan') /\ chan'[i] = ev
      BY <2>1
    <3>5. r + 1 > missed
      BY <1>0, <1>3
    <3> HIDE DEF Cause, ev
    <3>6. ASSUME NEW i \in DOMAIN chan'
          PROVE  /\ chan'[i].kind = "completed" =>
                       /\ i = Len(chan') /\ reader' = "idle"
                       /\ r + 1 > missed' /\ said'[r + 1].kind = "completed"
                       /\ chan'[i].text = CompletedText(said'[r + 1])
                 /\ chan'[i].kind \in {"failed", "error"} => Cause'
      <4>1. CASE i \in DOMAIN chan /\ chan'[i] = chan[i]
        BY <3>1, <3>3, <4>1
      <4>2. CASE i = Len(chan') /\ chan'[i] = ev
        BY <1>2, <2>3, <3>1, <3>2, <3>5, <4>2
      <4>3. QED BY <3>4, <3>6, <4>1, <4>2
    <3>7. QED BY <3>6 DEF EndAt
  <2>6. missed' <= r + 1 /\ GoesOnTo((r + 1) - 1)'
    BY <1>0, <1>2, <1>3 DEF GoesOnTo
  <2>7. TaskInv(r + 1)'
    BY <1>2, <1>7, <2>1, <2>2, <2>4, <2>5, <2>6 DEF TaskInv
  <2>8. r + 1 \in 0 .. Len(said')
    BY <1>2, <1>4
  <2>9. QED BY <1>5, <2>7, <2>8 DEF StreamInv
<1>8. QED BY <1>6, <1>7 DEF Types

LEMMA StreamByBroken ==
    ASSUME Types, SaidInv, PipeInv, StreamInv, ReadBroken
    PROVE  StreamInv'
<1>0. missed \in Nat /\ Len(said) \in Nat
  BY LenProperties DEF Types
<1>1. PICK r \in 0 .. Len(said) : ReaderInv(r) /\ TaskInv(r)
  BY DEF StreamInv
<1>2. /\ UNCHANGED <<said, turn, status, shown, missed, trouble>>
      /\ IF pipe = <<>> THEN ~alive ELSE Breaks(Head(pipe))
      /\ reader = "streaming" /\ reader' = "idle" /\ Sends([kind |-> "error"])
  BY DEF ReadBroken, Streaming, Shut, storeVars
<1>3. missed <= r /\ GoesOnTo(r) /\ (alive \/ trouble)
  BY <1>1, <1>2 DEF ReaderInv
<1>4. ReaderInv(r)'
  BY <1>1, <1>2 DEF ReaderInv
<1>5. [kind |-> "error"] \in Events
  BY DEF Events, SignEvents
<1>6. Cause
  <2>1. CASE pipe = <<>>
    BY <1>2, <1>3, <2>1 DEF Cause
  <2>2. CASE pipe # <<>> /\ Head(pipe).kind = "bad"
    BY <1>1, <1>2, <2>2, HeadOfStream DEF Cause
  <2>3. CASE pipe # <<>> /\ Head(pipe).kind = "wrong" /\ ~IsOther(Head(pipe))
    <3>1. Head(pipe).turn = turn
      BY <2>3 DEF IsOther
    <3>2. Head(pipe) = said[r + 1] /\ r + 1 \in Heard
      BY <1>1, <1>2, <2>3, <3>1, HeadOfStream
    <3>3. QED BY <2>3, <3>2 DEF Cause
  <2>4. QED BY <1>2, <2>1, <2>2, <2>3 DEF Breaks
<1>7. CASE task = "none"
  <2>1. UNCHANGED <<chan, task, deltas, final>>
    BY <1>2, <1>5, <1>7, SendsTypes
  <2>2. TaskInv(r)'
    BY <1>1, <1>2, <1>7, <2>1 DEF TaskInv
  <2>3. r \in 0 .. Len(said')
    BY <1>2
  <2>4. QED BY <1>4, <2>2, <2>3 DEF StreamInv
<1>8. CASE task = "listening"
  <2> DEFINE ev == [kind |-> "error"]
  <2>1. /\ UNCHANGED <<task, deltas, final>> /\ Len(chan) \in Nat /\ Len(chan') = Len(chan) + 1
        /\ DOMAIN chan' = 1 .. Len(chan) + 1 /\ DOMAIN chan = 1 .. Len(chan)
        /\ chan'[Len(chan) + 1] = ev /\ \A i \in 1 .. Len(chan) : chan'[i] = chan[i]
    BY <1>2, <1>5, <1>8, SendsTypes, LenProperties DEF Types
  <2>2. /\ status \in {"active", "ended"} /\ DeltasTo(r) /\ MessagesTo(r) /\ EndAt(r)
        /\ GoesOnTo(r - 1)
    BY <1>1, <1>8 DEF TaskInv
  <2>3. DeltasTo(r)' /\ MessagesTo(r)'
    <3>1. UNCHANGED <<said, missed, shown>> /\ r \in Nat /\ r # r + 1
      BY <1>2
    <3>2. ev \in Events /\ Sends(ev) /\ ev.kind = "error"
      BY <1>2, <1>5
    <3> HIDE DEF ev
    <3>3. QED BY <1>3, <1>8, <2>2, <3>1, <3>2, SentOn
  <2>4. EndAt(r)'
    <3>1. Cause'
      BY <1>2, <1>6, HeardSame DEF Cause
    <3>2. \A i \in DOMAIN chan : chan[i].kind # "completed"
      BY <1>2, <2>2 DEF EndAt
    <3>3. \A i \in DOMAIN chan' : \/ i \in DOMAIN chan /\ chan'[i] = chan[i]
                                  \/ chan'[i] = ev
      BY <2>1
    <3>4. ev.kind = "error"
      OBVIOUS
    <3> HIDE DEF Cause, ev
    <3>5. \A i \in DOMAIN chan' : chan'[i].kind # "completed"
      BY <3>2, <3>3, <3>4
    <3>6. QED BY <3>1, <3>5 DEF EndAt
  <2>5. GoesOnTo(r - 1)'
    BY <1>2, <2>2 DEF GoesOnTo
  <2>6. TaskInv(r)'
    BY <1>2, <1>3, <1>8, <2>1, <2>2, <2>3, <2>4, <2>5 DEF TaskInv
  <2>7. r \in 0 .. Len(said')
    BY <1>2
  <2>8. QED BY <1>4, <2>6, <2>7 DEF StreamInv
<1>9. QED BY <1>7, <1>8 DEF Types

-----------------------------------------------------------------------------
\* The task takes an event.

LEMMA ChanTail ==
    ASSUME Types, chan # <<>>
    PROVE  /\ Head(chan) \in Events /\ Head(chan) = chan[1]
           /\ Len(chan) \in Nat \ {0} /\ Len(Tail(chan)) = Len(chan) - 1
           /\ DOMAIN Tail(chan) = 1 .. Len(chan) - 1 /\ DOMAIN chan = 1 .. Len(chan)
           /\ \A i \in DOMAIN Tail(chan) :
                 /\ Tail(chan)[i] = chan[i + 1] /\ i \in Nat /\ i > 0
                 /\ i + 1 \in DOMAIN chan
           /\ \A i \in DOMAIN chan : i # 1 =>
                 i - 1 \in DOMAIN Tail(chan) /\ Tail(chan)[i - 1] = chan[i]
<1>1. /\ Head(chan) \in Events /\ Head(chan) = chan[1]
      /\ Len(chan) \in Nat \ {0} /\ Len(Tail(chan)) = Len(chan) - 1
      /\ DOMAIN Tail(chan) = 1 .. Len(chan) - 1 /\ DOMAIN chan = 1 .. Len(chan)
      /\ \A k \in 1 .. Len(chan) - 1 : Tail(chan)[k] = chan[k + 1]
  BY TailTypes DEF Types
<1>2. ASSUME NEW i \in DOMAIN chan, i # 1
      PROVE  i - 1 \in DOMAIN Tail(chan) /\ Tail(chan)[i - 1] = chan[i]
  <2>1. i - 1 \in 1 .. Len(chan) - 1 /\ (i - 1) + 1 = i
    BY <1>1, <1>2
  <2>2. QED BY <1>1, <2>1
<1>3. QED BY <1>1, <1>2

\* The deltas after a step that takes an event other than a delta, and one.
LEMMA DeltasTaken ==
    ASSUME Types, NEW r \in Nat, DeltasTo(r), chan # <<>>, chan' = Tail(chan),
           UNCHANGED <<said, missed>>,
           IF Head(chan).kind = "delta"
           THEN shown' = Append(shown, Head(chan).text) /\ deltas' = Append(deltas, Head(chan).text)
           ELSE UNCHANGED <<shown, deltas>>
    PROVE  DeltasTo(r)'
<1>1. /\ Head(chan) = chan[1] /\ 1 \in DOMAIN chan /\ chan' = Tail(chan)
      /\ \A i \in DOMAIN chan' :
            chan'[i] = chan[i + 1] /\ i \in Nat /\ i > 0 /\ i + 1 \in DOMAIN chan
      /\ \A i \in DOMAIN chan : i # 1 => i - 1 \in DOMAIN chan' /\ chan'[i - 1] = chan[i]
  BY ChanTail
<1>2. CASE Head(chan).kind # "delta"
  <2>1. ASSUME NEW k, Sent("delta", k) PROVE Sent("delta", k)'
    BY <1>1, <1>2, <2>1, ZenonT(60) DEF Sent
  <2>2. ASSUME NEW i \in DOMAIN chan', chan'[i].kind = "delta"
        PROVE  /\ chan'[i].text \in missed + 1 .. r
               /\ said[chan'[i].text].kind = "delta"
               /\ \A j \in DOMAIN shown : shown[j] < chan'[i].text
               /\ \A j \in DOMAIN chan' :
                     chan'[j].kind = "delta" /\ i < j => chan'[i].text < chan'[j].text
    <3>1. i + 1 \in DOMAIN chan /\ chan'[i] = chan[i + 1]
      BY <1>1, <2>2
    <3>2. \A j \in DOMAIN chan' : i < j => i + 1 < j + 1
      BY <1>1, <2>2
    <3>3. QED BY <1>1, <2>2, <3>1, <3>2 DEF DeltasTo
  <2>3. QED BY <1>2, <2>1, <2>2 DEF DeltasTo
<1>3. CASE Head(chan).kind = "delta"
  <2> DEFINE d == Head(chan).text
  <2>1. /\ d \in missed + 1 .. r /\ said[d].kind = "delta"
        /\ \A j \in DOMAIN shown : shown[j] < d
        /\ \A j \in DOMAIN chan : chan[j].kind = "delta" /\ 1 < j => d < chan[j].text
    BY <1>1, <1>3 DEF DeltasTo
  <2>2. d \in Nat /\ shown \in Seq(Nat) /\ Len(shown) \in Nat
    BY <2>1, LenProperties DEF Types
  <2>3. /\ DOMAIN shown' = 1 .. Len(shown) + 1 /\ DOMAIN shown = 1 .. Len(shown)
        /\ shown'[Len(shown) + 1] = d /\ \A i \in 1 .. Len(shown) : shown'[i] = shown[i]
    <3>1. shown' = Append(shown, d) /\ Append(shown, d) \in Seq(Nat)
      BY <1>3, <2>2, AppendProperties
    <3>2. /\ Len(shown') = Len(shown) + 1 /\ shown'[Len(shown) + 1] = d
          /\ \A i \in 1 .. Len(shown) : shown'[i] = shown[i]
      BY <2>2, <3>1, AppendProperties
    <3>3. QED BY <2>2, <3>1, <3>2
  <2>4. \A i \in DOMAIN shown' : \/ i \in DOMAIN shown /\ shown'[i] = shown[i]
                                 \/ i = Len(shown) + 1 /\ shown'[i] = d
    BY <2>2, <2>3
  <2>5. d \in Range(shown') /\ Range(shown) \subseteq Range(shown')
    <3> HIDE DEF d
    <3>1. Len(shown) + 1 \in DOMAIN shown' /\ d = shown'[Len(shown) + 1]
      BY <2>2, <2>3
    <3>2. \A i \in DOMAIN shown : i \in DOMAIN shown' /\ shown[i] = shown'[i]
      BY <2>2, <2>3
    <3>3. QED BY <3>1, <3>2 DEF Range
  <2>6. deltas' = shown'
    BY <1>3 DEF DeltasTo
  <2> HIDE DEF d
  <2>7. ASSUME NEW k \in missed + 1 .. r, said[k].kind = "delta"
        PROVE  k \in Range(shown') \/ Sent("delta", k)'
    <3>1. CASE k \in Range(shown)
      BY <2>5, <3>1
    <3>2. ASSUME NEW i \in DOMAIN chan, chan[i].kind = "delta", chan[i].text = k
          PROVE  k \in Range(shown') \/ Sent("delta", k)'
      <4>1. CASE i = 1
        BY <1>1, <2>5, <3>2, <4>1 DEF d
      <4>2. CASE i # 1
        BY <1>1, <3>2, <4>2 DEF Sent
      <4>3. QED BY <4>1, <4>2
    <3>3. QED BY <2>7, <3>1, <3>2 DEF DeltasTo, Sent
  <2>8. \A i \in DOMAIN shown' : /\ shown'[i] \in missed + 1 .. r
                                 /\ said[shown'[i]].kind = "delta"
    BY <2>1, <2>4 DEF DeltasTo
  <2>9. ASSUME NEW i \in DOMAIN chan', chan'[i].kind = "delta"
        PROVE  /\ chan'[i].text \in missed + 1 .. r
               /\ said[chan'[i].text].kind = "delta"
               /\ \A j \in DOMAIN shown' : shown'[j] < chan'[i].text
               /\ \A j \in DOMAIN chan' :
                     chan'[j].kind = "delta" /\ i < j => chan'[i].text < chan'[j].text
    <3>1. i + 1 \in DOMAIN chan /\ chan'[i] = chan[i + 1] /\ 1 < i + 1
      BY <1>1, <2>9
    <3>2. \A j \in DOMAIN chan' : i < j => i + 1 < j + 1
      BY <1>1, <2>9
    <3>3. /\ chan'[i].text \in missed + 1 .. r /\ said[chan'[i].text].kind = "delta"
          /\ \A j \in DOMAIN shown : shown[j] < chan'[i].text
          /\ \A j \in DOMAIN chan' :
                chan'[j].kind = "delta" /\ i < j => chan'[i].text < chan'[j].text
      BY <1>1, <2>9, <3>1, <3>2 DEF DeltasTo
    <3>4. d < chan'[i].text
      BY <2>1, <2>9, <3>1
    <3>5. \A j \in DOMAIN shown' : shown'[j] < chan'[i].text
      BY <2>4, <3>3, <3>4
    <3>6. QED BY <3>3, <3>5
  <2>10. QED BY <2>6, <2>7, <2>8, <2>9 DEF DeltasTo
<1>4. QED BY <1>2, <1>3

LEMMA MessagesTaken ==
    ASSUME Types, NEW r \in Nat, MessagesTo(r), chan # <<>>, chan' = Tail(chan),
           UNCHANGED <<said, missed>>,
           final' = IF Head(chan).kind = "message" THEN Head(chan).text ELSE final
    PROVE  MessagesTo(r)'
<1>1. /\ Head(chan) = chan[1] /\ 1 \in DOMAIN chan /\ chan' = Tail(chan)
      /\ \A i \in DOMAIN chan' :
            chan'[i] = chan[i + 1] /\ i \in Nat /\ i > 0 /\ i + 1 \in DOMAIN chan
      /\ \A i \in DOMAIN chan : i # 1 => i - 1 \in DOMAIN chan' /\ chan'[i - 1] = chan[i]
  BY ChanTail
<1>2. \A k : IsMessage(k)' <=> IsMessage(k)
  BY DEF IsMessage
<1>3. ASSUME NEW i \in DOMAIN chan', chan'[i].kind = "message"
      PROVE  /\ chan'[i].text \in missed + 1 .. r /\ IsMessage(chan'[i].text)
             /\ final # None => final < chan'[i].text
             /\ Head(chan).kind = "message" => Head(chan).text < chan'[i].text
             /\ \A j \in DOMAIN chan' :
                   chan'[j].kind = "message" /\ i < j => chan'[i].text < chan'[j].text
  <2>1. i + 1 \in DOMAIN chan /\ chan'[i] = chan[i + 1] /\ 1 < i + 1
    BY <1>1, <1>3
  <2>2. \A j \in DOMAIN chan' : i < j => i + 1 < j + 1
    BY <1>1, <1>3
  <2>3. QED BY <1>1, <1>3, <2>1, <2>2 DEF MessagesTo
<1>4. CASE Head(chan).kind # "message"
  <2>1. ASSUME NEW k, Sent("message", k) PROVE Sent("message", k)'
    BY <1>1, <1>4, <2>1, ZenonT(60) DEF Sent
  <2>2. final' = final
    BY <1>4
  <2>3. QED BY <1>2, <1>3, <2>1, <2>2 DEF MessagesTo, IsMessage
<1>5. CASE Head(chan).kind = "message"
  <2> DEFINE m == Head(chan).text
  <2>1. m \in missed + 1 .. r /\ IsMessage(m) /\ (final # None => final < m)
    BY <1>1, <1>5 DEF MessagesTo
  <2>2. m \in Nat /\ m # None /\ final \in Nat \cup {None}
    BY <2>1 DEF Types
  <2>3. final' = m
    BY <1>5
  <2> HIDE DEF m
  <2>4. ASSUME NEW k \in missed + 1 .. r, IsMessage(k)
        PROVE  k <= m \/ Sent("message", k)'
    <3>1. CASE final # None /\ k <= final
      BY <2>1, <2>2, <3>1
    <3>2. ASSUME NEW i \in DOMAIN chan, chan[i].kind = "message", chan[i].text = k
          PROVE  k <= m \/ Sent("message", k)'
      <4>1. CASE i = 1
        BY <1>1, <2>2, <3>2, <4>1 DEF m
      <4>2. CASE i # 1
        BY <1>1, <3>2, <4>2 DEF Sent
      <4>3. QED BY <4>1, <4>2
    <3>3. QED BY <2>4, <3>1, <3>2 DEF MessagesTo, Sent
  <2>5. \A i \in DOMAIN chan' : chan'[i].kind = "message" => m < chan'[i].text
    BY <1>3, <1>5 DEF m
  <2>6. QED BY <1>2, <1>3, <2>1, <2>2, <2>3, <2>4, <2>5 DEF MessagesTo, IsMessage
<1>6. QED BY <1>4, <1>5

LEMMA StreamByTask ==
    ASSUME Types, SaidInv, PipeInv, StreamInv, Takes
    PROVE  StreamInv'
<1>0. missed \in Nat /\ Len(said) \in Nat
  BY LenProperties DEF Types
<1>1. PICK r \in 0 .. Len(said) : ReaderInv(r) /\ TaskInv(r)
  BY DEF StreamInv
<1>2. /\ UNCHANGED <<alive, pipe, said, turn, reader, missed, trouble>>
      /\ task = "listening" /\ chan # <<>>
  BY DEF Takes, Taking, TakeDelta, TakeMessage, TakeCompleted, TakeFailed, TakeNoted, serverVars
<1>3. reader # "asking"
  BY <1>1, <1>2 DEF ReaderInv
<1>4. ReaderInv(r)'
  <2>1. ReadUpTo(r) => ReadUpTo(r)'
    BY <1>2, PipeSame
  <2>2. QED BY <1>1, <1>2, <1>3, <2>1 DEF ReaderInv, GoesOnTo
<1>5. r \in 0 .. Len(said')
  BY <1>2
<1>6. /\ status \in {"active", "ended"} /\ missed <= r /\ GoesOnTo(r - 1)
      /\ DeltasTo(r) /\ MessagesTo(r) /\ EndAt(r)
  BY <1>1, <1>2 DEF TaskInv
<1>7. \/ Goes /\ status' # "active"
      \/ /\ chan' = Tail(chan) /\ UNCHANGED <<task, status>>
         /\ IF Head(chan).kind = "delta"
            THEN /\ shown' = Append(shown, Head(chan).text)
                 /\ deltas' = Append(deltas, Head(chan).text)
            ELSE UNCHANGED <<shown, deltas>>
         /\ final' = IF Head(chan).kind = "message" THEN Head(chan).text ELSE final
  <2>1. CASE TakeDelta
    BY <2>1 DEF TakeDelta, Taking, GoesOn
  <2>2. CASE TakeMessage
    BY <2>2 DEF TakeMessage, Taking, GoesOn, storeVars
  <2>3. CASE TakeCompleted
    BY <2>3 DEF TakeCompleted
  <2>4. CASE TakeFailed
    BY <2>4 DEF TakeFailed, FailsInStore
  <2>5. CASE TakeNoted
    BY <2>5 DEF TakeNoted, Taking, GoesOn, storeVars
  <2>6. QED BY <2>1, <2>2, <2>3, <2>4, <2>5 DEF Takes
<1>8. CASE Goes /\ status' # "active"
  <2>1. TaskInv(r)'
    BY <1>8 DEF TaskInv, Goes
  <2>2. QED BY <1>4, <1>5, <2>1 DEF StreamInv
<1>9. CASE /\ chan' = Tail(chan) /\ UNCHANGED <<task, status>>
           /\ IF Head(chan).kind = "delta"
              THEN /\ shown' = Append(shown, Head(chan).text)
                   /\ deltas' = Append(deltas, Head(chan).text)
              ELSE UNCHANGED <<shown, deltas>>
           /\ final' = IF Head(chan).kind = "message" THEN Head(chan).text ELSE final
  <2>1. DeltasTo(r)' /\ MessagesTo(r)'
    BY <1>2, <1>6, <1>9, DeltasTaken, MessagesTaken
  <2>2. EndAt(r)'
    <3>1. Cause <=> Cause'
      BY <1>2, HeardSame DEF Cause
    <3>2. /\ \A i \in DOMAIN chan' : /\ chan'[i] = chan[i + 1] /\ i \in Nat
                                     /\ i + 1 \in DOMAIN chan
          /\ Len(chan) \in Nat /\ Len(chan') = Len(chan) - 1
      BY <1>2, <1>9, ChanTail
    <3> HIDE DEF Cause
    <3>3. ASSUME NEW i \in DOMAIN chan'
          PROVE  /\ chan'[i].kind = "completed" =>
                       /\ i = Len(chan') /\ reader = "idle"
                       /\ r > missed /\ said[r].kind = "completed"
                       /\ chan'[i].text = CompletedText(said[r])
                 /\ chan'[i].kind \in {"failed", "error"} => Cause
      BY <1>6, <3>2, <3>3 DEF EndAt
    <3>4. QED BY <1>2, <3>1, <3>3 DEF EndAt
  <2>3. GoesOnTo(r - 1)'
    BY <1>2, <1>6 DEF GoesOnTo
  <2>4. TaskInv(r)'
    BY <1>2, <1>6, <1>9, <2>1, <2>2, <2>3 DEF TaskInv
  <2>5. QED BY <1>4, <1>5, <2>4 DEF StreamInv
<1>10. QED BY <1>7, <1>8, <1>9

LEMMA StreamKept ==
    ASSUME Types, SaidInv, PipeInv, StreamInv, Next
    PROVE  StreamInv'
  BY StreamByServer, StreamByStart, StreamByIgnored, StreamByEvent, StreamByEnd, StreamByBroken,
     StreamByTask DEF Next, ReadsStream

-----------------------------------------------------------------------------
\* The properties.

LEMMA FailureKept ==
    ASSUME Types, SaidInv, PipeInv, StreamInv, FailureIsItsOwn, Next
    PROVE  FailureIsItsOwn'
<1>0. missed \in Nat /\ Len(said) \in Nat
  BY LenProperties DEF Types
<1>1. PICK r \in 0 .. Len(said) : ReaderInv(r) /\ TaskInv(r)
  BY DEF StreamInv
<1>2. missed <= Len(said)
  BY <1>1 DEF ReaderInv
<1>3. SUFFICES ASSUME status' = "failed" PROVE Cause'
  BY DEF FailureIsItsOwn, Cause
<1>4. status = "failed" => Cause
  BY DEF FailureIsItsOwn, Cause
<1>5. CASE (\E t \in 1 .. Turns : Answers(t) \/ TellsStale(t)) \/ Garbles
  BY <1>2, <1>3, <1>4, <1>5, OthersWritten, CauseKept DEF storeVars
<1>6. CASE Tells \/ Finishes
  BY <1>2, <1>3, <1>4, <1>6, NextWritten, CauseKept DEF storeVars
<1>7. CASE Exits
  BY <1>7 DEF Exits, Cause
<1>8. CASE Start
  BY <1>3, <1>8 DEF Start
<1>9. CASE StartTimesOut
  BY <1>9 DEF StartTimesOut, Cause
<1>10. CASE EndElsewhere
  BY <1>3, <1>10 DEF EndElsewhere
<1>11. CASE SkipLine \/ Accepted
  <2>1. reader = "asking" /\ UNCHANGED status
    BY <1>11 DEF SkipLine, Accepted, Asking, storeVars
  <2>2. QED BY <1>1, <1>3, <2>1 DEF ReaderInv
<1>12. CASE Rejected
  <2>1. /\ pipe # <<>> /\ Head(pipe).kind = "rejected" /\ Head(pipe).turn = turn
        /\ UNCHANGED trouble
    BY <1>12 DEF Rejected, Answered, IsAnswer
  <2>2. Head(pipe) = pipe[1] /\ 1 \in DOMAIN pipe
    BY <2>1, TailTypes DEF Types
  <2>3. QED BY <2>1, <2>2 DEF PipeInv, Cause
<1>13. CASE StartBroken
  <2>1. reader = "asking" /\ UNCHANGED trouble
    BY <1>13 DEF StartBroken, Asking
  <2>2. CASE pipe = <<>>
    BY <1>1, <1>13, <2>1, <2>2 DEF StartBroken, ReaderInv, Cause
  <2>3. CASE pipe # <<>>
    <3>1. Head(pipe) = pipe[1] /\ 1 \in DOMAIN pipe
      BY <2>3, TailTypes DEF Types
    <3>2. QED BY <1>13, <2>1, <2>3, <3>1 DEF StartBroken, PipeInv, Cause
  <2>4. QED BY <2>2, <2>3
<1>14. CASE ReadsStream
  <2>1. UNCHANGED <<said, missed, trouble, status>>
    BY <1>14 DEF ReadsStream, ReadIgnored, ReadEvent, ReadEnd, ReadBroken, Streaming, storeVars
  <2>2. QED BY <1>2, <1>3, <1>4, <2>1, CauseKept
<1>15. CASE TakeFailed
  <2>1. /\ UNCHANGED <<said, missed, trouble>> /\ task = "listening" /\ chan # <<>>
        /\ Head(chan).kind \in {"failed", "error"}
    BY <1>15 DEF TakeFailed, Taking, serverVars
  <2>2. EndAt(r) /\ Head(chan) = chan[1] /\ 1 \in DOMAIN chan
    BY <1>1, <2>1, ChanTail DEF TaskInv
  <2>3. Cause
    BY <2>1, <2>2 DEF EndAt
  <2>4. QED BY <1>2, <2>1, <2>3, CauseKept
<1>16. CASE TakeDelta \/ TakeMessage \/ TakeCompleted \/ TakeNoted
  <2>1. UNCHANGED <<said, missed, trouble>> /\ (status' = status \/ status' = "completed")
    BY <1>16 DEF TakeDelta, TakeMessage, TakeCompleted, TakeNoted, Taking, serverVars, storeVars
  <2>2. QED BY <1>2, <1>3, <1>4, <2>1, CauseKept
<1>17. QED BY <1>5, <1>6, <1>7, <1>8, <1>9, <1>10, <1>11, <1>12, <1>13, <1>14, <1>15, <1>16
           DEF Next, ReadsResponse, Takes

\* What a completed turn shows and keeps does not change with what is said later.
LEMMA KeptAsSaid ==
    ASSUME Types, missed <= Len(said), ShownIsHeard, AnswerIsFinal,
           UNCHANGED <<missed, storeVars>>,
           Len(said') = Len(said) + 1, \A i \in 1 .. Len(said) : said'[i] = said[i]
    PROVE  ShownIsHeard' /\ AnswerIsFinal'
<1>0. /\ Heard \subseteq Heard' /\ Heard' \subseteq Heard \cup {Len(said) + 1}
      /\ \A i \in Heard : said'[i] = said[i]
      /\ (\E e \in Heard : said[e].kind \in Ends) => Heard' = Heard
      /\ Heard \subseteq 1 .. Len(said) /\ Len(said) \in Nat
  BY HeardAfter, HeardRange
<1>1. UNCHANGED <<status, shown, answer>>
  BY DEF storeVars
<1>2. status = "completed" => Heard' = Heard /\ HeardDeltas' = HeardDeltas
  BY <1>0 DEF AnswerIsFinal, Ends, HeardDeltas
<1>3. HeardDeltas \subseteq HeardDeltas' /\ HeardDeltas' \subseteq HeardDeltas \cup {Len(said) + 1}
  BY <1>0 DEF HeardDeltas
<1>4. Begins(shown, HeardDeltas')
  <2>1. \A i \in DOMAIN shown : shown[i] \in 1 .. Len(said)
    BY <1>0 DEF ShownIsHeard, Begins, Range, HeardDeltas
  <2>2. ASSUME NEW i \in DOMAIN shown, NEW k \in HeardDeltas', k < shown[i] PROVE k \in Range(shown)
    <3>1. k # Len(said) + 1
      BY <1>0, <2>1, <2>2
    <3>2. k \in HeardDeltas
      BY <1>3, <2>2, <3>1
    <3>3. QED BY <2>2, <3>2 DEF ShownIsHeard, Begins
  <2>3. QED BY <1>3, <2>2 DEF ShownIsHeard, Begins
<1>5. ShownIsHeard'
  BY <1>1, <1>2, <1>4 DEF ShownIsHeard
<1>6. AnswerIsFinal'
  <2>1. SUFFICES ASSUME status = "completed"
                 PROVE  \E e \in Heard' :
            LET messages == {i \in 1 .. e : /\ said'[i].kind = "item" /\ said'[i].phase # "commentary"
                                            /\ said'[e].full \/ i > missed'}
            IN /\ said'[e].kind = "completed"
               /\ IF messages = {}
                  THEN Begins(answer', HeardDeltas') /\ Range(answer') = HeardDeltas'
                  ELSE answer' = <<Max(messages)>>
    BY <1>1 DEF AnswerIsFinal
  <2> DEFINE In(e) == {i \in 1 .. e : /\ said[i].kind = "item"
                                      /\ said[i].phase # "commentary"
                                      /\ said[e].full \/ i > missed}
             After(e) == {i \in 1 .. e : /\ said'[i].kind = "item"
                                         /\ said'[i].phase # "commentary"
                                         /\ said'[e].full \/ i > missed'}
  <2>2. PICK e \in Heard : /\ said[e].kind = "completed"
                           /\ IF In(e) = {}
                              THEN Begins(answer, HeardDeltas) /\ Range(answer) = HeardDeltas
                              ELSE answer = <<Max(In(e))>>
    BY <2>1 DEF AnswerIsFinal
  <2>3. e \in 1 .. Len(said) /\ said'[e] = said[e] /\ e \in Heard'
    BY <1>0, <2>2
  <2>4. \A i \in 1 .. e : said'[i] = said[i]
    BY <1>0, <2>3
  <2>5. After(e) = In(e)
    BY <2>3, <2>4
  <2> HIDE DEF In
  <2>6. IF After(e) = {} THEN Begins(answer', HeardDeltas') /\ Range(answer') = HeardDeltas'
        ELSE answer' = <<Max(After(e))>>
    BY <1>1, <1>2, <2>1, <2>2, <2>5
  <2>7. QED BY <2>2, <2>3, <2>6
<1>7. QED BY <1>5, <1>6

\* The task ends a turn with the answer it must keep.
LEMMA CompletedRight ==
    ASSUME Types, SaidInv, NEW r \in 0 .. Len(said), TaskInv(r), TakeCompleted, status = "active",
           missed <= Len(said), Begins(shown, HeardDeltas)
    PROVE  ShownIsHeard' /\ AnswerIsFinal'
<1>0. missed \in Nat /\ Len(said) \in Nat
  BY LenProperties DEF Types
<1>1. /\ UNCHANGED <<said, missed, tagged, shown>> /\ task = "listening" /\ chan # <<>>
      /\ Head(chan).kind = "completed"
      /\ status' = "completed"
  BY DEF TakeCompleted, Taking, serverVars
<1>2. missed <= r /\ GoesOnTo(r - 1) /\ DeltasTo(r) /\ MessagesTo(r) /\ EndAt(r)
  BY <1>1 DEF TaskInv
<1>3. /\ r > missed /\ said[r].kind = "completed" /\ Len(chan) = 1 /\ DOMAIN chan = 1 .. 1
      /\ Head(chan) = chan[1] /\ Head(chan).text = CompletedText(said[r])
  BY <1>1, <1>2, ChanTail DEF EndAt
<1>4. r \in 1 .. Len(said) /\ r \in Nat
  BY <1>0, <1>3
<1>5. Heard = missed + 1 .. r
  <2>1. ASSUME NEW i \in Heard PROVE i \in missed + 1 .. r
    <3>1. i \in missed + 1 .. Len(said) /\ \A j \in missed + 1 .. i - 1 : said[j].kind # "completed"
      BY <2>1 DEF Heard, Ends
    <3>2. ~ (i > r)
      BY <1>0, <1>3, <1>4, <3>1
    <3>3. QED BY <1>0, <1>4, <3>1, <3>2
  <2>2. ASSUME NEW i \in missed + 1 .. r PROVE i \in Heard
    <3>1. i \in missed + 1 .. Len(said) /\ \A j \in missed + 1 .. i - 1 : j \in missed + 1 .. r - 1
      BY <1>0, <1>4, <2>2
    <3>2. QED BY <1>2, <3>1 DEF Heard, GoesOnTo
  <2>3. QED BY <2>1, <2>2
<1>6. \A kind, k : kind # "completed" => ~Sent(kind, k)
  BY <1>1, <1>3 DEF Sent
<1>7. Range(shown) = HeardDeltas
  <2>1. \A k \in HeardDeltas : k \in Range(shown)
    BY <1>2, <1>5, <1>6 DEF DeltasTo, HeardDeltas
  <2>2. QED BY <2>1 DEF Begins
<1>8. ShownIsHeard'
  BY <1>1, <1>7, HeardSame DEF ShownIsHeard
<1> DEFINE messages == {i \in 1 .. r : /\ said[i].kind = "item" /\ said[i].phase # "commentary"
                                       /\ said[r].full \/ i > missed}
           s == said[r].items
           text == IF Head(chan).text # None THEN Head(chan).text ELSE final
<1>9. answer' = IF text # None THEN <<text>> ELSE deltas
  BY DEF TakeCompleted
<1>10. \A i \in messages : i \in 1 .. r /\ i \in Nat /\ i # r /\ said[i].text = i
  BY <1>3, <1>4 DEF SaidInv
<1>11. text = IF messages = {} THEN None ELSE Max(messages)
  <2>1. CASE ~said[r].full
    <3>1. text = final
      BY <1>3, <2>1 DEF CompletedText
    <3>2. messages = {i \in missed + 1 .. r : IsMessage(i)}
      BY <1>0, <1>4, <2>1 DEF IsMessage
    <3> HIDE DEF messages
    <3>3. CASE final = None
      BY <1>2, <1>6, <3>1, <3>2, <3>3 DEF MessagesTo
    <3>4. CASE final # None
      <4>1. final \in messages
        BY <1>2, <3>2, <3>4 DEF MessagesTo
      <4>2. \A k \in messages : final >= k
        BY <1>2, <1>6, <1>10, <3>2, <3>4, <4>1 DEF MessagesTo
      <4>3. messages \in SUBSET (1 .. r) /\ messages # {}
        BY <1>10, <4>1
      <4>4. Max(messages) = final
        BY <1>4, <4>1, <4>2, <4>3, MaxProperties
      <4>5. QED BY <3>1, <4>3, <4>4
    <3>5. QED BY <3>3, <3>4
  <2>2. CASE said[r].full
    <3>1. /\ s \in Seq(Basic \cup Item) /\ Len(s) = r - 1
          /\ \A i \in 1 .. r - 1 : s[i] = said[i]
      <4>1. said[r] \in Lines
        BY <1>4, ElementOfSeq DEF Types
      <4>2. QED BY <1>3, <1>4, <2>2, <4>1, LineTypes DEF SaidInv
    <3>2. Head(chan).text = FinalText(s)
      BY <1>3, <2>2 DEF CompletedText
    <3>3. DOMAIN s = 1 .. r - 1
      BY <3>1
    <3>4. \A i \in 1 .. r : said[i].kind = "item" =>
             said[i].phase \in IF tagged THEN {"final_answer", "commentary"} ELSE {"none"}
      BY <1>0, <1>4 DEF SaidInv
    <3>5. \A i \in 1 .. r : i # r <=> i \in 1 .. r - 1
      BY <1>4
    <3>6. \A ph : Messages(s, ph) = {i \in 1 .. r - 1 : said[i].kind = "item" /\ said[i].phase = ph}
      BY <3>1, <3>3 DEF Messages
    <3>7. CASE tagged
      <4>1. Messages(s, "final_answer") = messages
        BY <1>10, <2>2, <3>4, <3>5, <3>6, <3>7
      <4>2. Messages(s, "none") = {}
        BY <1>4, <3>4, <3>5, <3>6, <3>7
      <4> HIDE DEF messages, s
      <4>3. FinalText(s) = IF messages = {} THEN None ELSE s[Max(messages)].text
        BY <4>1, <4>2 DEF FinalText
      <4>4. messages # {} => Max(messages) \in messages
        BY <1>4, <1>10, MaxProperties
      <4>5. messages # {} => s[Max(messages)].text = Max(messages) /\ Max(messages) \in Nat
        BY <1>10, <3>1, <3>5, <4>4
      <4>6. messages = {} => final = None
        BY <1>0, <1>2, <1>4, <2>2 DEF MessagesTo, IsMessage, messages
      <4>7. QED BY <3>2, <4>3, <4>5, <4>6
    <3>8. CASE ~tagged
      <4>1. Messages(s, "none") = messages
        BY <1>10, <2>2, <3>4, <3>5, <3>6, <3>8
      <4>2. Messages(s, "final_answer") = {}
        BY <1>4, <3>4, <3>5, <3>6, <3>8
      <4> HIDE DEF messages, s
      <4>3. FinalText(s) = IF messages = {} THEN None ELSE s[Max(messages)].text
        BY <4>1, <4>2 DEF FinalText
      <4>4. messages # {} => Max(messages) \in messages
        BY <1>4, <1>10, MaxProperties
      <4>5. messages # {} => s[Max(messages)].text = Max(messages) /\ Max(messages) \in Nat
        BY <1>10, <3>1, <3>5, <4>4
      <4>6. messages = {} => final = None
        BY <1>0, <1>2, <1>4, <2>2 DEF MessagesTo, IsMessage, messages
      <4>7. QED BY <3>2, <4>3, <4>5, <4>6
    <3>9. QED BY <3>7, <3>8
  <2>3. QED BY <2>1, <2>2
<1>12. messages # {} => Max(messages) # None
  <2>1. messages \in SUBSET (1 .. r)
    BY <1>10
  <2> HIDE DEF messages
  <2>2. messages # {} => Max(messages) \in Nat
    BY <1>4, <1>10, <2>1, MaxProperties
  <2>3. QED BY <2>2
<1>13. IF messages = {} THEN Begins(answer', HeardDeltas) /\ Range(answer') = HeardDeltas
       ELSE answer' = <<Max(messages)>>
  <2> HIDE DEF messages, text
  <2>1. deltas = shown
    BY <1>2 DEF DeltasTo
  <2>2. QED BY <1>7, <1>9, <1>11, <1>12, <2>1
<1>14. AnswerIsFinal'
  <2>1. r \in Heard /\ Heard' = Heard /\ HeardDeltas' = HeardDeltas
    BY <1>0, <1>1, <1>3, <1>4, <1>5, HeardSame
  <2>2. QED BY <1>1, <1>3, <1>13, <2>1 DEF AnswerIsFinal
<1>15. QED BY <1>8, <1>14

LEMMA AnswersKept ==
    ASSUME Types, SaidInv, PipeInv, StreamInv, ShownIsHeard, AnswerIsFinal, Next
    PROVE  ShownIsHeard' /\ AnswerIsFinal'
<1>0. missed \in Nat /\ Len(said) \in Nat
  BY LenProperties DEF Types
<1>1. PICK r \in 0 .. Len(said) : ReaderInv(r) /\ TaskInv(r)
  BY DEF StreamInv
<1>2. missed <= Len(said)
  BY <1>1 DEF ReaderInv
<1>3. CASE UNCHANGED <<said, missed, status, shown, answer>>
  BY <1>3, HeardSame DEF ShownIsHeard, AnswerIsFinal
<1>4. ASSUME shown' = <<>>, status' # "completed" PROVE ShownIsHeard' /\ AnswerIsFinal'
  <2>1. DOMAIN <<>> = {}
    OBVIOUS
  <2>2. QED BY <1>4, <2>1 DEF ShownIsHeard, AnswerIsFinal, Begins, Range
<1>5. ASSUME UNCHANGED <<said, missed, shown>>, status' # "completed"
      PROVE  ShownIsHeard' /\ AnswerIsFinal'
  BY <1>5, HeardSame DEF ShownIsHeard, AnswerIsFinal
<1>6. CASE (\E t \in 1 .. Turns : Answers(t) \/ TellsStale(t)) \/ Garbles
  BY <1>3, <1>6, OthersWritten DEF storeVars
<1>7. CASE Tells \/ Finishes
  BY <1>2, <1>7, NextWritten, KeptAsSaid
<1>8. CASE Exits \/ Accepted \/ ReadsStream \/ TakeNoted
  <2>1. UNCHANGED <<said, missed, status, shown, answer>>
    BY <1>8 DEF Exits, Accepted, Asking, ReadsStream, ReadIgnored, ReadEvent, ReadEnd, ReadBroken,
                Streaming, TakeNoted, Taking, storeVars, serverVars
  <2>2. QED BY <1>3, <2>1
<1>9. CASE Start
  BY <1>4, <1>9 DEF Start
<1>10. CASE StartTimesOut \/ Rejected \/ StartBroken \/ SkipLine
  <2>1. shown = <<>> /\ status = "active"
    BY <1>1, <1>10 DEF ReaderInv, StartTimesOut, Rejected, StartBroken, SkipLine, Asking
  <2>2. UNCHANGED shown /\ status' # "completed"
    BY <1>10, <2>1 DEF StartTimesOut, Rejected, StartBroken, SkipLine, FailsInStore, storeVars
  <2>3. QED BY <1>4, <2>1, <2>2
<1>11. CASE EndElsewhere
  <2>1. UNCHANGED <<said, missed, shown>> /\ status' # "completed"
    BY <1>11 DEF EndElsewhere, serverVars
  <2>2. QED BY <1>5, <2>1
<1>12. CASE Takes
  <2>0. UNCHANGED <<said, missed>> /\ task = "listening" /\ chan # <<>>
    BY <1>12 DEF Takes, Taking, TakeDelta, TakeMessage, TakeCompleted, TakeFailed, TakeNoted,
                 serverVars
  <2>1. /\ status \in {"active", "ended"} /\ missed <= r /\ GoesOnTo(r - 1)
        /\ DeltasTo(r) /\ MessagesTo(r)
    BY <1>1, <2>0 DEF TaskInv
  <2>2. CASE UNCHANGED shown /\ status' # "completed"
    BY <1>5, <2>0, <2>2
  <2>3. CASE TakeMessage \/ TakeFailed \/ TakeNoted
    BY <2>1, <2>2, <2>3 DEF TakeMessage, TakeFailed, TakeNoted, FailsInStore, storeVars
  <2>4. CASE TakeCompleted
    <3>1. CASE status = "active"
      BY <1>1, <1>2, <2>4, <3>1, CompletedRight DEF ShownIsHeard
    <3>2. CASE status # "active"
      BY <2>1, <2>2, <2>4, <3>2 DEF TakeCompleted
    <3>3. QED BY <3>1, <3>2
  <2>5. CASE TakeDelta /\ status # "active"
    BY <2>1, <2>2, <2>5 DEF TakeDelta
  <2>6. CASE TakeDelta /\ status = "active"
    <3> DEFINE d == Head(chan).text
    <3>1. /\ Head(chan).kind = "delta" /\ chan' = Tail(chan) /\ status' = "active"
          /\ shown' = Append(shown, d) /\ deltas' = Append(deltas, d)
      BY <2>6 DEF TakeDelta, Taking, GoesOn
    <3>2. DeltasTo(r)'
      BY <2>0, <2>1, <3>1, DeltasTaken
    <3>3. Head(chan) = chan[1] /\ 1 \in DOMAIN chan
      BY <2>0, ChanTail
    <3>4. d \in missed + 1 .. r /\ d \in Nat /\ \A i \in DOMAIN shown : shown[i] < d
      <4>1. chan[1].kind = "delta" /\ chan[1].text = d
        BY <3>1, <3>3
      <4> HIDE DEF d
      <4>2. d \in missed + 1 .. r /\ \A i \in DOMAIN shown : shown[i] < d
        BY <2>1, <3>3, <4>1 DEF DeltasTo
      <4>3. QED BY <1>0, <4>2
    <3> HIDE DEF d
    <3>5. shown \in Seq(Nat) /\ Len(shown) \in Nat
      BY LenProperties DEF Types
    <3>6. \A i \in DOMAIN shown' : \/ i \in 1 .. Len(shown) /\ shown'[i] = shown[i]
                                   \/ i = Len(shown) + 1 /\ shown'[i] = d
      <4>1. shown' \in Seq(Nat) /\ Len(shown') = Len(shown) + 1
        BY <3>1, <3>4, <3>5, AppendProperties
      <4>2. /\ shown'[Len(shown) + 1] = d
            /\ \A i \in 1 .. Len(shown) : shown'[i] = shown[i]
        BY <3>1, <3>4, <3>5, AppendProperties
      <4>3. DOMAIN shown' = 1 .. Len(shown) + 1
        BY <4>1
      <4>4. QED BY <3>5, <4>2, <4>3
    <3>7. ASSUME NEW i \in DOMAIN shown', NEW j \in DOMAIN shown', i < j
          PROVE  shown'[i] < shown'[j]
      <4>1. i \in DOMAIN shown /\ shown'[i] = shown[i]
        BY <3>5, <3>6, <3>7
      <4>2. CASE j \in 1 .. Len(shown) /\ shown'[j] = shown[j]
        BY <3>5, <3>7, <4>1, <4>2 DEF ShownIsHeard, Begins
      <4>3. CASE shown'[j] = d
        BY <3>4, <4>1, <4>3
      <4>4. QED BY <3>6, <3>7, <4>2, <4>3
    <3>8. Range(shown') \subseteq HeardDeltas
      <4>1. ASSUME NEW i \in DOMAIN shown' PROVE shown'[i] \in HeardDeltas
        <5>1. shown'[i] \in missed + 1 .. r /\ said[shown'[i]].kind = "delta"
          BY <2>0, <3>2, <4>1 DEF DeltasTo
        <5>2. /\ shown'[i] \in missed + 1 .. Len(said)
              /\ \A j \in missed + 1 .. shown'[i] - 1 : j \in missed + 1 .. r - 1
          BY <1>0, <5>1
        <5>3. QED BY <2>1, <5>1, <5>2 DEF HeardDeltas, Heard, GoesOnTo
      <4>2. QED BY <4>1 DEF Range
    <3>9. ASSUME NEW i \in DOMAIN shown', NEW k \in HeardDeltas, k < shown'[i]
          PROVE  k \in Range(shown')
      <4>1. shown'[i] \in missed + 1 .. r
        BY <2>0, <3>2, <3>9 DEF DeltasTo
      <4>2. k \in missed + 1 .. Len(said) /\ said[k].kind = "delta"
        BY <3>9 DEF HeardDeltas, Heard
      <4>3. k \in missed + 1 .. r
        BY <1>0, <3>9, <4>1, <4>2
      <4>4. ASSUME NEW j \in DOMAIN chan', chan'[j].kind = "delta", chan'[j].text = k
            PROVE  FALSE
        <5>1. shown'[i] < k /\ k \in Nat /\ shown'[i] \in Nat
          BY <1>0, <3>2, <3>9, <4>1, <4>3, <4>4 DEF DeltasTo
        <5>2. QED BY <3>9, <5>1
      <4>5. QED BY <2>0, <3>2, <4>2, <4>3, <4>4 DEF DeltasTo, Sent
    <3>10. Begins(shown', HeardDeltas)
      BY <3>7, <3>8, <3>9 DEF Begins
    <3>11. QED BY <2>0, <3>1, <3>10, HeardSame DEF ShownIsHeard, AnswerIsFinal
  <2>7. QED BY <1>12, <2>3, <2>4, <2>5, <2>6 DEF Takes
<1>13. QED BY <1>6, <1>7, <1>8, <1>9, <1>10, <1>11, <1>12 DEF Next, ReadsResponse

-----------------------------------------------------------------------------

LEMMA InitIInv ==
    ASSUME Init
    PROVE  IInv
<1>0. /\ <<>> \in Seq(Lines) /\ <<>> \in Seq(Events) /\ <<>> \in Seq(Nat)
      /\ Len(<<>>) = 0 /\ DOMAIN <<>> = {}
  BY EmptySeq
<1>1. Types
  <2>1. pipe \in Seq(Lines) /\ said \in Seq(Lines) /\ chan \in Seq(Events)
    BY <1>0 DEF Init
  <2>2. deltas \in Seq(Nat) /\ shown \in Seq(Nat) /\ answer \in Seq(Nat)
    BY <1>0 DEF Init
  <2>3. QED BY <2>1, <2>2 DEF Init, Types
<1>2. SaidInv /\ PipeInv
  BY <1>0 DEF Init, SaidInv, PipeInv
<1>3. ReaderInv(0) /\ TaskInv(0)
  BY <1>0 DEF Init, ReaderInv, TaskInv
<1>4. StreamInv
  <2>1. 0 \in 0 .. Len(said)
    BY <1>0 DEF Init
  <2>2. QED BY <1>3, <2>1 DEF StreamInv
<1>5. FailureIsItsOwn /\ ShownIsHeard /\ AnswerIsFinal
  BY <1>0 DEF Init, FailureIsItsOwn, ShownIsHeard, AnswerIsFinal, Begins, Range
<1>6. QED BY <1>1, <1>2, <1>4, <1>5 DEF IInv

LEMMA IInvKept ==
    ASSUME IInv, [Next]_vars
    PROVE  IInv'
<1>1. CASE Next
  <2>1. /\ Types /\ SaidInv /\ PipeInv /\ StreamInv
        /\ FailureIsItsOwn /\ ShownIsHeard /\ AnswerIsFinal
    BY DEF IInv
  <2>2. Types' /\ SaidInv' /\ PipeInv' /\ StreamInv'
    BY <1>1, <2>1, TypesKept, SaidKept, PipeKept, StreamKept
  <2>3. FailureIsItsOwn' /\ ShownIsHeard' /\ AnswerIsFinal'
    BY <1>1, <2>1, FailureKept, AnswersKept
  <2>4. QED BY <2>2, <2>3 DEF IInv
<1>2. CASE UNCHANGED vars
  <2>1. /\ UNCHANGED <<alive, pipe, owed, serving, said, stale, tagged, turn, reader>>
        /\ UNCHANGED <<chan, task, deltas, final, status, shown, answer, missed, trouble>>
    BY <1>2 DEF vars, serverVars, taskVars, storeVars
  <2>2. Types' /\ SaidInv' /\ PipeInv'
    BY <2>1 DEF IInv, Types, SaidInv, PipeInv, IsOfTurn
  <2>3. StreamInv'
    BY <2>1 DEF IInv, StreamInv, ReaderInv, ReadUpTo, GoesOnTo, IsOfTurn, TaskInv, DeltasTo,
                MessagesTo, IsMessage, Sent, EndAt, Cause, Heard
  <2>4. FailureIsItsOwn' /\ ShownIsHeard' /\ AnswerIsFinal'
    <3>1. Heard' = Heard /\ HeardDeltas' = HeardDeltas
      BY <2>1, HeardSame
    <3>2. FailureIsItsOwn' /\ ShownIsHeard'
      BY <2>1, <3>1 DEF IInv, FailureIsItsOwn, ShownIsHeard
    <3>3. AnswerIsFinal'
      BY <2>1, <3>1 DEF IInv, AnswerIsFinal
    <3>4. QED BY <3>2, <3>3
  <2>5. QED BY <2>2, <2>3, <2>4 DEF IInv
<1>3. QED BY <1>1, <1>2

LEMMA IInvHolds == Spec => []IInv
<1>1. Init => IInv
  BY InitIInv
<1>2. IInv /\ [Next]_vars => IInv'
  BY IInvKept
<1>3. QED BY <1>1, <1>2, PTL DEF Spec

\* A turn fails only for a reason of its own: its start failed, its output
\* broke, or the app-server said so of it among the lines the stream heard.
THEOREM FailureIsItsOwnHolds == Spec => []FailureIsItsOwn
<1>1. IInv => FailureIsItsOwn
  BY DEF IInv
<1>2. QED BY <1>1, IInvHolds, PTL

\* The side panel is shown the deltas of the turn it watches, in their order and
\* with none left out, and all of them when the turn is completed.
THEOREM ShownIsHeardHolds == Spec => []ShownIsHeard
<1>1. IInv => ShownIsHeard
  BY DEF IInv
<1>2. QED BY <1>1, IInvHolds, PTL

\* The answer the store keeps is the last message of its own turn that is one, or
\* all its deltas if it has none.
THEOREM AnswerIsFinalHolds == Spec => []AnswerIsFinal
<1>1. IInv => AnswerIsFinal
  BY DEF IInv
<1>2. QED BY <1>1, IInvHolds, PTL
===============================================================================

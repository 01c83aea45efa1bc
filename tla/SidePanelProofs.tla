--------------------------- MODULE SidePanelProofs ---------------------------
(***************************************************************************)
(* Theorems about the side panel, for every number of connections,         *)
(* sessions and questions.                                                 *)
(***************************************************************************)
EXTENDS SidePanel, SequenceTheorems, TLAPS

USE PanelAssumption, NoneAssumption

Links == {"unused", "connecting", "open", "stalled", "closed"}
Rows == [text : OrNone(Texts), session : OrNone(Sessions), conn : OrNone(Conns)]

\* A request to send names a question, and so does a notification.
InCalls == {q \in Calls : q.kind = "sending" => q.key # None}
HeldCalls == {q \in Calls : q.kind = "sending" /\ q.key # None}
OutMessages == {m \in Messages : m.to = "page" => m.key # None}

PageTypes ==
    /\ panel \in Panels
    /\ task \in [Tasks -> TaskStates]
    /\ link \in [Conns -> Links]
    /\ inbox \in [Conns -> Seq(InCalls)]
    /\ sent \in SUBSET Keys /\ told \in SUBSET Keys /\ crossed \in BOOLEAN
OutTypes == outbox \in [Conns -> Seq(OutMessages)]
DaemonTypes ==
    /\ handling \in [Conns -> OrNone(HeldCalls)]
    /\ subs \in [Conns -> SUBSET Sessions]
    /\ store \in [Sessions -> {"unused", "known", "forgotten"}]
    /\ fate \in [Keys -> Fates]
QuestionTypes == question \in [Keys -> Rows]
Types == PageTypes /\ OutTypes /\ DaemonTypes /\ QuestionTypes

LEMMA Names ==
    /\ None \notin Tasks /\ "page" \notin Tasks /\ None # "page"
    /\ "ask" \in Tasks /\ "ask" \notin Conns /\ "restore" \in Tasks /\ "restore" \notin Conns
    /\ \A c \in Conns : c \in Tasks /\ c # "ask" /\ c # None
  BY DEF Tasks

-----------------------------------------------------------------------------
\* What the page's handlers make of its state.

LEMMA RetainedPanel ==
    ASSUME NEW p \in Panels
    PROVE  LET q == Retained(p) IN
           /\ q \in Panels
           /\ q.current = p.current /\ q.session = p.session /\ q.gen = p.gen
           /\ q.activeTurn = p.activeTurn /\ q.subscribed = p.subscribed
           /\ q.recovering = p.recovering
           /\ p.pending = None => q.pending = None
           /\ p.pending # None => /\ q.pending # None /\ q.pending.key = p.pending.key
                                  /\ q.pending.session = p.pending.session
                                  /\ q.pending.known = p.pending.known /\ q.pending.retain = TRUE
<1>1. p.pending # None => p.pending \in Pendings
  BY DEF Panels, OrNone
<1>2. p.pending # None => [p.pending EXCEPT !.retain = TRUE] \in Pendings
  BY <1>1 DEF Pendings
<1>3. p.pending # None => Retained(p) = [p EXCEPT !.pending = [p.pending EXCEPT !.retain = TRUE]]
  BY <1>1 DEF Retained, Panels, Pendings
<1>4. CASE p.pending = None
  BY <1>4 DEF Retained
<1>5. CASE p.pending # None
  <2> DEFINE w == [p.pending EXCEPT !.retain = TRUE]
  <2>1. w \in Pendings /\ w # None
    BY <1>2, <1>5
  <2>2. w.key = p.pending.key /\ w.session = p.pending.session /\ w.known = p.pending.known
        /\ w.retain = TRUE
    BY <1>1, <1>5 DEF Pendings
  <2>3. Retained(p) = [p EXCEPT !.pending = w]
    BY <1>3, <1>5
  <2> HIDE DEF w
  <2>4. QED BY <1>5, <2>1, <2>2, <2>3 DEF Panels, OrNone
<1>6. QED BY <1>4, <1>5

LEMMA DroppedPanel ==
    ASSUME NEW p \in Panels, NEW k
    PROVE  LET q == Dropped(p, k) IN
           /\ q \in Panels
           /\ q.current = p.current /\ q.session = p.session /\ q.gen = p.gen
           /\ q.activeTurn = p.activeTurn /\ q.subscribed = p.subscribed
           /\ q.recovering = p.recovering
           /\ q.pending = IF Holds(p, k) THEN None ELSE p.pending
  BY DEF Dropped, Panels, OrNone

LEMMA KnownPanel ==
    ASSUME NEW p \in Panels, NEW k \in Keys
    PROVE  LET q == Known(p, k) IN
           /\ q \in Panels
           /\ q.current = p.current /\ q.session = p.session /\ q.gen = p.gen
           /\ q.activeTurn = p.activeTurn /\ q.subscribed = p.subscribed
           /\ q.recovering = p.recovering
           /\ ~Holds(p, k) => q.pending = p.pending
           /\ Holds(p, k) => /\ q.pending # None /\ q.pending.key = p.pending.key
                             /\ q.pending.session = p.pending.session
                             /\ q.pending.known = k /\ q.pending.retain = p.pending.retain
<1>1. p.pending # None => p.pending \in Pendings
  BY DEF Panels, OrNone
<1>2. p.pending # None => [p.pending EXCEPT !.known = k] \in Pendings
  BY <1>1 DEF Pendings, OrNone
<1>3. p.pending # None => [p EXCEPT !.pending.known = k] = [p EXCEPT !.pending = [p.pending EXCEPT !.known = k]]
  BY <1>1 DEF Panels, Pendings
<1>4. CASE ~Holds(p, k)
  BY <1>4 DEF Known
<1>5. CASE Holds(p, k)
  BY <1>1, <1>2, <1>3, <1>5 DEF Known, Holds, Panels, Pendings, OrNone
<1>6. QED BY <1>4, <1>5

LEMMA ClearedPanel ==
    ASSUME NEW p \in Panels
    PROVE  LET q == Cleared(p) IN
           /\ q \in Panels
           /\ q.current = p.current /\ q.session = None /\ q.activeTurn = None
           /\ q.subscribed = FALSE /\ q.recovering = FALSE /\ q.pending = None
<1>1. p.gen + 1 \in Nat /\ p.current \in OrNone(Conns)
  BY DEF Panels
<1>2. /\ FreshPanel \in Panels
      /\ FreshPanel.session = None /\ FreshPanel.activeTurn = None /\ FreshPanel.pending = None
      /\ FreshPanel.subscribed = FALSE /\ FreshPanel.recovering = FALSE
  <2>1. None \in OrNone(Sessions) /\ None \in OrNone(Keys) /\ None \in OrNone(Pendings)
        /\ None \in OrNone(Conns)
    BY DEF OrNone
  <2>2. QED BY <2>1 DEF FreshPanel, Panels
<1>3. QED BY <1>1, <1>2 DEF Cleared, Panels

LEMMA CaughtPanel ==
    ASSUME NEW p \in Panels, NEW k
    PROVE  LET q == Caught(p, k) IN
           /\ q \in Panels
           /\ q.current = p.current /\ q.session = p.session /\ q.gen = p.gen
           /\ q.activeTurn = p.activeTurn /\ q.subscribed = p.subscribed
           /\ q.recovering = p.recovering
           /\ \/ q.pending = p.pending \/ q = Retained(p)
              \/ /\ Holds(p, k) /\ q.pending = None
                 /\ p.pending.retain = FALSE /\ p.pending.known = None
<1>1. p.pending # None => p.pending \in Pendings
  BY DEF Panels, OrNone
<1>2. p.pending # None => p.pending.retain \in BOOLEAN
  BY <1>1 DEF Pendings
<1>3. CASE Caught(p, k) = p
  BY <1>3
<1>4. CASE Caught(p, k) = Retained(p)
  BY <1>4, RetainedPanel
<1>5. CASE /\ Caught(p, k) = Dropped(p, k) /\ Holds(p, k)
           /\ ~(p.pending.retain \/ p.pending.known # None)
  <2>1. p.pending # None
    BY <1>5 DEF Holds
  <2>2. p.pending.retain = FALSE /\ p.pending.known = None
    BY <1>2, <1>5, <2>1
  <2>3. QED BY <1>5, <2>2, DroppedPanel
<1>6. QED BY <1>3, <1>4, <1>5 DEF Caught

\* What is rendered of a snapshot: the active turn is one that it has, and a
\* pending question is gone only if the snapshot shows it.
LEMMA RenderedPanel ==
    ASSUME NEW p \in Panels, NEW snapshot \in [Keys -> Fates]
    PROVE  LET q == Rendered(p, snapshot) IN
           /\ q \in Panels
           /\ q.current = p.current /\ q.session = p.session /\ q.gen = p.gen
           /\ q.subscribed = p.subscribed /\ q.recovering = p.recovering
           /\ q.activeTurn # None => snapshot[q.activeTurn] = "active"
           /\ \/ q.pending = p.pending
              \/ /\ q.pending = None
                 /\ \/ p.pending.known # None /\ snapshot[p.pending.known] # "absent"
                    \/ \E k \in Keys : /\ snapshot[k] = "active"
                                       /\ question[k].text = question[p.pending.key].text
<1> DEFINE active == {k \in Keys : snapshot[k] = "active"}
           turn == IF active = {} THEN None ELSE CHOOSE k \in active : TRUE
           shows(q) == \/ q.known # None /\ snapshot[q.known] # "absent"
                       \/ \E k \in active : question[k].text = question[q.key].text
           next == IF p.pending # None /\ shows(p.pending) THEN None ELSE p.pending
<1>1. turn = None \/ turn \in active
  OBVIOUS
<1>2. Rendered(p, snapshot) = [p EXCEPT !.activeTurn = turn, !.pending = next]
  BY DEF Rendered, Panels
<1>3. turn \in OrNone(Keys) /\ (turn # None => snapshot[turn] = "active")
  BY <1>1 DEF OrNone
<1>4. next \in OrNone(Pendings)
  BY DEF Panels, OrNone
<1>5. \/ next = p.pending
      \/ /\ next = None
         /\ \/ p.pending.known # None /\ snapshot[p.pending.known] # "absent"
            \/ \E k \in Keys : /\ snapshot[k] = "active"
                               /\ question[k].text = question[p.pending.key].text
  OBVIOUS
<1> HIDE DEF turn, next
<1>6. QED BY <1>2, <1>3, <1>4, <1>5 DEF Panels
LEMMA OtherPanels ==
    ASSUME NEW p \in Panels
    PROVE  /\ Disconnected(p) \in Panels /\ Unblocked(p) \in Panels
           /\ LET q == Disconnected(p) IN
              /\ q.current = None /\ q.subscribed = FALSE
              /\ q.session = p.session /\ q.gen = p.gen /\ q.activeTurn = p.activeTurn
              /\ q.recovering = p.recovering /\ q.pending = p.pending
           /\ LET q == Unblocked(p) IN
              /\ q.activeTurn = None /\ q.recovering = FALSE
              /\ q.current = p.current /\ q.session = p.session /\ q.gen = p.gen
              /\ q.subscribed = p.subscribed /\ q.pending = p.pending
  BY DEF Disconnected, Unblocked, Panels, OrNone

-----------------------------------------------------------------------------
\* Requests and connections.

\* The call that a task in state t waits for.
Asks(x, t) == [from |-> x, kind |-> t.at, session |-> t.session, key |-> t.key]

\* What request() does: the task waits, for an answer or for its rejection.
Sends(x, r, at) ==
    LET open == link'[r.conn] = "open" IN
    /\ task' \in [Tasks -> TaskStates] /\ inbox' \in [Conns -> Seq(InCalls)] /\ sent' \in SUBSET Keys
    /\ Asks(x, task'[x]) \in InCalls
    /\ task'[x].at = at /\ task'[x].failed = ~open
    /\ task'[x].conn = r.conn /\ task'[x].retry = r.retry /\ task'[x].key = r.key
    /\ task'[x].text = r.text /\ task'[x].session = r.session /\ task'[x].gen = r.gen
    /\ \A y \in Tasks : y # x => task'[y] = task[y]
    /\ \A c \in Conns : c # r.conn \/ ~open => inbox'[c] = inbox[c]
    /\ open => inbox'[r.conn] = Append(inbox[r.conn], Asks(x, task'[x]))
    /\ sent' = IF open /\ at = "sending" THEN sent \cup {r.key} ELSE sent

LEMMA Requested ==
    ASSUME PageTypes, NEW x \in Tasks, NEW r \in TaskStates, r.conn \in Conns,
           NEW at \in Requests, at = "sending" => r.key # None, Request(x, r, at)
    PROVE  Sends(x, r, at)
<1> DEFINE open == link'[r.conn] = "open"
           t == [r EXCEPT !.at = at, !.failed = ~open]
           call == [from |-> x, kind |-> at, session |-> r.session, key |-> r.key]
<1>1. at \in PCs /\ open \in BOOLEAN
  BY DEF PCs
<1>2. t \in TaskStates
  BY <1>1 DEF TaskStates
<1>3. /\ t.at = at /\ t.failed = ~open /\ t.conn = r.conn /\ t.retry = r.retry /\ t.key = r.key
      /\ t.text = r.text /\ t.session = r.session /\ t.gen = r.gen
  BY <1>1 DEF TaskStates
<1>4. call \in InCalls
  BY DEF Calls, InCalls, TaskStates, OrNone
<1>5. call = Asks(x, t)
  BY <1>3 DEF Asks
<1>6. task' = [task EXCEPT ![x] = t]
  BY DEF Request
<1>7. inbox' = IF open THEN [inbox EXCEPT ![r.conn] = Append(@, call)] ELSE inbox
  BY DEF Request
<1>8. sent' = IF open /\ at = "sending" THEN sent \cup {r.key} ELSE sent
  BY DEF Request
<1>9. at = "sending" => r.key \in Keys
  BY DEF TaskStates, OrNone
<1> HIDE DEF t, call
<1>10. task' \in [Tasks -> TaskStates] /\ task'[x] = t /\ \A y \in Tasks : y # x => task'[y] = task[y]
  BY <1>2, <1>6 DEF PageTypes
<1>11. sent' \in SUBSET Keys
  BY <1>8, <1>9 DEF PageTypes
<1>12. /\ inbox' \in [Conns -> Seq(InCalls)]
       /\ \A c \in Conns : c # r.conn \/ ~open => inbox'[c] = inbox[c]
       /\ open => inbox'[r.conn] = Append(inbox[r.conn], call)
  <2>1. inbox[r.conn] \in Seq(InCalls)
    BY DEF PageTypes
  <2>2. Append(inbox[r.conn], call) \in Seq(InCalls)
    BY <1>4, <2>1, AppendProperties
  <2>3. QED BY <1>7, <2>2 DEF PageTypes
<1>13. QED BY <1>3, <1>4, <1>5, <1>8, <1>10, <1>11, <1>12 DEF Sends

\* A client is replaced.  Of the connections in l, one may begin to connect and
\* the current one is closed.
Dials(x, r, p, t, l) ==
    /\ panel' \in Panels /\ task' \in [Tasks -> TaskStates] /\ link' \in [Conns -> Links]
    /\ panel' = [p EXCEPT !.current = None]
    /\ \A y \in Tasks : y # x => task'[y] = t[y]
    /\ task'[x].at = "connecting" /\ task'[x].retry = r.retry /\ task'[x].key = r.key
    /\ task'[x].text = r.text /\ task'[x].session = r.session /\ task'[x].gen = r.gen
    /\ task'[x].failed = FALSE =>
          /\ task'[x].conn \in Conns
          /\ l[task'[x].conn] = "unused" /\ link'[task'[x].conn] = "connecting"
    /\ \A c \in Conns : \/ link'[c] = l[c] /\ c # p.current
                        \/ link'[c] = "closed" /\ c = p.current
                        \/ task'[x].failed = FALSE /\ c = task'[x].conn

LEMMA Dialed ==
    ASSUME NEW x \in Tasks, NEW r \in TaskStates, r.failed = FALSE, NEW p \in Panels,
           NEW t \in [Tasks -> TaskStates], NEW l \in [Conns -> Links], Dial(x, r, p, t, l)
    PROVE  Dials(x, r, p, t, l)
<1> DEFINE unused == {d \in Conns : l[d] = "unused"}
           d == CHOOSE d \in unused : TRUE
           h == Hung(l, p.current)
<1>1. panel' = [p EXCEPT !.current = None] /\ panel' \in Panels
  BY DEF Dial, Panels, OrNone
<1>2. p.current = None \/ p.current \in Conns
  BY DEF Panels, OrNone
<1>3. /\ h \in [Conns -> Links]
      /\ \A c \in Conns : \/ h[c] = l[c] /\ c # p.current
                          \/ h[c] = "closed" /\ c = p.current
  <2>1. CASE p.current = None
    BY <2>1, Names DEF Hung
  <2>2. CASE p.current # None
    BY <1>2, <2>2 DEF Hung, Links
  <2>3. QED BY <2>1, <2>2
<1>4. "connecting" \in PCs
  BY DEF PCs
<1>5. CASE unused = {}
  <2> DEFINE s == [r EXCEPT !.at = "connecting", !.failed = TRUE]
  <2>1. s \in TaskStates
    BY <1>4 DEF TaskStates
  <2>2. /\ s.at = "connecting" /\ s.failed = TRUE /\ s.retry = r.retry /\ s.key = r.key
        /\ s.text = r.text /\ s.session = r.session /\ s.gen = r.gen
    BY <1>4 DEF TaskStates
  <2>3. task' = [t EXCEPT ![x] = s] /\ link' = h
    BY <1>5 DEF Dial
  <2> HIDE DEF s, h
  <2>4. task' \in [Tasks -> TaskStates] /\ task'[x] = s /\ \A y \in Tasks : y # x => task'[y] = t[y]
    BY <2>1, <2>3
  <2>5. QED BY <1>1, <1>3, <2>2, <2>3, <2>4 DEF Dials
<1>6. CASE unused # {}
  <2> DEFINE s == [r EXCEPT !.at = "connecting", !.conn = d]
  <2>1. d \in Conns /\ l[d] = "unused"
    BY <1>6
  <2>2. s \in TaskStates
    BY <1>4, <2>1 DEF TaskStates, OrNone
  <2>3. /\ s.at = "connecting" /\ s.failed = FALSE /\ s.conn = d /\ s.retry = r.retry
        /\ s.key = r.key /\ s.text = r.text /\ s.session = r.session /\ s.gen = r.gen
    BY <1>4, <2>1 DEF TaskStates
  <2>4. task' = [t EXCEPT ![x] = s] /\ link' = [h EXCEPT ![d] = "connecting"]
    BY <1>6 DEF Dial
  <2> HIDE DEF s, h, d
  <2>5. task' \in [Tasks -> TaskStates] /\ task'[x] = s /\ \A y \in Tasks : y # x => task'[y] = t[y]
    BY <2>2, <2>4
  <2>6. link' \in [Conns -> Links] /\ link'[d] = "connecting" /\ \A c \in Conns : c # d => link'[c] = h[c]
    BY <1>3, <2>1, <2>4 DEF Links
  <2>7. QED BY <1>1, <1>3, <2>1, <2>3, <2>5, <2>6 DEF Dials
<1>7. QED BY <1>5, <1>6
-----------------------------------------------------------------------------
\* The call of a task on an open connection: in the inbox `in', with the handler
\* `h' or, as its answer, in the outbox `out'.

NoCall(x, in, h, out) ==
    /\ \A i \in 1 .. Len(in) : in[i].from # x
    /\ h # None => h.from # x
    /\ \A i \in 1 .. Len(out) : out[i].to # x

\* m answers what a task in state t asked.
Fits(m, t) ==
    /\ m.key = t.key
    /\ m.says \in {"ok", "accepted", "reused", "terminal", "refused", "not_found"}
    /\ m.says \in {"accepted", "reused", "terminal"} => t.at = "sending"
    /\ m.says = "ok" => t.at # "sending"
    /\ m.says = "refused" => t.at \in {"creating", "sending"}
    /\ m.says = "ok" /\ t.at = "creating" => m.session \in Sessions
    /\ m.says = "ok" /\ t.at = "fetching" => m.snapshot # None
    /\ m.snapshot # None => m.says = "ok" /\ t.at = "fetching"

Waiting(c, t) == t.at \in Requests /\ t.failed = FALSE /\ t.conn = c

\* The task has one call at most, and it is the one that it waits for.
CallOK(c, x, t, in, h, out) ==
    /\ ~NoCall(x, in, h, out) => Waiting(c, t)
    /\ \A i \in 1 .. Len(in) : in[i].from = x =>
          /\ in[i] = Asks(x, t)
          /\ \A j \in 1 .. Len(in) : in[j].from = x => j = i
          /\ h # None => h.from # x
          /\ \A j \in 1 .. Len(out) : out[j].to # x
    /\ h # None /\ h.from = x => h = Asks(x, t) /\ \A j \in 1 .. Len(out) : out[j].to # x
    /\ \A i \in 1 .. Len(out) : out[i].to = x =>
          /\ Fits(out[i], t)
          /\ \A j \in 1 .. Len(out) : out[j].to = x => j = i

CallInv ==
    \A c \in Conns : link[c] = "open" =>
        \A x \in Tasks : CallOK(c, x, task[x], inbox[c], handling[c], outbox[c])

LEMMA CallNone ==
    ASSUME NEW c, NEW x, NEW t, NEW in, NEW h, NEW out, NoCall(x, in, h, out)
    PROVE  CallOK(c, x, t, in, h, out)
  BY DEF CallOK, NoCall

LEMMA CallReceived ==
    ASSUME NEW c, NEW x, NEW t, NEW in, NEW h, NEW out \in Seq(OutMessages), out # <<>>,
           CallOK(c, x, t, in, h, out)
    PROVE  /\ Head(out).to # x => CallOK(c, x, t, in, h, Tail(out))
           /\ Head(out).to = x =>
                 NoCall(x, in, h, Tail(out)) /\ Fits(Head(out), t) /\ Waiting(c, t)
<1>1. /\ Len(out) >= 1 /\ Len(Tail(out)) = Len(out) - 1 /\ Head(out) = out[1] /\ Len(out) \in Nat
      /\ \A i \in 1 .. Len(Tail(out)) : Tail(out)[i] = out[i + 1]
  BY EmptySeq, HeadTailProperties, LenProperties
<1>2. ASSUME Head(out).to # x PROVE CallOK(c, x, t, in, h, Tail(out))
  <2>1. \A i \in 1 .. Len(Tail(out)) : i + 1 \in 1 .. Len(out)
    BY <1>1
  <2>2. NoCall(x, in, h, out) => NoCall(x, in, h, Tail(out))
    BY <1>1, <2>1 DEF NoCall
  <2>3. NoCall(x, in, h, Tail(out)) => NoCall(x, in, h, out)
    <3>1. ASSUME \A i \in 1 .. Len(Tail(out)) : Tail(out)[i].to # x, NEW i \in 1 .. Len(out)
          PROVE  out[i].to # x
      <4>1. CASE i = 1
        BY <1>1, <1>2, <4>1
      <4>2. CASE i # 1
        <5>1. i - 1 \in 1 .. Len(Tail(out)) /\ (i - 1) + 1 = i
          BY <1>1, <4>2
        <5>2. QED BY <1>1, <3>1, <5>1
      <4>3. QED BY <4>1, <4>2
    <3>2. QED BY <3>1 DEF NoCall
  <2>4. ASSUME NEW i \in 1 .. Len(Tail(out)), Tail(out)[i].to = x
        PROVE  Fits(Tail(out)[i], t) /\ \A j \in 1 .. Len(Tail(out)) : Tail(out)[j].to = x => j = i
    BY <1>1, <2>1, <2>4 DEF CallOK
  <2>5. ASSUME \A j \in 1 .. Len(out) : out[j].to # x
        PROVE  \A j \in 1 .. Len(Tail(out)) : Tail(out)[j].to # x
    BY <1>1, <2>1, <2>5
  <2>6. QED BY <2>2, <2>3, <2>4, <2>5 DEF CallOK
<1>3. ASSUME Head(out).to = x
      PROVE  NoCall(x, in, h, Tail(out)) /\ Fits(Head(out), t) /\ Waiting(c, t)
  <2>1. 1 \in 1 .. Len(out) /\ out[1].to = x
    BY <1>1, <1>3
  <2>2. Fits(Head(out), t) /\ Waiting(c, t)
    BY <1>1, <2>1 DEF CallOK, NoCall
  <2>3. ASSUME NEW i \in 1 .. Len(Tail(out)) PROVE Tail(out)[i].to # x
    <3>1. i + 1 \in 1 .. Len(out) /\ i + 1 # 1
      BY <1>1
    <3>2. QED BY <1>1, <2>1, <3>1 DEF CallOK
  <2>4. (\A i \in 1 .. Len(in) : in[i].from # x) /\ (h # None => h.from # x)
    BY <2>1 DEF CallOK
  <2>5. QED BY <2>2, <2>3, <2>4 DEF NoCall
<1>4. QED BY <1>2, <1>3

LEMMA CallAdded ==
    ASSUME NEW c, NEW x, NEW t, NEW in \in Seq(InCalls), NEW h, NEW out, NEW q \in InCalls,
           q.from # x => CallOK(c, x, t, in, h, out),
           q.from = x => NoCall(x, in, h, out) /\ Waiting(c, t) /\ q = Asks(x, t)
    PROVE  CallOK(c, x, t, Append(in, q), h, out)
<1> DEFINE n == Append(in, q)
<1>1. /\ Len(in) \in Nat /\ Len(n) = Len(in) + 1 /\ n[Len(in) + 1] = q
      /\ \A i \in 1 .. Len(in) : n[i] = in[i]
  BY AppendProperties, LenProperties
<1>2. \A i \in 1 .. Len(n) : i \in 1 .. Len(in) \/ i = Len(in) + 1
  BY <1>1
<1>3. \A i \in 1 .. Len(in) : i \in 1 .. Len(n)
  BY <1>1
<1>4. Len(in) + 1 \in 1 .. Len(n) /\ Len(in) + 1 \notin 1 .. Len(in)
  BY <1>1
<1> HIDE DEF n
<1>5. CASE q.from # x
  <2>1. \A i \in 1 .. Len(n) : n[i].from = x => i \in 1 .. Len(in) /\ n[i] = in[i]
    BY <1>1, <1>2, <1>5
  <2>2. NoCall(x, in, h, out) <=> NoCall(x, n, h, out)
    BY <1>1, <1>3, <2>1 DEF NoCall
  <2>3. QED BY <1>1, <1>5, <2>1, <2>2 DEF CallOK, n
<1>6. CASE q.from = x
  <2>1. \A i \in 1 .. Len(n) : n[i].from = x => i = Len(in) + 1
    BY <1>1, <1>2, <1>6 DEF NoCall
  <2>2. QED BY <1>1, <1>6, <2>1 DEF CallOK, NoCall, n
<1>7. QED BY <1>5, <1>6

LEMMA CallPosted ==
    ASSUME NEW c, NEW x, NEW t, NEW in, NEW h, NEW out \in Seq(OutMessages), NEW p \in Seq(OutMessages),
           \A i \in 1 .. Len(p) : p[i].to # x, CallOK(c, x, t, in, h, out)
    PROVE  CallOK(c, x, t, in, h, out \o p)
<1> DEFINE n == out \o p
<1>1. /\ Len(out) \in Nat /\ Len(p) \in Nat /\ Len(n) = Len(out) + Len(p)
      /\ \A i \in 1 .. Len(n) : n[i] = IF i <= Len(out) THEN out[i] ELSE p[i - Len(out)]
  BY ConcatProperties, LenProperties
<1>2. \A i \in 1 .. Len(out) : i \in 1 .. Len(n) /\ n[i] = out[i]
  BY <1>1
<1>3. \A i \in 1 .. Len(n) : i \in 1 .. Len(out) \/ i - Len(out) \in 1 .. Len(p)
  BY <1>1
<1>4. \A i \in 1 .. Len(n) : n[i].to = x => i \in 1 .. Len(out) /\ n[i] = out[i]
  BY <1>1, <1>3
<1> HIDE DEF n
<1>5. NoCall(x, in, h, out) <=> NoCall(x, in, h, n)
  BY <1>2, <1>4 DEF NoCall
<1>6. QED BY <1>2, <1>4, <1>5 DEF CallOK, n

LEMMA CallTaken ==
    ASSUME NEW c, NEW x, NEW t, NEW in \in Seq(InCalls), in # <<>>, NEW out,
           CallOK(c, x, t, in, None, out)
    PROVE  CallOK(c, x, t, Tail(in), Head(in), out)
<1>1. /\ Len(in) >= 1 /\ Len(Tail(in)) = Len(in) - 1 /\ Head(in) = in[1] /\ Len(in) \in Nat
      /\ \A i \in 1 .. Len(Tail(in)) : Tail(in)[i] = in[i + 1]
  BY EmptySeq, HeadTailProperties, LenProperties
<1>2. 1 \in 1 .. Len(in) /\ \A i \in 1 .. Len(Tail(in)) : i + 1 \in 1 .. Len(in) /\ i + 1 # 1
  BY <1>1
<1>3. ~NoCall(x, Tail(in), Head(in), out) => ~NoCall(x, in, None, out)
  BY <1>1, <1>2 DEF NoCall
<1>4. ASSUME NEW i \in 1 .. Len(Tail(in)), Tail(in)[i].from = x
      PROVE  /\ Tail(in)[i] = Asks(x, t) /\ Head(in).from # x
             /\ \A j \in 1 .. Len(Tail(in)) : Tail(in)[j].from = x => j = i
             /\ \A j \in 1 .. Len(out) : out[j].to # x
  BY <1>1, <1>2, <1>4 DEF CallOK
<1>5. Head(in).from = x => Head(in) = Asks(x, t) /\ \A j \in 1 .. Len(out) : out[j].to # x
  BY <1>1, <1>2 DEF CallOK
<1>6. QED BY <1>3, <1>4, <1>5 DEF CallOK
LEMMA CallReturned ==
    ASSUME NEW c, NEW x, NEW t, NEW in, NEW h, h # None, NEW out \in Seq(OutMessages),
           NEW p \in Seq(OutMessages), CallOK(c, x, t, in, h, out),
           \A i \in 1 .. Len(p) : p[i].to = x => i = 1 /\ h.from = x /\ Fits(p[1], t)
    PROVE  CallOK(c, x, t, in, None, out \o p)
<1> DEFINE n == out \o p
<1>1. /\ Len(out) \in Nat /\ Len(p) \in Nat /\ Len(n) = Len(out) + Len(p)
      /\ \A i \in 1 .. Len(n) : n[i] = IF i <= Len(out) THEN out[i] ELSE p[i - Len(out)]
  BY ConcatProperties, LenProperties
<1>2. \A i \in 1 .. Len(out) : i \in 1 .. Len(n) /\ n[i] = out[i]
  BY <1>1
<1>3. ASSUME NEW i \in 1 .. Len(n), n[i].to = x, i \notin 1 .. Len(out)
      PROVE  i = Len(out) + 1 /\ h.from = x /\ Fits(n[i], t)
  <2>1. i - Len(out) \in 1 .. Len(p) /\ n[i] = p[i - Len(out)]
    BY <1>1, <1>3
  <2>2. i - Len(out) = 1 /\ h.from = x /\ Fits(p[1], t)
    BY <1>3, <2>1
  <2>3. QED BY <1>1, <2>1, <2>2
<1> HIDE DEF n
<1>4. CASE h.from # x
  <2>1. \A i \in 1 .. Len(n) : n[i].to = x => i \in 1 .. Len(out) /\ n[i] = out[i]
    BY <1>2, <1>3, <1>4
  <2>2. NoCall(x, in, None, n) <=> NoCall(x, in, h, out)
    BY <1>2, <1>4, <2>1 DEF NoCall
  <2>3. QED BY <1>2, <2>1, <2>2 DEF CallOK, n
<1>5. CASE h.from = x
  <2>1. /\ Waiting(c, t)
        /\ \A i \in 1 .. Len(in) : in[i].from # x
        /\ \A i \in 1 .. Len(out) : out[i].to # x
    BY <1>5 DEF CallOK, NoCall
  <2>2. \A i \in 1 .. Len(n) : n[i].to = x => i = Len(out) + 1 /\ Fits(n[i], t)
    BY <1>2, <1>3, <2>1
  <2>3. QED BY <2>1, <2>2 DEF CallOK, n
<1>6. QED BY <1>4, <1>5

LEMMA RemovedAt ==
    ASSUME NEW S, NEW s \in Seq(S), NEW k \in 1 .. Len(s)
    PROVE  /\ RemoveAt(s, k) \in Seq(S)
           /\ Len(RemoveAt(s, k)) = Len(s) - 1
           /\ \A i \in 1 .. Len(s) - 1 :
                 RemoveAt(s, k)[i] = IF i < k THEN s[i] ELSE s[i + 1]
<1> DEFINE a == SubSeq(s, 1, k - 1)
           b == SubSeq(s, k + 1, Len(s))
<1>0. Len(s) \in Nat /\ \A i \in 1 .. Len(s) : s[i] \in S
  BY LenProperties, ElementOfSeq
<1>1. /\ a \in Seq(S) /\ Len(a) = k - 1 /\ \A i \in 1 .. k - 1 : a[i] = s[i]
  <2>1. \A i \in 1 .. k - 1 : s[i] \in S
    BY <1>0
  <2>2. /\ a \in Seq(S) /\ Len(a) = IF 1 <= k - 1 THEN k - 1 - 1 + 1 ELSE 0
        /\ \A i \in 1 .. k - 1 - 1 + 1 : a[i] = s[1 + i - 1]
    BY <1>0, <2>1, SubSeqProperties
  <2>3. QED BY <1>0, <2>2
<1>2. /\ b \in Seq(S) /\ Len(b) = Len(s) - k /\ \A i \in 1 .. Len(s) - k : b[i] = s[k + i]
  <2>1. \A i \in k + 1 .. Len(s) : s[i] \in S
    BY <1>0
  <2>2. /\ b \in Seq(S) /\ Len(b) = IF k + 1 <= Len(s) THEN Len(s) - (k + 1) + 1 ELSE 0
        /\ \A i \in 1 .. Len(s) - (k + 1) + 1 : b[i] = s[k + 1 + i - 1]
    BY <1>0, <2>1, SubSeqProperties, SMTT(30)
  <2>3. QED BY <1>0, <2>2, SMTT(30)
<1> HIDE DEF a, b
<1>3. /\ a \o b \in Seq(S) /\ Len(a \o b) = Len(s) - 1
      /\ \A i \in 1 .. Len(s) - 1 : (a \o b)[i] = IF i <= Len(a) THEN a[i] ELSE b[i - Len(a)]
  <2>1. Len(a) + Len(b) = Len(s) - 1
    BY <1>0, <1>1, <1>2
  <2>2. QED BY <1>1, <1>2, <2>1, ConcatProperties, SMTT(30)
<1>4. ASSUME NEW i \in 1 .. Len(s) - 1 PROVE (a \o b)[i] = IF i < k THEN s[i] ELSE s[i + 1]
  <2>1. CASE i < k
    BY <1>0, <1>1, <1>3, <2>1
  <2>2. CASE ~(i < k)
    <3>1. i - Len(a) \in 1 .. Len(s) - k /\ k + (i - Len(a)) = i + 1 /\ ~(i <= Len(a))
      BY <1>0, <1>1, <2>2
    <3>2. QED BY <1>2, <1>3, <2>2, <3>1
  <2>3. QED BY <2>1, <2>2
<1>5. RemoveAt(s, k) = a \o b
  BY DEF RemoveAt, a, b
<1>6. QED BY <1>3, <1>4, <1>5

\* What a timeout does to the answers: one to x goes.
LEMMA AnswerRemoved ==
    ASSUME NEW x, NEW out \in Seq(OutMessages)
    PROVE  /\ Without(x, out) \in Seq(OutMessages)
           /\ \/ /\ \A i \in 1 .. Len(out) : out[i].to # x
                 /\ Without(x, out) = out
              \/ \E k \in 1 .. Len(out) :
                    /\ out[k].to = x
                    /\ Len(Without(x, out)) = Len(out) - 1
                    /\ \A i \in 1 .. Len(out) - 1 :
                          Without(x, out)[i] = IF i < k THEN out[i] ELSE out[i + 1]
<1> DEFINE I == {i \in 1 .. Len(out) : out[i].to = x}
           k == CHOOSE i \in I : TRUE
<1>1. CASE I = {}
  <2>1. \A i \in 1 .. Len(out) : out[i].to # x
    BY <1>1
  <2>2. Without(x, out) = out
    BY <1>1 DEF Without
  <2>3. QED BY <2>1, <2>2
<1>2. CASE I # {}
  <2>1. k \in 1 .. Len(out) /\ out[k].to = x
    BY <1>2
  <2>2. Without(x, out) = RemoveAt(out, k)
    BY <1>2 DEF Without
  <2> HIDE DEF k
  <2>3. /\ RemoveAt(out, k) \in Seq(OutMessages) /\ Len(RemoveAt(out, k)) = Len(out) - 1
        /\ \A i \in 1 .. Len(out) - 1 : RemoveAt(out, k)[i] = IF i < k THEN out[i] ELSE out[i + 1]
    BY <2>1, RemovedAt
  <2>4. QED BY <2>1, <2>2, <2>3
<1>3. QED BY <1>1, <1>2

LEMMA Disowned ==
    ASSUME NEW x, NEW in \in Seq(InCalls), NEW h \in OrNone(HeldCalls),
           NEW g, g = IF h # None /\ h.from = x THEN [h EXCEPT !.from = None] ELSE h
    PROVE  LET n == Disown(x, in) IN
           /\ n \in Seq(InCalls) /\ Len(n) = Len(in) /\ g \in OrNone(HeldCalls)
           /\ \A i \in 1 .. Len(in) : IF in[i].from = x THEN n[i].from = None ELSE n[i] = in[i]
           /\ IF h # None /\ h.from = x THEN g # None /\ g.from = None ELSE g = h
<1> DEFINE n == Disown(x, in)
<1>1. Len(in) \in Nat /\ \A i \in 1 .. Len(in) : in[i] \in InCalls
  BY LenProperties, ElementOfSeq
<1>2. /\ n \in Seq(InCalls) /\ Len(n) = Len(in)
      /\ \A i \in 1 .. Len(in) : IF in[i].from = x THEN n[i].from = None /\ n[i] \in InCalls
                                 ELSE n[i] = in[i]
  <2>1. \A i \in 1 .. Len(in) : [in[i] EXCEPT !.from = None] \in InCalls
    BY <1>1 DEF Calls, InCalls, OrNone
  <2>2. \A i \in 1 .. Len(in) : [in[i] EXCEPT !.from = None].from = None
    BY <1>1 DEF Calls, InCalls
  <2>3. n = [i \in 1 .. Len(in) |-> IF in[i].from = x THEN [in[i] EXCEPT !.from = None] ELSE in[i]]
    BY DEF Disown
  <2>4. n \in [1 .. Len(in) -> InCalls]
    BY <1>1, <2>1, <2>3
  <2> HIDE DEF n
  <2>5. n \in Seq(InCalls) /\ Len(n) = Len(in)
    BY <1>1, <2>4
  <2>6. QED BY <2>1, <2>2, <2>3, <2>5
<1>3. g \in OrNone(HeldCalls) /\ (IF h # None /\ h.from = x THEN g # None /\ g.from = None ELSE g = h)
  <2>1. CASE h # None /\ h.from = x
    <3>1. h \in HeldCalls
      BY <2>1 DEF OrNone
    <3>2. /\ g \in Calls /\ g.from = None /\ g.kind = h.kind /\ g.key = h.key
      BY <2>1, <3>1 DEF Calls, HeldCalls, OrNone
    <3>3. g \in HeldCalls
      BY <3>1, <3>2 DEF HeldCalls
    <3>4. QED BY <2>1, <3>2, <3>3 DEF OrNone, HeldCalls
  <2>2. CASE ~(h # None /\ h.from = x)
    BY <2>2
  <2>3. QED BY <2>1, <2>2
<1>4. QED BY <1>2, <1>3 DEF n

LEMMA CallDropped ==
    ASSUME NEW c, NEW x \in Tasks, NEW y \in Tasks, NEW t, NEW in \in Seq(InCalls),
           NEW h \in OrNone(HeldCalls), NEW out \in Seq(OutMessages), CallOK(c, y, t, in, h, out),
           NEW g, g = IF h # None /\ h.from = x THEN [h EXCEPT !.from = None] ELSE h
    PROVE  /\ Disown(x, in) \in Seq(InCalls) /\ g \in OrNone(HeldCalls)
           /\ y # x => CallOK(c, y, t, Disown(x, in), g, Without(x, out))
           /\ y = x => NoCall(x, Disown(x, in), g, Without(x, out))
<1> DEFINE n == Disown(x, in)
           w == Without(x, out)
<1>2. /\ n \in Seq(InCalls) /\ Len(n) = Len(in)
      /\ \A i \in 1 .. Len(in) : IF in[i].from = x THEN n[i].from = None ELSE n[i] = in[i]
  BY Disowned
<1>3. g \in OrNone(HeldCalls) /\ (IF h # None /\ h.from = x THEN g # None /\ g.from = None ELSE g = h)
  BY Disowned
<1>4. None # x /\ None # y
  BY Names
<1> HIDE DEF n, w
<1>5. ASSUME y # x PROVE CallOK(c, y, t, n, g, w)
  <2>1. \A i \in 1 .. Len(n) : n[i].from = y => in[i].from = y /\ n[i] = in[i]
    BY <1>2, <1>4, <1>5
  <2>2. g # None /\ g.from = y => h # None /\ h = g
    BY <1>3, <1>4
  <2>3. \A i \in 1 .. Len(in) : in[i].from = y => n[i] = in[i]
    BY <1>2, <1>5
  <2>4. h # None /\ h.from = y => g = h
    BY <1>3, <1>5
  <2>5. \/ w = out
        \/ \E k \in 1 .. Len(out) :
              /\ out[k].to = x /\ Len(w) = Len(out) - 1
              /\ \A i \in 1 .. Len(out) - 1 : w[i] = IF i < k THEN out[i] ELSE out[i + 1]
    BY AnswerRemoved DEF w
  <2>6. CASE w = out
    BY <1>2, <2>1, <2>2, <2>3, <2>4, <2>6 DEF CallOK, NoCall
  <2>7. ASSUME NEW k \in 1 .. Len(out), out[k].to = x, Len(w) = Len(out) - 1,
               \A i \in 1 .. Len(out) - 1 : w[i] = IF i < k THEN out[i] ELSE out[i + 1]
        PROVE  CallOK(c, y, t, n, g, w)
    <3> DEFINE at(i) == IF i < k THEN i ELSE i + 1
    <3>1. \A i \in 1 .. Len(w) : at(i) \in 1 .. Len(out) /\ w[i] = out[at(i)]
      BY <2>7, LenProperties
    <3>2. \A i, j \in 1 .. Len(w) : at(i) = at(j) => i = j
      BY <2>7, LenProperties
    <3> HIDE DEF at
    <3>4. (\A i \in 1 .. Len(out) : out[i].to # y) => \A i \in 1 .. Len(w) : w[i].to # y
      BY <3>1
    <3>5. ~NoCall(y, n, g, w) => ~NoCall(y, in, h, out)
      <4>1. (\A i \in 1 .. Len(in) : in[i].from # y) => \A i \in 1 .. Len(n) : n[i].from # y
        BY <1>2, <2>1
      <4>2. (h # None => h.from # y) => (g # None => g.from # y)
        BY <2>2
      <4>3. QED BY <3>4, <4>1, <4>2 DEF NoCall
    <3>6. ASSUME NEW i \in 1 .. Len(w), w[i].to = y
          PROVE  Fits(w[i], t) /\ \A j \in 1 .. Len(w) : w[j].to = y => j = i
      <4>1. at(i) \in 1 .. Len(out) /\ out[at(i)].to = y /\ w[i] = out[at(i)]
        BY <3>1, <3>6
      <4>2. Fits(w[i], t) /\ \A l \in 1 .. Len(out) : out[l].to = y => l = at(i)
        BY <4>1 DEF CallOK
      <4>3. ASSUME NEW j \in 1 .. Len(w), w[j].to = y PROVE j = i
        BY <3>1, <3>2, <4>2, <4>3
      <4>4. QED BY <4>2, <4>3
    <3>7. \A i \in 1 .. Len(n) : n[i].from = y =>
             /\ n[i] = Asks(y, t) /\ \A j \in 1 .. Len(n) : n[j].from = y => j = i
             /\ g # None => g.from # y
             /\ \A j \in 1 .. Len(w) : w[j].to # y
      BY <1>2, <2>1, <2>2, <3>4 DEF CallOK
    <3>8. g # None /\ g.from = y => g = Asks(y, t) /\ \A j \in 1 .. Len(w) : w[j].to # y
      BY <2>2, <3>4 DEF CallOK
    <3>9. QED BY <3>5, <3>6, <3>7, <3>8 DEF CallOK
  <2>8. QED BY <2>5, <2>6, <2>7
<1>6. ASSUME y = x PROVE NoCall(x, n, g, w)
  <2>1. \A i \in 1 .. Len(n) : n[i].from # x
    BY <1>2, <1>4
  <2>2. g # None => g.from # x
    BY <1>3, <1>4
  <2>3. \A i \in 1 .. Len(w) : w[i].to # x
    <3>1. \A i \in 1 .. Len(out) : out[i].to = x => \A j \in 1 .. Len(out) : out[j].to = x => j = i
      BY <1>6 DEF CallOK
    <3>2. \/ (\A i \in 1 .. Len(out) : out[i].to # x) /\ w = out
          \/ \E k \in 1 .. Len(out) :
                /\ out[k].to = x /\ Len(w) = Len(out) - 1
                /\ \A i \in 1 .. Len(out) - 1 : w[i] = IF i < k THEN out[i] ELSE out[i + 1]
      BY AnswerRemoved DEF w
    <3>3. ASSUME NEW k \in 1 .. Len(out), out[k].to = x, Len(w) = Len(out) - 1,
                 \A i \in 1 .. Len(out) - 1 : w[i] = IF i < k THEN out[i] ELSE out[i + 1],
                 NEW i \in 1 .. Len(w)
          PROVE  w[i].to # x
      <4>1. CASE i < k
        BY <3>1, <3>3, <4>1, LenProperties
      <4>2. CASE ~(i < k)
        BY <3>1, <3>3, <4>2, LenProperties
      <4>3. QED BY <4>1, <4>2
    <3>4. QED BY <3>2, <3>3
  <2>4. QED BY <2>1, <2>2, <2>3 DEF NoCall
<1>7. QED BY <1>2, <1>3, <1>5, <1>6 DEF n, w

LEMMA CallBehind ==
    ASSUME NEW c, NEW x, NEW t, NEW in \in Seq(InCalls), NEW h, NEW out, NEW q \in InCalls,
           q.from # x, CallOK(c, x, t, in, h, out)
    PROVE  CallOK(c, x, t, Append(in, q), h, out)
  BY CallAdded

LEMMA CallMade ==
    ASSUME NEW c, NEW x, NEW t, NEW in \in Seq(InCalls), NEW h, NEW out, NEW q \in InCalls,
           q = Asks(x, t), NoCall(x, in, h, out), Waiting(c, t)
    PROVE  CallOK(c, x, t, Append(in, q), h, out)
<1>1. q.from = x
  BY DEF Asks
<1>2. QED BY <1>1, CallAdded

-----------------------------------------------------------------------------
\* The inductive invariant.

Connecting(t) == t.at = "connecting" /\ t.failed = FALSE
Asked(k) == question[k].text # None

TaskOK(x, t) ==
    /\ x # "ask" => t.at \in {"idle", "connecting", "subscribing", "fetching"}
    /\ x # "ask" /\ t.at # "idle" => t.session \in Sessions
    /\ t.at \in Requests => t.conn \in Conns
    /\ t.at \in Requests \ {"creating"} => t.session \in Sessions

\* A retry has its key; a new question gets one as it is sent.
AskOK(t) ==
    t.at # "idle" =>
        IF t.retry THEN t.key # None /\ t.at \notin {"capturing", "attaching"}
        ELSE /\ t.text # None /\ t.at # "scope"
             /\ t.key # None <=> t.at \in {"sending", "fetching"}

\* A recovery is of a connection that is closed, or the first of a page; no two
\* tasks wait for one connection to open.
TasksInv ==
    /\ \A x \in Tasks : TaskOK(x, task[x])
    /\ AskOK(task["ask"])
    /\ \A c \in Conns : task[c].at # "idle" => link[c] = "closed"
    /\ \A x \in Tasks : Connecting(task[x]) => /\ task[x].conn \in Conns
                                               /\ link[task[x].conn] = "connecting"
    /\ \A x, y \in Tasks : /\ Connecting(task[x]) /\ Connecting(task[y])
                           /\ task[x].conn = task[y].conn
                           => x = y

LinksInv ==
    /\ panel.current # None => link[panel.current] \in {"open", "stalled"}
    /\ \A c \in Conns : link[c] # "open" => outbox[c] = <<>>
    /\ \A c \in Conns : link[c] \in {"unused", "connecting"} =>
          inbox[c] = <<>> /\ handling[c] = None /\ subs[c] = {}

\* What the page keeps of a question is what was asked.
KeyInv ==
    /\ \A k \in sent : Asked(k)
    /\ panel.pending # None =>
          /\ Asked(panel.pending.key)
          /\ question[panel.pending.key].session = panel.pending.session
          /\ panel.pending.known # None =>
                question[panel.pending.known].text = question[panel.pending.key].text
    /\ task["ask"].key # None => Asked(task["ask"].key)
    /\ task["ask"].at # "idle" /\ task["ask"].key = None => \E k \in Keys : ~Asked(k)
    /\ task["ask"].at = "fetching" => task["ask"].key \in told

\* A question that is asked again is retained, and so is one that was sent, if
\* its request has failed or is about to.
KeptInv ==
    LET ask == task["ask"] IN
    Holds(panel, ask.key) =>
        /\ ask.retry /\ ask.at \notin {"idle", "scope"} => panel.pending.retain = TRUE
        /\ ask.at = "sending" /\ ask.key \in sent =>
              \/ panel.pending.retain = TRUE
              \/ panel.session # panel.pending.session
              \/ ask.failed = FALSE /\ link[ask.conn] \in {"open", "stalled"}

IInv == Types /\ TasksInv /\ LinksInv /\ CallInv /\ KeyInv /\ KeptInv

-----------------------------------------------------------------------------
\* What becomes of the task that a step of the page is about.

\* Its calls are gone, and those of the others are as they were.
Alone(x) ==
    \A c \in Conns : link'[c] = "open" =>
        /\ NoCall(x, inbox[c], handling'[c], outbox'[c])
        /\ \A y \in Tasks : y # x => CallOK(c, y, task[y], inbox[c], handling'[c], outbox'[c])

LEMMA FinishStep ==
    ASSUME PageTypes, NEW x \in Tasks, Finish(x)
    PROVE  /\ task' \in [Tasks -> TaskStates] /\ task'[x] = Idle
           /\ \A y \in Tasks : y # x => task'[y] = task[y]
<1>1. Idle \in TaskStates
  <2>1. /\ None \in OrNone(Conns) /\ None \in OrNone(Keys) /\ None \in OrNone(Texts)
        /\ None \in OrNone(Sessions) /\ "idle" \in PCs
    BY DEF OrNone, PCs
  <2>2. QED BY <2>1 DEF Idle, TaskStates
<1>2. QED BY <1>1 DEF Finish, PageTypes

LEMMA FinishCalls ==
    ASSUME PageTypes, NEW x \in Tasks, Finish(x), inbox' = inbox, Alone(x)
    PROVE  CallInv'
<1>1. SUFFICES ASSUME NEW c \in Conns, link'[c] = "open", NEW y \in Tasks
               PROVE  CallOK(c, y, task'[y], inbox[c], handling'[c], outbox'[c])
  BY DEF CallInv
<1>2. CASE y = x
  BY <1>1, <1>2, CallNone DEF Alone
<1>3. CASE y # x
  <2>1. task'[y] = task[y]
    BY <1>3, FinishStep
  <2>2. QED BY <1>1, <1>3, <2>1 DEF Alone
<1>4. QED BY <1>2, <1>3

LEMMA SendsCalls ==
    ASSUME PageTypes, NEW x \in Tasks, NEW r \in TaskStates, r.conn \in Conns,
           NEW at \in Requests, Sends(x, r, at), Alone(x)
    PROVE  CallInv'
<1>1. SUFFICES ASSUME NEW c \in Conns, link'[c] = "open", NEW y \in Tasks
               PROVE  CallOK(c, y, task'[y], inbox'[c], handling'[c], outbox'[c])
  BY DEF CallInv
<1> DEFINE q == Asks(x, task'[x])
<1>2. inbox[c] \in Seq(InCalls) /\ (inbox'[c] # inbox[c] => c = r.conn)
  BY DEF PageTypes, Sends
<1>3. CASE inbox'[c] = inbox[c]
  <2>1. CASE y = x
    BY <1>1, <1>3, <2>1, CallNone DEF Alone
  <2>2. CASE y # x
    BY <1>1, <1>3, <2>2 DEF Alone, Sends
  <2>3. QED BY <2>1, <2>2
<1>4. CASE inbox'[c] # inbox[c]
  <2>1. c = r.conn /\ inbox'[c] = Append(inbox[c], q)
    BY <1>1, <1>2, <1>4 DEF Sends
  <2>2. task'[x] \in TaskStates /\ task'[x].at \in Requests /\ task'[x].conn = c
        /\ task'[x].failed = FALSE
    BY <1>1, <2>1 DEF Sends
  <2>3. q \in InCalls
    BY DEF Sends
  <2>4. q.from = x
    BY DEF Asks
  <2>5. Waiting(c, task'[x])
    BY <2>2 DEF Waiting
  <2> HIDE DEF q
  <2>6. q = Asks(x, task'[x])
    BY DEF q
  <2>7. CASE y = x
    <3>1. NoCall(x, inbox[c], handling'[c], outbox'[c])
      BY <1>1 DEF Alone
    <3>2. CallOK(c, y, task'[y], Append(inbox[c], q), handling'[c], outbox'[c])
      BY <1>2, <2>3, <2>5, <2>6, <2>7, <3>1, CallMade
    <3>3. QED BY <2>1, <3>2
  <2>8. CASE y # x
    <3>1. CallOK(c, y, task'[y], inbox[c], handling'[c], outbox'[c])
      BY <1>1, <2>8 DEF Alone, Sends
    <3>2. CallOK(c, y, task'[y], Append(inbox[c], q), handling'[c], outbox'[c])
      BY <1>2, <2>3, <2>4, <2>8, <3>1, CallBehind
    <3>3. QED BY <2>1, <3>2
  <2>9. QED BY <2>7, <2>8
<1>5. QED BY <1>3, <1>4

LEMMA FinishTasks ==
    ASSUME PageTypes, TasksInv, NEW x \in Tasks, Finish(x), link' = link
    PROVE  TasksInv'
<1>1. task' \in [Tasks -> TaskStates] /\ task'[x] = Idle /\ \A y \in Tasks : y # x => task'[y] = task[y]
  BY FinishStep
<1>2. Idle.at = "idle" /\ ~Connecting(Idle) /\ TaskOK(x, Idle) /\ AskOK(Idle)
  BY DEF Idle, Connecting, TaskOK, AskOK, Requests
<1>3. \A y \in Tasks : task'[y] = task[y] \/ task'[y] = Idle
  BY <1>1
<1>4. AskOK(task'["ask"])
  BY <1>1, <1>2, Names DEF TasksInv
<1>5. \A y \in Tasks : TaskOK(y, task'[y])
  BY <1>1, <1>2 DEF TasksInv
<1>6. \A c \in Conns : task'[c].at # "idle" => link'[c] = "closed"
  BY <1>1, <1>2, Names DEF TasksInv
<1>7. \A y \in Tasks : Connecting(task'[y]) => y # x
  BY <1>1, <1>2
<1>8. QED BY <1>1, <1>4, <1>5, <1>6, <1>7 DEF TasksInv

LEMMA SendsTasks ==
    ASSUME PageTypes, TasksInv, NEW x \in Tasks, NEW r \in TaskStates, NEW at \in Requests,
           Sends(x, r, at), task[x].at # "idle", TaskOK(x, task'[x]), x = "ask" => AskOK(task'[x]),
           \/ link' = link
           \/ Connecting(task[x]) /\ link' = [link EXCEPT ![task[x].conn] = "open"]
    PROVE  TasksInv'
<1>1. task'[x].at # "connecting" /\ \A y \in Tasks : y # x => task'[y] = task[y]
  BY DEF Sends, Requests
<1>2. AskOK(task'["ask"])
  BY <1>1, Names DEF TasksInv
<1>3. \A y \in Tasks : TaskOK(y, task'[y])
  BY <1>1 DEF TasksInv
<1>4. \A y \in Tasks : Connecting(task'[y]) => y # x /\ task'[y] = task[y]
  BY <1>1 DEF Connecting
<1>5. ASSUME NEW c \in Conns, link'[c] # link[c] PROVE Connecting(task[x]) /\ c = task[x].conn /\ link[c] = "connecting"
  BY <1>5 DEF TasksInv, PageTypes
<1>6. \A c \in Conns : task'[c].at # "idle" => link'[c] = "closed"
  <2>1. SUFFICES ASSUME NEW c \in Conns, task'[c].at # "idle" PROVE link'[c] = "closed"
    OBVIOUS
  <2>2. task[c].at # "idle"
    BY <1>1, <2>1, Names
  <2>3. link[c] = "closed"
    BY <2>2 DEF TasksInv
  <2>4. QED BY <1>5, <2>3
<1>7. ASSUME NEW y \in Tasks, Connecting(task'[y])
      PROVE  task'[y].conn \in Conns /\ link'[task'[y].conn] = "connecting"
  <2>1. Connecting(task[y]) /\ y # x /\ task'[y] = task[y]
    BY <1>4, <1>7
  <2>2. task[y].conn \in Conns /\ link[task[y].conn] = "connecting"
    BY <2>1 DEF TasksInv
  <2>3. link'[task[y].conn] # link[task[y].conn] => Connecting(task[x]) /\ task[y].conn = task[x].conn
    BY <1>5, <2>2
  <2>4. QED BY <2>1, <2>2, <2>3 DEF TasksInv
<1>8. \A y, z \in Tasks : Connecting(task'[y]) /\ Connecting(task'[z]) /\ task'[y].conn = task'[z].conn => y = z
  BY <1>4 DEF TasksInv
<1>9. QED BY <1>2, <1>3, <1>6, <1>7, <1>8 DEF TasksInv

-----------------------------------------------------------------------------
\* A connection is lost.

LEMMA CallsSurvive ==
    ASSUME CallInv,
           \A c \in Conns : link'[c] = "open" =>
              /\ link[c] = "open" /\ inbox'[c] = inbox[c] /\ outbox'[c] = outbox[c]
              /\ handling'[c] = handling[c]
              /\ \A y \in Tasks : task'[y] = task[y] \/ ~Waiting(c, task[y])
    PROVE  CallInv'
<1>1. SUFFICES ASSUME NEW c \in Conns, link'[c] = "open", NEW y \in Tasks
               PROVE  CallOK(c, y, task'[y], inbox[c], handling[c], outbox[c])
  BY DEF CallInv
<1>2. CallOK(c, y, task[y], inbox[c], handling[c], outbox[c])
  BY <1>1 DEF CallInv
<1>3. CASE task'[y] = task[y]
  BY <1>2, <1>3
<1>4. CASE ~Waiting(c, task[y])
  <2>1. NoCall(y, inbox[c], handling[c], outbox[c])
    BY <1>2, <1>4 DEF CallOK
  <2>2. QED BY <2>1, CallNone
<1>5. QED BY <1>1, <1>3, <1>4

\* What losing connection c does to the tasks t and the connections, when x is
\* the task that connects again, if one does.
Lost(x, t) ==
    /\ task' \in [Tasks -> TaskStates] /\ link' \in [Conns -> Links]
    /\ \A d \in Conns : \/ link'[d] = link[d]
                        \/ link'[d] = "closed" /\ link[d] \in {"open", "stalled"}
                        \/ link'[d] = "connecting" /\ link[d] = "unused"
    /\ \A y \in Tasks : y # x => task'[y] = t[y]
    /\ \/ task'[x] = t[x]
       \/ /\ task'[x].at = "connecting" /\ task'[x].session \in Sessions
          /\ task'[x].failed = FALSE =>
                /\ task'[x].conn \in Conns
                /\ link[task'[x].conn] = "unused" /\ link'[task'[x].conn] = "connecting"

LEMMA LostTasks ==
    ASSUME PageTypes, TasksInv, NEW x \in Conns, link'[x] = "closed",
           NEW t \in [Tasks -> TaskStates], Lost(x, t),
           \A y \in Tasks : \/ t[y] = task[y]
                            \/ task[y].at \in Requests /\ t[y] = [task[y] EXCEPT !.failed = TRUE]
    PROVE  TasksInv'
<1>0. x \in Tasks /\ x # "ask" /\ "ask" \in Tasks
  BY Names
<1>1. ASSUME NEW y \in Tasks
      PROVE  /\ t[y].at = task[y].at /\ t[y].conn = task[y].conn /\ t[y].session = task[y].session
             /\ t[y].retry = task[y].retry /\ t[y].key = task[y].key /\ t[y].text = task[y].text
             /\ Connecting(t[y]) => Connecting(task[y])
  <2>1. task[y] \in TaskStates
    BY DEF PageTypes
  <2>2. CASE t[y] = [task[y] EXCEPT !.failed = TRUE]
    BY <2>1, <2>2 DEF TaskStates, Connecting
  <2>3. QED BY <2>2
<1>2. \A y \in Tasks : task'[y] = t[y] \/ (y = x /\ task'[x].at = "connecting" /\ task'[x].session \in Sessions)
  BY <1>0 DEF Lost
<1>3. ASSUME NEW y \in Tasks PROVE TaskOK(y, task'[y])
  <2>1. CASE task'[y] = t[y]
    <3>1. TaskOK(y, task[y])
      BY DEF TasksInv
    <3>2. QED BY <1>1, <2>1, <3>1 DEF TaskOK
  <2>2. CASE y = x /\ task'[x].at = "connecting" /\ task'[x].session \in Sessions
    BY <2>2 DEF TaskOK, Requests
  <2>3. QED BY <1>2, <2>1, <2>2
<1>4. AskOK(task'["ask"])
  <2>1. task'["ask"] = t["ask"] /\ AskOK(task["ask"])
    BY <1>0 DEF Lost, TasksInv
  <2>2. QED BY <1>0, <1>1, <2>1 DEF AskOK
<1>5. ASSUME NEW c \in Conns, task'[c].at # "idle" PROVE link'[c] = "closed"
  <2>0. c \in Tasks
    BY Names
  <2>1. CASE c = x
    BY <2>1
  <2>2. CASE c # x
    <3>1. task[c].at # "idle"
      BY <1>1, <1>5, <2>0, <2>2 DEF Lost
    <3>2. link[c] = "closed"
      BY <3>1 DEF TasksInv
    <3>3. QED BY <3>2 DEF Lost
  <2>3. QED BY <2>1, <2>2
<1>6. ASSUME NEW y \in Tasks, Connecting(task'[y])
      PROVE  /\ task'[y].conn \in Conns /\ link'[task'[y].conn] = "connecting"
             /\ \/ Connecting(task[y]) /\ task[y].conn = task'[y].conn /\ link[task'[y].conn] = "connecting"
                \/ y = x /\ link[task'[y].conn] = "unused"
  <2>1. CASE task'[y] = t[y]
    <3>1. Connecting(task[y]) /\ task[y].conn = task'[y].conn
      BY <1>1, <1>6, <2>1
    <3>2. task[y].conn \in Conns /\ link[task[y].conn] = "connecting"
      BY <3>1 DEF TasksInv
    <3>3. link'[task[y].conn] = link[task[y].conn]
      BY <3>2 DEF Lost
    <3>4. QED BY <3>1, <3>2, <3>3
  <2>2. CASE task'[y] # t[y]
    <3>1. y = x /\ task'[x].failed = FALSE
      BY <1>6, <2>2 DEF Lost, Connecting
    <3>2. QED BY <2>2, <3>1 DEF Lost
  <2>3. QED BY <2>1, <2>2
<1>7. ASSUME NEW y \in Tasks, NEW z \in Tasks, Connecting(task'[y]), Connecting(task'[z]),
             task'[y].conn = task'[z].conn
      PROVE  y = z
  <2>1. CASE Connecting(task[y]) /\ task[y].conn = task'[y].conn
             /\ Connecting(task[z]) /\ task[z].conn = task'[z].conn
    BY <1>7, <2>1 DEF TasksInv
  <2>2. QED BY <1>6, <1>7, <2>1
<1>8. QED BY <1>3, <1>4, <1>5, <1>6, <1>7 DEF TasksInv

\* The calls on connection c that are given up: t is the tasks after that.
CallsFail(c, t) ==
    \A y \in Tasks : \/ t[y] = task[y]
                     \/ /\ task[y].at \in Requests /\ task[y].conn = c
                        /\ t[y] = [task[y] EXCEPT !.failed = TRUE]

\* What the page is like once connection c is lost.
PageLost(c, t) ==
    /\ panel' \in Panels /\ panel'.current = None /\ panel'.session = panel.session
    /\ \/ panel'.pending = Retained(Disconnected(panel)).pending
       \/ /\ panel'.pending = panel.pending
          /\ panel.session = None \/ (panel.activeTurn = None /\ ~InFlight)
    /\ link'[c] = "closed" /\ Lost(c, t) /\ TasksInv'
    /\ \A d \in Conns : link'[d] = "open" =>
          link[d] = "open" /\ \A y \in Tasks : task'[y] = task[y] \/ ~Waiting(d, task[y])

LEMMA LostStep ==
    ASSUME PageTypes, TasksInv, LinksInv, NEW c \in Conns, link[c] \in {"open", "stalled"},
           NEW t \in [Tasks -> TaskStates],
           CallsFail(c, t), ConnectionLost(c, t, Hung(link, c))
    PROVE  PageLost(c, t)
<1> USE DEF CallsFail, PageLost
<1> DEFINE p == Disconnected(panel)
           l == Hung(link, c)
<1>0. c \in Tasks /\ c # "ask" /\ c # None
  BY Names
<1>1. p \in Panels /\ p.current = None /\ p.session = panel.session /\ p.pending = panel.pending
      /\ p.activeTurn = panel.activeTurn /\ p.gen = panel.gen
  BY OtherPanels DEF PageTypes
<1>2. l \in [Conns -> Links] /\ l[c] = "closed" /\ \A d \in Conns : d # c => l[d] = link[d]
  BY <1>0 DEF PageTypes, Hung, Links
<1>3. panel.current = None \/ (panel.current \in Conns /\ link[panel.current] \in {"open", "stalled"})
  BY DEF PageTypes, LinksInv, Panels, OrNone
<1> DEFINE h == Hung(l, panel.current)
<1>4. /\ h \in [Conns -> Links] /\ h[c] = "closed"
      /\ \A d \in Conns : h[d] = link[d] \/ (h[d] = "closed" /\ link[d] \in {"open", "stalled"})
  <2>1. CASE panel.current = None
    BY <1>2, <2>1 DEF Hung
  <2>2. CASE panel.current # None
    BY <1>2, <1>3, <2>2 DEF Hung, Links
  <2>3. QED BY <2>1, <2>2
<1>5. task[c].at = "idle" /\ t[c] = task[c]
  <2>1. task[c].at = "idle"
    BY DEF TasksInv
  <2>2. QED BY <1>0, <2>1 DEF Requests
<1> HIDE DEF p, l
<1>6. CASE p.session # None /\ (p.activeTurn # None \/ InFlight)
  <2> DEFINE r == [Idle EXCEPT !.session = p.session, !.gen = p.gen]
             q == [Retained(p) EXCEPT !.recovering = TRUE]
  <2>1. Dial(c, r, q, t, h)
    BY <1>6 DEF ConnectionLost, p, l
  <2>2. r \in TaskStates /\ r.failed = FALSE /\ r.session = p.session
    <3>1. Idle \in TaskStates /\ Idle.failed = FALSE
      <4>1. /\ None \in OrNone(Conns) /\ None \in OrNone(Keys) /\ None \in OrNone(Texts)
            /\ None \in OrNone(Sessions) /\ "idle" \in PCs
        BY DEF OrNone, PCs
      <4>2. QED BY <4>1 DEF Idle, TaskStates
    <3>2. p.session \in OrNone(Sessions) /\ p.gen \in Nat
      BY <1>1 DEF Panels
    <3>3. QED BY <3>1, <3>2 DEF TaskStates
  <2>3. /\ q \in Panels /\ q.current = None /\ q.session = panel.session
        /\ q.pending = Retained(p).pending
    <3>1. Retained(p) \in Panels /\ Retained(p).current = None /\ Retained(p).session = panel.session
      BY <1>1, RetainedPanel
    <3>2. QED BY <3>1 DEF Panels
  <2> HIDE DEF q, r
  <2>4. Dials(c, r, q, t, h)
    BY <1>0, <1>4, <2>1, <2>2, <2>3, Dialed
  <2>5. panel' \in Panels /\ panel'.current = None /\ panel'.session = panel.session
        /\ panel'.pending = Retained(p).pending
    BY <2>3, <2>4 DEF Dials, Panels
  <2>6. \A d \in Conns : \/ link'[d] = h[d]
                         \/ /\ d = task'[c].conn /\ h[d] = "unused" /\ link'[d] = "connecting"
    BY <2>3, <2>4, Names DEF Dials
  <2>7. Lost(c, t)
    <3>1. \A d \in Conns : \/ link'[d] = link[d]
                           \/ link'[d] = "closed" /\ link[d] \in {"open", "stalled"}
                           \/ link'[d] = "connecting" /\ link[d] = "unused"
      BY <1>4, <2>6
    <3>2. /\ task'[c].at = "connecting" /\ task'[c].session \in Sessions
          /\ task'[c].failed = FALSE =>
                /\ task'[c].conn \in Conns
                /\ link[task'[c].conn] = "unused" /\ link'[task'[c].conn] = "connecting"
      <4>1. p.session \in Sessions
        BY <1>1, <1>6 DEF Panels, OrNone
      <4>2. QED BY <1>4, <2>2, <2>4, <4>1 DEF Dials
    <3>3. QED BY <2>4, <3>1, <3>2 DEF Lost, Dials
  <2>8. link'[c] = "closed"
    BY <1>4, <2>6
  <2>9. TasksInv'
    BY <1>0, <2>7, <2>8, LostTasks
  <2>10. \A d \in Conns : link'[d] = "open" => link[d] = "open" /\ d # c
    BY <2>7, <2>8 DEF Lost
  <2>11. ASSUME NEW d \in Conns, link'[d] = "open", NEW y \in Tasks
         PROVE  task'[y] = task[y] \/ ~Waiting(d, task[y])
    <3>1. link[d] = "open" /\ d # c
      BY <2>10, <2>11
    <3>2. CASE y = c
      BY <1>5, <3>1, <3>2 DEF Waiting, Requests
    <3>3. CASE y # c
      BY <2>7, <3>1, <3>3 DEF Lost, Waiting
    <3>4. QED BY <3>1, <3>2, <3>3
  <2>12. QED BY <2>5, <2>7, <2>8, <2>9, <2>10, <2>11 DEF p
<1>7. CASE ~(p.session # None /\ (p.activeTurn # None \/ InFlight))
  <2>1. panel' = p /\ task' = t /\ link' = h
    BY <1>7 DEF ConnectionLost, p, l
  <2>2. Lost(c, t) /\ link'[c] = "closed"
    BY <1>4, <2>1 DEF Lost
  <2>3. TasksInv'
    BY <1>0, <2>2, LostTasks
  <2>4. \A d \in Conns : link'[d] = "open" =>
           link[d] = "open" /\ \A y \in Tasks : task'[y] = task[y] \/ ~Waiting(d, task[y])
    BY <1>4, <2>1, <2>2 DEF Waiting
  <2>5. QED BY <1>1, <1>7, <2>1, <2>2, <2>3, <2>4
<1>8. QED BY <1>6, <1>7

LEMMA OrphansType ==
    ASSUME NEW s \in Seq(InCalls)
    PROVE  Orphans(s) \in Seq(InCalls)
<1>1. Len(s) \in Nat /\ \A i \in 1 .. Len(s) : s[i] \in InCalls
  BY LenProperties, ElementOfSeq
<1>2. \A i \in 1 .. Len(s) : [s[i] EXCEPT !.from = None] \in InCalls
  BY <1>1 DEF Calls, InCalls, OrNone
<1>3. QED BY <1>1, <1>2 DEF Orphans

LEMMA HungUp ==
    ASSUME Types, HangUp
    PROVE  /\ inbox' \in [Conns -> Seq(InCalls)] /\ outbox' \in [Conns -> Seq(OutMessages)]
           /\ \A c \in Conns : /\ link'[c] = "open" => outbox'[c] = outbox[c]
                               /\ link'[c] # "open" => outbox'[c] = <<>>
                               /\ link'[c] # "closed" => inbox'[c] = inbox[c]
<1>1. \A s \in Seq(InCalls) : Orphans(s) \in Seq(InCalls)
  BY OrphansType
<1>2. inbox' = [c \in Conns |-> IF link'[c] = "closed" THEN Orphans(inbox[c]) ELSE inbox[c]]
  BY DEF HangUp
<1>3. outbox' = [c \in Conns |-> IF link'[c] = "open" THEN outbox[c] ELSE <<>>]
  BY DEF HangUp, Unheard
<1>4. inbox' \in [Conns -> Seq(InCalls)]
  BY <1>1, <1>2 DEF Types, PageTypes
<1>5. <<>> \in Seq(OutMessages)
  BY EmptySeq
<1>6. outbox' \in [Conns -> Seq(OutMessages)]
  BY <1>3, <1>5 DEF Types, OutTypes
<1>7. QED BY <1>2, <1>3, <1>4, <1>6

\* What is pending after a step: nothing, or the question that was.
Follows(p, q) ==
    \/ q.pending = None
    \/ /\ p.pending # None /\ q.pending # None
       /\ q.pending.key = p.pending.key /\ q.pending.session = p.pending.session
       /\ \/ q.pending.known = p.pending.known
          \/ question[q.pending.known].text = question[p.pending.key].text
       /\ p.pending.retain = TRUE => q.pending.retain = TRUE

LEMMA KeyFollows ==
    ASSUME KeyInv, question' = question, Follows(panel, panel'), told \subseteq told',
           \A k \in sent' : k \in sent \/ k = task["ask"].key,
           sent' # sent => task["ask"].key # None,
           task'["ask"].key # None => task'["ask"].key = task["ask"].key,
           task'["ask"].at # "idle" /\ task'["ask"].key = None =>
              task["ask"].at # "idle" /\ task["ask"].key = None,
           task'["ask"].at = "fetching" => task'["ask"].key \in told'
    PROVE  KeyInv'
<1>1. \A k \in sent' : Asked(k)
  <2>1. \A k \in sent : Asked(k)
    BY DEF KeyInv
  <2>2. task["ask"].key # None => Asked(task["ask"].key)
    BY DEF KeyInv
  <2>3. QED BY <2>1, <2>2
<1>2. panel'.pending # None =>
          /\ Asked(panel'.pending.key)
          /\ question[panel'.pending.key].session = panel'.pending.session
          /\ panel'.pending.known # None =>
                question[panel'.pending.known].text = question[panel'.pending.key].text
  BY DEF KeyInv, Follows
<1>3. task'["ask"].key # None => Asked(task'["ask"].key)
  BY DEF KeyInv
<1>4. task'["ask"].at # "idle" /\ task'["ask"].key = None => \E k \in Keys : ~Asked(k)
  BY DEF KeyInv
<1>5. \A k : Asked(k)' <=> Asked(k)
  BY DEF Asked
<1>6. QED BY <1>1, <1>2, <1>3, <1>4, <1>5 DEF KeyInv, Asked

\* The pending question stays, and what the ask does of it.
LEMMA KeptFollows ==
    ASSUME KeptInv, Follows(panel, panel'), sent' = sent,
           panel'.pending = None \/ panel'.session = panel.session,
           task'["ask"].key = task["ask"].key, task'["ask"].retry = task["ask"].retry,
           task'["ask"].at = task["ask"].at,
           /\ task'["ask"].at = "sending" /\ panel'.pending # None
           /\ task["ask"].failed = FALSE /\ link[task["ask"].conn] \in {"open", "stalled"}
           => \/ panel'.pending.retain = TRUE \/ panel'.session # panel'.pending.session
              \/ task'["ask"].failed = FALSE /\ link'[task'["ask"].conn] \in {"open", "stalled"}
    PROVE  KeptInv'
<1>1. SUFFICES ASSUME Holds(panel', task'["ask"].key)
               PROVE  /\ task'["ask"].retry /\ task'["ask"].at \notin {"idle", "scope"} =>
                            panel'.pending.retain = TRUE
                      /\ task'["ask"].at = "sending" /\ task'["ask"].key \in sent =>
                            \/ panel'.pending.retain = TRUE
                            \/ panel'.session # panel'.pending.session
                            \/ /\ task'["ask"].failed = FALSE
                               /\ link'[task'["ask"].conn] \in {"open", "stalled"}
  BY DEF KeptInv
<1>2. panel'.pending # None /\ panel'.session = panel.session /\ Holds(panel, task["ask"].key)
  BY <1>1 DEF Holds, Follows
<1>3. panel'.pending.session = panel.pending.session
      /\ (panel.pending.retain = TRUE => panel'.pending.retain = TRUE)
  BY <1>2 DEF Follows
<1>4. QED BY <1>1, <1>2, <1>3 DEF KeptInv

\* Nobody sends, and the ask is where it was or gives up.
LEMMA KeptIdle ==
    ASSUME task'["ask"].at \in {"idle", "scope"}
    PROVE  KeptInv'
  BY DEF KeptInv

LEMMA LoseStep ==
    ASSUME IInv, NEW c \in Conns, Lose(c)
    PROVE  IInv'
<1> DEFINE t == [x \in Tasks |-> IF task[x].conn = c /\ task[x].at \in Requests
                                 THEN [task[x] EXCEPT !.failed = TRUE] ELSE task[x]]
<1>0. /\ PageTypes /\ OutTypes /\ DaemonTypes /\ QuestionTypes /\ TasksInv /\ LinksInv /\ CallInv
      /\ KeyInv /\ KeptInv
  BY DEF IInv, Types
<1>1. /\ link[c] \in {"open", "stalled"} /\ ConnectionLost(c, t, Hung(link, c)) /\ HangUp
      /\ UNCHANGED <<daemonVars, question, told, crossed, sent>>
  BY DEF Lose, PageStep
<1>2. \A x \in Tasks : [task[x] EXCEPT !.failed = TRUE] \in TaskStates
  <2>1. \A x \in Tasks : task[x] \in TaskStates
    BY <1>0 DEF PageTypes
  <2>2. QED BY <2>1 DEF TaskStates
<1>3. t \in [Tasks -> TaskStates]
  BY <1>0, <1>2 DEF PageTypes
<1>4. \A y \in Tasks : \/ t[y] = task[y]
                       \/ /\ task[y].at \in Requests /\ task[y].conn = c
                          /\ t[y] = [task[y] EXCEPT !.failed = TRUE]
  OBVIOUS
<1>5. "ask" \in Tasks /\ "ask" # c /\ c # None
  BY Names
<1> HIDE DEF t
<1>6. /\ panel' \in Panels /\ panel'.current = None /\ panel'.session = panel.session
      /\ \/ panel'.pending = Retained(Disconnected(panel)).pending
         \/ /\ panel'.pending = panel.pending
            /\ panel.session = None \/ (panel.activeTurn = None /\ ~InFlight)
      /\ link'[c] = "closed" /\ Lost(c, t) /\ TasksInv'
      /\ \A d \in Conns : link'[d] = "open" =>
            link[d] = "open" /\ \A y \in Tasks : task'[y] = task[y] \/ ~Waiting(d, task[y])
  <2>1. CallsFail(c, t)
    BY <1>4 DEF CallsFail
  <2>2. PageLost(c, t)
    BY <1>0, <1>1, <1>3, <2>1, LostStep
  <2>3. QED BY <2>2 DEF PageLost
<1>7. /\ inbox' \in [Conns -> Seq(InCalls)] /\ outbox' \in [Conns -> Seq(OutMessages)]
      /\ \A d \in Conns : /\ link'[d] = "open" => outbox'[d] = outbox[d]
                          /\ link'[d] # "open" => outbox'[d] = <<>>
                          /\ link'[d] # "closed" => inbox'[d] = inbox[d]
  BY <1>1, HungUp DEF IInv
<1>8. Types'
  <2>1. PageTypes'
    BY <1>0, <1>1, <1>6, <1>7 DEF PageTypes, Lost
  <2>2. OutTypes'
    BY <1>7 DEF OutTypes
  <2>3. DaemonTypes' /\ QuestionTypes'
    BY <1>0, <1>1 DEF DaemonTypes, QuestionTypes, daemonVars
  <2>4. QED BY <2>1, <2>2, <2>3 DEF Types
<1>9. LinksInv'
  <2>1. \A d \in Conns : link'[d] \in {"unused", "connecting"} =>
           inbox'[d] = <<>> /\ handling'[d] = None /\ subs'[d] = {}
    BY <1>0, <1>1, <1>6, <1>7, ZenonT(60) DEF LinksInv, Lost, daemonVars
  <2>2. QED BY <1>6, <1>7, <2>1 DEF LinksInv
<1>10. CallInv'
  <2>1. \A d \in Conns : link'[d] = "open" =>
           /\ link[d] = "open" /\ inbox'[d] = inbox[d] /\ outbox'[d] = outbox[d]
           /\ handling'[d] = handling[d]
           /\ \A y \in Tasks : task'[y] = task[y] \/ ~Waiting(d, task[y])
    BY <1>1, <1>6, <1>7 DEF daemonVars
  <2>2. QED BY <1>0, <2>1, CallsSurvive
<1>11. /\ Follows(panel, panel')
       /\ panel.pending # None /\ InFlight /\ panel.session # None => panel'.pending.retain = TRUE
  <2> DEFINE p == Disconnected(panel)
  <2>1. p \in Panels /\ p.pending = panel.pending
    BY <1>0, OtherPanels DEF PageTypes
  <2> HIDE DEF p
  <2>2. /\ p.pending = None => Retained(p).pending = None
        /\ p.pending # None =>
              /\ Retained(p).pending # None /\ Retained(p).pending.key = p.pending.key
              /\ Retained(p).pending.session = p.pending.session
              /\ Retained(p).pending.known = p.pending.known /\ Retained(p).pending.retain = TRUE
    BY <2>1, RetainedPanel
  <2>3. \/ panel'.pending = Retained(p).pending
        \/ panel'.pending = panel.pending /\ ~(InFlight /\ panel.session # None)
    BY <1>6 DEF p
  <2>4. CASE panel'.pending = Retained(p).pending
    BY <2>1, <2>2, <2>4 DEF Follows
  <2>5. CASE panel'.pending = panel.pending /\ ~(InFlight /\ panel.session # None)
    BY <2>5 DEF Follows
  <2>6. QED BY <2>3, <2>4, <2>5
<1>12. task'["ask"] = t["ask"] /\ t["ask"].key = task["ask"].key /\ t["ask"].at = task["ask"].at
       /\ t["ask"].retry = task["ask"].retry
  <2>1. task["ask"] \in TaskStates
    BY <1>0, <1>5 DEF PageTypes
  <2>2. t["ask"].key = task["ask"].key /\ t["ask"].at = task["ask"].at
        /\ t["ask"].retry = task["ask"].retry
    <3>1. t["ask"] = task["ask"] \/ t["ask"] = [task["ask"] EXCEPT !.failed = TRUE]
      BY <1>4, <1>5
    <3>2. QED BY <2>1, <3>1 DEF TaskStates
  <2>3. QED BY <1>5, <1>6, <2>2 DEF Lost
<1>13. KeyInv'
  <2>1. task["ask"].at = "fetching" => task["ask"].key \in told
    BY <1>0 DEF KeyInv
  <2>2. QED BY <1>0, <1>1, <1>11, <1>12, <2>1, KeyFollows
<1>14. KeptInv'
  <2>1. task["ask"].at = "sending" => InFlight
    BY DEF InFlight
  <2>2. panel'.pending # None => panel'.pending.session # None
    <3>1. panel'.pending # None => panel'.pending \in Pendings
      BY <1>6 DEF Panels, OrNone
    <3>2. QED BY <3>1 DEF Pendings
  <2>3. task'["ask"].at = "sending" /\ panel'.pending # None =>
           panel'.pending.retain = TRUE \/ panel'.session # panel'.pending.session
    BY <1>6, <1>11, <1>12, <2>1, <2>2 DEF Follows
  <2>4. QED BY <1>0, <1>1, <1>6, <1>11, <1>12, <2>3, KeptFollows
<1>15. QED BY <1>6, <1>8, <1>9, <1>10, <1>13, <1>14 DEF IInv

\* A task that calls elsewhere, or nobody, has no call on connection d.
LEMMA NotWaiting ==
    ASSUME CallInv, NEW d \in Conns, link[d] = "open", NEW x \in Tasks, ~Waiting(d, task[x])
    PROVE  NoCall(x, inbox[d], handling[d], outbox[d])
  BY DEF CallInv, CallOK

LEMMA TimeoutStep ==
    ASSUME IInv, NEW x \in Tasks, Timeout(x)
    PROVE  IInv'
<1> DEFINE c == task[x].conn
           t == [task EXCEPT ![x].failed = TRUE]
           loses == task[x].at = "sending" /\ link[c] \in {"open", "stalled"}
<1>0. /\ PageTypes /\ OutTypes /\ DaemonTypes /\ QuestionTypes /\ TasksInv /\ LinksInv /\ CallInv
      /\ KeyInv /\ KeptInv
  BY DEF IInv, Types
<1>1. /\ task[x].at \in Requests
      /\ IF loses THEN ConnectionLost(c, t, Hung(link, c)) ELSE task' = t /\ UNCHANGED <<panel, link>>
      /\ inbox' = [inbox EXCEPT ![c] = IF link'[c] = "closed" THEN Orphans(@) ELSE Disown(x, @)]
      /\ handling' = [handling EXCEPT ![c] =
                        IF @ # None /\ @.from = x THEN [@ EXCEPT !.from = None] ELSE @]
      /\ outbox' = [d \in Conns |-> IF link'[d] = "open" THEN Without(x, outbox[d]) ELSE <<>>]
      /\ UNCHANGED <<subs, store, fate, question, sent, told, crossed>>
  BY DEF Timeout
<1>2. c \in Conns /\ c # None /\ "ask" \in Tasks /\ "ask" \notin Conns
  BY <1>0, <1>1, Names DEF TasksInv, TaskOK
<1>3. task[x] \in TaskStates /\ task \in [Tasks -> TaskStates]
  BY <1>0 DEF PageTypes
<1> DEFINE u == [task[x] EXCEPT !.failed = TRUE]
<1>4. /\ u \in TaskStates /\ u.failed = TRUE /\ u.at = task[x].at /\ u.key = task[x].key
      /\ u.retry = task[x].retry /\ u.session = task[x].session /\ u.conn = task[x].conn
      /\ u.text = task[x].text
  BY <1>3 DEF TaskStates
<1>5. t = [task EXCEPT ![x] = u]
  BY <1>3
<1> HIDE DEF u
<1>6. t \in [Tasks -> TaskStates] /\ t[x] = u /\ \A y \in Tasks : y # x => t[y] = task[y]
  BY <1>3, <1>4, <1>5
<1>7. \A y \in Tasks : \/ t[y] = task[y]
                       \/ /\ task[y].at \in Requests /\ task[y].conn = c
                          /\ t[y] = [task[y] EXCEPT !.failed = TRUE]
  BY <1>1, <1>6 DEF u
<1> HIDE DEF t
<1>8. /\ panel' \in Panels /\ task' \in [Tasks -> TaskStates] /\ link' \in [Conns -> Links]
      /\ panel'.current # None => panel'.current = panel.current /\ link' = link
      /\ panel'.session = panel.session /\ Follows(panel, panel')
      /\ loses /\ panel'.pending # None /\ panel.session # None => panel'.pending.retain = TRUE
      /\ task'["ask"] = t["ask"] /\ TasksInv'
      /\ \A d \in Conns : \/ link'[d] = link[d]
                          \/ link'[d] = "closed" /\ link[d] \in {"open", "stalled"}
                          \/ link'[d] = "connecting" /\ link[d] = "unused"
      /\ \A d \in Conns, y \in Tasks : link'[d] = "open" /\ (loses \/ y # x \/ d # c) =>
            task'[y] = task[y] \/ ~Waiting(d, task[y])
      /\ loses => link'[c] = "closed"
      /\ ~loses => link' = link
  <2>1. CASE loses
    <3>1. ConnectionLost(c, t, Hung(link, c)) /\ link[c] \in {"open", "stalled"}
      BY <1>1, <2>1
    <3> DEFINE p == Disconnected(panel)
    <3> HIDE DEF c
    <3>2. /\ panel' \in Panels /\ panel'.current = None /\ panel'.session = panel.session
          /\ \/ panel'.pending = Retained(p).pending
             \/ /\ panel'.pending = panel.pending
                /\ panel.session = None \/ (panel.activeTurn = None /\ ~InFlight)
          /\ link'[c] = "closed" /\ Lost(c, t) /\ TasksInv'
          /\ \A d \in Conns : link'[d] = "open" =>
                link[d] = "open" /\ \A y \in Tasks : task'[y] = task[y] \/ ~Waiting(d, task[y])
      <4>1. CallsFail(c, t)
        BY <1>7 DEF CallsFail
      <4>2. PageLost(c, t)
        BY <1>0, <1>2, <1>6, <3>1, <4>1, LostStep
      <4>3. QED BY <4>2 DEF PageLost
    <3>3. p \in Panels /\ p.pending = panel.pending
      BY <1>0, OtherPanels DEF PageTypes
    <3> HIDE DEF p
    <3>4. /\ p.pending = None => Retained(p).pending = None
          /\ p.pending # None =>
                /\ Retained(p).pending # None /\ Retained(p).pending.key = p.pending.key
                /\ Retained(p).pending.session = p.pending.session
                /\ Retained(p).pending.known = p.pending.known /\ Retained(p).pending.retain = TRUE
      BY <3>3, RetainedPanel
    <3>5. InFlight
      <4>1. x = "ask" /\ task["ask"].at = "sending"
        BY <1>0, <2>1 DEF TasksInv, TaskOK
      <4>2. QED BY <4>1 DEF InFlight
    <3>6. Follows(panel, panel') /\ (panel'.pending # None /\ panel.session # None => panel'.pending.retain = TRUE)
      <4>1. CASE panel'.pending = Retained(p).pending
        BY <3>3, <3>4, <4>1 DEF Follows
      <4>2. CASE panel'.pending = panel.pending /\ panel.session = None
        BY <4>2 DEF Follows
      <4>3. QED BY <3>2, <3>5, <4>1, <4>2
    <3>7. task'["ask"] = t["ask"]
      BY <1>2, <3>2 DEF Lost
    <3>8. QED BY <2>1, <3>2, <3>6, <3>7 DEF Lost
  <2>2. CASE ~loses
    <3>1. task' = t /\ panel' = panel /\ link' = link
      BY <1>1, <2>2
    <3>2. TasksInv'
      <4>1. \A y \in Tasks : /\ t[y].at = task[y].at /\ t[y].session = task[y].session
                             /\ t[y].conn = task[y].conn
                             /\ t[y].key = task[y].key /\ t[y].retry = task[y].retry
                             /\ t[y].text = task[y].text
                             /\ Connecting(t[y]) => Connecting(task[y])
        BY <1>4, <1>6 DEF Connecting
      <4>2. \A y \in Tasks : TaskOK(y, t[y])
        BY <1>0, <4>1 DEF TasksInv, TaskOK
      <4>3. AskOK(t["ask"])
        BY <1>0, <1>2, <4>1 DEF TasksInv, AskOK
      <4>4. \A d \in Conns : t[d].at # "idle" => link[d] = "closed"
        BY <1>0, <4>1, Names DEF TasksInv
      <4>5. QED BY <1>0, <3>1, <4>1, <4>2, <4>3, <4>4 DEF TasksInv
    <3>3. Follows(panel, panel')
      BY <3>1 DEF Follows
    <3>4. \A d \in Conns, y \in Tasks : link'[d] = "open" /\ (loses \/ y # x \/ d # c) =>
             task'[y] = task[y] \/ ~Waiting(d, task[y])
      BY <1>6, <2>2, <3>1 DEF Waiting
    <3>5. panel' \in Panels /\ link' \in [Conns -> Links] /\ task' \in [Tasks -> TaskStates]
      BY <1>0, <1>6, <3>1 DEF PageTypes
    <3>6. QED BY <1>6, <2>2, <3>1, <3>2, <3>3, <3>4, <3>5
  <2>3. QED BY <2>1, <2>2
<1>9. ASSUME NEW d \in Conns, link'[d] = "open"
      PROVE  link[d] = "open" /\ (loses => d # c)
  BY <1>8, <1>9
<1>10. \A d \in Conns : /\ d # c => inbox'[d] = inbox[d] /\ handling'[d] = handling[d]
                        /\ link'[d] = "open" => outbox'[d] = Without(x, outbox[d])
                        /\ link'[d] # "open" => outbox'[d] = <<>>
  BY <1>0, <1>1 DEF PageTypes, DaemonTypes
<1>11. /\ inbox'[c] = (IF link'[c] = "closed" THEN Orphans(inbox[c]) ELSE Disown(x, inbox[c]))
       /\ handling'[c] = (IF handling[c] # None /\ handling[c].from = x
                          THEN [handling[c] EXCEPT !.from = None] ELSE handling[c])
  BY <1>0, <1>1, <1>2 DEF PageTypes, DaemonTypes
<1>12. /\ \A d \in Conns : inbox[d] \in Seq(InCalls) /\ outbox[d] \in Seq(OutMessages)
       /\ \A d \in Conns : handling[d] \in OrNone(HeldCalls)
  BY <1>0 DEF PageTypes, OutTypes, DaemonTypes
<1>13. Types'
  <2>1. Disown(x, inbox[c]) \in Seq(InCalls) /\ handling'[c] \in OrNone(HeldCalls)
    <3> HIDE DEF c
    <3>1. inbox[c] \in Seq(InCalls) /\ handling[c] \in OrNone(HeldCalls)
      BY <1>2, <1>12
    <3>2. handling'[c] = (IF handling[c] # None /\ handling[c].from = x
                          THEN [handling[c] EXCEPT !.from = None] ELSE handling[c])
      BY <1>11
    <3>3. QED BY <3>1, <3>2, Disowned
  <2>2. inbox'[c] \in Seq(InCalls)
    BY <1>2, <1>11, <1>12, <2>1, OrphansType
  <2>3. inbox' \in [Conns -> Seq(InCalls)] /\ handling' \in [Conns -> OrNone(HeldCalls)]
    <3>1. \A d \in Conns : inbox'[d] \in Seq(InCalls) /\ handling'[d] \in OrNone(HeldCalls)
      BY <1>10, <1>12, <2>1, <2>2
    <3>2. inbox' = [d \in Conns |-> inbox'[d]] /\ handling' = [d \in Conns |-> handling'[d]]
      BY <1>0, <1>1 DEF PageTypes, DaemonTypes
    <3>3. QED BY <3>1, <3>2
  <2>4. \A d \in Conns : Without(x, outbox[d]) \in Seq(OutMessages)
    BY <1>12, AnswerRemoved
  <2>5. OutTypes'
    BY <1>1, <2>4, EmptySeq DEF OutTypes
  <2>6. PageTypes'
    BY <1>0, <1>1, <1>8, <2>3 DEF PageTypes
  <2>7. DaemonTypes' /\ QuestionTypes'
    BY <1>0, <1>1, <2>3 DEF DaemonTypes, QuestionTypes
  <2>8. QED BY <2>5, <2>6, <2>7 DEF Types
<1>14. LinksInv'
  <2>1. panel'.current # None => link'[panel'.current] \in {"open", "stalled"}
    BY <1>0, <1>8 DEF LinksInv
  <2>2. ASSUME NEW d \in Conns, link'[d] \in {"unused", "connecting"}
        PROVE  inbox'[d] = <<>> /\ handling'[d] = None /\ subs'[d] = {}
    <3>1. link[d] \in {"unused", "connecting"} /\ inbox[d] = <<>> /\ handling[d] = None /\ subs[d] = {}
      BY <1>0, <1>8, <2>2 DEF LinksInv
    <3>2. CASE d # c
      BY <1>1, <1>10, <3>1, <3>2
    <3>3. CASE d = c
      <4>1. Disown(x, inbox[c]) = <<>>
        BY <3>1, <3>3, EmptySeq DEF Disown
      <4>2. QED BY <1>1, <1>11, <2>2, <3>1, <3>3, <4>1
    <3>4. QED BY <3>2, <3>3
  <2>3. QED BY <1>10, <2>1, <2>2 DEF LinksInv
<1>15. CallInv'
  <2>1. SUFFICES ASSUME NEW d \in Conns, link'[d] = "open", NEW y \in Tasks
                 PROVE  CallOK(d, y, task'[y], inbox'[d], handling'[d], outbox'[d])
    BY DEF CallInv
  <2>2. link[d] = "open" /\ (loses => d # c) /\ outbox'[d] = Without(x, outbox[d])
    BY <1>9, <1>10, <2>1
  <2>3. CallOK(d, y, task[y], inbox[d], handling[d], outbox[d])
    BY <1>0, <2>2 DEF CallInv
  <2>4. CASE d # c
    <3>1. ~Waiting(d, task[x])
      BY <2>4 DEF Waiting
    <3>2. NoCall(x, inbox[d], handling[d], outbox[d])
      BY <1>0, <2>2, <3>1, NotWaiting
    <3>3. Without(x, outbox[d]) = outbox[d]
      <4>1. \A i \in 1 .. Len(outbox[d]) : outbox[d][i].to # x
        BY <3>2 DEF NoCall
      <4>2. QED BY <1>12, <4>1, AnswerRemoved
    <3>4. inbox'[d] = inbox[d] /\ handling'[d] = handling[d] /\ outbox'[d] = outbox[d]
      BY <1>10, <2>2, <2>4, <3>3
    <3>5. task'[y] = task[y] \/ ~Waiting(d, task[y])
      BY <1>8, <2>1, <2>4
    <3>6. CASE task'[y] = task[y]
      BY <2>3, <3>4, <3>6
    <3>7. CASE ~Waiting(d, task[y])
      <4>1. NoCall(y, inbox[d], handling[d], outbox[d])
        BY <1>0, <2>2, <3>7, NotWaiting
      <4>2. QED BY <3>4, <4>1, CallNone
    <3>8. QED BY <3>5, <3>6, <3>7
  <2>5. CASE d = c
    <3>1. ~loses /\ inbox'[d] = Disown(x, inbox[d]) /\ task' = t
      BY <1>1, <1>11, <2>1, <2>2, <2>5
    <3>2. CallOK(d, y, task[y], inbox[d], handling[d], outbox[d]) /\ inbox[d] \in Seq(InCalls)
          /\ handling[d] \in OrNone(HeldCalls) /\ outbox[d] \in Seq(OutMessages)
      BY <1>12, <2>3
    <3>3. handling'[d] = (IF handling[d] # None /\ handling[d].from = x
                          THEN [handling[d] EXCEPT !.from = None] ELSE handling[d])
      BY <1>11, <2>5
    <3> HIDE DEF c
    <3>4. /\ y # x => CallOK(d, y, task[y], Disown(x, inbox[d]), handling'[d], Without(x, outbox[d]))
          /\ y = x => NoCall(x, Disown(x, inbox[d]), handling'[d], Without(x, outbox[d]))
      BY <3>2, <3>3, CallDropped
    <3>5. CASE y # x
      BY <1>6, <2>2, <3>1, <3>4, <3>5
    <3>6. CASE y = x
      BY <2>2, <3>1, <3>4, <3>6, CallNone
    <3>7. QED BY <3>5, <3>6
  <2>6. QED BY <2>4, <2>5
<1>16. t["ask"].key = task["ask"].key /\ t["ask"].at = task["ask"].at
       /\ t["ask"].retry = task["ask"].retry
  BY <1>2, <1>4, <1>6
<1>17. KeyInv'
  <2>1. task["ask"].at = "fetching" => task["ask"].key \in told
    BY <1>0 DEF KeyInv
  <2>2. QED BY <1>0, <1>1, <1>8, <1>16, <2>1, KeyFollows
<1>18. KeptInv'
  <2>1. ASSUME task'["ask"].at = "sending", panel'.pending # None,
               task["ask"].failed = FALSE, link[task["ask"].conn] \in {"open", "stalled"}
        PROVE  \/ panel'.pending.retain = TRUE \/ panel'.session # panel'.pending.session
               \/ task'["ask"].failed = FALSE /\ link'[task'["ask"].conn] \in {"open", "stalled"}
    <3>1. task["ask"].at = "sending"
      BY <1>8, <1>16, <2>1
    <3>2. CASE x = "ask"
      <4>1. loses
        BY <2>1, <3>1, <3>2
      <4>2. panel'.pending.session # None
        <5>1. panel'.pending \in Pendings
          BY <1>8, <2>1 DEF Panels, OrNone
        <5>2. QED BY <5>1 DEF Pendings
      <4>3. QED BY <1>8, <2>1, <4>1, <4>2
    <3>3. CASE x # "ask"
      <4>1. ~loses
        BY <1>0, <3>3 DEF TasksInv, TaskOK
      <4>2. task'["ask"] = task["ask"] /\ link' = link
        BY <1>2, <1>6, <1>8, <3>3, <4>1
      <4>3. QED BY <2>1, <4>2
    <3>4. QED BY <3>2, <3>3
  <2>2. QED BY <1>0, <1>1, <1>8, <1>16, <2>1, KeptFollows
<1>19. QED BY <1>8, <1>13, <1>14, <1>15, <1>17, <1>18 DEF IInv

-----------------------------------------------------------------------------
\* The simple steps of the page.

LEMMA StallStep ==
    ASSUME IInv, NEW c \in Conns, Stall(c)
    PROVE  IInv'
<1>0. /\ PageTypes /\ OutTypes /\ DaemonTypes /\ QuestionTypes /\ TasksInv /\ LinksInv /\ CallInv
      /\ KeyInv /\ KeptInv
  BY DEF IInv, Types
<1>1. /\ link[c] = "open" /\ link' = [link EXCEPT ![c] = "stalled"]
      /\ outbox' = [d \in Conns |-> IF link'[d] = "open" THEN outbox[d] ELSE <<>>]
      /\ UNCHANGED <<handling, subs, store, fate, question, told, crossed, panel, task, inbox, sent>>
  BY DEF Stall, PageStep, Unheard, daemonVars
<1>2. link' \in [Conns -> Links] /\ \A d \in Conns : link'[d] = IF d = c THEN "stalled" ELSE link[d]
  BY <1>0, <1>1 DEF PageTypes, Links
<1>3. Types'
  <2>1. OutTypes'
    BY <1>0, <1>1, EmptySeq DEF OutTypes
  <2>2. QED BY <1>0, <1>1, <1>2, <2>1 DEF Types, PageTypes, DaemonTypes, QuestionTypes
<1>4. TasksInv'
  <2>1. \A d \in Conns : task[d].at # "idle" => link'[d] = "closed"
    BY <1>0, <1>1, <1>2 DEF TasksInv
  <2>2. \A x \in Tasks : Connecting(task[x]) => /\ task[x].conn \in Conns
                                                /\ link'[task[x].conn] = "connecting"
    BY <1>0, <1>1, <1>2 DEF TasksInv
  <2>3. QED BY <1>0, <1>1, <2>1, <2>2 DEF TasksInv
<1>5. LinksInv'
  <2>1. panel.current # None => link'[panel.current] \in {"open", "stalled"}
    BY <1>0, <1>1 DEF LinksInv, PageTypes
  <2>2. \A d \in Conns : link'[d] \in {"unused", "connecting"} => link[d] = link'[d]
    BY <1>2
  <2>3. \A d \in Conns : link'[d] # "open" => outbox'[d] = <<>>
    BY <1>1
  <2>4. QED BY <1>0, <1>1, <2>1, <2>2, <2>3 DEF LinksInv
<1>6. CallInv'
  BY <1>0, <1>1, <1>2, CallsSurvive
<1>7. Follows(panel, panel')
  BY <1>1 DEF Follows
<1>8. KeyInv'
  BY <1>0, <1>1, <1>7, KeyFollows DEF KeyInv
<1>9. KeptInv'
  <2>1. link[task["ask"].conn] \in {"open", "stalled"} => link'[task["ask"].conn] \in {"open", "stalled"}
    BY <1>0, <1>1 DEF PageTypes
  <2>2. QED BY <1>0, <1>1, <1>7, <2>1, KeptFollows
<1>10. QED BY <1>3, <1>4, <1>5, <1>6, <1>8, <1>9 DEF IInv

LEMMA KeptNew ==
    ASSUME panel' \in Panels, task'["ask"].key = None
    PROVE  KeptInv'
<1>1. panel'.pending # None => panel'.pending \in Pendings
  BY DEF Panels, OrNone
<1>2. panel'.pending # None => panel'.pending.key # None
  BY <1>1 DEF Pendings
<1>3. QED BY <1>2 DEF KeptInv, Holds

LEMMA IdleTypes == Idle \in TaskStates
<1>1. /\ None \in OrNone(Conns) /\ None \in OrNone(Keys) /\ None \in OrNone(Texts)
      /\ None \in OrNone(Sessions) /\ "idle" \in PCs
  BY DEF OrNone, PCs
<1>2. QED BY <1>1 DEF Idle, TaskStates

LEMMA SubmitStep ==
    ASSUME IInv, NEW text \in Texts, Submit(text)
    PROVE  IInv'
<1> DEFINE q == panel.pending
           again == q # None /\ q.session = panel.session /\ question[q.key].text = text
           r == IF again THEN [Idle EXCEPT !.at = "scope", !.retry = TRUE, !.key = q.key, !.text = text]
                ELSE [Idle EXCEPT !.at = "capturing", !.text = text]
<1>0. /\ PageTypes /\ OutTypes /\ DaemonTypes /\ QuestionTypes /\ TasksInv /\ LinksInv /\ CallInv
      /\ KeyInv /\ KeptInv
  BY DEF IInv, Types
<1>1. /\ task["ask"].at = "idle"
      /\ again \/ \E k \in Keys : question[k].text = None
      /\ task' = [task EXCEPT !["ask"] = r]
      /\ UNCHANGED <<handling, subs, store, fate, question, told, crossed, panel, link, inbox, outbox, sent>>
  BY DEF Submit, AskDisabled, InFlight, PageStep, daemonVars
<1>2. q # None => q \in Pendings /\ q.key \in Keys /\ q.key # None
  BY <1>0 DEF PageTypes, Panels, OrNone, Pendings
<1>3. /\ r \in TaskStates /\ r.text # None /\ r.failed = FALSE
      /\ again => r.at = "scope" /\ r.retry = TRUE /\ r.key = q.key
      /\ ~again => r.at = "capturing" /\ r.retry = FALSE /\ r.key = None
  <2>1. /\ "scope" \in PCs /\ "capturing" \in PCs /\ text \in OrNone(Texts) /\ text # None
        /\ again => q.key \in OrNone(Keys)
    BY <1>2 DEF PCs, OrNone
  <2>2. CASE again
    BY <2>1, <2>2, IdleTypes DEF Idle, TaskStates
  <2>3. CASE ~again
    BY <2>1, <2>3, IdleTypes DEF Idle, TaskStates
  <2>4. QED BY <2>2, <2>3
<1> HIDE DEF r
<1>4. task' \in [Tasks -> TaskStates] /\ task'["ask"] = r /\ \A y \in Tasks : y # "ask" => task'[y] = task[y]
  BY <1>0, <1>1, <1>3, Names DEF PageTypes
<1>5. Types'
  BY <1>0, <1>1, <1>4 DEF Types, PageTypes, OutTypes, DaemonTypes, QuestionTypes
<1>6. TasksInv'
  <2>1. TaskOK("ask", r) /\ AskOK(r) /\ ~Connecting(r)
    BY <1>2, <1>3 DEF TaskOK, AskOK, Connecting, Requests
  <2>2. \A y \in Tasks : TaskOK(y, task'[y])
    BY <1>0, <1>4, <2>1 DEF TasksInv
  <2>3. \A c \in Conns : task'[c] = task[c]
    BY <1>4, Names
  <2>4. \A y \in Tasks : Connecting(task'[y]) => task'[y] = task[y]
    BY <1>4, <2>1
  <2>5. QED BY <1>0, <1>1, <1>4, <2>1, <2>2, <2>3, <2>4 DEF TasksInv
<1>7. LinksInv'
  BY <1>0, <1>1 DEF LinksInv
<1>8. CallInv'
  <2>1. \A y \in Tasks, c \in Conns : task'[y] = task[y] \/ ~Waiting(c, task[y])
    BY <1>1, <1>4 DEF Waiting, Requests
  <2>2. QED BY <1>0, <1>1, <2>1, CallsSurvive
<1>9. KeyInv'
  <2>1. task'["ask"].key # None => Asked(task'["ask"].key)
    BY <1>0, <1>3, <1>4 DEF KeyInv
  <2>2. task'["ask"].key = None => \E k \in Keys : ~Asked(k)
    BY <1>1, <1>2, <1>3, <1>4 DEF Asked
  <2>3. task'["ask"].at # "fetching"
    BY <1>3, <1>4
  <2>4. QED BY <1>0, <1>1, <2>1, <2>2, <2>3 DEF KeyInv, Asked
<1>10. KeptInv'
  <2>1. CASE again
    BY <1>3, <1>4, <2>1, KeptIdle
  <2>2. CASE ~again
    BY <1>0, <1>1, <1>3, <1>4, <2>2, KeptNew DEF PageTypes
  <2>3. QED BY <2>1, <2>2
<1>11. QED BY <1>5, <1>6, <1>7, <1>8, <1>9, <1>10 DEF IInv

LEMMA ConnectFailsStep ==
    ASSUME IInv, Settled, NEW x \in Tasks, ConnectFails(x)
    PROVE  IInv'
<1> DEFINE c == task[x].conn
           u == [task[x] EXCEPT !.failed = TRUE]
<1>0. /\ PageTypes /\ OutTypes /\ DaemonTypes /\ QuestionTypes /\ TasksInv /\ LinksInv /\ CallInv
      /\ KeyInv /\ KeptInv
  BY DEF IInv, Types
<1>1. /\ task[x].at = "connecting" /\ link' = [link EXCEPT ![c] = "closed"]
      /\ task' = [task EXCEPT ![x].failed = TRUE]
      /\ UNCHANGED <<handling, subs, store, fate, question, told, crossed, panel, inbox, outbox, sent>>
  BY DEF ConnectFails, PageStep, daemonVars
<1>2. task[x] \in TaskStates /\ task \in [Tasks -> TaskStates]
  BY <1>0 DEF PageTypes
<1>3. /\ u \in TaskStates /\ u.failed = TRUE /\ u.at = "connecting" /\ u.key = task[x].key
      /\ u.retry = task[x].retry /\ u.session = task[x].session /\ u.text = task[x].text
  BY <1>1, <1>2 DEF TaskStates
<1>4. task' = [task EXCEPT ![x] = u]
  BY <1>1, <1>2
<1>5. Connecting(task[x])
  BY <1>1, <1>2 DEF Settled, Connecting, TaskStates
<1>6. c \in Conns /\ link[c] = "connecting"
  BY <1>0, <1>5 DEF TasksInv
<1> HIDE DEF c, u
<1>7. link' \in [Conns -> Links] /\ \A d \in Conns : link'[d] = IF d = c THEN "closed" ELSE link[d]
  BY <1>0, <1>1, <1>6 DEF PageTypes, Links
<1>8. task' \in [Tasks -> TaskStates] /\ task'[x] = u /\ \A y \in Tasks : y # x => task'[y] = task[y]
  BY <1>2, <1>3, <1>4
<1>9. Types'
  BY <1>0, <1>1, <1>7, <1>8 DEF Types, PageTypes, OutTypes, DaemonTypes, QuestionTypes
<1>10. TasksInv'
  <2>1. \A y \in Tasks : TaskOK(y, task'[y])
    <3>1. TaskOK(x, task[x])
      BY <1>0 DEF TasksInv
    <3>2. TaskOK(x, u)
      BY <1>1, <1>3, <3>1 DEF TaskOK, Requests
    <3>3. QED BY <1>0, <1>8, <3>2 DEF TasksInv
  <2>2. AskOK(task'["ask"])
    <3>1. AskOK(task["ask"])
      BY <1>0 DEF TasksInv
    <3>2. CASE x = "ask"
      BY <1>1, <1>3, <1>8, <3>1, <3>2 DEF AskOK
    <3>3. CASE x # "ask"
      BY <1>8, <3>1, <3>3, Names
    <3>4. QED BY <3>2, <3>3
  <2>3. ASSUME NEW d \in Conns, task'[d].at # "idle" PROVE link'[d] = "closed"
    <3>1. task[d].at # "idle"
      BY <1>1, <1>8, <2>3, Names
    <3>2. QED BY <1>0, <1>7, <3>1 DEF TasksInv
  <2>4. ASSUME NEW y \in Tasks, Connecting(task'[y])
        PROVE  y # x /\ task'[y] = task[y] /\ task[y].conn # c
    <3>1. y # x
      BY <1>3, <1>8, <2>4 DEF Connecting
    <3>2. QED BY <1>0, <1>5, <1>8, <2>4, <3>1 DEF TasksInv, c
  <2>5. \A y \in Tasks : Connecting(task'[y]) => /\ task'[y].conn \in Conns
                                                 /\ link'[task'[y].conn] = "connecting"
    BY <1>0, <1>7, <2>4 DEF TasksInv
  <2>6. \A y, z \in Tasks : /\ Connecting(task'[y]) /\ Connecting(task'[z])
                            /\ task'[y].conn = task'[z].conn
                            => y = z
    BY <1>0, <2>4 DEF TasksInv
  <2>7. QED BY <2>1, <2>2, <2>3, <2>5, <2>6 DEF TasksInv
<1>11. LinksInv'
  <2>1. panel.current # None => panel.current \in Conns
    BY <1>0 DEF PageTypes, Panels, OrNone
  <2>2. panel.current # None => link'[panel.current] \in {"open", "stalled"}
    BY <1>0, <1>6, <1>7, <2>1 DEF LinksInv
  <2>3. \A d \in Conns : link'[d] # "open" => link[d] # "open"
    BY <1>6, <1>7
  <2>4. \A d \in Conns : link'[d] \in {"unused", "connecting"} => link[d] = link'[d]
    BY <1>7
  <2>5. QED BY <1>0, <1>1, <2>2, <2>3, <2>4 DEF LinksInv
<1>12. CallInv'
  <2>1. \A y \in Tasks, d \in Conns : task'[y] = task[y] \/ ~Waiting(d, task[y])
    BY <1>1, <1>8 DEF Waiting, Requests
  <2>2. \A d \in Conns : link'[d] = "open" => link[d] = "open"
    BY <1>7
  <2>3. QED BY <1>0, <1>1, <2>1, <2>2, CallsSurvive
<1>13. Follows(panel, panel')
  BY <1>1 DEF Follows
<1>14. /\ task'["ask"].at = task["ask"].at /\ task'["ask"].key = task["ask"].key
       /\ task'["ask"].retry = task["ask"].retry
  BY <1>1, <1>3, <1>8, Names
<1>15. KeyInv'
  <2>1. task["ask"].at = "fetching" => task["ask"].key \in told
    BY <1>0 DEF KeyInv
  <2>2. QED BY <1>0, <1>1, <1>13, <1>14, <2>1, KeyFollows
<1>16. KeptInv'
  <2>1. ASSUME task'["ask"].at = "sending", task["ask"].failed = FALSE,
               link[task["ask"].conn] \in {"open", "stalled"}
        PROVE  task'["ask"].failed = FALSE /\ link'[task'["ask"].conn] \in {"open", "stalled"}
    <3>1. x # "ask" /\ task'["ask"] = task["ask"]
      BY <1>1, <1>8, <1>14, <2>1, Names
    <3>2. task["ask"].conn \in Conns
      BY <1>0, <1>14, <2>1, Names DEF TasksInv, TaskOK, Requests
    <3>3. QED BY <1>6, <1>7, <2>1, <3>1, <3>2
  <2>2. QED BY <1>0, <1>1, <1>13, <1>14, <2>1, KeptFollows
<1>17. QED BY <1>9, <1>10, <1>11, <1>12, <1>15, <1>16 DEF IInv

\* What a recovery that fails makes of the panel.
LEMMA RecoveryPanel ==
    ASSUME panel \in Panels, NEW x \in Tasks, NEW says, RecoveryFails(x, says)
    PROVE  /\ panel' \in Panels /\ panel'.current = panel.current
           /\ \/ panel'.pending = panel.pending /\ panel'.session = panel.session
              \/ panel'.pending = None /\ panel'.session = None
<1>1. panel' \in {panel, Cleared(panel), Unblocked(panel)}
  BY DEF RecoveryFails
<1>2. CASE panel' = panel
  BY <1>2
<1>3. CASE panel' = Cleared(panel)
  BY <1>3, ClearedPanel
<1>4. CASE panel' = Unblocked(panel)
  BY <1>4, OtherPanels
<1>5. QED BY <1>1, <1>2, <1>3, <1>4

\* What the page has after a step that ends a task, or makes it ask again.
PanelStep ==
    /\ panel' \in Panels /\ panel'.current = panel.current /\ Follows(panel, panel')
    /\ panel'.pending = None \/ panel'.session = panel.session

LEMMA CaughtStep ==
    ASSUME panel \in Panels, NEW k, panel' = Caught(panel, k)
    PROVE  PanelStep
<1>1. /\ panel' \in Panels /\ panel'.current = panel.current /\ panel'.session = panel.session
      /\ \/ panel'.pending = panel.pending \/ panel' = Retained(panel)
         \/ panel'.pending = None
  BY CaughtPanel
<1>2. Follows(panel, panel')
  <2>1. CASE panel'.pending = panel.pending \/ panel'.pending = None
    BY <2>1 DEF Follows
  <2>2. CASE panel' = Retained(panel)
    <3>1. /\ panel.pending = None => Retained(panel).pending = None
          /\ panel.pending # None =>
                /\ Retained(panel).pending # None
                /\ Retained(panel).pending.key = panel.pending.key
                /\ Retained(panel).pending.session = panel.pending.session
                /\ Retained(panel).pending.known = panel.pending.known
                /\ Retained(panel).pending.retain = TRUE
      BY RetainedPanel
    <3>2. QED BY <2>2, <3>1 DEF Follows
  <2>3. QED BY <1>1, <2>1, <2>2
<1>3. QED BY <1>1, <1>2 DEF PanelStep

LEMMA RecoveryStep ==
    ASSUME panel \in Panels, NEW x \in Tasks, NEW says, RecoveryFails(x, says)
    PROVE  PanelStep
<1>1. /\ panel' \in Panels /\ panel'.current = panel.current
      /\ \/ panel'.pending = panel.pending /\ panel'.session = panel.session
         \/ panel'.pending = None /\ panel'.session = None
  BY RecoveryPanel
<1>2. Follows(panel, panel')
  BY <1>1 DEF Follows
<1>3. QED BY <1>1, <1>2 DEF PanelStep

\* A task that ends.
LEMMA FinishInv ==
    ASSUME PageTypes, TasksInv, LinksInv, KeyInv, KeptInv, NEW x \in Tasks, Finish(x), PanelStep,
           told \subseteq told', UNCHANGED <<link, inbox, sent, handling, subs, question>>,
           \A c \in Conns : outbox[c] = <<>> => outbox'[c] = <<>>
    PROVE  TasksInv' /\ LinksInv' /\ KeyInv' /\ KeptInv'
<1>1. task' \in [Tasks -> TaskStates] /\ task'[x] = Idle /\ \A y \in Tasks : y # x => task'[y] = task[y]
  BY FinishStep
<1>2. Idle.at = "idle" /\ Idle.key = None
  BY DEF Idle
<1>3. TasksInv'
  BY FinishTasks
<1>4. LinksInv'
  BY DEF LinksInv, PanelStep
<1>5. task'["ask"] = task["ask"] \/ task'["ask"] = Idle
  BY <1>1, Names
<1>6. KeyInv'
  <2>1. task["ask"].at = "fetching" => task["ask"].key \in told
    BY DEF KeyInv
  <2>2. task'["ask"].key # None => task'["ask"].key = task["ask"].key
    BY <1>2, <1>5
  <2>3. task'["ask"].at # "idle" /\ task'["ask"].key = None =>
              task["ask"].at # "idle" /\ task["ask"].key = None
    BY <1>2, <1>5
  <2>4. task'["ask"].at = "fetching" => task'["ask"].key \in told'
    BY <1>2, <1>5, <2>1
  <2>5. QED BY <2>2, <2>3, <2>4, KeyFollows DEF PanelStep
<1>7. KeptInv'
  <2>1. CASE task'["ask"] = Idle
    BY <1>2, <2>1, KeptIdle
  <2>2. CASE task'["ask"] = task["ask"]
    BY <2>2, KeptFollows DEF PanelStep
  <2>3. QED BY <1>5, <2>1, <2>2
<1>8. QED BY <1>3, <1>4, <1>6, <1>7

LEMMA RejectStep ==
    ASSUME IInv, NEW x \in Tasks, Reject(x)
    PROVE  IInv'
<1>0. /\ PageTypes /\ OutTypes /\ DaemonTypes /\ QuestionTypes /\ TasksInv /\ LinksInv /\ CallInv
      /\ KeyInv /\ KeptInv
  BY DEF IInv, Types
<1>1. /\ task[x].failed /\ Finish(x)
      /\ UNCHANGED <<handling, subs, store, fate, question, told, crossed, link, inbox, outbox, sent>>
  BY DEF Reject, PageStep, daemonVars
<1>2. panel \in Panels /\ task[x] \in TaskStates
  BY <1>0 DEF PageTypes
<1>3. PanelStep
  <2>1. CASE RecoveryFails(x, "refused")
    BY <1>2, <2>1, RecoveryStep
  <2>2. CASE panel' = Caught(panel, task[x].key)
    BY <1>2, <2>2, CaughtStep
  <2>3. CASE panel' = panel
    BY <1>2, <2>3 DEF PanelStep, Follows
  <2>4. QED BY <2>1, <2>2, <2>3 DEF Reject
<1>4. TasksInv' /\ LinksInv' /\ KeyInv' /\ KeptInv'
  BY <1>0, <1>1, <1>3, FinishInv
<1>5. CallInv'
  <2>1. \A c \in Conns : ~Waiting(c, task[x])
    BY <1>1, <1>2 DEF Waiting, TaskStates
  <2>2. Alone(x)
    <3>1. \A c \in Conns : link[c] = "open" => NoCall(x, inbox[c], handling[c], outbox[c])
      BY <1>0, <2>1, NotWaiting
    <3>2. QED BY <1>0, <1>1, <3>1 DEF Alone, CallInv
  <2>3. QED BY <1>0, <1>1, <2>2, FinishCalls
<1>6. Types'
  <2>1. task' \in [Tasks -> TaskStates] /\ panel' \in Panels
    BY <1>0, <1>1, <1>3, FinishStep DEF PanelStep
  <2>2. QED BY <1>0, <1>1, <2>1 DEF Types, PageTypes, OutTypes, DaemonTypes, QuestionTypes
<1>7. QED BY <1>4, <1>5, <1>6 DEF IInv

LEMMA ReloadStep ==
    ASSUME IInv, Reload
    PROVE  IInv'
<1> DEFINE r == [Idle EXCEPT !.session = panel.session]
           p == [FreshPanel EXCEPT !.session = panel.session, !.activeTurn = panel.activeTurn,
                                   !.recovering = TRUE]
           t == [x \in Tasks |-> Idle]
           l == [c \in Conns |-> IF link[c] = "unused" THEN "unused" ELSE "closed"]
<1>0. /\ PageTypes /\ OutTypes /\ DaemonTypes /\ QuestionTypes /\ TasksInv /\ LinksInv /\ CallInv
      /\ KeyInv /\ KeptInv
  BY DEF IInv, Types
<1>1. /\ panel.session # None /\ Dial("restore", r, p, t, l) /\ HangUp
      /\ UNCHANGED <<handling, subs, store, fate, question, told, crossed, sent>>
  BY DEF Reload, PageStep, daemonVars
<1>2. panel.session \in Sessions /\ panel.session \in OrNone(Sessions) /\ panel.activeTurn \in OrNone(Keys)
  BY <1>0, <1>1 DEF PageTypes, Panels, OrNone
<1>3. r \in TaskStates /\ r.failed = FALSE /\ r.session = panel.session
  BY <1>2, IdleTypes DEF Idle, TaskStates
<1>4. p \in Panels /\ p.current = None /\ p.pending = None /\ p.session = panel.session
  <2>1. FreshPanel \in Panels
    <3>1. None \in OrNone(Sessions) /\ None \in OrNone(Keys) /\ None \in OrNone(Pendings)
          /\ None \in OrNone(Conns)
      BY DEF OrNone
    <3>2. QED BY <3>1 DEF FreshPanel, Panels
  <2>2. FreshPanel.current = None /\ FreshPanel.pending = None
    BY DEF FreshPanel
  <2>3. QED BY <1>2, <2>1, <2>2 DEF Panels
<1>5. t \in [Tasks -> TaskStates] /\ l \in [Conns -> Links]
      /\ \A y \in Tasks : t[y] = Idle
  BY IdleTypes DEF Links
<1>6. \A c \in Conns : l[c] = (IF link[c] = "unused" THEN "unused" ELSE "closed")
  OBVIOUS
<1>7. "restore" \in Tasks /\ "restore" \notin Conns /\ "restore" # "ask" /\ "ask" \in Tasks
  BY Names
<1> HIDE DEF r, p, t, l
<1>8. Dials("restore", r, p, t, l)
  BY <1>1, <1>3, <1>4, <1>5, <1>7, Dialed
<1>9. /\ panel' \in Panels /\ task' \in [Tasks -> TaskStates] /\ link' \in [Conns -> Links]
      /\ panel'.current = None /\ panel'.pending = None
      /\ \A y \in Tasks : y # "restore" => task'[y] = Idle
      /\ task'["restore"].at = "connecting" /\ task'["restore"].session = panel.session
      /\ task'["restore"].failed = FALSE =>
            task'["restore"].conn \in Conns /\ link'[task'["restore"].conn] = "connecting"
      /\ \A c \in Conns : link'[c] = l[c] \/ (link'[c] = "connecting" /\ l[c] = "unused")
  <2>1. panel' = [p EXCEPT !.current = None]
    BY <1>8 DEF Dials
  <2>2. panel'.current = None /\ panel'.pending = None
    BY <1>4, <2>1 DEF Panels
  <2>3. \A c \in Conns : link'[c] = l[c] \/ (link'[c] = "connecting" /\ l[c] = "unused")
    BY <1>4, <1>8, Names DEF Dials
  <2>4. QED BY <1>3, <1>5, <1>8, <2>2, <2>3 DEF Dials
<1>10. Idle.at = "idle" /\ Idle.key = None /\ TaskOK("ask", Idle) /\ ~Connecting(Idle) /\ AskOK(Idle)
       /\ \A y \in Tasks : TaskOK(y, Idle)
  BY DEF Idle, TaskOK, AskOK, Connecting, Requests
<1>11. /\ inbox' \in [Conns -> Seq(InCalls)] /\ outbox' \in [Conns -> Seq(OutMessages)]
       /\ \A d \in Conns : /\ link'[d] # "open" => outbox'[d] = <<>>
                           /\ link'[d] # "closed" => inbox'[d] = inbox[d]
  BY <1>1, HungUp DEF IInv
<1>12. \A c \in Conns : link'[c] # "open" /\ (link'[c] # "closed" => link[c] = "unused")
  BY <1>6, <1>9
<1>13. Types'
  BY <1>0, <1>1, <1>9, <1>11 DEF Types, PageTypes, OutTypes, DaemonTypes, QuestionTypes
<1>14. TasksInv'
  <2>1. TaskOK("restore", task'["restore"])
    BY <1>2, <1>9 DEF TaskOK, Requests
  <2>2. \A y \in Tasks : TaskOK(y, task'[y])
    BY <1>9, <1>10, <2>1
  <2>3. task'["ask"] = Idle /\ \A c \in Conns : task'[c] = Idle
    BY <1>7, <1>9, Names
  <2>4. \A y \in Tasks : Connecting(task'[y]) => y = "restore"
    BY <1>9, <1>10
  <2>5. Connecting(task'["restore"]) => /\ task'["restore"].conn \in Conns
                                        /\ link'[task'["restore"].conn] = "connecting"
    BY <1>9 DEF Connecting
  <2>6. QED BY <1>10, <2>2, <2>3, <2>4, <2>5 DEF TasksInv
<1>15. LinksInv'
  BY <1>0, <1>1, <1>9, <1>11, <1>12, ZenonT(60) DEF LinksInv
<1>16. CallInv'
  BY <1>12 DEF CallInv
<1>17. task'["ask"] = Idle
  BY <1>7, <1>9
<1>18. KeyInv'
  <2>1. Follows(panel, panel')
    BY <1>9 DEF Follows
  <2>2. QED BY <1>0, <1>1, <1>10, <1>17, <2>1, KeyFollows
<1>19. KeptInv'
  BY <1>10, <1>17, KeptIdle
<1>20. QED BY <1>13, <1>14, <1>15, <1>16, <1>18, <1>19 DEF IInv

-----------------------------------------------------------------------------
\* A client is used, and one is reached.

LEMMA SendsLinks ==
    ASSUME LinksInv, NEW x \in Tasks, NEW r \in TaskStates, r.conn \in Conns, NEW at \in Requests,
           Sends(x, r, at), panel'.current # None => link'[panel'.current] \in {"open", "stalled"},
           \A c \in Conns : link'[c] # "open" => link[c] = link'[c] /\ (outbox[c] = <<>> => outbox'[c] = <<>>),
           UNCHANGED <<handling, subs>>
    PROVE  LinksInv'
<1>1. \A c \in Conns : link'[c] # "open" => inbox'[c] = inbox[c]
  BY DEF Sends
<1>2. QED BY <1>1 DEF LinksInv

\* A request that is neither the first for its question nor an answer to one.
LEMMA SendsInv ==
    ASSUME PageTypes, TasksInv, KeyInv, KeptInv, NEW x \in Tasks, NEW r \in TaskStates,
           NEW at \in Requests, Sends(x, r, at), task[x].at # "idle",
           r.key = task[x].key, r.retry = task[x].retry,
           Follows(panel, panel'), told \subseteq told', question' = question,
           at = "sending" => x = "ask" /\ r.retry = TRUE,
           x = "ask" /\ at = "fetching" => r.key \in told',
           x = "ask" /\ r.retry = TRUE /\ Holds(panel', r.key) => panel'.pending.retain = TRUE,
           x # "ask" =>
              /\ panel'.pending = None \/ panel'.session = panel.session
              /\ \A c \in Conns : link[c] \in {"open", "stalled"} => link'[c] = link[c]
    PROVE  KeyInv' /\ KeptInv'
<1>0. "ask" \in Tasks
  BY Names
<1>1. task'[x].at = at /\ task'[x].key = task[x].key /\ task'[x].retry = task[x].retry
      /\ \A y \in Tasks : y # x => task'[y] = task[y]
  BY DEF Sends
<1>2. sent' = sent \/ (x = "ask" /\ sent' = sent \cup {r.key})
  BY DEF Sends
<1>3. task'["ask"].key = task["ask"].key /\ task'["ask"].retry = task["ask"].retry
      /\ (task'["ask"].at # "idle" => task["ask"].at # "idle")
  BY <1>0, <1>1
<1>4. KeyInv'
  <2>1. \A k \in sent' : k \in sent \/ k = task["ask"].key
    BY <1>2
  <2>2. sent' # sent => task["ask"].key # None
    <3>1. sent' # sent => at = "sending" /\ x = "ask"
      BY DEF Sends
    <3>2. at = "sending" => Asks(x, task'[x]).kind = "sending" /\ Asks(x, task'[x]).key = task[x].key
      BY <1>1 DEF Asks
    <3>3. Asks(x, task'[x]) \in InCalls
      BY DEF Sends
    <3>4. QED BY <3>1, <3>2, <3>3 DEF InCalls
  <2>3. task'["ask"].at = "fetching" => task'["ask"].key \in told'
    BY <1>0, <1>1 DEF KeyInv
  <2>4. QED BY <1>3, <2>1, <2>2, <2>3, KeyFollows
<1>5. KeptInv'
  <2>1. CASE x = "ask"
    BY <1>1, <2>1 DEF KeptInv
  <2>2. CASE x # "ask"
    <3>1. task'["ask"] = task["ask"] /\ sent' = sent
      BY <1>0, <1>1, <1>2, <2>2
    <3>2. task["ask"].at = "sending" => task["ask"].conn \in Conns
      BY <1>0 DEF TasksInv, TaskOK, Requests
    <3>3. QED BY <2>2, <3>1, <3>2, KeptFollows
  <2>3. QED BY <2>1, <2>2
<1>6. QED BY <1>4, <1>5

\* Task x, as r has it, asks for the session or in it.
SendsFor(x, r) ==
    \E s \in TaskStates, at \in Requests :
        /\ s.conn = r.conn /\ s.key = r.key /\ s.retry = r.retry /\ Sends(x, s, at)
        /\ at = "sending" => x = "ask" /\ r.retry = TRUE
        /\ at # "fetching"
        /\ TaskOK(x, task'[x])
        /\ x = "ask" => AskOK(task'[x])

LEMMA UsedClient ==
    ASSUME PageTypes, NEW x \in Tasks, NEW r \in TaskStates, r.conn \in Conns, NEW p \in Panels,
           UseClient(x, r, p), x # "ask" => r.session \in Sessions,
           x = "ask" => IF r.retry THEN r.key # None ELSE r.text # None /\ r.key = None
    PROVE  panel' = p /\ SendsFor(x, r)
<1>0. {"subscribing", "creating", "sending", "attaching"} \subseteq Requests
  BY DEF Requests
<1>1. r.retry \in BOOLEAN /\ r.conn # None
  BY Names DEF TaskStates
<1>2. CASE x # "ask"
  <2>1. panel' = p /\ Request(x, r, "subscribing")
    BY <1>2 DEF UseClient
  <2>2. Sends(x, r, "subscribing")
    BY <1>0, <2>1, Requested
  <2>3. TaskOK(x, task'[x])
    BY <1>2, <2>2 DEF Sends, TaskOK
  <2>4. QED BY <1>0, <1>2, <2>1, <2>2, <2>3 DEF SendsFor
<1>3. CASE x = "ask"
  <2> DEFINE s == [r EXCEPT !.session = p.session]
  <2>1. p.session \in OrNone(Sessions)
    BY DEF Panels
  <2>2. s \in TaskStates /\ s.conn = r.conn /\ s.key = r.key /\ s.retry = r.retry /\ s.text = r.text
        /\ s.session = p.session
    BY <2>1 DEF TaskStates
  <2>3. /\ panel' = p
        /\ \/ p.session = None /\ Request(x, r, "creating")
           \/ p.session # None /\ Request(x, s, "subscribing")
           \/ p.session # None /\ Request(x, s, IF r.retry THEN "sending" ELSE "attaching")
    BY <1>3 DEF UseClient, EnsureActiveSession
  <2> HIDE DEF s
  <2>4. CASE Request(x, r, "creating")
    <3>1. Sends(x, r, "creating")
      BY <1>0, <2>4, Requested
    <3>2. TaskOK(x, task'[x]) /\ AskOK(task'[x])
      BY <1>3, <3>1 DEF Sends, TaskOK, AskOK
    <3>3. QED BY <1>0, <2>3, <3>1, <3>2 DEF SendsFor
  <2>5. CASE p.session # None /\ Request(x, s, "subscribing")
    <3>1. Sends(x, s, "subscribing") /\ s.session \in Sessions
      BY <1>0, <2>1, <2>2, <2>5, Requested DEF OrNone
    <3>2. TaskOK(x, task'[x]) /\ AskOK(task'[x])
      BY <1>3, <2>2, <3>1 DEF Sends, TaskOK, AskOK
    <3>3. QED BY <1>0, <2>2, <2>3, <3>1, <3>2 DEF SendsFor
  <2>6. CASE p.session # None /\ Request(x, s, IF r.retry THEN "sending" ELSE "attaching")
    <3> DEFINE at == IF r.retry THEN "sending" ELSE "attaching"
    <3>1. at \in Requests /\ (at = "sending" => r.retry = TRUE /\ s.key # None) /\ at # "fetching"
      BY <1>0, <1>1, <1>3, <2>2
    <3>2. Sends(x, s, at) /\ s.session \in Sessions
      BY <2>1, <2>2, <2>6, <3>1, Requested DEF OrNone
    <3>3. TaskOK(x, task'[x]) /\ AskOK(task'[x])
      BY <1>1, <1>3, <2>2, <3>2 DEF Sends, TaskOK, AskOK
    <3>4. QED BY <1>3, <2>2, <2>3, <3>1, <3>2, <3>3 DEF SendsFor
  <2>7. QED BY <2>3, <2>4, <2>5, <2>6
<1>4. QED BY <1>2, <1>3

LEMMA ConnectedStep ==
    ASSUME IInv, Settled, NEW x \in Tasks, Connected(x)
    PROVE  IInv'
<1> DEFINE d == task[x].conn
           p == [panel EXCEPT !.current = d]
<1>0. /\ PageTypes /\ OutTypes /\ DaemonTypes /\ QuestionTypes /\ TasksInv /\ LinksInv /\ CallInv
      /\ KeyInv /\ KeptInv
  BY DEF IInv, Types
<1>1. /\ task[x].at = "connecting" /\ link' = [link EXCEPT ![d] = "open"]
      /\ crossed' \in BOOLEAN
      /\ UseClient(x, task[x], p)
      /\ UNCHANGED <<handling, subs, store, fate, question, told, outbox>>
  BY <1>0 DEF Connected, daemonVars, PageTypes
<1>2. task[x] \in TaskStates /\ panel \in Panels
  BY <1>0 DEF PageTypes
<1>3. Connecting(task[x])
  BY <1>1, <1>2 DEF Settled, Connecting, TaskStates
<1>4. d \in Conns /\ link[d] = "connecting"
  BY <1>0, <1>3 DEF TasksInv
<1>5. link' \in [Conns -> Links] /\ \A c \in Conns : link'[c] = IF c = d THEN "open" ELSE link[c]
  BY <1>0, <1>1, <1>4 DEF PageTypes, Links
<1>6. p \in Panels /\ p.current = d /\ p.pending = panel.pending /\ p.session = panel.session
  BY <1>2, <1>4 DEF Panels, OrNone
<1>7. /\ x # "ask" => task[x].session \in Sessions
      /\ x = "ask" => IF task[x].retry THEN task[x].key # None ELSE task[x].text # None /\ task[x].key = None
  <2>1. x # "ask" => task[x].session \in Sessions
    BY <1>0, <1>1 DEF TasksInv, TaskOK
  <2>2. x = "ask" => AskOK(task[x])
    BY <1>0 DEF TasksInv
  <2>3. QED BY <1>1, <2>1, <2>2 DEF AskOK
<1> HIDE DEF d, p
<1>8. task[x].conn \in Conns
  BY <1>4 DEF d
<1>9. panel' = p /\ SendsFor(x, task[x])
  BY <1>0, <1>1, <1>2, <1>6, <1>7, <1>8, UsedClient
<1>10. PICK s \in TaskStates, at \in Requests :
         /\ s.conn = task[x].conn /\ s.key = task[x].key /\ s.retry = task[x].retry /\ Sends(x, s, at)
         /\ at = "sending" => x = "ask" /\ task[x].retry = TRUE
         /\ at # "fetching"
         /\ TaskOK(x, task'[x])
         /\ x = "ask" => AskOK(task'[x])
  BY <1>9 DEF SendsFor
<1>11. Follows(panel, panel')
  BY <1>6, <1>9 DEF Follows
<1>12. TasksInv'
  BY <1>0, <1>1, <1>3, <1>10, SendsTasks DEF d
<1>13. LinksInv'
  <2>1. panel'.current # None => link'[panel'.current] \in {"open", "stalled"}
    BY <1>4, <1>5, <1>6, <1>9
  <2>2. \A c \in Conns : link'[c] # "open" => link[c] = link'[c] /\ (outbox[c] = <<>> => outbox'[c] = <<>>)
    BY <1>1, <1>5
  <2>3. QED BY <1>0, <1>1, <1>8, <1>10, <2>1, <2>2, SendsLinks
<1>14. CallInv'
  <2>1. Alone(x)
    <3>1. SUFFICES ASSUME NEW c \in Conns, link'[c] = "open"
                   PROVE  /\ NoCall(x, inbox[c], handling[c], outbox[c])
                          /\ \A y \in Tasks : y # x => CallOK(c, y, task[y], inbox[c], handling[c], outbox[c])
      BY <1>1 DEF Alone
    <3>2. CASE c = d
      <4>1. inbox[c] = <<>> /\ handling[c] = None /\ outbox[c] = <<>>
        BY <1>0, <1>4, <3>2 DEF LinksInv
      <4>2. \A y \in Tasks : NoCall(y, inbox[c], handling[c], outbox[c])
        BY <4>1, EmptySeq DEF NoCall
      <4>3. QED BY <4>2, CallNone
    <3>3. CASE c # d
      <4>1. link[c] = "open"
        BY <1>5, <3>1, <3>3
      <4>2. ~Waiting(c, task[x])
        BY <1>1 DEF Waiting, Requests
      <4>3. QED BY <1>0, <4>1, <4>2, NotWaiting DEF CallInv
    <3>4. QED BY <3>2, <3>3
  <2>2. QED BY <1>0, <1>8, <1>10, <2>1, SendsCalls
<1>15. KeyInv' /\ KeptInv'
  <2>1. x = "ask" /\ task[x].retry = TRUE /\ Holds(panel', task[x].key) => panel'.pending.retain = TRUE
    BY <1>0, <1>1, <1>6, <1>9 DEF KeptInv, Holds
  <2>2. panel'.session = panel.session
    BY <1>6, <1>9
  <2>3. \A c \in Conns : link[c] \in {"open", "stalled"} => link'[c] = link[c]
    BY <1>4, <1>5
  <2>4. QED BY <1>0, <1>1, <1>10, <1>11, <2>1, <2>2, <2>3, SendsInv
<1>16. Types'
  <2>1. task' \in [Tasks -> TaskStates] /\ inbox' \in [Conns -> Seq(InCalls)] /\ sent' \in SUBSET Keys
    BY <1>10 DEF Sends
  <2>2. QED BY <1>0, <1>1, <1>5, <1>6, <1>9, <2>1 DEF Types, PageTypes, OutTypes, DaemonTypes, QuestionTypes
<1>17. QED BY <1>12, <1>13, <1>14, <1>15, <1>16 DEF IInv

LEMMA ReachInv ==
    ASSUME IInv, Settled, task["ask"].at \in {"scope", "capturing"}, NEW p \in Panels,
           p.current = panel.current, Follows(panel, p),
           task["ask"].retry = TRUE /\ Holds(p, task["ask"].key) => p.pending.retain = TRUE,
           Reach("ask", task["ask"], p), crossed' \in BOOLEAN,
           UNCHANGED <<handling, subs, store, fate, question, told>>
    PROVE  IInv'
<1> DEFINE a == task["ask"]
<1>0. /\ PageTypes /\ OutTypes /\ DaemonTypes /\ QuestionTypes /\ TasksInv /\ LinksInv /\ CallInv
      /\ KeyInv /\ KeptInv
  BY DEF IInv, Types
<1>1. "ask" \in Tasks /\ "ask" \notin Conns /\ a \in TaskStates
  BY <1>0, Names DEF PageTypes
<1>2. a.failed = FALSE /\ a.retry \in BOOLEAN /\ a.at # "idle" /\ a.at \notin Requests
  BY <1>1 DEF Settled, TaskStates, Requests
<1>3. IF a.retry THEN a.key # None ELSE a.text # None /\ a.key = None
  BY <1>0, <1>2 DEF TasksInv, AskOK
<1>4. p.current = None \/ (p.current \in Conns /\ link[p.current] \in {"open", "stalled"})
  BY <1>0 DEF PageTypes, LinksInv, Panels, OrNone
<1>5. \A c \in Conns : ~Waiting(c, a)
  BY <1>2 DEF Waiting
<1> HIDE DEF a
<1>6. CASE Matches(p)
  <2> DEFINE r == [a EXCEPT !.conn = p.current]
  <2>1. UseClient("ask", r, p) /\ link' = link /\ outbox' = outbox
    BY <1>6 DEF Reach, a
  <2>2. p.current \in Conns
    BY <1>4, <1>6 DEF Matches
  <2>3. /\ r \in TaskStates /\ r.conn = p.current /\ r.key = a.key /\ r.retry = a.retry
        /\ r.text = a.text
    BY <1>1, <2>2 DEF TaskStates, OrNone
  <2> HIDE DEF r
  <2>4. panel' = p /\ SendsFor("ask", r)
    BY <1>0, <1>1, <1>3, <2>1, <2>2, <2>3, UsedClient
  <2>5. PICK s \in TaskStates, at \in Requests :
           /\ s.conn = r.conn /\ s.key = r.key /\ s.retry = r.retry /\ Sends("ask", s, at)
           /\ at = "sending" => r.retry = TRUE
           /\ at # "fetching"
           /\ TaskOK("ask", task'["ask"]) /\ AskOK(task'["ask"])
    BY <2>4 DEF SendsFor
  <2>6. TasksInv'
    BY <1>0, <1>1, <1>2, <2>1, <2>5, SendsTasks DEF a
  <2>7. LinksInv'
    BY <1>0, <1>1, <1>4, <2>1, <2>2, <2>3, <2>4, <2>5, SendsLinks
  <2>8. CallInv'
    <3>1. Alone("ask")
      BY <1>0, <1>1, <1>5, <2>1, NotWaiting DEF Alone, CallInv, a
    <3>2. QED BY <1>0, <1>1, <2>2, <2>3, <2>5, <3>1, SendsCalls
  <2>9. KeyInv' /\ KeptInv'
    <3>1. Follows(panel, panel') /\ (a.retry = TRUE /\ Holds(panel', a.key) => panel'.pending.retain = TRUE)
      BY <2>4 DEF a
    <3>2. QED BY <1>0, <1>1, <1>2, <2>3, <2>5, <3>1, SendsInv DEF a
  <2>10. Types'
    <3>1. task' \in [Tasks -> TaskStates] /\ inbox' \in [Conns -> Seq(InCalls)] /\ sent' \in SUBSET Keys
      BY <2>5 DEF Sends
    <3>2. QED BY <1>0, <2>1, <2>4, <3>1 DEF Types, PageTypes, OutTypes, DaemonTypes, QuestionTypes
  <2>11. QED BY <2>6, <2>7, <2>8, <2>9, <2>10 DEF IInv
<1>7. CASE ~Matches(p)
  <2> DEFINE o == IF a.retry THEN [p EXCEPT !.subscribed = FALSE] ELSE p
  <2>1. Dial("ask", a, o, task, link) /\ HangUp /\ sent' = sent
    BY <1>7 DEF Reach, a
  <2>2. o \in Panels /\ o.current = p.current /\ o.pending = p.pending /\ o.session = p.session
    BY DEF Panels
  <2> HIDE DEF o
  <2>3. Dials("ask", a, o, task, link)
    <3>1. task \in [Tasks -> TaskStates] /\ link \in [Conns -> Links]
      BY <1>0 DEF PageTypes
    <3>2. QED BY <1>1, <1>2, <2>1, <2>2, <3>1, Dialed
  <2>4. /\ panel' \in Panels /\ task' \in [Tasks -> TaskStates] /\ link' \in [Conns -> Links]
        /\ \A y \in Tasks : y # "ask" => task'[y] = task[y]
        /\ task'["ask"].at = "connecting" /\ task'["ask"].retry = a.retry /\ task'["ask"].key = a.key
        /\ task'["ask"].text = a.text
        /\ task'["ask"].failed = FALSE =>
              /\ task'["ask"].conn \in Conns
              /\ link[task'["ask"].conn] = "unused" /\ link'[task'["ask"].conn] = "connecting"
        /\ \A c \in Conns : \/ link'[c] = link[c]
                            \/ link'[c] = "closed" /\ link[c] \in {"open", "stalled"}
                            \/ link'[c] = "connecting" /\ link[c] = "unused"
    BY <1>4, <2>2, <2>3 DEF Dials
  <2>5. panel'.current = None /\ panel'.pending = p.pending
    BY <2>2, <2>3 DEF Dials, Panels
  <2>6. /\ inbox' \in [Conns -> Seq(InCalls)] /\ outbox' \in [Conns -> Seq(OutMessages)]
        /\ \A d \in Conns : /\ link'[d] = "open" => outbox'[d] = outbox[d]
                            /\ link'[d] # "open" => outbox'[d] = <<>>
                            /\ link'[d] # "closed" => inbox'[d] = inbox[d]
    BY <2>1, HungUp DEF IInv
  <2>7. TasksInv'
    <3>1. TaskOK("ask", task'["ask"])
      BY <2>4 DEF TaskOK, Requests
    <3>2. \A y \in Tasks : TaskOK(y, task'[y])
      BY <1>0, <2>4, <3>1 DEF TasksInv
    <3>3. AskOK(task'["ask"])
      BY <1>2, <1>3, <2>4 DEF AskOK
    <3>4. \A c \in Conns : task'[c].at # "idle" => link'[c] = "closed"
      BY <1>0, <1>1, <2>4, Names DEF TasksInv
    <3>5. ASSUME NEW y \in Tasks, Connecting(task'[y])
          PROVE  /\ task'[y].conn \in Conns /\ link'[task'[y].conn] = "connecting"
                 /\ \/ Connecting(task[y]) /\ task[y] = task'[y] /\ link[task'[y].conn] = "connecting"
                    \/ y = "ask" /\ link[task'[y].conn] = "unused"
      <4>1. CASE y = "ask"
        BY <2>4, <3>5, <4>1 DEF Connecting
      <4>2. CASE y # "ask"
        BY <1>0, <2>4, <3>5, <4>2 DEF TasksInv
      <4>3. QED BY <4>1, <4>2
    <3>6. \A y, z \in Tasks : /\ Connecting(task'[y]) /\ Connecting(task'[z])
                              /\ task'[y].conn = task'[z].conn
                              => y = z
      BY <1>0, <3>5 DEF TasksInv
    <3>7. QED BY <3>2, <3>3, <3>4, <3>5, <3>6 DEF TasksInv
  <2>8. LinksInv'
    <3>1. \A d \in Conns : link'[d] \in {"unused", "connecting"} =>
             inbox'[d] = <<>> /\ handling'[d] = None /\ subs'[d] = {}
      <4>1. \A d \in Conns : link'[d] \in {"unused", "connecting"} => link[d] \in {"unused", "connecting"}
        BY <2>4
      <4>2. QED BY <1>0, <2>6, <4>1, SMTT(30) DEF LinksInv
    <3>2. QED BY <2>5, <2>6, <3>1 DEF LinksInv
  <2>9. CallInv'
    <3>1. \A y \in Tasks, c \in Conns : task'[y] = task[y] \/ ~Waiting(c, task[y])
      BY <1>5, <2>4 DEF a
    <3>2. \A c \in Conns : link'[c] = "open" => link[c] = "open"
      BY <2>4
    <3>3. QED BY <1>0, <2>6, <3>1, <3>2, CallsSurvive
  <2>10. Follows(panel, panel')
    BY <2>5 DEF Follows
  <2>11. KeyInv'
    BY <1>0, <1>2, <2>1, <2>4, <2>10, KeyFollows DEF a
  <2>12. KeptInv'
    BY <2>4, <2>5 DEF KeptInv, Holds, a
  <2>13. Types'
    BY <1>0, <2>1, <2>4, <2>6 DEF Types, PageTypes, OutTypes, DaemonTypes, QuestionTypes
  <2>14. QED BY <2>7, <2>8, <2>9, <2>11, <2>12, <2>13 DEF IInv
<1>8. QED BY <1>6, <1>7

LEMMA GiveUpInv ==
    ASSUME IInv, NEW x \in Tasks, ~(task[x].at \in Requests), Finish(x), PanelStep, crossed' \in BOOLEAN,
           UNCHANGED <<handling, subs, store, fate, question, told, link, inbox, outbox, sent>>
    PROVE  IInv'
<1>0. /\ PageTypes /\ OutTypes /\ DaemonTypes /\ QuestionTypes /\ TasksInv /\ LinksInv /\ CallInv
      /\ KeyInv /\ KeptInv
  BY DEF IInv, Types
<1>1. TasksInv' /\ LinksInv' /\ KeyInv' /\ KeptInv'
  BY <1>0, FinishInv
<1>2. CallInv'
  <2>1. \A c \in Conns : ~Waiting(c, task[x])
    BY DEF Waiting
  <2>2. Alone(x)
    <3>1. \A c \in Conns : link[c] = "open" => NoCall(x, inbox[c], handling[c], outbox[c])
      BY <1>0, <2>1, NotWaiting
    <3>2. QED BY <1>0, <3>1 DEF Alone, CallInv
  <2>3. QED BY <1>0, <2>2, FinishCalls
<1>3. Types'
  <2>1. task' \in [Tasks -> TaskStates] /\ panel' \in Panels
    BY <1>0, FinishStep DEF PanelStep
  <2>2. QED BY <1>0, <2>1 DEF Types, PageTypes, OutTypes, DaemonTypes, QuestionTypes
<1>4. QED BY <1>1, <1>2, <1>3 DEF IInv

LEMMA ScopeStep ==
    ASSUME IInv, Settled, NEW fresh \in BOOLEAN, ScopeChecked(fresh)
    PROVE  IInv'
<1> DEFINE k == task["ask"].key
           p == IF Holds(panel, k) THEN Retained(panel) ELSE panel
<1>0. PageTypes /\ TasksInv /\ panel \in Panels /\ "ask" \in Tasks
  BY Names DEF IInv, Types, PageTypes
<1>1. /\ task["ask"].at = "scope" /\ crossed' \in BOOLEAN
      /\ UNCHANGED <<handling, subs, store, fate, question, told>>
  BY <1>0 DEF ScopeChecked, ReachStep, daemonVars, PageTypes
<1>2. CASE fresh
  <2>1. Reach("ask", task["ask"], p)
    BY <1>2 DEF ScopeChecked
  <2>2. /\ p \in Panels /\ p.current = panel.current /\ Follows(panel, p)
        /\ Holds(p, k) => p.pending.retain = TRUE
    <3>1. /\ Retained(panel) \in Panels /\ Retained(panel).current = panel.current
          /\ panel.pending # None =>
                /\ Retained(panel).pending # None /\ Retained(panel).pending.key = panel.pending.key
                /\ Retained(panel).pending.session = panel.pending.session
                /\ Retained(panel).pending.known = panel.pending.known
                /\ Retained(panel).pending.retain = TRUE
      BY <1>0, RetainedPanel
    <3>2. CASE Holds(panel, k)
      BY <3>1, <3>2 DEF Holds, Follows
    <3>3. CASE ~Holds(panel, k)
      BY <1>0, <3>3 DEF Follows
    <3>4. QED BY <3>2, <3>3
  <2> HIDE DEF p
  <2>3. QED BY <1>1, <2>1, <2>2, ReachInv
<1>3. CASE ~fresh
  <2>1. /\ panel' = Dropped(panel, k) /\ Finish("ask")
        /\ UNCHANGED <<link, inbox, outbox, sent>>
    BY <1>3 DEF ScopeChecked
  <2>2. PanelStep
    <3>1. /\ panel' \in Panels /\ panel'.current = panel.current /\ panel'.session = panel.session
          /\ panel'.pending = None \/ panel'.pending = panel.pending
      BY <1>0, <2>1, DroppedPanel
    <3>2. QED BY <3>1 DEF PanelStep, Follows
  <2>3. task["ask"].at \notin Requests
    BY <1>1 DEF Requests
  <2>4. QED BY <1>0, <1>1, <2>1, <2>2, <2>3, GiveUpInv
<1>4. QED BY <1>2, <1>3

LEMMA CaptureStep ==
    ASSUME IInv, Settled, NEW captured \in BOOLEAN, CaptureDone(captured)
    PROVE  IInv'
<1>0. PageTypes /\ TasksInv /\ panel \in Panels /\ "ask" \in Tasks
  BY Names DEF IInv, Types, PageTypes
<1>1. /\ task["ask"].at = "capturing" /\ crossed' \in BOOLEAN
      /\ UNCHANGED <<handling, subs, store, fate, question, told>>
  BY <1>0 DEF CaptureDone, ReachStep, daemonVars, PageTypes
<1>2. CASE captured
  <2>1. Reach("ask", task["ask"], panel)
    BY <1>2 DEF CaptureDone
  <2>2. Follows(panel, panel)
    BY DEF Follows
  <2>3. ~(task["ask"].retry = TRUE)
    BY <1>0, <1>1 DEF TasksInv, AskOK
  <2>4. QED BY <1>0, <1>1, <2>1, <2>2, <2>3, ReachInv
<1>3. CASE ~captured
  <2>1. Finish("ask") /\ UNCHANGED <<panel, link, inbox, outbox, sent>>
    BY <1>3 DEF CaptureDone
  <2>2. PanelStep
    BY <1>0, <2>1 DEF PanelStep, Follows
  <2>3. task["ask"].at \notin Requests
    BY <1>1 DEF Requests
  <2>4. QED BY <1>0, <1>1, <2>1, <2>2, <2>3, GiveUpInv
<1>4. QED BY <1>2, <1>3

-----------------------------------------------------------------------------
\* What the page receives.

\* What every receipt leaves alone, and that messages only go.
ReceiptFrame ==
    /\ UNCHANGED <<link, handling, subs, store, fate, crossed>>
    /\ outbox' \in [Conns -> Seq(OutMessages)]
    /\ \A c \in Conns : outbox[c] = <<>> => outbox'[c] = <<>>
    /\ told' \in SUBSET Keys /\ told \subseteq told'

LEMMA FinishReceipt ==
    ASSUME IInv, ReceiptFrame, NEW x \in Tasks, Alone(x), Finish(x), PanelStep,
           UNCHANGED <<inbox, sent, question>>
    PROVE  IInv'
<1>0. /\ PageTypes /\ OutTypes /\ DaemonTypes /\ QuestionTypes /\ TasksInv /\ LinksInv /\ CallInv
      /\ KeyInv /\ KeptInv
  BY DEF IInv, Types
<1>1. TasksInv' /\ LinksInv' /\ KeyInv' /\ KeptInv'
  BY <1>0, FinishInv DEF ReceiptFrame
<1>2. CallInv'
  BY <1>0, FinishCalls
<1>3. Types'
  <2>1. task' \in [Tasks -> TaskStates] /\ panel' \in Panels
    BY <1>0, FinishStep DEF PanelStep
  <2>2. QED BY <1>0, <2>1 DEF ReceiptFrame, Types, PageTypes, OutTypes, DaemonTypes, QuestionTypes
<1>4. QED BY <1>1, <1>2, <1>3 DEF IInv

LEMMA SendReceipt ==
    ASSUME IInv, ReceiptFrame, NEW x \in Tasks, Alone(x), NEW r \in TaskStates, r.conn \in Conns,
           NEW at \in Requests, Sends(x, r, at), task[x].at # "idle",
           r.key = task[x].key, r.retry = task[x].retry,
           panel' \in Panels, panel'.current = panel.current, Follows(panel, panel'), question' = question,
           TaskOK(x, task'[x]), x = "ask" => AskOK(task'[x]),
           at = "sending" => x = "ask" /\ r.retry = TRUE,
           x = "ask" /\ at = "fetching" => r.key \in told',
           x = "ask" /\ r.retry = TRUE /\ Holds(panel', r.key) => panel'.pending.retain = TRUE,
           x # "ask" => panel'.pending = None \/ panel'.session = panel.session
    PROVE  IInv'
<1>0. /\ PageTypes /\ OutTypes /\ DaemonTypes /\ QuestionTypes /\ TasksInv /\ LinksInv /\ CallInv
      /\ KeyInv /\ KeptInv
  BY DEF IInv, Types
<1>1. TasksInv'
  BY <1>0, SendsTasks DEF ReceiptFrame
<1>2. LinksInv'
  <2>1. panel'.current # None => link'[panel'.current] \in {"open", "stalled"}
    BY <1>0 DEF ReceiptFrame, LinksInv
  <2>2. QED BY <1>0, <2>1, SendsLinks DEF ReceiptFrame
<1>3. CallInv'
  BY <1>0, SendsCalls
<1>4. KeyInv' /\ KeptInv'
  BY <1>0, SendsInv DEF ReceiptFrame
<1>5. Types'
  <2>1. task' \in [Tasks -> TaskStates] /\ inbox' \in [Conns -> Seq(InCalls)] /\ sent' \in SUBSET Keys
    BY DEF Sends
  <2>2. QED BY <1>0, <2>1 DEF ReceiptFrame, Types, PageTypes, OutTypes, DaemonTypes, QuestionTypes
<1>6. QED BY <1>1, <1>2, <1>3, <1>4, <1>5 DEF IInv

LEMMA AttachedStep ==
    ASSUME IInv, ReceiptFrame, Alone("ask"), task["ask"].at = "attaching", Attached(task["ask"])
    PROVE  IInv'
<1> DEFINE r == task["ask"]
           k == CHOOSE k \in Keys : question[k].text = None
           n == [r EXCEPT !.key = k]
           q == [key |-> k, session |-> r.session, retain |-> FALSE, known |-> None]
<1>0. /\ PageTypes /\ OutTypes /\ DaemonTypes /\ QuestionTypes /\ TasksInv /\ LinksInv /\ CallInv
      /\ KeyInv /\ KeptInv
  BY DEF IInv, Types
<1>1. "ask" \in Tasks /\ r \in TaskStates /\ panel \in Panels /\ "sending" \in Requests
  BY <1>0, Names DEF PageTypes, Requests
<1>2. r.retry = FALSE /\ r.key = None /\ r.text # None /\ r.conn \in Conns /\ r.session \in Sessions
  <2>1. AskOK(r) /\ TaskOK("ask", r)
    BY <1>0, <1>1 DEF TasksInv
  <2>2. r.retry \in BOOLEAN
    BY <1>1 DEF TaskStates
  <2>3. QED BY <2>1, <2>2 DEF AskOK, TaskOK, Requests
<1>3. k \in Keys /\ question[k].text = None /\ k # None
  BY <1>0, <1>2 DEF KeyInv, Asked
<1>4. /\ question' = [question EXCEPT ![k].text = r.text, ![k].session = r.session]
      /\ panel' = [panel EXCEPT !.pending = q]
      /\ Request("ask", n, "sending")
  BY DEF Attached
<1>5. /\ n \in TaskStates /\ n.key = k /\ n.retry = FALSE /\ n.text = r.text /\ n.conn = r.conn
      /\ n.session = r.session
  BY <1>1, <1>2, <1>3 DEF TaskStates, OrNone
<1>6. q \in Pendings /\ q # None /\ q.key = k /\ q.session = r.session /\ q.known = None
  <2>1. r.session \in Sessions /\ k \in Keys /\ None \in OrNone(Keys)
    BY <1>2, <1>3 DEF OrNone
  <2> HIDE DEF k
  <2>2. q \in Pendings
    BY <2>1 DEF Pendings
  <2>3. QED BY <2>2
<1> HIDE DEF k, n, q
<1>7. Sends("ask", n, "sending")
  BY <1>0, <1>1, <1>2, <1>3, <1>4, <1>5, Requested
<1>8. panel' \in Panels /\ panel'.current = panel.current /\ panel'.pending = q
  BY <1>1, <1>4, <1>6 DEF Panels, OrNone
<1>9. /\ question' \in [Keys -> Rows] /\ question'[k].text = r.text /\ question'[k].session = r.session
      /\ \A l \in Keys : l # k => question'[l] = question[l]
  <2>1. question[k] \in Rows
    BY <1>0, <1>3 DEF QuestionTypes
  <2> DEFINE w == [question[k] EXCEPT !.text = r.text, !.session = r.session]
  <2>2. w \in Rows /\ w.text = r.text /\ w.session = r.session
    BY <1>1, <2>1 DEF Rows, TaskStates
  <2>3. question' = [question EXCEPT ![k] = w]
    BY <1>0, <1>3, <1>4, <2>1 DEF QuestionTypes, Rows
  <2> HIDE DEF w
  <2>4. QED BY <1>0, <1>3, <2>2, <2>3 DEF QuestionTypes
<1>10. TasksInv'
  <2>1. TaskOK("ask", task'["ask"]) /\ AskOK(task'["ask"])
    BY <1>2, <1>3, <1>5, <1>7 DEF Sends, TaskOK, AskOK, Requests
  <2>2. QED BY <1>0, <1>1, <1>5, <1>7, <2>1, SendsTasks DEF ReceiptFrame
<1>11. LinksInv'
  <2>1. panel'.current # None => link'[panel'.current] \in {"open", "stalled"}
    BY <1>0, <1>8 DEF ReceiptFrame, LinksInv
  <2>2. QED BY <1>0, <1>1, <1>2, <1>5, <1>7, <2>1, SendsLinks DEF ReceiptFrame
<1>12. CallInv'
  BY <1>0, <1>1, <1>2, <1>5, <1>7, SendsCalls
<1>13. /\ sent' = IF link'[r.conn] = "open" THEN sent \cup {k} ELSE sent
       /\ task'["ask"].at = "sending" /\ task'["ask"].key = k /\ task'["ask"].retry = FALSE
       /\ task'["ask"].conn = r.conn /\ task'["ask"].failed = (link'[r.conn] # "open")
  BY <1>5, <1>7 DEF Sends
<1>14. \A l \in Keys : Asked(l) => question'[l].text # None
  BY <1>2, <1>9 DEF Asked
<1>15. k \notin sent
  BY <1>0, <1>3 DEF KeyInv, Asked
<1>16. KeyInv'
  <2>1. \A l \in sent' : question'[l].text # None
    BY <1>0, <1>2, <1>9, <1>13, <1>14 DEF KeyInv, PageTypes
  <2>2. QED BY <1>2, <1>3, <1>6, <1>8, <1>9, <1>13, <2>1 DEF KeyInv, Asked
<1>17. KeptInv'
  BY <1>13, <1>15 DEF KeptInv
<1>18. Types'
  <2>1. task' \in [Tasks -> TaskStates] /\ inbox' \in [Conns -> Seq(InCalls)] /\ sent' \in SUBSET Keys
    BY <1>7 DEF Sends
  <2>2. QED BY <1>0, <1>8, <1>9, <2>1 DEF ReceiptFrame, Types, PageTypes, OutTypes, DaemonTypes, QuestionTypes
<1>19. QED BY <1>10, <1>11, <1>12, <1>16, <1>17, <1>18 DEF IInv

LEMMA SessionGoneStep ==
    ASSUME IInv, ReceiptFrame, NEW x \in Tasks, Alone(x), task[x].at \in Requests,
           x = "ask" => task[x].at = "subscribing", SessionGone(x, task[x]), question' = question
    PROVE  IInv'
<1> DEFINE r == task[x]
<1>0. PageTypes /\ TasksInv /\ panel \in Panels /\ r \in TaskStates /\ r.at # "idle"
  BY DEF IInv, Types, PageTypes, Requests
<1>1. CASE x # "ask"
  <2>1. RecoveryFails(x, "not_found") /\ Finish(x) /\ UNCHANGED <<inbox, sent>>
    BY <1>1 DEF SessionGone
  <2>2. PanelStep
    BY <1>0, <2>1, RecoveryStep
  <2>3. QED BY <2>1, <2>2, FinishReceipt
<1>2. CASE x = "ask"
  <2>1. panel' = Cleared(panel)
    BY <1>2 DEF SessionGone
  <2>2. panel' \in Panels /\ panel'.current = panel.current /\ panel'.pending = None
    BY <1>0, <2>1, ClearedPanel
  <2>3. Follows(panel, panel') /\ PanelStep
    BY <2>2 DEF PanelStep, Follows
  <2>4. CASE r.retry
    <3>1. Finish(x) /\ UNCHANGED <<inbox, sent>>
      BY <1>2, <2>4 DEF SessionGone
    <3>2. QED BY <2>3, <3>1, FinishReceipt
  <2>5. CASE ~r.retry
    <3>1. Request(x, r, "creating") /\ "creating" \in Requests
      BY <1>2, <2>5 DEF SessionGone, Requests
    <3>2. r.conn \in Conns /\ AskOK(r)
      BY <1>0, <1>2 DEF TasksInv, TaskOK
    <3>3. Sends(x, r, "creating")
      BY <1>0, <3>1, <3>2, Requested
    <3>4. TaskOK(x, task'[x]) /\ AskOK(task'[x])
      BY <1>0, <1>2, <2>5, <3>2, <3>3 DEF Sends, TaskOK, AskOK
    <3>5. ~Holds(panel', r.key)
      BY <2>2 DEF Holds
    <3>6. QED BY <1>0, <1>2, <2>2, <2>3, <3>1, <3>2, <3>3, <3>4, <3>5, SendReceipt
  <2>6. QED BY <2>4, <2>5
<1>3. QED BY <1>1, <1>2

LEMMA SendAnsweredStep ==
    ASSUME IInv, ReceiptFrame, Alone("ask"), task["ask"].at = "sending", task["ask"].key \in told',
           NEW says, SendAnswered(task["ask"], says), question' = question
    PROVE  IInv'
<1> DEFINE r == task["ask"]
<1>0. /\ PageTypes /\ TasksInv /\ KeptInv /\ panel \in Panels /\ r \in TaskStates /\ "ask" \in Tasks
  BY Names DEF IInv, Types, PageTypes
<1>1. r.key \in Keys /\ r.key # None /\ r.conn \in Conns /\ r.session \in Sessions /\ AskOK(r)
  <2>1. AskOK(r) /\ TaskOK("ask", r)
    BY <1>0 DEF TasksInv
  <2>2. QED BY <1>0, <2>1 DEF AskOK, TaskOK, Requests, TaskStates, OrNone
<1>2. CASE says = "accepted"
  <2>1. panel' = [Dropped(panel, r.key) EXCEPT !.activeTurn = r.key] /\ Finish("ask")
        /\ UNCHANGED <<inbox, sent>>
    BY <1>2 DEF SendAnswered
  <2>2. LET q == Dropped(panel, r.key) IN
        /\ q \in Panels /\ q.current = panel.current /\ q.session = panel.session
        /\ q.pending = None \/ q.pending = panel.pending
    BY <1>0, DroppedPanel
  <2>3. /\ panel' \in Panels /\ panel'.current = panel.current /\ panel'.session = panel.session
        /\ panel'.pending = None \/ panel'.pending = panel.pending
    BY <1>1, <2>1, <2>2 DEF Panels, OrNone
  <2>4. PanelStep
    BY <2>3 DEF PanelStep, Follows
  <2>5. QED BY <1>0, <2>1, <2>4, FinishReceipt
<1>3. CASE says = "reused"
  <2> DEFINE s == [r EXCEPT !.gen = panel.gen]
  <2>1. panel' = Known(panel, r.key) /\ Request("ask", s, "fetching") /\ "fetching" \in Requests
    BY <1>3 DEF SendAnswered, Requests
  <2>2. s \in TaskStates /\ s.key = r.key /\ s.retry = r.retry /\ s.conn = r.conn /\ s.text = r.text
        /\ s.session = r.session
    BY <1>0 DEF TaskStates, Panels
  <2> HIDE DEF s
  <2>3. Sends("ask", s, "fetching")
    BY <1>0, <1>1, <2>1, <2>2, Requested
  <2>4. TaskOK("ask", task'["ask"]) /\ AskOK(task'["ask"])
    BY <1>1, <2>2, <2>3 DEF Sends, TaskOK, AskOK
  <2>5. LET q == Known(panel, r.key) IN
        /\ q \in Panels /\ q.current = panel.current
        /\ ~Holds(panel, r.key) => q.pending = panel.pending
        /\ Holds(panel, r.key) => /\ q.pending # None /\ q.pending.key = panel.pending.key
                                  /\ q.pending.session = panel.pending.session
                                  /\ q.pending.known = r.key
                                  /\ q.pending.retain = panel.pending.retain
    BY <1>0, <1>1, KnownPanel
  <2>6. Follows(panel, panel')
    BY <2>1, <2>5 DEF Follows, Holds
  <2>7. r.retry = TRUE /\ Holds(panel', r.key) => panel'.pending.retain = TRUE
    BY <1>0, <2>1, <2>5 DEF KeptInv, Holds
  <2>8. r.at # "idle"
    OBVIOUS
  <2>9. QED BY <1>0, <1>1, <2>1, <2>2, <2>3, <2>4, <2>5, <2>6, <2>7, <2>8, SendReceipt
<1>4. CASE says = "terminal"
  <2>1. panel' = Dropped(panel, r.key) /\ Finish("ask") /\ UNCHANGED <<inbox, sent>>
    BY <1>4 DEF SendAnswered
  <2>2. /\ panel' \in Panels /\ panel'.current = panel.current /\ panel'.session = panel.session
        /\ panel'.pending = None \/ panel'.pending = panel.pending
    BY <1>0, <2>1, DroppedPanel
  <2>3. PanelStep
    BY <2>2 DEF PanelStep, Follows
  <2>4. QED BY <1>0, <2>1, <2>3, FinishReceipt
<1>5. CASE says \notin {"accepted", "reused", "terminal"}
  <2>1. panel' = Caught(panel, r.key) /\ Finish("ask") /\ UNCHANGED <<inbox, sent>>
    BY <1>5 DEF SendAnswered
  <2>2. PanelStep
    BY <1>0, <2>1, CaughtStep
  <2>3. QED BY <1>0, <2>1, <2>2, FinishReceipt
<1>6. QED BY <1>2, <1>3, <1>4, <1>5

LEMMA FetchedStep ==
    ASSUME IInv, ReceiptFrame, NEW x \in Tasks, Alone(x), NEW snapshot \in [Keys -> Fates],
           Fetched(x, task[x], snapshot), question' = question
    PROVE  IInv'
<1> DEFINE r == task[x]
           o == [panel EXCEPT !.subscribed = TRUE]
           p == Rendered(o, snapshot)
<1>0. panel \in Panels
  BY DEF IInv, Types, PageTypes
<1>1. Finish(x) /\ UNCHANGED <<inbox, sent>>
      /\ panel' \in {panel, Dropped(p, r.key), [p EXCEPT !.recovering = FALSE]}
  BY DEF Fetched
<1>2. o \in Panels /\ o.current = panel.current /\ o.session = panel.session /\ o.pending = panel.pending
  BY <1>0 DEF Panels
<1> HIDE DEF o
<1>3. /\ p \in Panels /\ p.current = panel.current /\ p.session = panel.session
      /\ p.pending = panel.pending \/ p.pending = None
  <2>1. p \in Panels /\ p.current = o.current /\ p.session = o.session
        /\ (p.pending = o.pending \/ p.pending = None)
    BY <1>2, RenderedPanel
  <2>2. QED BY <1>2, <2>1
<1> HIDE DEF p
<1>4. /\ panel' \in Panels /\ panel'.current = panel.current /\ panel'.session = panel.session
      /\ panel'.pending = panel.pending \/ panel'.pending = None
  <2>1. CASE panel' = panel
    BY <1>0, <2>1
  <2>2. CASE panel' = Dropped(p, r.key)
    BY <1>3, <2>2, DroppedPanel
  <2>3. CASE panel' = [p EXCEPT !.recovering = FALSE]
    BY <1>3, <2>3 DEF Panels
  <2>4. QED BY <1>1, <2>1, <2>2, <2>3
<1>5. PanelStep
  BY <1>4 DEF PanelStep, Follows
<1>6. QED BY <1>1, <1>5, FinishReceipt

LEMMA SubscribedStep ==
    ASSUME IInv, ReceiptFrame, NEW x \in Tasks, Alone(x),
           task[x].at \in {"subscribing", "subscribingNew"}, Subscribed(x, task[x]), question' = question
    PROVE  IInv'
<1> DEFINE r == task[x]
<1>0. PageTypes /\ TasksInv /\ KeptInv /\ panel \in Panels /\ r \in TaskStates /\ r.at # "idle"
  BY DEF IInv, Types, PageTypes
<1>1. r.conn \in Conns /\ r.session \in Sessions /\ r.session \in OrNone(Sessions) /\ r.retry \in BOOLEAN
  BY <1>0 DEF TasksInv, TaskOK, Requests, OrNone, TaskStates
<1>2. CASE x # "ask"
  <2>1. panel' = panel /\ Request(x, r, "fetching") /\ "fetching" \in Requests
    BY <1>2 DEF Subscribed, Requests
  <2>2. Sends(x, r, "fetching")
    BY <1>0, <1>1, <2>1, Requested
  <2>3. TaskOK(x, task'[x])
    BY <1>1, <1>2, <2>2 DEF Sends, TaskOK
  <2>4. Follows(panel, panel')
    BY <2>1 DEF Follows
  <2>5. QED BY <1>0, <1>1, <1>2, <2>1, <2>2, <2>3, <2>4, SendReceipt
<1>3. CASE x = "ask"
  <2> DEFINE at == IF r.retry THEN "sending" ELSE "attaching"
  <2>1. /\ \/ panel' = [panel EXCEPT !.session = r.session, !.subscribed = TRUE]
           \/ panel' = [panel EXCEPT !.subscribed = (panel.session = r.session)]
        /\ Request(x, r, at)
    BY <1>3 DEF Subscribed
  <2>2. panel' \in Panels /\ panel'.current = panel.current /\ panel'.pending = panel.pending
    BY <1>0, <1>1, <2>1, ZenonT(60) DEF Panels
  <2>3. AskOK(r)
    BY <1>0, <1>3 DEF TasksInv
  <2>4. at \in Requests /\ (at = "sending" => r.key # None /\ r.retry = TRUE) /\ at # "fetching"
    BY <1>0, <1>1, <2>3 DEF Requests, AskOK
  <2> HIDE DEF at
  <2>5. Sends(x, r, at)
    BY <1>0, <1>1, <2>1, <2>4, Requested
  <2>6. TaskOK(x, task'[x]) /\ AskOK(task'[x])
    BY <1>0, <1>1, <1>3, <2>3, <2>5 DEF Sends, TaskOK, AskOK, at
  <2>7. Follows(panel, panel')
    BY <2>2 DEF Follows
  <2>8. r.retry = TRUE /\ Holds(panel', r.key) => panel'.pending.retain = TRUE
    BY <1>0, <1>3, <2>2 DEF KeptInv, Holds
  <2>9. QED BY <1>0, <1>1, <1>3, <2>2, <2>4, <2>5, <2>6, <2>7, <2>8, SendReceipt
<1>4. QED BY <1>2, <1>3

LEMMA CreatedStep ==
    ASSUME IInv, ReceiptFrame, NEW x \in Tasks, Alone(x), task[x].at = "creating", NEW s \in Sessions,
           Request(x, [task[x] EXCEPT !.session = s], "subscribingNew"), UNCHANGED <<panel, question>>
    PROVE  IInv'
<1> DEFINE r == task[x]
           n == [r EXCEPT !.session = s]
<1>0. PageTypes /\ TasksInv /\ KeptInv /\ panel \in Panels /\ r \in TaskStates /\ r.at # "idle"
  BY DEF IInv, Types, PageTypes
<1>1. r.conn \in Conns /\ x = "ask" /\ AskOK(r) /\ r.retry \in BOOLEAN
  BY <1>0 DEF TasksInv, TaskOK, Requests, TaskStates
<1>2. n \in TaskStates /\ n.conn = r.conn /\ n.key = r.key /\ n.retry = r.retry /\ n.text = r.text
      /\ n.session = s /\ "subscribingNew" \in Requests
  BY <1>0 DEF TaskStates, OrNone, Requests
<1>3. Request(x, n, "subscribingNew")
  OBVIOUS
<1> HIDE DEF n
<1>4. Sends(x, n, "subscribingNew")
  BY <1>0, <1>1, <1>2, <1>3, Requested
<1>5. TaskOK(x, task'[x]) /\ AskOK(task'[x])
  BY <1>1, <1>2, <1>4 DEF Sends, TaskOK, AskOK
<1>6. Follows(panel, panel')
  BY DEF Follows
<1>7. r.retry = TRUE /\ Holds(panel', r.key) => panel'.pending.retain = TRUE
  BY <1>0, <1>1 DEF KeptInv, Holds
<1>8. QED BY <1>0, <1>1, <1>2, <1>4, <1>5, <1>6, <1>7, SendReceipt
LEMMA RespondStep ==
    ASSUME IInv, UNCHANGED <<link, handling, subs, store, fate, crossed>>,
           outbox' \in [Conns -> Seq(OutMessages)],
           \A c \in Conns : outbox[c] = <<>> => outbox'[c] = <<>>,
           NEW x \in Tasks, task[x].at \in Requests, Alone(x),
           NEW m \in OutMessages, Fits(m, task[x]), Respond(x, m)
    PROVE  IInv'
<1>0. PageTypes /\ TasksInv
  BY DEF IInv, Types
<1>1. panel \in Panels /\ task[x] \in TaskStates /\ told \in SUBSET Keys
  BY <1>0 DEF PageTypes
<1>2. m.snapshot # None => m.snapshot \in [Keys -> Fates]
  BY DEF OutMessages, Messages, OrNone
<1>3. x # "ask" => task[x].at \in {"subscribing", "fetching"}
  BY <1>0 DEF TasksInv, TaskOK, Requests
<1>4. task[x].at = "sending" => x = "ask" /\ task[x].key \in Keys
  <2>1. task[x].at = "sending" => x = "ask"
    BY <1>3
  <2>2. AskOK(task["ask"])
    BY <1>0 DEF TasksInv
  <2>3. task[x].key \in OrNone(Keys)
    BY <1>1 DEF TaskStates
  <2>4. QED BY <2>1, <2>2, <2>3 DEF AskOK, OrNone
<1> DEFINE A == IF task[x].at = "sending" THEN {task[x].key} ELSE {}
           B == IF m.snapshot = None \/ ~GuardHolds(x) THEN {}
                ELSE {k \in Keys : m.snapshot[k] # "absent"}
<1>5. told' = told \cup A \cup B
  BY DEF Respond
<1>6. A \subseteq Keys /\ B \subseteq Keys
  BY <1>4
<1>7. told' \in SUBSET Keys /\ told \subseteq told'
  BY <1>1, <1>5, <1>6
<1>8. ReceiptFrame
  BY <1>7 DEF ReceiptFrame
<1>9. task[x].at = "sending" => task["ask"].key \in told'
  <2>1. task[x].at = "sending" => task["ask"].key \in A
    BY <1>4
  <2>2. QED BY <1>5, <2>1
<1> HIDE DEF A, B
<1>10. CASE m.says = "not_found" /\ (x # "ask" \/ task[x].at = "subscribing")
  <2>1. SessionGone(x, task[x]) /\ question' = question
    BY <1>10 DEF Respond
  <2>2. x = "ask" => task[x].at = "subscribing"
    BY <1>10
  <2>3. QED BY <1>8, <2>1, <2>2, SessionGoneStep
<1>11. CASE ~(m.says = "not_found" /\ (x # "ask" \/ task[x].at = "subscribing"))
  <2>1. CASE task[x].at = "sending"
    <3>1. SendAnswered(task[x], m.says) /\ question' = question
      BY <1>11, <2>1 DEF Respond
    <3>2. QED BY <1>4, <1>8, <1>9, <2>1, <3>1, SendAnsweredStep
  <2>2. CASE task[x].at = "creating" /\ m.says = "ok"
    <3>1. /\ Request(x, [task[x] EXCEPT !.session = m.session], "subscribingNew")
          /\ UNCHANGED <<panel, question>>
      BY <1>11, <2>2 DEF Respond
    <3>2. m.session \in Sessions
      BY <2>2 DEF Fits
    <3>3. QED BY <1>8, <2>2, <3>1, <3>2, CreatedStep
  <2>3. CASE task[x].at = "attaching" /\ m.says = "ok"
    <3>1. Attached(task[x])
      BY <1>11, <2>3 DEF Respond
    <3>2. x = "ask"
      BY <1>3, <2>3
    <3>3. QED BY <1>8, <2>3, <3>1, <3>2, AttachedStep
  <2>4. CASE task[x].at = "fetching" /\ m.says = "ok"
    <3>1. Fetched(x, task[x], m.snapshot) /\ question' = question
      BY <1>11, <2>4 DEF Respond
    <3>2. m.snapshot \in [Keys -> Fates]
      BY <1>2, <2>4 DEF Fits
    <3>3. QED BY <1>8, <3>1, <3>2, FetchedStep
  <2>5. CASE task[x].at \in {"subscribing", "subscribingNew"} /\ m.says = "ok"
    <3>1. Subscribed(x, task[x]) /\ question' = question
      BY <1>11, <2>5 DEF Respond
    <3>2. QED BY <1>8, <2>5, <3>1, SubscribedStep
  <2>6. CASE ~(m.says = "ok") /\ task[x].at # "sending"
    <3>1. /\ panel' = IF task[x].at = "fetching" THEN Caught(panel, task[x].key) ELSE panel
          /\ Finish(x)
          /\ UNCHANGED <<inbox, sent, question>>
      BY <1>11, <2>6 DEF Respond
    <3>2. PanelStep
      <4>1. CASE task[x].at = "fetching"
        BY <1>1, <3>1, <4>1, CaughtStep
      <4>2. CASE task[x].at # "fetching"
        BY <1>1, <3>1, <4>2 DEF PanelStep, Follows
      <4>3. QED BY <4>1, <4>2
    <3>3. QED BY <1>8, <3>1, <3>2, FinishReceipt
  <2>7. QED BY <2>1, <2>2, <2>3, <2>4, <2>5, <2>6 DEF Requests
<1>12. QED BY <1>10, <1>11

LEMMA NotifiedPanel ==
    ASSUME panel \in Panels, NEW m \in OutMessages, m.to = "page", Notified(m)
    PROVE  PanelStep
<1> DEFINE q == panel.pending
<1>1. m.key \in Keys
  BY DEF OutMessages, Messages, OrNone
<1>2. CASE m.says = "ended"
  <2> DEFINE turn == IF panel.activeTurn = m.key THEN None ELSE panel.activeTurn
  <2>1. panel' = [panel EXCEPT !.activeTurn = turn]
    BY <1>2 DEF Notified
  <2>2. turn \in OrNone(Keys)
    BY DEF Panels, OrNone
  <2> HIDE DEF turn
  <2>3. panel' \in Panels
    BY <2>1, <2>2 DEF Panels
  <2>4. panel'.current = panel.current /\ panel'.pending = panel.pending /\ panel'.session = panel.session
    BY <2>1 DEF Panels
  <2>5. QED BY <2>3, <2>4 DEF PanelStep, Follows
<1>3. CASE /\ m.says # "ended" /\ q # None /\ panel.session = m.session
           /\ q.session = m.session /\ question[q.key].text = question[m.key].text
  <2> DEFINE w == [q EXCEPT !.known = m.key]
  <2>1. q \in Pendings
    BY <1>3 DEF Panels, OrNone
  <2>2. panel' = [panel EXCEPT !.pending = w]
    BY <1>3, <2>1 DEF Notified, Panels
  <2>3. w \in Pendings /\ w.key = q.key /\ w.session = q.session /\ w.retain = q.retain
        /\ w.known = m.key
    BY <1>1, <2>1 DEF Pendings, OrNone
  <2> HIDE DEF w
  <2>4. panel' \in Panels /\ panel'.pending = w /\ panel'.session = panel.session
        /\ panel'.current = panel.current
    BY <2>2, <2>3 DEF Panels, OrNone
  <2>5. w # None
    BY <2>3
  <2>6. QED BY <1>3, <2>3, <2>4, <2>5 DEF PanelStep, Follows
<1>4. CASE panel' = panel
  BY <1>4 DEF PanelStep, Follows
<1>5. QED BY <1>2, <1>3, <1>4 DEF Notified

LEMMA ReceiveStep ==
    ASSUME IInv, NEW c \in Conns, Receive(c)
    PROVE  IInv'
<1> DEFINE m == Head(outbox[c])
<1>0. PageTypes /\ OutTypes /\ DaemonTypes /\ QuestionTypes /\ TasksInv /\ LinksInv /\ CallInv
      /\ KeyInv /\ KeptInv
  BY DEF IInv, Types
<1>1. link[c] = "open" /\ outbox[c] # <<>> /\ outbox[c] \in Seq(OutMessages)
      /\ outbox' = [outbox EXCEPT ![c] = Tail(@)]
      /\ UNCHANGED <<link, handling, subs, store, fate, crossed>>
      /\ IF m.to = "page" THEN Notified(m) ELSE Respond(m.to, m)
  BY <1>0 DEF Receive, OutTypes, daemonVars
<1>2. m \in OutMessages /\ Tail(outbox[c]) \in Seq(OutMessages)
  BY <1>1, HeadTailProperties
<1>3. outbox'[c] = Tail(outbox[c]) /\ \A d \in Conns : d # c => outbox'[d] = outbox[d]
  BY <1>0, <1>1 DEF OutTypes
<1>4. outbox' \in [Conns -> Seq(OutMessages)]
  BY <1>0, <1>1, <1>2 DEF OutTypes
<1>5. \A d \in Conns : outbox[d] = <<>> => outbox'[d] = <<>>
  BY <1>1, <1>3
<1>6. ASSUME NEW y \in Tasks
      PROVE  /\ m.to # y => CallOK(c, y, task[y], inbox[c], handling[c], Tail(outbox[c]))
             /\ m.to = y => /\ NoCall(y, inbox[c], handling[c], Tail(outbox[c]))
                            /\ Fits(m, task[y]) /\ Waiting(c, task[y])
  <2>1. CallOK(c, y, task[y], inbox[c], handling[c], outbox[c])
    BY <1>0, <1>1 DEF CallInv
  <2>2. QED BY <1>1, <2>1, CallReceived
<1> HIDE DEF m
<1>7. CASE m.to = "page"
  <2>1. Notified(m) /\ UNCHANGED <<task, inbox, sent, question, told>>
    BY <1>1, <1>7 DEF Notified
  <2>2. PanelStep
    BY <1>0, <1>2, <1>7, <2>1, NotifiedPanel DEF PageTypes
  <2>3. Types'
    BY <1>0, <1>1, <1>4, <2>1, <2>2 DEF Types, PageTypes, OutTypes, DaemonTypes, QuestionTypes, PanelStep
  <2>4. TasksInv'
    BY <1>0, <1>1, <2>1 DEF TasksInv, TaskOK, AskOK, Connecting
  <2>5. LinksInv'
    BY <1>0, <1>1, <1>5, <2>1, <2>2 DEF LinksInv, PanelStep
  <2>6. CallInv'
    <3>1. SUFFICES ASSUME NEW d \in Conns, link[d] = "open", NEW y \in Tasks
                   PROVE  CallOK(d, y, task[y], inbox[d], handling[d], outbox'[d])
      BY <1>1, <2>1 DEF CallInv
    <3>2. CASE d = c
      BY <1>3, <1>6, <1>7, <3>2, Names
    <3>3. CASE d # c
      BY <1>0, <1>3, <3>1, <3>3 DEF CallInv
    <3>4. QED BY <3>2, <3>3
  <2>7. KeyInv'
    BY <1>0, <2>1, <2>2, KeyFollows DEF PanelStep, KeyInv
  <2>8. KeptInv'
    BY <1>0, <1>1, <2>1, <2>2, KeptFollows DEF PanelStep
  <2>9. QED BY <2>3, <2>4, <2>5, <2>6, <2>7, <2>8 DEF IInv
<1>8. CASE m.to # "page"
  <2>1. m.to \in Tasks /\ Respond(m.to, m)
    BY <1>1, <1>2, <1>8 DEF OutMessages, Messages
  <2>2. PICK x \in Tasks : m.to = x
    BY <2>1
  <2>3. NoCall(x, inbox[c], handling[c], Tail(outbox[c])) /\ Fits(m, task[x]) /\ Waiting(c, task[x])
    BY <1>6, <2>2
  <2>4. task[x].at \in Requests
    BY <2>3 DEF Waiting
  <2>5. Alone(x)
    <3>1. SUFFICES ASSUME NEW d \in Conns, link[d] = "open"
                   PROVE  /\ NoCall(x, inbox[d], handling[d], outbox'[d])
                          /\ \A y \in Tasks : y # x => CallOK(d, y, task[y], inbox[d], handling[d], outbox'[d])
      BY <1>1 DEF Alone
    <3>2. CASE d = c
      BY <1>3, <1>6, <2>2, <2>3, <3>2
    <3>3. CASE d # c
      <4>1. ~Waiting(d, task[x])
        BY <2>3, <3>3 DEF Waiting
      <4>2. NoCall(x, inbox[d], handling[d], outbox[d])
        BY <1>0, <3>1, <4>1, NotWaiting
      <4>3. QED BY <1>0, <1>3, <3>1, <3>3, <4>2 DEF CallInv
    <3>4. QED BY <3>2, <3>3
  <2>6. QED BY <1>1, <1>2, <1>4, <1>5, <2>1, <2>2, <2>3, <2>4, <2>5, RespondStep
<1>9. QED BY <1>7, <1>8

-----------------------------------------------------------------------------
\* The daemon serves a connection: the page is as it was, and a question is
\* what was asked.

SameQuestions ==
    \A k \in Keys : question'[k].text = question[k].text /\ question'[k].session = question[k].session

LEMMA ServedInv ==
    ASSUME IInv, DaemonStep, SameQuestions,
           inbox' \in [Conns -> Seq(InCalls)], OutTypes', DaemonTypes', QuestionTypes',
           \A d \in Conns : link[d] # "open" => outbox'[d] = <<>>,
           \A d \in Conns : link[d] \in {"unused", "connecting"} =>
              inbox'[d] = <<>> /\ handling'[d] = None /\ subs'[d] = {},
           \A d \in Conns, x \in Tasks : link[d] = "open" =>
              CallOK(d, x, task[x], inbox'[d], handling'[d], outbox'[d])
    PROVE  IInv'
<1>0. PageTypes /\ QuestionTypes /\ TasksInv /\ LinksInv /\ KeyInv /\ KeptInv
  BY DEF IInv, Types
<1>1. UNCHANGED <<panel, task, link, sent, told, crossed>>
  BY DEF DaemonStep, pageVars
<1>2. Types'
  BY <1>0, <1>1 DEF Types, PageTypes
<1>3. TasksInv'
  BY <1>0, <1>1 DEF TasksInv, TaskOK, AskOK, Connecting
<1>4. LinksInv'
  BY <1>0, <1>1 DEF LinksInv
<1>5. CallInv'
  BY <1>1 DEF CallInv
<1>6. KeyInv'
  <2>1. \A k \in Keys : question'[k].text = question[k].text /\ question'[k].session = question[k].session
    BY DEF SameQuestions
  <2>2. sent \in SUBSET Keys /\ task["ask"].key \in OrNone(Keys)
    BY <1>0, Names DEF PageTypes, TaskStates
  <2>3. panel.pending # None => panel.pending.key \in Keys /\ panel.pending.known \in OrNone(Keys)
    BY <1>0 DEF PageTypes, Panels, Pendings, OrNone
  <2>4. QED BY <1>0, <1>1, <2>1, <2>2, <2>3 DEF KeyInv, Asked, OrNone
<1>7. KeptInv'
  BY <1>0, <1>1 DEF KeptInv, Holds
<1>8. QED BY <1>2, <1>3, <1>4, <1>5, <1>6, <1>7 DEF IInv

LEMMA Posted ==
    ASSUME OutTypes, LinksInv, NEW posts, \A d \in Conns : posts[d] \in Seq(OutMessages), Post(posts)
    PROVE  /\ OutTypes'
           /\ \A d \in Conns : /\ link[d] = "open" => outbox'[d] = outbox[d] \o posts[d]
                               /\ link[d] # "open" => outbox'[d] = <<>>
<1>1. outbox' = [c \in Conns |-> IF link[c] = "open" THEN outbox[c] \o posts[c] ELSE <<>>]
  BY DEF Post
<1>2. <<>> \in Seq(OutMessages)
  BY EmptySeq
<1>3. \A d \in Conns : outbox[d] \o posts[d] \in Seq(OutMessages)
  <2>1. SUFFICES ASSUME NEW d \in Conns PROVE outbox[d] \o posts[d] \in Seq(OutMessages)
    OBVIOUS
  <2>2. outbox[d] \in Seq(OutMessages) /\ posts[d] \in Seq(OutMessages)
    BY DEF OutTypes
  <2>3. QED BY <2>2, ConcatProperties
<1>4. QED BY <1>1, <1>2, <1>3 DEF OutTypes

Snapshots == OrNone([Keys -> Fates])

LEMMA AnswerSays ==
    ASSUME NEW q \in InCalls, NEW says \in Answers, NEW s \in OrNone(Sessions),
           NEW snapshot \in Snapshots, NEW a, a = Answer(q, says, s, snapshot)
    PROVE  /\ a \in Seq(OutMessages)
           /\ \A i \in 1 .. Len(a) :
                 /\ i = 1 /\ q.from \in Tasks /\ a[i].to = q.from /\ a[i].says = says
                 /\ a[i].session = s /\ a[i].key = q.key /\ a[i].snapshot = snapshot
<1> DEFINE m == Say(q.from, says, s, q.key, snapshot)
<1>1. q.from \in OrNone(Tasks) /\ q.key \in OrNone(Keys)
  BY DEF InCalls, Calls
<1>2. CASE q.from = None
  <2>1. a = <<>>
    BY <1>2 DEF Answer
  <2>2. a \in Seq(OutMessages) /\ Len(a) = 0
    BY <2>1, EmptySeq
  <2>3. QED BY <2>2
<1>3. CASE q.from # None
  <2>1. q.from \in Tasks /\ q.from # "page"
    BY <1>1, <1>3, Names DEF OrNone
  <2>2. m.to = q.from /\ m.says = says /\ m.session = s /\ m.key = q.key /\ m.snapshot = snapshot
    BY DEF Say
  <2>3. m \in Messages
    BY <1>1, <2>1 DEF Say, Messages, Snapshots
  <2>4. m \in OutMessages
    BY <2>1, <2>2, <2>3 DEF OutMessages
  <2>5. a = <<m>>
    BY <1>3 DEF Answer
  <2> HIDE DEF m
  <2>6. a \in Seq(OutMessages) /\ Len(a) = 1 /\ a[1] = m
    BY <2>4, <2>5
  <2>7. QED BY <2>1, <2>2, <2>6
<1>4. QED BY <1>2, <1>3

LEMMA NoticeSays ==
    ASSUME QuestionTypes, NEW k \in Keys, NEW says \in {"created", "ended"}
    PROVE  /\ Notice(says, k) \in OutMessages
           /\ Notice(says, k).to = "page" /\ Notice(says, k).key = k /\ Notice(says, k).says = says
<1>1. question[k].session \in OrNone(Sessions)
  BY DEF QuestionTypes, Rows
<1>2. /\ Notice(says, k).to = "page" /\ Notice(says, k).key = k /\ Notice(says, k).says = says
      /\ Notice(says, k) \in Messages
  BY <1>1 DEF Notice, Say, Messages, Answers, OrNone
<1>3. QED BY <1>2 DEF OutMessages

\* A call that is answered as it is handled.
LEMMA AnsweredInv ==
    ASSUME IInv, NEW c \in Conns, handling[c] = None, inbox[c] # <<>>,
           inbox' = [inbox EXCEPT ![c] = Tail(@)], DaemonStep, UNCHANGED <<handling, question>>,
           DaemonTypes', \A d \in Conns : d # c => subs'[d] = subs[d],
           NEW q \in InCalls, q = Head(inbox[c]), NEW says, NEW s \in OrNone(Sessions),
           NEW snapshot \in Snapshots,
           says \in {"ok", "reused", "terminal", "refused", "not_found"},
           says \in {"reused", "terminal"} => q.kind = "sending",
           says = "ok" => q.kind # "sending",
           says = "refused" => q.kind \in {"creating", "sending"},
           says = "ok" /\ q.kind = "creating" => s \in Sessions,
           snapshot # None <=> says = "ok" /\ q.kind = "fetching",
           Post(Only(c, Answer(q, says, s, snapshot)))
    PROVE  IInv'
<1> DEFINE a == Answer(q, says, s, snapshot)
           posts == Only(c, a)
<1>0. PageTypes /\ OutTypes /\ DaemonTypes /\ QuestionTypes /\ LinksInv /\ CallInv
  BY DEF IInv, Types
<1>1. /\ a \in Seq(OutMessages)
      /\ \A i \in 1 .. Len(a) :
            /\ i = 1 /\ q.from \in Tasks /\ a[i].to = q.from /\ a[i].says = says
            /\ a[i].session = s /\ a[i].key = q.key /\ a[i].snapshot = snapshot
  <2>1. says \in Answers
    BY DEF Answers
  <2> HIDE DEF a
  <2>2. a = Answer(q, says, s, snapshot)
    BY DEF a
  <2>3. QED BY <2>1, <2>2, AnswerSays
<1> HIDE DEF a
<1>2. posts[c] = a /\ \A d \in Conns : d # c => posts[d] = <<>>
  BY DEF Only
<1>3. \A d \in Conns : posts[d] \in Seq(OutMessages)
  <2>1. <<>> \in Seq(OutMessages)
    BY EmptySeq
  <2> HIDE DEF posts
  <2>2. QED BY <1>1, <1>2, <2>1
<1>4. Post(posts)
  BY DEF a
<1> HIDE DEF posts
<1>5. /\ OutTypes'
      /\ \A d \in Conns : /\ link[d] = "open" => outbox'[d] = outbox[d] \o posts[d]
                          /\ link[d] # "open" => outbox'[d] = <<>>
  BY <1>0, <1>3, <1>4, Posted
<1>6. inbox[c] \in Seq(InCalls) /\ Tail(inbox[c]) \in Seq(InCalls)
  BY <1>0, HeadTailProperties DEF PageTypes
<1>7. inbox' \in [Conns -> Seq(InCalls)] /\ inbox'[c] = Tail(inbox[c])
      /\ \A d \in Conns : d # c => inbox'[d] = inbox[d]
  BY <1>0, <1>6 DEF PageTypes
<1>8. link[c] \notin {"unused", "connecting"}
  BY <1>0 DEF LinksInv
<1>9. \A d \in Conns : link[d] \in {"unused", "connecting"} =>
              inbox'[d] = <<>> /\ handling'[d] = None /\ subs'[d] = {}
  BY <1>0, <1>7, <1>8 DEF LinksInv
<1>10. ASSUME NEW d \in Conns, NEW x \in Tasks, link[d] = "open"
       PROVE  CallOK(d, x, task[x], inbox'[d], handling'[d], outbox'[d])
  <2>1. CallOK(d, x, task[x], inbox[d], handling[d], outbox[d]) /\ outbox[d] \in Seq(OutMessages)
    BY <1>0, <1>10 DEF CallInv, OutTypes
  <2>2. outbox'[d] = outbox[d] \o posts[d]
    BY <1>5, <1>10
  <2>3. CASE d # c
    <3>1. posts[d] = <<>> /\ posts[d] \in Seq(OutMessages)
      BY <1>2, <1>3, <2>3
    <3>2. \A i \in 1 .. Len(posts[d]) : posts[d][i].to # x
      BY <3>1
    <3>3. CallOK(d, x, task[x], inbox[d], handling[d], outbox[d] \o posts[d])
      BY <2>1, <3>1, <3>2, CallPosted
    <3>4. QED BY <1>7, <2>2, <2>3, <3>3
  <2>4. CASE d = c
    <3>1. CallOK(c, x, task[x], Tail(inbox[c]), q, outbox[c])
      BY <1>6, <2>1, <2>4, CallTaken
    <3>2. q # None
      BY DEF InCalls
    <3>3. q.from = x => q = Asks(x, task[x])
      BY <3>1, <3>2 DEF CallOK
    <3>4. q.from = x => q.kind = task[x].at /\ q.key = task[x].key
      BY <3>3 DEF Asks
    <3>5. ASSUME NEW i \in 1 .. Len(a), a[i].to = x PROVE i = 1 /\ q.from = x /\ Fits(a[1], task[x])
      BY <1>1, <3>4, <3>5 DEF Fits
    <3>6. CallOK(c, x, task[x], Tail(inbox[c]), None, outbox[c] \o a)
      BY <1>1, <2>1, <2>4, <3>1, <3>2, <3>5, CallReturned
    <3>7. QED BY <1>2, <1>7, <2>2, <2>4, <3>6
  <2>5. QED BY <2>3, <2>4
<1>11. SameQuestions /\ QuestionTypes'
  BY <1>0 DEF SameQuestions, QuestionTypes
<1>12. QED BY <1>5, <1>7, <1>9, <1>10, <1>11, ServedInv

\* A turn begins: the call is held, and the others subscribed are told.
LEMMA BeginInv ==
    ASSUME IInv, NEW c \in Conns, handling[c] = None, inbox[c] # <<>>,
           inbox' = [inbox EXCEPT ![c] = Tail(@)], DaemonStep, UNCHANGED <<subs, store>>,
           NEW q \in InCalls, q = Head(inbox[c]), q.kind = "sending",
           fate' = [fate EXCEPT ![q.key] = "active"],
           handling' = [handling EXCEPT ![c] = q],
           question' = [question EXCEPT ![q.key].conn = c],
           Post([d \in Conns |-> IF d # c /\ ~Native /\ q.session \in subs[d]
                                 THEN <<Notice("created", q.key)>> ELSE <<>>])
    PROVE  IInv'
<1> DEFINE n == Notice("created", q.key)
           posts == [d \in Conns |-> IF d # c /\ ~Native /\ q.session \in subs[d] THEN <<n>> ELSE <<>>]
<1>0. PageTypes /\ OutTypes /\ DaemonTypes /\ QuestionTypes /\ LinksInv /\ CallInv
  BY DEF IInv, Types
<1>1. q \in HeldCalls /\ q.key \in Keys /\ q # None
  BY DEF InCalls, HeldCalls, Calls, OrNone
<1>2. n \in OutMessages /\ n.to = "page"
  BY <1>0, <1>1, NoticeSays
<1> HIDE DEF n
<1>3. /\ posts[c] = <<>>
      /\ \A d \in Conns : posts[d] \in Seq(OutMessages) /\ \A i \in 1 .. Len(posts[d]) : posts[d][i].to = "page"
  BY <1>2, EmptySeq
<1>4. Post(posts)
  BY DEF n
<1> HIDE DEF posts
<1>5. /\ OutTypes'
      /\ \A d \in Conns : /\ link[d] = "open" => outbox'[d] = outbox[d] \o posts[d]
                          /\ link[d] # "open" => outbox'[d] = <<>>
  BY <1>0, <1>3, <1>4, Posted
<1>6. inbox[c] \in Seq(InCalls) /\ Tail(inbox[c]) \in Seq(InCalls)
  BY <1>0, HeadTailProperties DEF PageTypes
<1>7. inbox' \in [Conns -> Seq(InCalls)] /\ inbox'[c] = Tail(inbox[c])
      /\ \A d \in Conns : d # c => inbox'[d] = inbox[d]
  BY <1>0, <1>6 DEF PageTypes
<1>8. link[c] \notin {"unused", "connecting"}
  BY <1>0 DEF LinksInv
<1>9. handling' \in [Conns -> OrNone(HeldCalls)] /\ handling'[c] = q
      /\ \A d \in Conns : d # c => handling'[d] = handling[d]
  BY <1>0, <1>1 DEF DaemonTypes, OrNone
<1>10. fate' \in [Keys -> Fates]
  BY <1>0 DEF DaemonTypes, Fates
<1>11. DaemonTypes'
  BY <1>0, <1>9, <1>10 DEF DaemonTypes
<1>12. \A d \in Conns : link[d] \in {"unused", "connecting"} =>
              inbox'[d] = <<>> /\ handling'[d] = None /\ subs'[d] = {}
  BY <1>0, <1>7, <1>8, <1>9, SMTT(30) DEF LinksInv
<1>13. question' \in [Keys -> Rows] /\ SameQuestions
  <2> DEFINE w == [question[q.key] EXCEPT !.conn = c]
  <2>1. question[q.key] \in Rows
    BY <1>0, <1>1 DEF QuestionTypes
  <2>2. w \in Rows /\ w.text = question[q.key].text /\ w.session = question[q.key].session
    BY <2>1 DEF Rows, OrNone
  <2>3. question' = [question EXCEPT ![q.key] = w]
    OBVIOUS
  <2> HIDE DEF w
  <2>4. question' = [k \in Keys |-> IF k = q.key THEN w ELSE question[k]]
    BY <1>0, <2>3 DEF QuestionTypes
  <2>5. \A k \in Keys : question[k] \in Rows
    BY <1>0 DEF QuestionTypes
  <2>6. QED BY <2>2, <2>4, <2>5, ZenonT(60) DEF SameQuestions
<1>14. ASSUME NEW d \in Conns, NEW x \in Tasks, link[d] = "open"
       PROVE  CallOK(d, x, task[x], inbox'[d], handling'[d], outbox'[d])
  <2>1. CallOK(d, x, task[x], inbox[d], handling[d], outbox[d]) /\ outbox[d] \in Seq(OutMessages)
    BY <1>0, <1>14 DEF CallInv, OutTypes
  <2>2. outbox'[d] = outbox[d] \o posts[d] /\ posts[d] \in Seq(OutMessages)
        /\ \A i \in 1 .. Len(posts[d]) : posts[d][i].to # x
    BY <1>3, <1>5, <1>14, Names
  <2>3. CASE d # c
    <3>1. CallOK(d, x, task[x], inbox[d], handling[d], outbox[d] \o posts[d])
      BY <2>1, <2>2, CallPosted
    <3>2. QED BY <1>7, <1>9, <2>2, <2>3, <3>1
  <2>4. CASE d = c
    <3>1. CallOK(c, x, task[x], Tail(inbox[c]), q, outbox[c])
      BY <1>6, <2>1, <2>4, CallTaken
    <3>2. CallOK(c, x, task[x], Tail(inbox[c]), q, outbox[c] \o posts[c])
      BY <2>1, <2>2, <2>4, <3>1, CallPosted
    <3>3. QED BY <1>7, <1>9, <2>2, <2>4, <3>2
  <2>5. QED BY <2>3, <2>4
<1>15. QuestionTypes'
  BY <1>13 DEF QuestionTypes
<1>16. QED BY <1>5, <1>7, <1>11, <1>12, <1>13, <1>14, <1>15, ServedInv

LEMMA HandleStep ==
    ASSUME IInv, NEW c \in Conns, Handle(c)
    PROVE  IInv'
<1>0. PageTypes /\ OutTypes /\ DaemonTypes /\ QuestionTypes /\ LinksInv /\ CallInv
  BY SMTT(30) DEF IInv, Types
<1>1. handling[c] = None /\ inbox[c] # <<>> /\ inbox' = [inbox EXCEPT ![c] = Tail(@)] /\ DaemonStep
  BY DEF Handle
<1>2. Head(inbox[c]) \in InCalls
  BY <1>0, <1>1, HeadTailProperties DEF PageTypes
<1>3. PICK q \in InCalls : q = Head(inbox[c])
  BY <1>2
<1> DEFINE known == q.session # None /\ store[q.session] = "known"
<1>4. q.session \in OrNone(Sessions) /\ q.key \in OrNone(Keys) /\ (q.kind = "sending" => q.key \in Keys)
      /\ q.kind \in Requests
  BY DEF InCalls, Calls, OrNone
<1>5. known => q.session \in Sessions
  BY <1>4 DEF OrNone
<1>6. None \in Snapshots
  BY DEF Snapshots, OrNone
<1>7. CASE q.kind \in {"subscribing", "subscribingNew"}
  <2>1. /\ subs' = IF known THEN [subs EXCEPT ![c] = @ \cup {q.session}] ELSE subs
        /\ Post(Only(c, Answer(q, IF known THEN "ok" ELSE "not_found", q.session, None)))
        /\ UNCHANGED <<handling, store, fate, question>>
    BY <1>3, <1>7 DEF Handle
  <2>2. subs' \in [Conns -> SUBSET Sessions] /\ \A d \in Conns : d # c => subs'[d] = subs[d]
    BY <1>0, <1>5, <2>1 DEF DaemonTypes
  <2>3. DaemonTypes'
    BY <1>0, <2>1, <2>2 DEF DaemonTypes
  <2>4. QED BY <1>1, <1>3, <1>4, <1>6, <1>7, <2>1, <2>2, <2>3, AnsweredInv
<1>8. CASE q.kind = "creating"
  <2>1. UNCHANGED <<handling, subs, fate, question>>
    BY <1>3, <1>8 DEF Handle
  <2>2. CASE UNCHANGED store /\ Post(Only(c, Answer(q, "refused", q.session, None)))
    <3>1. DaemonTypes'
      BY <1>0, <2>1, <2>2 DEF DaemonTypes
    <3>2. QED BY <1>1, <1>3, <1>4, <1>6, <1>8, <2>1, <2>2, <3>1, AnsweredInv
  <2>3. ASSUME NEW s \in Sessions, store' = [store EXCEPT ![s] = "known"],
               Post(Only(c, Answer(q, "ok", s, None)))
        PROVE  IInv'
    <3>1. store' \in [Sessions -> {"unused", "known", "forgotten"}]
      BY <1>0, <2>3 DEF DaemonTypes
    <3>2. DaemonTypes'
      BY <1>0, <2>1, <3>1 DEF DaemonTypes
    <3>3. s \in OrNone(Sessions)
      BY SMTT(30) DEF OrNone
    <3>4. QED BY <1>1, <1>3, <1>6, <1>8, <2>1, <2>3, <3>2, <3>3, AnsweredInv
  <2>4. \/ \E s \in Sessions : store' = [store EXCEPT ![s] = "known"] /\ Post(Only(c, Answer(q, "ok", s, None)))
        \/ UNCHANGED store /\ Post(Only(c, Answer(q, "refused", q.session, None)))
    BY <1>3, <1>8 DEF Handle
  <2>5. QED BY <2>2, <2>3, <2>4, SMTT(30)
<1>9. CASE q.kind = "attaching"
  <2>1. /\ Post(Only(c, Answer(q, IF known THEN "ok" ELSE "not_found", q.session, None)))
        /\ UNCHANGED <<handling, subs, store, fate, question>>
    BY <1>3, <1>9 DEF Handle, daemonVars
  <2>2. DaemonTypes'
    BY <1>0, <2>1 DEF DaemonTypes
  <2>3. QED BY <1>1, <1>3, <1>4, <1>6, <1>9, <2>1, <2>2, AnsweredInv
<1>10. CASE q.kind = "fetching"
  <2> DEFINE f == [k \in Keys |-> IF question[k].session = q.session THEN fate[k] ELSE "absent"]
  <2>1. /\ IF known THEN Post(Only(c, Answer(q, "ok", q.session, f)))
           ELSE Post(Only(c, Answer(q, "not_found", q.session, None)))
        /\ UNCHANGED <<handling, subs, store, fate, question>>
    BY <1>3, <1>10 DEF Handle, daemonVars
  <2>2. DaemonTypes'
    BY <1>0, <2>1 DEF DaemonTypes
  <2>3. f \in [Keys -> Fates]
    BY <1>0 DEF DaemonTypes, Fates
  <2>4. f \in Snapshots /\ f # None
    BY <2>3 DEF Snapshots, OrNone
  <2> HIDE DEF f
  <2>5. CASE known
    BY <1>1, <1>3, <1>4, <1>10, <2>1, <2>2, <2>4, <2>5, AnsweredInv
  <2>6. CASE ~known
    BY <1>1, <1>3, <1>4, <1>6, <1>10, <2>1, <2>2, <2>6, AnsweredInv
  <2>7. QED BY <2>5, <2>6, SMTT(30)
<1>11. CASE q.kind = "sending"
  <2> DEFINE own == question[q.key].session = q.session
             says == IF ~known THEN "not_found"
                     ELSE IF own /\ fate[q.key] = "failed" THEN "terminal"
                     ELSE IF own /\ fate[q.key] # "absent" THEN "reused"
                     ELSE "refused"
             begins == fate[q.key] = "absent" /\ known /\ own /\ \A k \in Keys : fate[k] # "active"
  <2>1. UNCHANGED <<subs, store>>
    BY <1>3, <1>11, SMTT(30) DEF Handle
  <2>2. CASE begins
    <3>1. /\ fate' = [fate EXCEPT ![q.key] = "active"]
          /\ handling' = [handling EXCEPT ![c] = q]
          /\ question' = [question EXCEPT ![q.key].conn = c]
          /\ Post([d \in Conns |-> IF d # c /\ ~Native /\ q.session \in subs[d]
                                   THEN <<Notice("created", q.key)>> ELSE <<>>])
      BY <1>3, <1>11, <2>2 DEF Handle
    <3>2. QED BY <1>1, <1>3, <1>11, <2>1, <3>1, BeginInv
  <2>3. CASE ~begins
    <3>1. Post(Only(c, Answer(q, says, q.session, None))) /\ UNCHANGED <<handling, fate, question>>
      BY <1>3, <1>11, <2>3 DEF Handle
    <3>2. DaemonTypes'
      BY <1>0, <2>1, <3>1 DEF DaemonTypes
    <3>3. says \in {"reused", "terminal", "refused", "not_found"}
      OBVIOUS
    <3> HIDE DEF says
    <3>4. QED BY <1>1, <1>3, <1>4, <1>6, <1>11, <2>1, <3>1, <3>2, <3>3, AnsweredInv
  <2>4. QED BY <2>2, <2>3, SMTT(30)
<1>12. QED BY <1>4, <1>7, <1>8, <1>9, <1>10, <1>11 DEF Requests

\* A step that only tells the page of ends and begins of turns.
LEMMA TellsInv ==
    ASSUME IInv, DaemonStep, UNCHANGED <<inbox, handling, subs, question>>, DaemonTypes',
           NEW posts, Post(posts),
           \A d \in Conns : /\ posts[d] \in Seq(OutMessages)
                            /\ \A i \in 1 .. Len(posts[d]) : posts[d][i].to = "page"
    PROVE  IInv'
<1>0. PageTypes /\ OutTypes /\ DaemonTypes /\ QuestionTypes /\ LinksInv /\ CallInv
  BY DEF IInv, Types
<1>1. /\ OutTypes'
      /\ \A d \in Conns : /\ link[d] = "open" => outbox'[d] = outbox[d] \o posts[d]
                          /\ link[d] # "open" => outbox'[d] = <<>>
  BY <1>0, Posted
<1>2. ASSUME NEW d \in Conns, NEW x \in Tasks, link[d] = "open"
      PROVE  CallOK(d, x, task[x], inbox'[d], handling'[d], outbox'[d])
  <2>1. CallOK(d, x, task[x], inbox[d], handling[d], outbox[d]) /\ outbox[d] \in Seq(OutMessages)
    BY <1>0, <1>2 DEF CallInv, OutTypes
  <2>2. posts[d] \in Seq(OutMessages) /\ \A i \in 1 .. Len(posts[d]) : posts[d][i].to # x
    BY Names
  <2>3. CallOK(d, x, task[x], inbox[d], handling[d], outbox[d] \o posts[d])
    BY <2>1, <2>2, CallPosted
  <2>4. QED BY <1>1, <1>2, <2>3
<1>3. SameQuestions /\ QuestionTypes'
  BY <1>0 DEF SameQuestions, QuestionTypes
<1>4. inbox' \in [Conns -> Seq(InCalls)]
  BY <1>0 DEF PageTypes
<1>5. \A d \in Conns : link[d] \in {"unused", "connecting"} =>
              inbox'[d] = <<>> /\ handling'[d] = None /\ subs'[d] = {}
  BY <1>0 DEF LinksInv
<1>6. QED BY <1>1, <1>2, <1>3, <1>4, <1>5, ServedInv

LEMMA TurnEndsStep ==
    ASSUME IInv, NEW k \in Keys, NEW outcome \in {"completed", "failed"}, TurnEnds(k, outcome)
    PROVE  IInv'
<1> DEFINE n == Notice("ended", k)
           posts == [c \in Conns |-> IF Hears(c, k, question[k].session) THEN <<n>> ELSE <<>>]
<1>0. DaemonTypes /\ QuestionTypes
  BY DEF IInv, Types
<1>1. DaemonStep /\ UNCHANGED <<inbox, handling, subs, store, question>>
      /\ fate' = [fate EXCEPT ![k] = outcome] /\ Post(posts)
  BY DEF TurnEnds
<1>2. n \in OutMessages /\ n.to = "page"
  BY <1>0, NoticeSays
<1> HIDE DEF n
<1>3. \A d \in Conns : posts[d] \in Seq(OutMessages) /\ \A i \in 1 .. Len(posts[d]) : posts[d][i].to = "page"
  BY <1>2, EmptySeq
<1> HIDE DEF posts
<1>4. fate' \in [Keys -> Fates]
  BY <1>0, <1>1 DEF DaemonTypes, Fates
<1>5. DaemonTypes'
  BY <1>0, <1>1, <1>4 DEF DaemonTypes
<1>6. QED BY <1>1, <1>3, <1>5, TellsInv

LEMMA SendHandledStep ==
    ASSUME IInv, NEW c \in Conns, NEW started \in BOOLEAN, SendHandled(c, started)
    PROVE  IInv'
<1>0. PageTypes /\ OutTypes /\ DaemonTypes /\ QuestionTypes /\ LinksInv /\ CallInv
  BY DEF IInv, Types
<1>1. handling[c] # None /\ handling' = [handling EXCEPT ![c] = None] /\ DaemonStep
      /\ UNCHANGED <<inbox, subs, store, question>>
  BY DEF SendHandled
<1>2. handling[c] \in HeldCalls
  BY <1>0, <1>1 DEF DaemonTypes, OrNone
<1>3. PICK q \in HeldCalls : q = handling[c]
  BY <1>2
<1>4. q \in InCalls /\ q.kind = "sending" /\ q.key \in Keys /\ q.session \in OrNone(Sessions) /\ q # None
  BY DEF HeldCalls, InCalls, Calls, OrNone
<1> DEFINE says == IF started THEN "accepted" ELSE "refused"
           a == Answer(q, says, q.session, None)
           n == Notice("created", q.key)
           e == Notice("ended", q.key)
           others == IF started THEN <<>> ELSE <<e>>
           tells(d) == IF Hears(d, q.key, q.session)
                       THEN (IF d = c THEN <<n>> ELSE <<>>) \o others ELSE <<>>
           posts == [d \in Conns |-> (IF d = c THEN a ELSE <<>>) \o tells(d)]
<1>5. /\ fate' = IF started THEN fate ELSE [fate EXCEPT ![q.key] = "failed"]
      /\ Post(posts)
  BY <1>3 DEF SendHandled
<1>6. says \in Answers /\ None \in Snapshots
  BY DEF Answers, Snapshots, OrNone
<1>7. /\ a \in Seq(OutMessages)
      /\ \A i \in 1 .. Len(a) :
            /\ i = 1 /\ q.from \in Tasks /\ a[i].to = q.from /\ a[i].says = says
            /\ a[i].session = q.session /\ a[i].key = q.key /\ a[i].snapshot = None
  BY <1>4, <1>6, AnswerSays
<1>8. n \in OutMessages /\ n.to = "page" /\ e \in OutMessages /\ e.to = "page"
  BY <1>0, <1>4, NoticeSays
<1> HIDE DEF a, n, e
<1>9. ASSUME NEW d \in Conns
      PROVE  tells(d) \in Seq(OutMessages) /\ \A i \in 1 .. Len(tells(d)) : tells(d)[i].to = "page"
  <2>1. others \in Seq(OutMessages) /\ \A i \in 1 .. Len(others) : others[i].to = "page"
    BY <1>8, EmptySeq
  <2> HIDE DEF others
  <2>2. ASSUME NEW w \in {<<>>, <<n>>}
        PROVE  w \o others \in Seq(OutMessages) /\ \A i \in 1 .. Len(w \o others) : (w \o others)[i].to = "page"
    <3>1. w \in Seq(OutMessages) /\ \A i \in 1 .. Len(w) : w[i].to = "page"
      <4>1. CASE w = <<>>
        BY <4>1, EmptySeq
      <4>2. CASE w = <<n>>
        BY <1>8, <4>2
      <4>3. QED BY <2>2, <4>1, <4>2
    <3>2. /\ w \o others \in Seq(OutMessages) /\ Len(w \o others) = Len(w) + Len(others)
          /\ \A i \in 1 .. Len(w) + Len(others) :
                (w \o others)[i] = IF i <= Len(w) THEN w[i] ELSE others[i - Len(w)]
      BY <2>1, <3>1, ConcatProperties
    <3>3. Len(w) \in Nat /\ Len(others) \in Nat
      BY <2>1, <3>1, LenProperties
    <3>4. QED BY <2>1, <3>1, <3>2, <3>3
  <2>3. tells(d) = <<>> \/ \E w \in {<<>>, <<n>>} : tells(d) = w \o others
    OBVIOUS
  <2> HIDE DEF tells
  <2>4. CASE tells(d) = <<>>
    BY <2>4, EmptySeq
  <2>5. ASSUME NEW w \in {<<>>, <<n>>}, tells(d) = w \o others
        PROVE  tells(d) \in Seq(OutMessages) /\ \A i \in 1 .. Len(tells(d)) : tells(d)[i].to = "page"
    BY <2>2, <2>5
  <2>6. QED BY <2>3, <2>4, <2>5
<1> HIDE DEF tells
<1>10. ASSUME NEW d \in Conns
       PROVE  /\ posts[d] \in Seq(OutMessages)
              /\ \A i \in 1 .. Len(posts[d]) :
                    posts[d][i].to # "page" =>
                       /\ d = c /\ i = 1 /\ q.from \in Tasks
                       /\ posts[d][i].to = q.from /\ posts[d][i].says = says
                       /\ posts[d][i].key = q.key /\ posts[d][i].snapshot = None
  <2> DEFINE b == IF d = c THEN a ELSE <<>>
  <2>1. /\ b \in Seq(OutMessages)
        /\ \A i \in 1 .. Len(b) :
              /\ d = c /\ i = 1 /\ q.from \in Tasks
              /\ b[i].to = q.from /\ b[i].says = says
              /\ b[i].key = q.key /\ b[i].snapshot = None
    BY <1>7, EmptySeq
  <2> HIDE DEF b
  <2>2. posts[d] = b \o tells(d)
    BY DEF b
  <2> HIDE DEF posts
  <2>3. /\ b \o tells(d) \in Seq(OutMessages) /\ Len(b \o tells(d)) = Len(b) + Len(tells(d))
        /\ \A i \in 1 .. Len(b) + Len(tells(d)) :
              (b \o tells(d))[i] = IF i <= Len(b) THEN b[i] ELSE tells(d)[i - Len(b)]
    BY <1>9, <2>1, ConcatProperties
  <2>4. Len(b) \in Nat /\ Len(tells(d)) \in Nat
    BY <1>9, <2>1, LenProperties
  <2>5. posts[d] \in Seq(OutMessages) /\ Len(posts[d]) = Len(b) + Len(tells(d))
    BY <2>2, <2>3
  <2>6. ASSUME NEW i \in 1 .. Len(posts[d]), posts[d][i].to # "page"
        PROVE  i \in 1 .. Len(b) /\ posts[d][i] = b[i]
    <3>1. posts[d][i] = IF i <= Len(b) THEN b[i] ELSE tells(d)[i - Len(b)]
      BY <2>2, <2>3, <2>5, <2>6
    <3>2. i > Len(b) => i - Len(b) \in 1 .. Len(tells(d))
      BY <2>4, <2>5
    <3>3. i > Len(b) => posts[d][i].to = "page"
      BY <1>9, <2>4, <3>1, <3>2
    <3>4. QED BY <2>4, <2>6, <3>1, <3>3
  <2>7. QED BY <2>1, <2>5, <2>6
<1> HIDE DEF posts
<1>11. /\ OutTypes'
       /\ \A d \in Conns : /\ link[d] = "open" => outbox'[d] = outbox[d] \o posts[d]
                           /\ link[d] # "open" => outbox'[d] = <<>>
  BY <1>0, <1>5, <1>10, Posted
<1>12. handling' \in [Conns -> OrNone(HeldCalls)] /\ handling'[c] = None
       /\ \A d \in Conns : d # c => handling'[d] = handling[d]
  BY <1>0, <1>1 DEF DaemonTypes, OrNone
<1>13. fate' \in [Keys -> Fates]
  BY <1>0, <1>5 DEF DaemonTypes, Fates
<1>14. DaemonTypes'
  BY <1>0, <1>1, <1>12, <1>13 DEF DaemonTypes
<1>15. ASSUME NEW d \in Conns, NEW x \in Tasks, link[d] = "open"
       PROVE  CallOK(d, x, task[x], inbox'[d], handling'[d], outbox'[d])
  <2>1. CallOK(d, x, task[x], inbox[d], handling[d], outbox[d]) /\ outbox[d] \in Seq(OutMessages)
    BY <1>0, <1>15 DEF CallInv, OutTypes
  <2>2. outbox'[d] = outbox[d] \o posts[d] /\ posts[d] \in Seq(OutMessages)
    BY <1>10, <1>11, <1>15
  <2>3. x # "page"
    BY Names
  <2>4. CASE d # c
    <3>1. \A i \in 1 .. Len(posts[d]) : posts[d][i].to # x
      BY <1>10, <2>3, <2>4
    <3>2. CallOK(d, x, task[x], inbox[d], handling[d], outbox[d] \o posts[d])
      BY <2>1, <2>2, <3>1, CallPosted
    <3>3. QED BY <1>1, <1>12, <2>2, <2>4, <3>2
  <2>5. CASE d = c
    <3>1. CallOK(c, x, task[x], inbox[c], q, outbox[c])
      BY <1>3, <2>1, <2>5
    <3>2. q.from = x => q = Asks(x, task[x])
      BY <1>4, <3>1 DEF CallOK
    <3>3. q.from = x => task[x].at = "sending" /\ q.key = task[x].key
      BY <1>4, <3>2 DEF Asks
    <3>4. ASSUME NEW i \in 1 .. Len(posts[c]), posts[c][i].to = x
          PROVE  i = 1 /\ q.from = x /\ Fits(posts[c][1], task[x])
      <4>1. /\ i = 1 /\ q.from = x /\ posts[c][1].says = says
            /\ posts[c][1].key = q.key /\ posts[c][1].snapshot = None
        BY <1>10, <2>3, <3>4
      <4>2. QED BY <3>3, <4>1 DEF Fits
    <3>5. CallOK(c, x, task[x], inbox[c], None, outbox[c] \o posts[c])
      BY <1>4, <2>1, <2>2, <2>5, <3>1, <3>4, CallReturned
    <3>6. QED BY <1>1, <1>12, <2>2, <2>5, <3>5
  <2>6. QED BY <2>4, <2>5
<1>16. SameQuestions /\ QuestionTypes'
  BY <1>0, <1>1 DEF SameQuestions, QuestionTypes
<1>17. inbox' \in [Conns -> Seq(InCalls)]
  BY <1>0, <1>1 DEF PageTypes
<1>18. \A d \in Conns : link[d] \in {"unused", "connecting"} =>
              inbox'[d] = <<>> /\ handling'[d] = None /\ subs'[d] = {}
  BY <1>0, <1>1, <1>12 DEF LinksInv
<1>19. QED BY <1>1, <1>11, <1>14, <1>15, <1>16, <1>17, <1>18, ServedInv

LEMMA DropConnStep ==
    ASSUME IInv, NEW c \in Conns, DropConn(c)
    PROVE  IInv'
<1>0. PageTypes /\ OutTypes /\ DaemonTypes /\ QuestionTypes /\ LinksInv /\ CallInv
  BY DEF IInv, Types
<1>1. link[c] = "closed" /\ inbox' = [inbox EXCEPT ![c] = <<>>] /\ DaemonStep
      /\ UNCHANGED <<outbox, handling, subs, store, question>>
  BY DEF DropConn
<1>2. fate' \in [Keys -> Fates]
  <2>1. \A k \in Keys : fate[k] \in Fates /\ "failed" \in Fates
    BY <1>0 DEF DaemonTypes, Fates
  <2>2. QED BY <2>1 DEF DropConn
<1>3. DaemonTypes' /\ OutTypes' /\ QuestionTypes' /\ SameQuestions
  BY <1>0, <1>1, <1>2 DEF DaemonTypes, OutTypes, QuestionTypes, SameQuestions
<1>4. inbox' \in [Conns -> Seq(InCalls)] /\ \A d \in Conns : d # c => inbox'[d] = inbox[d]
  BY <1>0, <1>1, EmptySeq DEF PageTypes
<1>5. \A d \in Conns, x \in Tasks : link[d] = "open" =>
              CallOK(d, x, task[x], inbox'[d], handling'[d], outbox'[d])
  BY <1>0, <1>1, <1>4 DEF CallInv
<1>6. \A d \in Conns : link[d] # "open" => outbox'[d] = <<>>
  BY <1>0, <1>1 DEF LinksInv
<1>7. \A d \in Conns : link[d] \in {"unused", "connecting"} =>
              inbox'[d] = <<>> /\ handling'[d] = None /\ subs'[d] = {}
  BY <1>0, <1>1, <1>4 DEF LinksInv
<1>8. QED BY <1>1, <1>3, <1>4, <1>5, <1>6, <1>7, ServedInv

LEMMA ForgetStep ==
    ASSUME IInv, Forget
    PROVE  IInv'
<1>0. PageTypes /\ OutTypes /\ DaemonTypes /\ QuestionTypes /\ LinksInv /\ CallInv
  BY DEF IInv, Types
<1>1. DaemonStep /\ UNCHANGED <<inbox, outbox, handling, subs, question>>
      /\ store' = [s \in Sessions |-> IF store[s] = "known" THEN "forgotten" ELSE store[s]]
      /\ fate' = [k \in Keys |-> IF fate[k] = "active" THEN "failed" ELSE fate[k]]
  BY DEF Forget
<1>2. fate' \in [Keys -> Fates] /\ store' \in [Sessions -> {"unused", "known", "forgotten"}]
  BY <1>0, <1>1 DEF DaemonTypes, Fates
<1>3. DaemonTypes' /\ OutTypes' /\ QuestionTypes' /\ SameQuestions
  BY <1>0, <1>1, <1>2 DEF DaemonTypes, OutTypes, QuestionTypes, SameQuestions
<1>4. inbox' \in [Conns -> Seq(InCalls)]
  BY <1>0, <1>1 DEF PageTypes
<1>5. \A d \in Conns, x \in Tasks : link[d] = "open" =>
              CallOK(d, x, task[x], inbox'[d], handling'[d], outbox'[d])
  BY <1>0, <1>1 DEF CallInv
<1>6. /\ \A d \in Conns : link[d] # "open" => outbox'[d] = <<>>
      /\ \A d \in Conns : link[d] \in {"unused", "connecting"} =>
              inbox'[d] = <<>> /\ handling'[d] = None /\ subs'[d] = {}
  BY <1>0, <1>1 DEF LinksInv
<1>7. QED BY <1>1, <1>3, <1>4, <1>5, <1>6, ServedInv

-----------------------------------------------------------------------------
\* The invariant holds.

LEMMA InitInv == Init => IInv
<1> SUFFICES ASSUME Init PROVE IInv
  OBVIOUS
<1>1. FreshPanel \in Panels
  <2>1. None \in OrNone(Sessions) /\ None \in OrNone(Keys) /\ None \in OrNone(Pendings)
        /\ None \in OrNone(Conns)
    BY DEF OrNone
  <2>2. QED BY <2>1 DEF FreshPanel, Panels
<1>2. panel.current = None /\ panel.pending = None
  BY DEF Init, FreshPanel
<1>3. [text |-> None, session |-> None, conn |-> None] \in Rows
  BY DEF Rows, OrNone
<1>4. Types
  <2>1. PageTypes
    BY <1>1, IdleTypes, EmptySeq DEF Init, PageTypes, Links
  <2>2. OutTypes /\ DaemonTypes /\ QuestionTypes
    BY <1>3, EmptySeq DEF Init, OutTypes, DaemonTypes, QuestionTypes, OrNone, Fates
  <2>3. QED BY <2>1, <2>2 DEF Types
<1>5. \A x \in Tasks : task[x] = Idle
  BY DEF Init
<1>6. Idle.at = "idle" /\ Idle.key = None /\ AskOK(Idle) /\ ~Connecting(Idle)
      /\ \A y \in Tasks : TaskOK(y, Idle)
  BY DEF Idle, TaskOK, AskOK, Connecting, Requests
<1>7. TasksInv
  BY <1>5, <1>6, Names DEF TasksInv
<1>8. LinksInv
  BY <1>2 DEF Init, LinksInv
<1>9. CallInv
  BY DEF Init, CallInv
<1>10. KeyInv
  BY <1>2, <1>5, <1>6, Names DEF Init, KeyInv
<1>11. KeptInv
  BY <1>2 DEF KeptInv, Holds
<1>12. QED BY <1>4, <1>7, <1>8, <1>9, <1>10, <1>11 DEF IInv

LEMMA StutterStep ==
    ASSUME IInv, UNCHANGED vars
    PROVE  IInv'
<1>0. PageTypes /\ OutTypes /\ DaemonTypes /\ QuestionTypes /\ TasksInv /\ LinksInv /\ CallInv
      /\ KeyInv /\ KeptInv
  BY DEF IInv, Types
<1>1. UNCHANGED <<panel, task, link, inbox, outbox, handling, subs, store, fate, question, sent, told, crossed>>
  BY DEF vars, pageVars, daemonVars
<1>2. Types'
  BY <1>0, <1>1 DEF Types, PageTypes, OutTypes, DaemonTypes, QuestionTypes
<1>3. TasksInv' /\ LinksInv'
  BY <1>0, <1>1 DEF TasksInv, TaskOK, AskOK, Connecting, LinksInv
<1>4. CallInv'
  BY <1>0, <1>1 DEF CallInv
<1>5. KeyInv' /\ KeptInv'
  BY <1>0, <1>1 DEF KeyInv, Asked, KeptInv, Holds
<1>6. QED BY <1>2, <1>3, <1>4, <1>5 DEF IInv

LEMMA NextInv == IInv /\ [Next]_vars => IInv'
<1> SUFFICES ASSUME IInv, [Next]_vars PROVE IInv'
  OBVIOUS
<1>1. ASSUME NEW x \in Tasks, Reject(x) PROVE IInv'
  BY <1>1, RejectStep
<1>2. ASSUME Settled, Event PROVE IInv'
  <2>1. ASSUME NEW text \in Texts, Submit(text) PROVE IInv'
    BY <2>1, SubmitStep
  <2>2. CASE AskSteps
    BY <1>2, <2>2, ScopeStep, CaptureStep DEF AskSteps
  <2>3. ASSUME NEW x \in Tasks, TaskSteps(x) PROVE IInv'
    BY <1>2, <2>3, ConnectedStep, ConnectFailsStep, TimeoutStep DEF TaskSteps
  <2>4. ASSUME NEW c \in Conns, Receive(c) \/ Stall(c) \/ Lose(c) \/ DropConn(c) PROVE IInv'
    BY <2>4, ReceiveStep, StallStep, LoseStep, DropConnStep
  <2>5. ASSUME NEW c \in Conns, Serves(c) PROVE IInv'
    BY <2>5, HandleStep, SendHandledStep DEF Serves
  <2>6. ASSUME NEW k \in Keys, NEW outcome \in {"completed", "failed"}, TurnEnds(k, outcome) PROVE IInv'
    BY <2>6, TurnEndsStep
  <2>7. CASE Reload
    BY <2>7, ReloadStep
  <2>8. CASE Forget
    BY <2>8, ForgetStep
  <2>9. QED BY <1>2, <2>1, <2>2, <2>3, <2>4, <2>5, <2>6, <2>7, <2>8 DEF Event
<1>3. CASE UNCHANGED vars
  BY <1>3, StutterStep
<1>4. QED BY <1>1, <1>2, <1>3 DEF Next

\* What the page, its connections and the daemon know of a question agrees.
THEOREM InductiveInvariant == Spec => []IInv
<1>1. Init => IInv
  BY InitInv
<1>2. IInv /\ [Next]_vars => IInv'
  BY NextInv
<1>3. QED BY <1>1, <1>2, PTL DEF Spec

LEMMA WiderSeq ==
    ASSUME NEW S, NEW T, S \subseteq T, NEW s \in Seq(S)
    PROVE  s \in Seq(T)
<1>1. Len(s) \in Nat /\ s = [i \in 1 .. Len(s) |-> s[i]]
  BY LenProperties
<1>2. \A i \in 1 .. Len(s) : s[i] \in T
  BY ElementOfSeq
<1>3. QED BY <1>1, <1>2

\* Every variable has its type, and the current client is never a closed one.
THEOREM TypeCorrect == Spec => []TypeOK
<1>1. IInv => TypeOK
  <2> SUFFICES ASSUME IInv PROVE TypeOK
    OBVIOUS
  <2>0. PageTypes /\ OutTypes /\ DaemonTypes /\ QuestionTypes /\ LinksInv
    BY DEF IInv, Types
  <2>1. InCalls \subseteq Calls /\ HeldCalls \subseteq Calls /\ OutMessages \subseteq Messages
    BY DEF InCalls, HeldCalls, OutMessages
  <2>2. \A c \in Conns : inbox[c] \in Seq(Calls)
    BY <2>0, <2>1, WiderSeq DEF PageTypes
  <2>3. \A c \in Conns : outbox[c] \in Seq(Messages)
    BY <2>0, <2>1, WiderSeq DEF OutTypes
  <2>4. inbox \in [Conns -> Seq(Calls)] /\ outbox \in [Conns -> Seq(Messages)]
    BY <2>0, <2>2, <2>3 DEF PageTypes, OutTypes
  <2>5. handling \in [Conns -> OrNone(Calls)]
    BY <2>0, <2>1 DEF DaemonTypes, OrNone
  <2>6. panel.current # None => link[panel.current] \in {"open", "stalled"}
    BY <2>0 DEF LinksInv
  <2>7. QED BY <2>0, <2>4, <2>5, <2>6 DEF TypeOK, PageTypes, DaemonTypes, QuestionTypes, Links, Rows
<1>2. QED BY <1>1, InductiveInvariant, PTL

-----------------------------------------------------------------------------
\* A question is kept.

\* The ways in which a question q may be given up.
GivenUp(q) ==
    \/ q.key \in told'
    \/ panel'.pending # None
    \/ panel'.session # q.session
    \/ task["ask"].at = "scope"
    \/ \E k \in told' : question[k].text = question[q.key].text
    \/ task'["restore"].at = "connecting"

Keeps(q) == Holds(panel', q.key) \/ GivenUp(q)

KeepsQuestion ==
    LET q == panel.pending IN
    q # None /\ q.key \in sent /\ ~Holds(panel', q.key) => GivenUp(q)

LEMMA KeepsSame ==
    ASSUME panel.pending # None,
           panel'.pending = panel.pending \/ panel'.pending = Retained(panel).pending, panel \in Panels
    PROVE  Keeps(panel.pending)
<1>1. CASE panel'.pending = panel.pending
  BY <1>1 DEF Keeps, Holds
<1>2. CASE panel'.pending = Retained(panel).pending
  <2>1. Retained(panel).pending # None /\ Retained(panel).pending.key = panel.pending.key
    BY RetainedPanel
  <2>2. QED BY <1>2, <2>1 DEF Keeps, Holds
<1>3. QED BY <1>1, <1>2

\* A question that an error may drop was told of, or its chat is no longer shown.
LEMMA KeepsCaught ==
    ASSUME panel \in Panels, panel.pending # None, NEW k, panel' = Caught(panel, k),
           k = panel.pending.key /\ panel.pending.retain = FALSE =>
              k \in told' \/ panel.session # panel.pending.session
    PROVE  Keeps(panel.pending)
<1>1. /\ panel'.session = panel.session
      /\ \/ panel'.pending = panel.pending \/ panel' = Retained(panel)
         \/ Holds(panel, k) /\ panel.pending.retain = FALSE
  BY CaughtPanel
<1>2. CASE panel'.pending = panel.pending \/ panel' = Retained(panel)
  <2>1. panel'.pending = panel.pending \/ panel'.pending = Retained(panel).pending
    BY <1>2
  <2>2. QED BY <2>1, KeepsSame
<1>3. CASE Holds(panel, k) /\ panel.pending.retain = FALSE
  BY <1>1, <1>3 DEF Holds, Keeps, GivenUp
<1>4. QED BY <1>1, <1>2, <1>3

LEMMA KeepsGone ==
    ASSUME panel \in Panels, panel.pending # None, panel'.session = None
    PROVE  Keeps(panel.pending)
<1>1. panel.pending \in Pendings
  BY DEF Panels, OrNone
<1>2. panel.pending.session \in Sessions
  BY <1>1 DEF Pendings
<1>3. QED BY <1>2 DEF Keeps, GivenUp

LEMMA KeepsRecovery ==
    ASSUME panel \in Panels, panel.pending # None, NEW x \in Tasks, NEW says, RecoveryFails(x, says)
    PROVE  Keeps(panel.pending)
<1>1. \/ panel'.pending = panel.pending /\ panel'.session = panel.session
      \/ panel'.pending = None /\ panel'.session = None
  BY RecoveryPanel
<1>2. QED BY <1>1, KeepsSame, KeepsGone

LEMMA KeepsReject ==
    ASSUME IInv, NEW x \in Tasks, Reject(x), panel.pending # None, panel.pending.key \in sent
    PROVE  Keeps(panel.pending)
<1>0. panel \in Panels /\ KeyInv /\ KeptInv
  BY DEF IInv, Types, PageTypes
<1>1. CASE x # "ask"
  BY <1>0, <1>1, KeepsRecovery DEF Reject
<1>2. CASE x = "ask" /\ task[x].at \in {"sending", "fetching"}
  <2> DEFINE k == task["ask"].key
  <2>1. panel' = Caught(panel, k) /\ task["ask"].failed /\ told' = told
    BY <1>2 DEF Reject, PageStep
  <2>2. ASSUME k = panel.pending.key, panel.pending.retain = FALSE
        PROVE  k \in told' \/ panel.session # panel.pending.session
    <3>1. Holds(panel, k)
      BY <2>2 DEF Holds
    <3>2. CASE task["ask"].at = "fetching"
      BY <1>0, <2>1, <3>2 DEF KeyInv
    <3>3. CASE task["ask"].at = "sending"
      <4>1. \/ panel.pending.retain = TRUE \/ panel.session # panel.pending.session
            \/ task["ask"].failed = FALSE
        BY <1>0, <2>2, <3>1, <3>3 DEF KeptInv
      <4>2. QED BY <2>1, <2>2, <4>1
    <3>4. QED BY <1>2, <3>2, <3>3
  <2> HIDE DEF k
  <2>3. QED BY <1>0, <2>1, <2>2, KeepsCaught
<1>3. CASE x = "ask" /\ task[x].at \notin {"sending", "fetching"}
  BY <1>0, <1>3, KeepsSame DEF Reject
<1>4. QED BY <1>1, <1>2, <1>3

LEMMA KeepsUse ==
    ASSUME NEW x \in Tasks, NEW r, NEW p, UseClient(x, r, p)
    PROVE  panel' = p
  BY DEF UseClient, EnsureActiveSession

LEMMA KeepsCapture ==
    ASSUME IInv, NEW captured \in BOOLEAN, CaptureDone(captured), panel.pending # None
    PROVE  Keeps(panel.pending)
<1>0. panel \in Panels /\ "ask" \in Tasks
  BY Names DEF IInv, Types, PageTypes
<1>1. panel' = panel \/ Reach("ask", task["ask"], panel)
  BY DEF CaptureDone
<1>2. CASE panel' = panel
  BY <1>0, <1>2, KeepsSame
<1>3. CASE Reach("ask", task["ask"], panel)
  <2>1. CASE Matches(panel)
    <3>1. panel' = panel
      BY <1>0, <1>3, <2>1, KeepsUse DEF Reach
    <3>2. QED BY <1>2, <3>1
  <2>2. CASE ~Matches(panel)
    <3> DEFINE p == IF task["ask"].retry THEN [panel EXCEPT !.subscribed = FALSE] ELSE panel
    <3>1. p \in Panels /\ p.pending = panel.pending
      BY <1>0 DEF Panels
    <3>2. panel' = [p EXCEPT !.current = None]
      BY <1>3, <2>2 DEF Reach, Dial
    <3> HIDE DEF p
    <3>3. panel'.pending = panel.pending
      BY <3>1, <3>2 DEF Panels
    <3>4. QED BY <1>0, <3>3, KeepsSame
  <2>3. QED BY <2>1, <2>2
<1>4. QED BY <1>1, <1>2, <1>3

LEMMA KeepsConnected ==
    ASSUME IInv, NEW x \in Tasks, Connected(x), panel.pending # None
    PROVE  Keeps(panel.pending)
<1>0. panel \in Panels
  BY DEF IInv, Types, PageTypes
<1>1. panel' = [panel EXCEPT !.current = task[x].conn]
  BY KeepsUse DEF Connected
<1>2. panel'.pending = panel.pending
  BY <1>0, <1>1 DEF Panels
<1>3. QED BY <1>0, <1>2, KeepsSame

LEMMA KeepsLost ==
    ASSUME IInv, NEW c \in Conns, NEW t, NEW l, ConnectionLost(c, t, l), panel.pending # None
    PROVE  Keeps(panel.pending)
<1> DEFINE p == Disconnected(panel)
<1>0. panel \in Panels
  BY DEF IInv, Types, PageTypes
<1>1. p \in Panels /\ p.pending = panel.pending
  BY <1>0, OtherPanels
<1> HIDE DEF p
<1>2. panel' = p \/ panel' = [[Retained(p) EXCEPT !.recovering = TRUE] EXCEPT !.current = None]
  BY DEF ConnectionLost, Dial, p
<1>3. CASE panel' = p
  BY <1>0, <1>1, <1>3, KeepsSame
<1>4. CASE panel' = [[Retained(p) EXCEPT !.recovering = TRUE] EXCEPT !.current = None]
  <2>1. /\ Retained(p) \in Panels /\ Retained(p).pending # None
        /\ Retained(p).pending.key = panel.pending.key
    BY <1>1, RetainedPanel
  <2>2. panel'.pending = Retained(p).pending
    BY <1>4, <2>1 DEF Panels
  <2>3. QED BY <2>1, <2>2 DEF Keeps, Holds
<1>5. QED BY <1>2, <1>3, <1>4

LEMMA KeepsReload ==
    ASSUME IInv, Reload, panel.pending # None
    PROVE  Keeps(panel.pending)
<1>1. task'["restore"].at = "connecting"
  <2> DEFINE t == [x \in Tasks |-> Idle]
             r == [Idle EXCEPT !.session = panel.session]
  <2>1. \E d : \/ task' = [t EXCEPT !["restore"] = [r EXCEPT !.at = "connecting", !.conn = d]]
               \/ task' = [t EXCEPT !["restore"] = [r EXCEPT !.at = "connecting", !.failed = TRUE]]
    BY DEF Reload, Dial
  <2>2. "restore" \in Tasks
    BY Names
  <2>3. \A v : [t EXCEPT !["restore"] = v]["restore"] = v
    BY <2>2
  <2>4. \A d : /\ [r EXCEPT !.at = "connecting", !.conn = d].at = "connecting"
              /\ [r EXCEPT !.at = "connecting", !.failed = TRUE].at = "connecting"
    BY DEF Idle
  <2>5. PICK d : \/ task' = [t EXCEPT !["restore"] = [r EXCEPT !.at = "connecting", !.conn = d]]
                 \/ task' = [t EXCEPT !["restore"] = [r EXCEPT !.at = "connecting", !.failed = TRUE]]
    BY <2>1
  <2> HIDE DEF t, r
  <2>6. task'["restore"] = [r EXCEPT !.at = "connecting", !.conn = d]
        \/ task'["restore"] = [r EXCEPT !.at = "connecting", !.failed = TRUE]
    BY <2>3, <2>5
  <2>7. QED BY <2>4, <2>6
<1>2. QED BY <1>1 DEF Keeps, GivenUp

LEMMA KeepsNotified ==
    ASSUME IInv, NEW m \in OutMessages, Notified(m), panel.pending # None
    PROVE  Keeps(panel.pending)
<1> DEFINE q == panel.pending
<1>0. panel \in Panels /\ q \in Pendings
  BY DEF IInv, Types, PageTypes, Panels, OrNone
<1>2. m.says = "ended" => panel'.pending = q
  BY <1>0 DEF Notified, Panels
<1>3. \/ panel' = panel \/ panel' = [panel EXCEPT !.pending.known = m.key] \/ m.says = "ended"
  BY DEF Notified
<1>4. CASE panel' = [panel EXCEPT !.pending.known = m.key]
  <2>1. panel'.pending = [q EXCEPT !.known = m.key]
    BY <1>0, <1>4 DEF Panels
  <2>2. m.key \in OrNone(Keys)
    BY DEF OutMessages, Messages
  <2>3. panel'.pending \in Pendings
    BY <1>0, <2>1, <2>2 DEF Pendings
  <2>4. QED BY <2>3 DEF Keeps, GivenUp
<1>5. QED BY <1>0, <1>2, <1>3, <1>4, KeepsSame

LEMMA KeepsAnswered ==
    ASSUME IInv, task["ask"].at = "sending", task["ask"].key \in told', NEW says,
           SendAnswered(task["ask"], says), panel.pending # None
    PROVE  Keeps(panel.pending)
<1> DEFINE k == task["ask"].key
<1>0. panel \in Panels
  BY DEF IInv, Types, PageTypes
<1>1. k \in Keys
  <2>1. AskOK(task["ask"]) /\ task["ask"] \in TaskStates
    BY Names DEF IInv, Types, PageTypes, TasksInv
  <2>2. QED BY <2>1 DEF AskOK, TaskStates, OrNone
<1>2. k \in told'
  OBVIOUS
<1>3. \/ panel' = [Dropped(panel, k) EXCEPT !.activeTurn = k] \/ panel' = Known(panel, k)
      \/ panel' = Dropped(panel, k) \/ panel' = Caught(panel, k)
  BY DEF SendAnswered
<1> HIDE DEF k
<1>4. ASSUME panel'.pending = Dropped(panel, k).pending PROVE Keeps(panel.pending)
  <2>1. panel'.pending = IF Holds(panel, k) THEN None ELSE panel.pending
    BY <1>0, <1>4, DroppedPanel
  <2>2. CASE Holds(panel, k)
    BY <1>2, <2>2 DEF Holds, Keeps, GivenUp
  <2>3. CASE ~Holds(panel, k)
    BY <1>0, <2>1, <2>3, KeepsSame
  <2>4. QED BY <2>2, <2>3
<1>5. CASE panel' = [Dropped(panel, k) EXCEPT !.activeTurn = k]
  <2>1. Dropped(panel, k) \in Panels
    BY <1>0, DroppedPanel
  <2>2. panel'.pending = Dropped(panel, k).pending
    BY <1>5, <2>1 DEF Panels
  <2>3. QED BY <1>4, <2>2
<1>6. CASE panel' = Known(panel, k)
  <2>1. /\ ~Holds(panel, k) => panel'.pending = panel.pending
        /\ Holds(panel, k) => panel'.pending # None /\ panel'.pending.key = panel.pending.key
    BY <1>0, <1>1, <1>6, KnownPanel
  <2>2. QED BY <1>0, <2>1, KeepsSame DEF Keeps, Holds
<1>7. CASE panel' = Caught(panel, k)
  BY <1>0, <1>2, <1>7, KeepsCaught
<1>8. QED BY <1>3, <1>4, <1>5, <1>6, <1>7

LEMMA KeepsFetched ==
    ASSUME IInv, NEW x \in Tasks, task[x].at = "fetching", NEW snapshot \in [Keys -> Fates],
           Fetched(x, task[x], snapshot), told \subseteq told',
           GuardHolds(x) => {k \in Keys : snapshot[k] # "absent"} \subseteq told',
           panel.pending # None
    PROVE  Keeps(panel.pending)
<1> DEFINE p == [panel EXCEPT !.subscribed = TRUE]
           q == Rendered(p, snapshot)
           r == panel.pending
<1>0. panel \in Panels /\ KeyInv
  BY DEF IInv, Types, PageTypes
<1>1. CASE ~GuardHolds(x)
  <2>1. panel' = panel
    BY <1>1 DEF Fetched
  <2>2. QED BY <1>0, <2>1, KeepsSame
<1>2. CASE GuardHolds(x)
  <2>1. p \in Panels /\ p.pending = r
    BY <1>0 DEF Panels
  <2>2. panel' = IF x = "ask" THEN Dropped(q, task[x].key) ELSE [q EXCEPT !.recovering = FALSE]
    BY <1>2 DEF Fetched
  <2> HIDE DEF p
  <2>3. /\ Rendered(p, snapshot) \in Panels
        /\ \/ Rendered(p, snapshot).pending = p.pending
           \/ /\ Rendered(p, snapshot).pending = None
              /\ \/ p.pending.known # None /\ snapshot[p.pending.known] # "absent"
                 \/ \E k \in Keys : /\ snapshot[k] = "active"
                                    /\ question[k].text = question[p.pending.key].text
    BY <2>1, RenderedPanel
  <2>4. /\ q \in Panels
        /\ \/ q.pending = r
           \/ r.known # None /\ snapshot[r.known] # "absent"
           \/ \E k \in Keys : snapshot[k] = "active" /\ question[k].text = question[r.key].text
    BY <2>1, <2>3
  <2> HIDE DEF q
  <2>5. CASE q.pending # r
    <3>1. CASE r.known # None /\ snapshot[r.known] # "absent"
      <4>1. r.known \in Keys
        BY <1>0, <3>1 DEF Panels, Pendings, OrNone
      <4>2. r.known \in told'
        BY <1>2, <3>1, <4>1
      <4>3. question[r.known].text = question[r.key].text
        BY <1>0, <3>1 DEF KeyInv
      <4>4. QED BY <4>2, <4>3 DEF Keeps, GivenUp
    <3>2. ASSUME NEW k \in Keys, snapshot[k] = "active", question[k].text = question[r.key].text
          PROVE  Keeps(r)
      <4>1. k \in told'
        BY <1>2, <3>2
      <4>2. QED BY <3>2, <4>1 DEF Keeps, GivenUp
    <3>3. QED BY <2>4, <2>5, <3>1, <3>2
  <2>6. CASE q.pending = r /\ x = "ask"
    <3>1. panel'.pending = IF Holds(q, task[x].key) THEN None ELSE q.pending
      BY <2>2, <2>4, <2>6, DroppedPanel
    <3>2. task[x].key \in told'
      BY <1>0, <2>6 DEF KeyInv
    <3>3. CASE Holds(q, task[x].key)
      BY <2>6, <3>2, <3>3 DEF Holds, Keeps, GivenUp
    <3>4. CASE ~Holds(q, task[x].key)
      BY <1>0, <2>6, <3>1, <3>4, KeepsSame
    <3>5. QED BY <3>3, <3>4
  <2>7. CASE q.pending = r /\ x # "ask"
    <3>1. panel'.pending = r
      BY <2>2, <2>4, <2>7 DEF Panels
    <3>2. QED BY <1>0, <3>1, KeepsSame
  <2>8. QED BY <2>5, <2>6, <2>7
<1>3. QED BY <1>1, <1>2

LEMMA KeepsRespond ==
    ASSUME IInv, NEW x \in Tasks, task[x].at \in Requests,
           NEW m \in OutMessages, Fits(m, task[x]), Respond(x, m), panel.pending # None
    PROVE  Keeps(panel.pending)
<1>0. panel \in Panels /\ KeyInv
  BY DEF IInv, Types, PageTypes
<1>1. m.snapshot # None => m.snapshot \in [Keys -> Fates]
  BY DEF OutMessages, Messages, OrNone
<1>2. x # "ask" => task[x].at \in {"subscribing", "fetching"}
  BY DEF IInv, TasksInv, TaskOK, Requests
<1> DEFINE A == IF task[x].at = "sending" THEN {task[x].key} ELSE {}
           B == IF m.snapshot = None \/ ~GuardHolds(x) THEN {}
                ELSE {k \in Keys : m.snapshot[k] # "absent"}
<1>3. told' = told \cup A \cup B
  BY DEF Respond
<1>4. /\ told \subseteq told'
      /\ task[x].at = "sending" => task[x].key \in told'
      /\ m.snapshot # None /\ GuardHolds(x) => {k \in Keys : m.snapshot[k] # "absent"} \subseteq told'
  BY <1>3
<1> HIDE DEF A, B
<1>5. CASE m.says = "not_found" /\ (x # "ask" \/ task[x].at = "subscribing")
  <2>1. SessionGone(x, task[x])
    BY <1>5 DEF Respond
  <2>2. CASE x # "ask"
    BY <1>0, <2>1, <2>2, KeepsRecovery DEF SessionGone
  <2>3. CASE x = "ask"
    <3>1. panel' = Cleared(panel)
      BY <2>1, <2>3 DEF SessionGone
    <3>2. panel'.session = None
      BY <1>0, <3>1, ClearedPanel
    <3>3. QED BY <1>0, <3>2, KeepsGone
  <2>4. QED BY <2>2, <2>3
<1>6. CASE ~(m.says = "not_found" /\ (x # "ask" \/ task[x].at = "subscribing"))
  <2>1. CASE task[x].at = "sending"
    <3>1. x = "ask" /\ SendAnswered(task["ask"], m.says)
      BY <1>2, <1>6, <2>1 DEF Respond
    <3>2. QED BY <1>4, <2>1, <3>1, KeepsAnswered
  <2>2. CASE task[x].at = "creating" /\ m.says = "ok"
    <3>1. panel' = panel
      BY <1>6, <2>2 DEF Respond
    <3>2. QED BY <1>0, <3>1, KeepsSame
  <2>3. CASE task[x].at = "attaching" /\ m.says = "ok"
    <3>1. Attached(task[x])
      BY <1>6, <2>3 DEF Respond
    <3> DEFINE k == CHOOSE k \in Keys : question[k].text = None
               w == [key |-> k, session |-> task[x].session, retain |-> FALSE, known |-> None]
    <3>2. panel'.pending = w
      <4>1. panel' = [panel EXCEPT !.pending = w]
        BY <3>1 DEF Attached
      <4> HIDE DEF w
      <4>2. QED BY <1>0, <4>1 DEF Panels
    <3>3. w \in Pendings
      <4>1. x = "ask" /\ "ask" \in Tasks /\ KeyInv /\ TasksInv
        BY <1>2, <2>3, Names DEF IInv
      <4>2. task[x].session \in Sessions /\ task[x].key = None
        BY <2>3, <4>1 DEF TasksInv, TaskOK, AskOK, Requests
      <4>3. k \in Keys
        BY <2>3, <4>1, <4>2 DEF KeyInv, Asked
      <4>4. QED BY <4>2, <4>3 DEF Pendings, OrNone
    <3>4. QED BY <3>2, <3>3 DEF Keeps, GivenUp
  <2>4. CASE task[x].at = "fetching" /\ m.says = "ok"
    <3>1. Fetched(x, task[x], m.snapshot)
      BY <1>6, <2>4 DEF Respond
    <3>2. m.snapshot # None
      BY <2>4 DEF Fits
    <3>3. QED BY <1>1, <1>4, <2>4, <3>1, <3>2, KeepsFetched
  <2>5. CASE task[x].at \in {"subscribing", "subscribingNew"} /\ m.says = "ok"
    <3>1. Subscribed(x, task[x])
      BY <1>6, <2>5 DEF Respond
    <3>2. panel'.pending = panel.pending
      BY <1>0, <3>1 DEF Subscribed, Panels
    <3>3. QED BY <1>0, <3>2, KeepsSame
  <2>6. CASE ~(m.says = "ok") /\ task[x].at # "sending"
    <3>1. panel' = IF task[x].at = "fetching" THEN Caught(panel, task[x].key) ELSE panel
      BY <1>6, <2>6 DEF Respond
    <3>2. CASE task[x].at # "fetching"
      BY <1>0, <3>1, <3>2, KeepsSame
    <3>3. CASE task[x].at = "fetching"
      <4>1. m.says = "not_found"
        BY <2>6, <3>3 DEF Fits
      <4>2. x = "ask"
        BY <1>6, <4>1
      <4>3. task[x].key \in told'
        BY <1>0, <1>4, <3>3, <4>2 DEF KeyInv
      <4>4. QED BY <1>0, <3>1, <3>3, <4>3, KeepsCaught
    <3>4. QED BY <3>2, <3>3
  <2>7. QED BY <2>1, <2>2, <2>3, <2>4, <2>5, <2>6 DEF Requests
<1>7. QED BY <1>5, <1>6

LEMMA KeepsReceive ==
    ASSUME IInv, NEW c \in Conns, Receive(c), panel.pending # None
    PROVE  Keeps(panel.pending)
<1> DEFINE m == Head(outbox[c])
<1>0. OutTypes /\ CallInv
  BY DEF IInv, Types
<1>1. link[c] = "open" /\ outbox[c] # <<>> /\ outbox[c] \in Seq(OutMessages)
      /\ IF m.to = "page" THEN Notified(m) ELSE Respond(m.to, m)
  BY <1>0 DEF Receive, OutTypes
<1>2. m \in OutMessages
  BY <1>1, HeadTailProperties
<1>3. \A y \in Tasks : m.to = y => Fits(m, task[y]) /\ Waiting(c, task[y])
  BY <1>0, <1>1, CallReceived DEF CallInv
<1> HIDE DEF m
<1>4. CASE m.to = "page"
  BY <1>1, <1>2, <1>4, KeepsNotified
<1>5. CASE m.to # "page"
  <2>1. m.to \in Tasks
    BY <1>2, <1>5 DEF OutMessages, Messages
  <2>2. Fits(m, task[m.to]) /\ task[m.to].at \in Requests
    BY <1>3, <2>1 DEF Waiting
  <2>3. QED BY <1>1, <1>2, <1>5, <2>1, <2>2, KeepsRespond
<1>6. QED BY <1>4, <1>5

LEMMA KeepsStep == IInv /\ [Next]_vars => [KeepsQuestion]_vars
<1> SUFFICES ASSUME IInv, Next, panel.pending # None, panel.pending.key \in sent
             PROVE  Keeps(panel.pending)
  BY DEF KeepsQuestion, Keeps
<1>0. panel \in Panels
  BY DEF IInv, Types, PageTypes
<1>1. ASSUME panel' = panel PROVE Keeps(panel.pending)
  BY <1>0, <1>1, KeepsSame
<1>2. ASSUME NEW x \in Tasks, Reject(x) PROVE Keeps(panel.pending)
  BY <1>2, KeepsReject
<1>3. ASSUME NEW text \in Texts, Submit(text) PROVE Keeps(panel.pending)
  BY <1>1, <1>3 DEF Submit
<1>4. ASSUME NEW fresh \in BOOLEAN, ScopeChecked(fresh) PROVE Keeps(panel.pending)
  BY <1>4 DEF ScopeChecked, Keeps, GivenUp
<1>5. ASSUME NEW captured \in BOOLEAN, CaptureDone(captured) PROVE Keeps(panel.pending)
  BY <1>5, KeepsCapture
<1>6. ASSUME NEW x \in Tasks, TaskSteps(x) PROVE Keeps(panel.pending)
  <2>1. CASE Connected(x)
    BY <2>1, KeepsConnected
  <2>2. CASE ConnectFails(x)
    BY <1>1, <2>2 DEF ConnectFails
  <2>3. CASE Timeout(x)
    <3>1. task[x].conn \in Conns
      BY <2>3 DEF Timeout, IInv, TasksInv, TaskOK
    <3>2. \/ panel' = panel
          \/ \E c \in Conns : \E t, l : ConnectionLost(c, t, l)
      BY <2>3, <3>1 DEF Timeout
    <3>3. QED BY <1>1, <3>2, KeepsLost
  <2>4. QED BY <1>6, <2>1, <2>2, <2>3 DEF TaskSteps
<1>7. ASSUME NEW c \in Conns, Receive(c) \/ Stall(c) \/ Lose(c) PROVE Keeps(panel.pending)
  <2>1. CASE Receive(c)
    BY <2>1, KeepsReceive
  <2>2. CASE Stall(c)
    BY <1>1, <2>2 DEF Stall
  <2>3. CASE Lose(c)
    BY <2>3, KeepsLost DEF Lose
  <2>4. QED BY <1>7, <2>1, <2>2, <2>3
<1>8. CASE DaemonStep
  <2>1. panel' = panel /\ task' = task
    BY <1>8 DEF DaemonStep, pageVars
  <2>2. QED BY <1>1, <2>1
<1>9. ASSUME NEW c \in Conns, Serves(c) \/ DropConn(c) PROVE DaemonStep
  BY <1>9 DEF Serves, Handle, SendHandled, DropConn
<1>10. ASSUME NEW k \in Keys, NEW outcome \in {"completed", "failed"}, TurnEnds(k, outcome)
       PROVE  DaemonStep
  BY <1>10 DEF TurnEnds
<1>11. CASE Reload
  BY <1>11, KeepsReload
<1>12. CASE Forget
  BY <1>8, <1>12 DEF Forget
<1>13. CASE Event
  <2>1. AskSteps => Keeps(panel.pending)
    BY <1>4, <1>5 DEF AskSteps
  <2>2. QED BY <1>3, <1>6, <1>7, <1>8, <1>9, <1>10, <1>11, <1>12, <1>13, <2>1 DEF Event
<1>14. QED BY <1>2, <1>13 DEF Next

\* A question that may have reached the daemon keeps its key until the page is
\* told what became of it.
THEOREM SentQuestionIsKept == Spec => QuestionIsKept
<1>1. QuestionIsKept <=> [][KeepsQuestion]_vars
  BY DEF QuestionIsKept, KeepsQuestion, GivenUp
<1>2. QED BY <1>1, InductiveInvariant, KeepsStep, PTL DEF Spec

-----------------------------------------------------------------------------
\* Turns that are active, and those who hear of their end, over WebSockets.

\* The task waits for an answer, which may still come.
Live(x) == task[x].at \in Requests /\ task[x].failed = FALSE /\ link[task[x].conn] = "open"

\* What the daemon has of a question was asked.
QuestionsInv ==
    /\ \A k \in Keys : fate[k] # "absent" => Asked(k)
    /\ \A c \in Conns : \A i \in 1 .. Len(inbox[c]) :
          inbox[c][i].kind = "sending" => Asked(inbox[c][i].key)

\* The turn of a message/send is active until its handler returns.
HandlersInv ==
    \A c \in Conns : handling[c] # None =>
        /\ fate[handling[c].key] = "active" /\ question[handling[c].key].conn = c
        /\ question[handling[c].key].session = handling[c].session

\* A session in use was created; one that a connection is subscribed to is known.
StoreInv ==
    /\ \A c \in Conns : link[c] = "open" => \A s \in subs[c] : store[s] = "known"
    /\ \A x \in Tasks : task[x].session # None => store[task[x].session] # "unused"
    /\ panel.session # None => store[panel.session] # "unused"

\* An answer is still true when it is received.
Holding(c, m, t) ==
    /\ m.says = "ok" /\ t.at \in {"subscribing", "subscribingNew"} => t.session \in subs[c]
    /\ m.says = "ok" /\ t.at = "creating" => store[m.session] # "unused"
    /\ m.says = "not_found" => store[t.session] = "forgotten"
AnswersInv ==
    \A c \in Conns : link[c] = "open" =>
        \A i \in 1 .. Len(outbox[c]) : \A x \in Tasks :
            outbox[c][i].to = x => Holding(c, outbox[c][i], task[x])

\* A recovery fetches the session it has subscribed to.
FetchInv ==
    \A x \in Tasks : x # "ask" /\ task[x].at = "fetching" /\ Live(x) =>
        task[x].session \in subs[task[x].conn]

\* A task that waits for an answer asked on a connection that was open.
CallersInv ==
    \A x \in Tasks : task[x].at \in Requests /\ task[x].failed = FALSE =>
        link[task[x].conn] \notin {"unused", "connecting"}

\* The active turns whose end will be told to connection c.
Watched(c) == {k \in Keys : fate[k] = "active" /\ question[k].session \in subs[c]}

\* The end of turn k is told in `out' after its first i messages.
EndsAfter(out, i, k) == \E j \in 1 .. Len(out) : j > i /\ out[j].says = "ended" /\ out[j].key = k

\* Who is told by a message in `out' that a turn is active, will be told of its
\* end: it comes later in `out', or the turn is one of W.
Announces(m, k) == \/ m.says = "accepted" /\ m.key = k
                   \/ m.snapshot # None /\ m.snapshot[k] = "active"
OutOK(out, W) ==
    \A i \in 1 .. Len(out) : \A k \in Keys :
        Announces(out[i], k) => k \in W \/ EndsAfter(out, i, k)

\* One connection is open, the current one; the chat relies on a subscription
\* that it has, and the ask is of the chat.
ChatInv ==
    /\ \A c \in Conns : link[c] = "open" => panel.current = c
    /\ panel.subscribed = TRUE =>
          /\ panel.session # None /\ panel.current # None
          /\ link[panel.current] = "open" => panel.session \in subs[panel.current]
    /\ Live("ask") =>
          LET ask == task["ask"] IN
          /\ ask.at \in {"attaching", "sending", "fetching"} =>
                ask.session = panel.session /\ ask.session \in subs[ask.conn]
          /\ ask.at = "subscribing" =>
                ask.session = panel.session \/ store[ask.session] = "forgotten"
          /\ ask.at \in {"creating", "subscribingNew"} => panel.session = None
    /\ panel.activeTurn # None => panel.session # None

\* The page will be told of the end of turn k, or will lose a connection.
Ending(k) ==
    \E c \in Conns :
        \/ link[c] = "stalled"
        \/ link[c] = "open" /\ (k \in Watched(c) \/ EndsAfter(outbox[c], 0, k))
TurnInv == panel.activeTurn # None /\ panel.recovering = FALSE => Ending(panel.activeTurn)

OutInv == \A c \in Conns : link[c] = "open" => OutOK(outbox[c], Watched(c))

WatchInv == crossed = FALSE => ChatInv /\ TurnInv /\ OutInv

WInv == QuestionsInv /\ HandlersInv /\ StoreInv /\ AnswersInv /\ FetchInv /\ CallersInv /\ WatchInv

-----------------------------------------------------------------------------
\* What is received, removed and posted keeps the ends in their places.

LEMMA TailEnds ==
    ASSUME NEW out \in Seq(OutMessages), out # <<>>, NEW i \in Nat, NEW k, EndsAfter(out, i, k),
           i = 0 => ~(Head(out).says = "ended" /\ Head(out).key = k)
    PROVE  EndsAfter(Tail(out), IF i = 0 THEN 0 ELSE i - 1, k)
<1>1. /\ Len(out) \in Nat /\ Len(out) # 0 /\ Len(Tail(out)) = Len(out) - 1 /\ Head(out) = out[1]
      /\ \A j \in 1 .. Len(Tail(out)) : Tail(out)[j] = out[j + 1]
  BY HeadTailProperties, LenProperties, EmptySeq
<1>2. PICK j \in 1 .. Len(out) : j > i /\ out[j].says = "ended" /\ out[j].key = k
  BY DEF EndsAfter
<1>3. j # 1
  BY <1>1, <1>2
<1>4. j - 1 \in 1 .. Len(Tail(out)) /\ Tail(out)[j - 1] = out[j]
  BY <1>1, <1>3
<1>5. j - 1 > (IF i = 0 THEN 0 ELSE i - 1)
  BY <1>2, <1>3
<1>6. QED BY <1>2, <1>4, <1>5 DEF EndsAfter

LEMMA TailOK ==
    ASSUME NEW out \in Seq(OutMessages), out # <<>>, NEW W, OutOK(out, W)
    PROVE  OutOK(Tail(out), W)
<1>1. /\ Len(out) \in Nat /\ Len(out) # 0 /\ Len(Tail(out)) = Len(out) - 1
      /\ \A j \in 1 .. Len(Tail(out)) : Tail(out)[j] = out[j + 1]
  BY HeadTailProperties, LenProperties, EmptySeq
<1>2. SUFFICES ASSUME NEW i \in 1 .. Len(Tail(out)), NEW k \in Keys, Announces(Tail(out)[i], k)
               PROVE  k \in W \/ EndsAfter(Tail(out), i, k)
  BY DEF OutOK
<1>3. i + 1 \in 1 .. Len(out) /\ Tail(out)[i] = out[i + 1]
  BY <1>1
<1>4. k \in W \/ EndsAfter(out, i + 1, k)
  BY <1>2, <1>3 DEF OutOK
<1>5. ASSUME EndsAfter(out, i + 1, k) PROVE EndsAfter(Tail(out), i, k)
  <2>1. EndsAfter(Tail(out), IF i + 1 = 0 THEN 0 ELSE i + 1 - 1, k)
    BY <1>1, <1>5, TailEnds
  <2>2. (IF i + 1 = 0 THEN 0 ELSE i + 1 - 1) = i
    BY <1>1
  <2>3. QED BY <2>1, <2>2
<1>6. QED BY <1>4, <1>5

LEMMA WithoutEnds ==
    ASSUME NEW x, NEW out \in Seq(OutMessages),
           \A i \in 1 .. Len(out) : out[i].to = x => out[i].says # "ended",
           NEW k, EndsAfter(out, 0, k)
    PROVE  EndsAfter(Without(x, out), 0, k)
<1> DEFINE w == Without(x, out)
<1>1. Len(out) \in Nat
  BY LenProperties
<1>2. \/ w = out
      \/ \E n \in 1 .. Len(out) :
            /\ out[n].to = x /\ Len(w) = Len(out) - 1
            /\ \A i \in 1 .. Len(out) - 1 : w[i] = IF i < n THEN out[i] ELSE out[i + 1]
  BY AnswerRemoved
<1> HIDE DEF w
<1>3. PICK j \in 1 .. Len(out) : out[j].says = "ended" /\ out[j].key = k
  BY DEF EndsAfter
<1>4. ASSUME NEW n \in 1 .. Len(out), out[n].to = x, Len(w) = Len(out) - 1,
             \A i \in 1 .. Len(out) - 1 : w[i] = IF i < n THEN out[i] ELSE out[i + 1]
      PROVE  EndsAfter(w, 0, k)
  <2>1. j # n
    BY <1>3, <1>4
  <2>2. CASE j < n
    <3>1. j \in 1 .. Len(w) /\ w[j] = out[j]
      BY <1>1, <1>4, <2>2
    <3>2. QED BY <1>3, <3>1 DEF EndsAfter
  <2>3. CASE j > n
    <3>1. j - 1 \in 1 .. Len(w) /\ w[j - 1] = out[j]
      BY <1>1, <1>4, <2>3
    <3>2. QED BY <1>3, <3>1 DEF EndsAfter
  <2>4. QED BY <2>1, <2>2, <2>3
<1>5. EndsAfter(w, 0, k)
  BY <1>2, <1>4
<1>6. QED BY <1>5 DEF w

LEMMA WithoutOK ==
    ASSUME NEW x, NEW out \in Seq(OutMessages),
           \A i \in 1 .. Len(out) : out[i].to = x => out[i].says # "ended",
           NEW W, OutOK(out, W)
    PROVE  OutOK(Without(x, out), W)
<1> DEFINE w == Without(x, out)
<1>1. Len(out) \in Nat
  BY LenProperties
<1>2. \/ w = out
      \/ \E n \in 1 .. Len(out) :
            /\ out[n].to = x /\ Len(w) = Len(out) - 1
            /\ \A i \in 1 .. Len(out) - 1 : w[i] = IF i < n THEN out[i] ELSE out[i + 1]
  BY AnswerRemoved
<1> HIDE DEF w
<1>3. ASSUME NEW n \in 1 .. Len(out), out[n].to = x, Len(w) = Len(out) - 1,
             \A i \in 1 .. Len(out) - 1 : w[i] = IF i < n THEN out[i] ELSE out[i + 1]
      PROVE  OutOK(w, W)
  <2>1. SUFFICES ASSUME NEW i \in 1 .. Len(w), NEW k \in Keys, Announces(w[i], k)
                 PROVE  k \in W \/ EndsAfter(w, i, k)
    BY DEF OutOK
  <2> DEFINE o == IF i < n THEN i ELSE i + 1
  <2>2. o \in 1 .. Len(out) /\ w[i] = out[o]
    BY <1>1, <1>3
  <2>3. k \in W \/ EndsAfter(out, o, k)
    BY <2>1, <2>2 DEF OutOK
  <2>4. ASSUME NEW j \in 1 .. Len(out), j > o, out[j].says = "ended", out[j].key = k
        PROVE  EndsAfter(w, i, k)
    <3>1. j # n
      BY <1>3, <2>4
    <3>2. CASE j < n
      <4>1. j \in 1 .. Len(w) /\ w[j] = out[j] /\ j > i
        BY <1>1, <1>3, <2>4, <3>2
      <4>2. QED BY <2>4, <4>1 DEF EndsAfter
    <3>3. CASE j > n
      <4>1. j - 1 \in 1 .. Len(w) /\ w[j - 1] = out[j] /\ j - 1 > i
        BY <1>1, <1>3, <2>4, <3>3
      <4>2. QED BY <2>4, <4>1 DEF EndsAfter
    <3>4. QED BY <3>1, <3>2, <3>3
  <2>5. EndsAfter(out, o, k) => EndsAfter(w, i, k)
    BY <2>4 DEF EndsAfter
  <2>6. QED BY <2>3, <2>5
<1>4. OutOK(w, W)
  BY <1>2, <1>3
<1>5. QED BY <1>4 DEF w

LEMMA PostedEnds ==
    ASSUME NEW out \in Seq(OutMessages), NEW p \in Seq(OutMessages), NEW i \in 0 .. Len(out), NEW k,
           EndsAfter(out, i, k) \/ EndsAfter(p, 0, k)
    PROVE  EndsAfter(out \o p, i, k)
<1>1. /\ Len(out) \in Nat /\ Len(p) \in Nat /\ Len(out \o p) = Len(out) + Len(p)
      /\ \A j \in 1 .. Len(out) + Len(p) : (out \o p)[j] = IF j <= Len(out) THEN out[j] ELSE p[j - Len(out)]
  BY ConcatProperties, LenProperties
<1>2. ASSUME NEW j \in 1 .. Len(out), j > i, out[j].says = "ended", out[j].key = k
      PROVE  EndsAfter(out \o p, i, k)
  <2>1. j \in 1 .. Len(out \o p) /\ (out \o p)[j] = out[j]
    BY <1>1
  <2>2. QED BY <1>2, <2>1 DEF EndsAfter
<1>3. ASSUME NEW j \in 1 .. Len(p), p[j].says = "ended", p[j].key = k
      PROVE  EndsAfter(out \o p, i, k)
  <2>1. Len(out) + j \in 1 .. Len(out \o p) /\ (out \o p)[Len(out) + j] = p[j] /\ Len(out) + j > i
    BY <1>1
  <2>2. QED BY <1>3, <2>1 DEF EndsAfter
<1>4. QED BY <1>2, <1>3 DEF EndsAfter

LEMMA PostedOK ==
    ASSUME NEW out \in Seq(OutMessages), NEW p \in Seq(OutMessages), NEW W, NEW V, OutOK(out, W), OutOK(p, V),
           \A k \in Keys : k \in W => k \in V \/ EndsAfter(p, 0, k)
    PROVE  OutOK(out \o p, V)
<1>1. /\ Len(out) \in Nat /\ Len(p) \in Nat /\ Len(out \o p) = Len(out) + Len(p)
      /\ \A j \in 1 .. Len(out) + Len(p) : (out \o p)[j] = IF j <= Len(out) THEN out[j] ELSE p[j - Len(out)]
  BY ConcatProperties, LenProperties
<1>2. SUFFICES ASSUME NEW i \in 1 .. Len(out \o p), NEW k \in Keys, Announces((out \o p)[i], k)
               PROVE  k \in V \/ EndsAfter(out \o p, i, k)
  BY DEF OutOK
<1>3. CASE i <= Len(out)
  <2>1. i \in 1 .. Len(out) /\ i \in 0 .. Len(out) /\ (out \o p)[i] = out[i]
    BY <1>1, <1>3
  <2>2. k \in W \/ EndsAfter(out, i, k)
    BY <1>2, <2>1 DEF OutOK
  <2>3. k \in V \/ EndsAfter(p, 0, k) \/ EndsAfter(out, i, k)
    BY <2>2
  <2>4. QED BY <2>1, <2>3, PostedEnds
<1>4. CASE i > Len(out)
  <2> DEFINE n == i - Len(out)
  <2>1. n \in 1 .. Len(p) /\ (out \o p)[i] = p[n]
    BY <1>1, <1>4
  <2>2. k \in V \/ EndsAfter(p, n, k)
    BY <1>2, <2>1 DEF OutOK
  <2>3. ASSUME NEW j \in 1 .. Len(p), j > n, p[j].says = "ended", p[j].key = k
        PROVE  EndsAfter(out \o p, i, k)
    <3>1. Len(out) + j \in 1 .. Len(out \o p) /\ (out \o p)[Len(out) + j] = p[j] /\ Len(out) + j > i
      BY <1>1, <2>1, <2>3
    <3>2. QED BY <2>3, <3>1 DEF EndsAfter
  <2>4. EndsAfter(p, n, k) => EndsAfter(out \o p, i, k)
    BY <2>3 DEF EndsAfter
  <2>5. QED BY <2>2, <2>4
<1>5. QED BY <1>1, <1>3, <1>4

-----------------------------------------------------------------------------
\* A step of the page: what is in the daemon, and what comes from it, stays true.

OutFollows(c) ==
    \/ outbox'[c] = outbox[c]
    \/ outbox[c] # <<>> /\ outbox'[c] = Tail(outbox[c])
    \/ \E x \in Tasks : outbox'[c] = Without(x, outbox[c])

\* What is asked, who asks and which connections there are, after a step of the page.
Calling(x) ==
    LET c == task'[x].conn IN
    link'[c] = "open" /\ \E i \in 1 .. Len(inbox'[c]) : inbox'[c][i] = Asks(x, task'[x])
CallsFrame ==
    /\ \A c \in Conns : \A i \in 1 .. Len(inbox'[c]) :
          \/ \E j \in 1 .. Len(inbox[c]) :
                inbox'[c][i].kind = inbox[c][j].kind /\ inbox'[c][i].key = inbox[c][j].key
          \/ \E x \in Tasks : inbox'[c][i] = Asks(x, task'[x])
    /\ \A x \in Tasks : \/ task'[x] = task[x] \/ Calling(x)
                        \/ task'[x].at \notin Requests \/ task'[x].failed = TRUE
LinksFrame ==
    \A c \in Conns :
        /\ \/ link'[c] = link[c] \/ link'[c] \in {"closed", "stalled"}
           \/ link[c] = "unused" /\ link'[c] = "connecting"
           \/ link[c] = "connecting" /\ link'[c] = "open"
        /\ link'[c] = "open" => \/ link[c] = "open" /\ OutFollows(c)
                                \/ subs[c] = {} /\ outbox'[c] = <<>>
DaemonFrame ==
    /\ UNCHANGED <<subs, store, fate>>
    /\ \A c \in Conns : handling'[c] # None =>
          /\ handling[c] # None
          /\ handling'[c].key = handling[c].key /\ handling'[c].session = handling[c].session
    /\ \A k \in Keys : Asked(k) => question'[k] = question[k]
    /\ crossed' = FALSE => crossed = FALSE
PageFrame == CallsFrame /\ LinksFrame /\ DaemonFrame

\* The sessions that the tasks and the chat come to have.
Used(s) == s = None \/ store[s] # "unused"
SessionFrame ==
    /\ Used(panel'.session)
    /\ \A x \in Tasks : \/ task'[x] = task[x]
                        \/ /\ Used(task'[x].session)
                           /\ x # "ask" /\ task'[x].at = "fetching" /\ task'[x].failed = FALSE =>
                                 task'[x].session \in subs[task'[x].conn]

LEMMA NoTaskEnds ==
    ASSUME OutTypes, CallInv, NEW c \in Conns, link[c] = "open", NEW x \in Tasks, NEW i \in 1 .. Len(outbox[c]),
           outbox[c][i].to = x
    PROVE  outbox[c][i].says # "ended"
<1>1. CallOK(c, x, task[x], inbox[c], handling[c], outbox[c])
  BY DEF CallInv
<1>2. Fits(outbox[c][i], task[x])
  BY <1>1 DEF CallOK
<1>3. QED BY <1>2 DEF Fits

LEMMA FromWithout ==
    ASSUME NEW x, NEW out \in Seq(OutMessages), NEW i \in 1 .. Len(Without(x, out))
    PROVE  \E j \in 1 .. Len(out) : Without(x, out)[i] = out[j]
<1> DEFINE w == Without(x, out)
<1>1. Len(out) \in Nat
  BY LenProperties
<1>2. \/ w = out
      \/ \E n \in 1 .. Len(out) :
            /\ out[n].to = x /\ Len(w) = Len(out) - 1
            /\ \A j \in 1 .. Len(out) - 1 : w[j] = IF j < n THEN out[j] ELSE out[j + 1]
  BY AnswerRemoved
<1>3. i \in 1 .. Len(w)
  OBVIOUS
<1> HIDE DEF w
<1>4. ASSUME NEW n \in 1 .. Len(out), Len(w) = Len(out) - 1,
             \A j \in 1 .. Len(out) - 1 : w[j] = IF j < n THEN out[j] ELSE out[j + 1]
      PROVE  \E j \in 1 .. Len(out) : w[i] = out[j]
  <2>1. i \in 1 .. Len(out) - 1
    BY <1>3, <1>4
  <2>2. i \in 1 .. Len(out) /\ i + 1 \in 1 .. Len(out)
    BY <1>1, <2>1
  <2>3. w[i] = out[i] \/ w[i] = out[i + 1]
    BY <1>4, <2>1
  <2>4. QED BY <2>2, <2>3
<1>5. \E j \in 1 .. Len(out) : w[i] = out[j]
  BY <1>2, <1>3, <1>4
<1>6. QED BY <1>5 DEF w

LEMMA FromOutbox ==
    ASSUME OutTypes, NEW c \in Conns, OutFollows(c), NEW i \in 1 .. Len(outbox'[c])
    PROVE  \E j \in 1 .. Len(outbox[c]) : outbox'[c][i] = outbox[c][j]
<1>1. outbox[c] \in Seq(OutMessages) /\ Len(outbox[c]) \in Nat
  BY LenProperties DEF OutTypes
<1>2. CASE outbox'[c] = outbox[c]
  BY <1>2
<1>3. CASE outbox[c] # <<>> /\ outbox'[c] = Tail(outbox[c])
  <2>1. Len(outbox'[c]) = Len(outbox[c]) - 1 /\ \A j \in 1 .. Len(outbox'[c]) : outbox'[c][j] = outbox[c][j + 1]
    BY <1>1, <1>3, HeadTailProperties
  <2>2. i + 1 \in 1 .. Len(outbox[c]) /\ outbox'[c][i] = outbox[c][i + 1]
    BY <1>1, <2>1
  <2>3. QED BY <2>2
<1>4. ASSUME NEW x \in Tasks, outbox'[c] = Without(x, outbox[c])
      PROVE  \E j \in 1 .. Len(outbox[c]) : outbox'[c][i] = outbox[c][j]
  BY <1>1, <1>4, FromWithout
<1>5. QED BY <1>2, <1>3, <1>4 DEF OutFollows

LEMMA PageKept ==
    ASSUME IInv, IInv', WInv, PageFrame
    PROVE  /\ QuestionsInv' /\ HandlersInv' /\ AnswersInv'
           /\ \A c \in Conns : link'[c] = "open" => \A s \in subs'[c] : store'[s] = "known"
           /\ \A c \in Conns : Watched(c)' = Watched(c)
           /\ crossed' = FALSE => OutInv'
           /\ CallersInv' /\ \A x \in Tasks : task'[x] = task[x] /\ Live(x)' => Live(x)
<1>0. /\ PageTypes /\ OutTypes /\ DaemonTypes /\ CallInv /\ KeyInv
      /\ QuestionsInv /\ HandlersInv /\ StoreInv /\ AnswersInv /\ WatchInv /\ CallersInv /\ TasksInv
  BY DEF IInv, WInv, Types
<1>1. PageTypes' /\ DaemonTypes' /\ TasksInv' /\ CallInv' /\ KeyInv'
  BY DEF IInv, Types
<1>2. UNCHANGED <<subs, store, fate>>
  BY DEF PageFrame, DaemonFrame
<1>3. \A k \in Keys : Asked(k) => question'[k] = question[k] /\ Asked(k)'
  BY DEF PageFrame, DaemonFrame, Asked
<1>4. QuestionsInv'
  <2>1. \A k \in Keys : fate'[k] # "absent" => Asked(k)'
    BY <1>0, <1>2, <1>3 DEF QuestionsInv
  <2>2. ASSUME NEW c \in Conns, NEW i \in 1 .. Len(inbox'[c]), inbox'[c][i].kind = "sending"
        PROVE  question'[inbox'[c][i].key].text # None
    <3>1. CASE \E j \in 1 .. Len(inbox[c]) :
                  inbox'[c][i].kind = inbox[c][j].kind /\ inbox'[c][i].key = inbox[c][j].key
      <4>1. PICK j \in 1 .. Len(inbox[c]) :
               inbox'[c][i].kind = inbox[c][j].kind /\ inbox'[c][i].key = inbox[c][j].key
        BY <3>1
      <4>2. inbox[c][j] \in InCalls
        BY <1>0, ElementOfSeq DEF PageTypes
      <4>3. Asked(inbox[c][j].key) /\ inbox[c][j].key \in Keys
        BY <1>0, <2>2, <4>1, <4>2 DEF QuestionsInv, InCalls, Calls, OrNone
      <4>4. QED BY <1>3, <4>1, <4>3 DEF Asked
    <3>2. ASSUME NEW x \in Tasks, inbox'[c][i] = Asks(x, task'[x])
          PROVE  question'[inbox'[c][i].key].text # None
      <4>1. task'[x].at = "sending" /\ inbox'[c][i].key = task'[x].key
        BY <2>2, <3>2 DEF Asks
      <4>2. x = "ask" /\ AskOK(task'["ask"])
        BY <1>1, <4>1 DEF TasksInv, TaskOK
      <4>3. task'["ask"].key # None
        BY <4>1, <4>2 DEF AskOK
      <4>4. QED BY <1>1, <4>1, <4>2, <4>3 DEF KeyInv, Asked
    <3>3. QED BY <3>1, <3>2 DEF PageFrame, CallsFrame
  <2>3. QED BY <2>1, <2>2 DEF QuestionsInv, Asked
<1>5. HandlersInv'
  <2>1. SUFFICES ASSUME NEW c \in Conns, handling'[c] # None
                 PROVE  /\ fate'[handling'[c].key] = "active" /\ question'[handling'[c].key].conn = c
                        /\ question'[handling'[c].key].session = handling'[c].session
    BY DEF HandlersInv
  <2>2. /\ handling[c] # None
        /\ handling'[c].key = handling[c].key /\ handling'[c].session = handling[c].session
    BY <2>1 DEF PageFrame, DaemonFrame
  <2>3. handling[c].key \in Keys
    BY <1>0, <2>2 DEF DaemonTypes, HeldCalls, Calls, OrNone
  <2>4. /\ fate[handling[c].key] = "active" /\ question[handling[c].key].conn = c
        /\ question[handling[c].key].session = handling[c].session
    BY <1>0, <2>2 DEF HandlersInv
  <2>5. question'[handling[c].key] = question[handling[c].key]
    BY <1>0, <1>3, <2>3, <2>4 DEF QuestionsInv
  <2>6. QED BY <1>2, <2>2, <2>4, <2>5
<1>6. AnswersInv'
  <2>1. SUFFICES ASSUME NEW c \in Conns, link'[c] = "open", NEW i \in 1 .. Len(outbox'[c]), NEW x \in Tasks,
                        outbox'[c][i].to = x
                 PROVE  Holding(c, outbox'[c][i], task'[x])
    BY <1>2 DEF AnswersInv, Holding
  <2>2. link[c] = "open" /\ OutFollows(c)
    BY <2>1, EmptySeq DEF PageFrame, LinksFrame
  <2>3. PICK j \in 1 .. Len(outbox[c]) : outbox'[c][i] = outbox[c][j]
    BY <1>0, <2>2, FromOutbox
  <2>4. Holding(c, outbox[c][j], task[x])
    BY <1>0, <2>1, <2>2, <2>3 DEF AnswersInv
  <2>5. CallOK(c, x, task'[x], inbox'[c], handling'[c], outbox'[c])
    BY <1>1, <2>1 DEF CallInv
  <2>6. Waiting(c, task'[x]) /\ \A n \in 1 .. Len(inbox'[c]) : inbox'[c][n].from # x
    BY <2>1, <2>5 DEF CallOK, NoCall
  <2>7. task'[x] = task[x]
    <3>1. ~Calling(x)
      <4>1. Asks(x, task'[x]).from = x
        BY DEF Asks
      <4>2. task'[x].conn = c
        BY <2>6 DEF Waiting
      <4>3. QED BY <2>6, <4>1, <4>2 DEF Calling
    <3>2. QED BY <2>6, <3>1 DEF PageFrame, CallsFrame, Waiting
  <2>8. QED BY <1>2, <2>3, <2>4, <2>7 DEF Holding
<1>7. \A c \in Conns : link'[c] = "open" => \A s \in subs'[c] : store'[s] = "known"
  BY <1>0, <1>2 DEF PageFrame, LinksFrame, StoreInv
<1>8. \A c \in Conns : Watched(c)' = Watched(c)
  <2>1. \A k \in Keys : fate[k] = "active" => question'[k] = question[k]
    BY <1>0, <1>3 DEF QuestionsInv
  <2>2. QED BY <1>2, <2>1 DEF Watched
<1>9. ASSUME crossed' = FALSE, NEW c \in Conns, link'[c] = "open"
      PROVE  OutOK(outbox'[c], Watched(c))
  <2>1. CASE outbox'[c] = <<>>
    BY <2>1, EmptySeq DEF OutOK
  <2>2. CASE link[c] = "open" /\ OutFollows(c)
    <3>1. OutOK(outbox[c], Watched(c)) /\ outbox[c] \in Seq(OutMessages)
      BY <1>0, <1>9, <2>2 DEF PageFrame, DaemonFrame, WatchInv, OutInv, OutTypes
    <3>2. CASE outbox'[c] = outbox[c]
      BY <3>1, <3>2
    <3>3. CASE outbox[c] # <<>> /\ outbox'[c] = Tail(outbox[c])
      BY <3>1, <3>3, TailOK
    <3>4. ASSUME NEW x \in Tasks, outbox'[c] = Without(x, outbox[c])
          PROVE  OutOK(outbox'[c], Watched(c))
      <4>1. \A i \in 1 .. Len(outbox[c]) : outbox[c][i].to = x => outbox[c][i].says # "ended"
        BY <1>0, <2>2, NoTaskEnds
      <4>2. OutOK(Without(x, outbox[c]), Watched(c))
        BY <3>1, <4>1, WithoutOK
      <4>3. QED BY <3>4, <4>2
    <3>5. QED BY <2>2, <3>2, <3>3, <3>4 DEF OutFollows
  <2>3. QED BY <1>9, <2>1, <2>2 DEF PageFrame, LinksFrame
<1>10. crossed' = FALSE => OutInv'
  BY <1>8, <1>9 DEF OutInv
<1>11. ASSUME NEW x \in Tasks, task'[x].at \in Requests, task'[x].failed = FALSE
       PROVE  link'[task'[x].conn] \notin {"unused", "connecting"}
  <2>1. CASE task'[x] = task[x]
    <3>1. task[x].conn \in Conns /\ link[task[x].conn] \notin {"unused", "connecting"}
      BY <1>0, <1>11, <2>1 DEF CallersInv, TasksInv, TaskOK
    <3>2. QED BY <2>1, <3>1 DEF PageFrame, LinksFrame
  <2>2. CASE Calling(x)
    BY <2>2 DEF Calling
  <2>3. QED BY <1>11, <2>1, <2>2 DEF PageFrame, CallsFrame
<1>12. CallersInv'
  BY <1>11 DEF CallersInv
<1>13. ASSUME NEW x \in Tasks, task'[x] = task[x], Live(x)' PROVE Live(x)
  <2>1. task[x].at \in Requests /\ task[x].failed = FALSE /\ link'[task[x].conn] = "open"
    BY <1>13 DEF Live
  <2>2. task[x].conn \in Conns /\ link[task[x].conn] \notin {"unused", "connecting"}
    BY <1>0, <2>1 DEF CallersInv, TasksInv, TaskOK
  <2>3. QED BY <2>1, <2>2 DEF PageFrame, LinksFrame, Live
<1>14. QED BY <1>4, <1>5, <1>6, <1>7, <1>8, <1>10, <1>12, <1>13

LEMMA PageWatch ==
    ASSUME IInv, IInv', WInv, PageFrame, SessionFrame, crossed' = FALSE => ChatInv' /\ TurnInv'
    PROVE  WInv'
<1>0. StoreInv /\ FetchInv /\ UNCHANGED <<subs, store>>
  BY DEF WInv, PageFrame, DaemonFrame
<1>1. /\ QuestionsInv' /\ HandlersInv' /\ AnswersInv' /\ CallersInv'
      /\ \A c \in Conns : link'[c] = "open" => \A s \in subs'[c] : store'[s] = "known"
      /\ crossed' = FALSE => OutInv'
      /\ \A x \in Tasks : task'[x] = task[x] /\ Live(x)' => Live(x)
  BY PageKept
<1>2. StoreInv'
  BY <1>0, <1>1 DEF StoreInv, SessionFrame, Used
<1>3. ASSUME NEW x \in Tasks, x # "ask", task'[x].at = "fetching", Live(x)'
      PROVE  task'[x].session \in subs[task'[x].conn]
  <2>1. CASE task'[x] = task[x]
    BY <1>0, <1>1, <1>3, <2>1 DEF FetchInv
  <2>2. CASE task'[x] # task[x]
    BY <1>3, <2>2 DEF SessionFrame, Live
  <2>3. QED BY <2>1, <2>2
<1>4. FetchInv'
  BY <1>0, <1>3 DEF FetchInv
<1>5. WatchInv'
  BY <1>1 DEF WatchInv
<1>6. QED BY <1>1, <1>2, <1>4, <1>5 DEF WInv

-----------------------------------------------------------------------------
\* Parts of a step of the page.

LEMMA SendsFrame ==
    ASSUME PageTypes, NEW x \in Tasks, NEW r \in TaskStates, r.conn \in Conns,
           NEW at \in Requests, Sends(x, r, at)
    PROVE  CallsFrame
<1> DEFINE q == Asks(x, task'[x])
<1>0. ASSUME link'[r.conn] = "open"
      PROVE  /\ Len(inbox[r.conn]) \in Nat /\ Len(inbox'[r.conn]) = Len(inbox[r.conn]) + 1
             /\ inbox'[r.conn][Len(inbox[r.conn]) + 1] = q
             /\ \A i \in 1 .. Len(inbox[r.conn]) : inbox'[r.conn][i] = inbox[r.conn][i]
  <2>1. inbox[r.conn] \in Seq(InCalls) /\ q \in InCalls /\ inbox'[r.conn] = Append(inbox[r.conn], q)
    BY <1>0 DEF PageTypes, Sends
  <2> HIDE DEF q
  <2>2. QED BY <2>1, AppendProperties, LenProperties
<1>1. ASSUME NEW c \in Conns, NEW i \in 1 .. Len(inbox'[c])
      PROVE  \/ \E j \in 1 .. Len(inbox[c]) :
                   inbox'[c][i].kind = inbox[c][j].kind /\ inbox'[c][i].key = inbox[c][j].key
             \/ inbox'[c][i] = q
  <2>1. CASE c # r.conn \/ link'[r.conn] # "open"
    BY <2>1 DEF Sends
  <2>2. CASE c = r.conn /\ link'[r.conn] = "open"
    <3>1. i \in 1 .. Len(inbox[c]) \/ i = Len(inbox[c]) + 1
      BY <1>0, <1>1, <2>2
    <3>2. QED BY <1>0, <2>2, <3>1
  <2>3. QED BY <2>1, <2>2
<1>2. link'[r.conn] = "open" => Calling(x)
  <2>1. task'[x].conn = r.conn
    BY DEF Sends
  <2>2. ASSUME link'[r.conn] = "open" PROVE Len(inbox[r.conn]) + 1 \in 1 .. Len(inbox'[r.conn])
    BY <1>0, <2>2
  <2>3. QED BY <1>0, <2>1, <2>2 DEF Calling
<1>3. \A y \in Tasks : y # x => task'[y] = task[y]
  BY DEF Sends
<1>4. link'[r.conn] # "open" => task'[x].failed = TRUE
  BY DEF Sends
<1>5. QED BY <1>1, <1>2, <1>3, <1>4 DEF CallsFrame

\* Nobody asks.
LEMMA QuietFrame ==
    ASSUME \A c \in Conns : inbox'[c] = inbox[c] \/ inbox'[c] = Orphans(inbox[c])
                            \/ \E x \in Tasks : inbox'[c] = Disown(x, inbox[c]),
           \A x \in Tasks : \/ task'[x] = task[x] \/ task'[x].at \notin Requests
                            \/ task'[x].failed = TRUE,
           PageTypes
    PROVE  CallsFrame
<1>1. ASSUME NEW c \in Conns, NEW i \in 1 .. Len(inbox'[c])
      PROVE  \E j \in 1 .. Len(inbox[c]) :
                   inbox'[c][i].kind = inbox[c][j].kind /\ inbox'[c][i].key = inbox[c][j].key
  <2>0. inbox[c] \in Seq(InCalls) /\ Len(inbox[c]) \in Nat
        /\ \A j \in 1 .. Len(inbox[c]) : inbox[c][j] \in InCalls
    BY LenProperties, ElementOfSeq DEF PageTypes
  <2>1. CASE inbox'[c] = inbox[c]
    BY <2>1
  <2>2. CASE inbox'[c] = Orphans(inbox[c])
    <3>1. inbox'[c] = [j \in 1 .. Len(inbox[c]) |-> [inbox[c][j] EXCEPT !.from = None]]
      BY <2>2 DEF Orphans
    <3>2. Len(inbox'[c]) = Len(inbox[c])
      BY <2>0, <3>1
    <3>3. inbox'[c][i] = [inbox[c][i] EXCEPT !.from = None] /\ i \in 1 .. Len(inbox[c])
      BY <3>1, <3>2
    <3>4. inbox[c][i] \in Calls
      BY <2>0, <3>3 DEF InCalls
    <3>5. QED BY <3>3, <3>4 DEF Calls
  <2>3. ASSUME NEW x \in Tasks, inbox'[c] = Disown(x, inbox[c])
        PROVE  \E j \in 1 .. Len(inbox[c]) :
                   inbox'[c][i].kind = inbox[c][j].kind /\ inbox'[c][i].key = inbox[c][j].key
    <3>1. inbox'[c] = [j \in 1 .. Len(inbox[c]) |-> IF inbox[c][j].from = x
                          THEN [inbox[c][j] EXCEPT !.from = None] ELSE inbox[c][j]]
      BY <2>3 DEF Disown
    <3>2. Len(inbox'[c]) = Len(inbox[c])
      BY <2>0, <3>1
    <3>3. i \in 1 .. Len(inbox[c])
          /\ (inbox'[c][i] = [inbox[c][i] EXCEPT !.from = None] \/ inbox'[c][i] = inbox[c][i])
      BY <3>1, <3>2
    <3>4. inbox[c][i] \in Calls
      BY <2>0, <3>3 DEF InCalls
    <3>5. QED BY <3>3, <3>4 DEF Calls
  <2>4. QED BY <2>1, <2>2, <2>3
<1>2. QED BY <1>1 DEF CallsFrame

LEMMA SameLinks ==
    ASSUME link' = link, \A c \in Conns : OutFollows(c)
    PROVE  LinksFrame
  BY DEF LinksFrame

LEMMA ChatSame ==
    ASSUME ChatInv, UNCHANGED <<subs, store>>, panel'.session = panel.session,
           panel'.current = panel.current, panel'.subscribed = panel.subscribed,
           panel'.activeTurn = None \/ panel'.activeTurn = panel.activeTurn \/ panel.session # None,
           panel.current # None => panel.current \in Conns,
           \A c \in Conns : link'[c] = "open" => link[c] = "open",
           Live("ask")' => Live("ask") /\ task'["ask"] = task["ask"]
    PROVE  ChatInv'
<1>1. \A c \in Conns : link'[c] = "open" => panel'.current = c
  BY DEF ChatInv
<1>2. panel'.subscribed = TRUE =>
          /\ panel'.session # None /\ panel'.current # None
          /\ link'[panel'.current] = "open" => panel'.session \in subs'[panel'.current]
  BY DEF ChatInv
<1>3. panel'.activeTurn # None => panel'.session # None
  BY DEF ChatInv
<1>4. Live("ask")' =>
          LET ask == task'["ask"] IN
          /\ ask.at \in {"attaching", "sending", "fetching"} =>
                ask.session = panel'.session /\ ask.session \in subs'[ask.conn]
          /\ ask.at = "subscribing" =>
                ask.session = panel'.session \/ store'[ask.session] = "forgotten"
          /\ ask.at \in {"creating", "subscribingNew"} => panel'.session = None
  BY DEF ChatInv
<1>5. QED BY <1>1, <1>2, <1>3, <1>4 DEF ChatInv

LEMMA TurnSame ==
    ASSUME TurnInv,
           \A c \in Conns :
              /\ link[c] = "stalled" => link'[c] = "stalled"
              /\ link[c] = "open" =>
                    \/ link'[c] = "stalled"
                    \/ /\ link'[c] = "open" /\ Watched(c)' = Watched(c)
                       /\ panel'.activeTurn # None /\ EndsAfter(outbox[c], 0, panel'.activeTurn) =>
                             EndsAfter(outbox'[c], 0, panel'.activeTurn),
           \/ panel'.activeTurn = None
           \/ /\ panel'.activeTurn = panel.activeTurn
              /\ panel'.recovering = FALSE => panel.recovering = FALSE
    PROVE  TurnInv'
<1>1. SUFFICES ASSUME panel'.activeTurn # None, panel'.recovering = FALSE
               PROVE  \E c \in Conns :
                        \/ link'[c] = "stalled"
                        \/ link'[c] = "open" /\ (\/ panel'.activeTurn \in Watched(c)'
                                                 \/ EndsAfter(outbox'[c], 0, panel'.activeTurn))
  BY DEF TurnInv, Ending
<1>2. Ending(panel'.activeTurn)
  BY <1>1 DEF TurnInv
<1>3. PICK c \in Conns : \/ link[c] = "stalled"
                         \/ /\ link[c] = "open"
                            /\ \/ panel'.activeTurn \in Watched(c)
                               \/ EndsAfter(outbox[c], 0, panel'.activeTurn)
  BY <1>2 DEF Ending
<1>4. QED BY <1>1, <1>3

-----------------------------------------------------------------------------
\* The page's steps.

LEMMA SubmitWatch ==
    ASSUME IInv, IInv', WInv, NEW text \in Texts, Submit(text)
    PROVE  WInv'
<1>0. PageTypes /\ CallersInv /\ WatchInv /\ StoreInv
  BY DEF IInv, Types, WInv
<1>1. /\ UNCHANGED <<handling, subs, store, fate, question, told, crossed, panel, link, inbox, outbox, sent>>
      /\ \/ \E k : task' = [task EXCEPT !["ask"] =
                               [Idle EXCEPT !.at = "scope", !.retry = TRUE, !.key = k, !.text = text]]
         \/ task' = [task EXCEPT !["ask"] = [Idle EXCEPT !.at = "capturing", !.text = text]]
  BY DEF Submit, PageStep, daemonVars
<1>2. /\ \A y \in Tasks : y # "ask" => task'[y] = task[y]
      /\ task'["ask"].at \in {"scope", "capturing"} /\ task'["ask"].session = None
  <2>1. ASSUME NEW k
        PROVE  /\ [Idle EXCEPT !.at = "scope", !.retry = TRUE, !.key = k, !.text = text].at = "scope"
               /\ [Idle EXCEPT !.at = "scope", !.retry = TRUE, !.key = k, !.text = text].session = None
    BY DEF Idle
  <2>2. /\ [Idle EXCEPT !.at = "capturing", !.text = text].at = "capturing"
        /\ [Idle EXCEPT !.at = "capturing", !.text = text].session = None
    BY DEF Idle
  <2>3. \A w : task' = [task EXCEPT !["ask"] = w] =>
           task'["ask"] = w /\ \A y \in Tasks : y # "ask" => task'[y] = task[y]
    BY <1>0, Names DEF PageTypes
  <2>4. ASSUME NEW k,
               task' = [task EXCEPT !["ask"] =
                          [Idle EXCEPT !.at = "scope", !.retry = TRUE, !.key = k, !.text = text]]
        PROVE  task'["ask"].at = "scope" /\ task'["ask"].session = None /\ \A y \in Tasks : y # "ask" => task'[y] = task[y]
    <3> DEFINE w == [Idle EXCEPT !.at = "scope", !.retry = TRUE, !.key = k, !.text = text]
    <3>1. w.at = "scope" /\ w.session = None /\ task' = [task EXCEPT !["ask"] = w]
      BY <2>1, <2>4
    <3> HIDE DEF w
    <3>2. QED BY <2>3, <3>1
  <2>5. CASE task' = [task EXCEPT !["ask"] = [Idle EXCEPT !.at = "capturing", !.text = text]]
    <3> DEFINE w == [Idle EXCEPT !.at = "capturing", !.text = text]
    <3>1. w.at = "capturing" /\ w.session = None /\ task' = [task EXCEPT !["ask"] = w]
      BY <2>2, <2>5
    <3> HIDE DEF w
    <3>2. task'["ask"].at = "capturing" /\ task'["ask"].session = None
          /\ \A y \in Tasks : y # "ask" => task'[y] = task[y]
      BY <2>3, <3>1
    <3>3. QED BY <3>2
  <2>6. QED BY <1>1, <2>4, <2>5
<1>3. \A y \in Tasks : task'[y] = task[y] \/ task'[y].at \notin Requests
  BY <1>2 DEF Requests
<1>4. PageFrame
  <2>1. CallsFrame
    BY <1>0, <1>1, <1>3, QuietFrame
  <2>2. LinksFrame
    BY <1>1, SameLinks DEF OutFollows
  <2>3. DaemonFrame
    BY <1>1 DEF DaemonFrame
  <2>4. QED BY <2>1, <2>2, <2>3 DEF PageFrame
<1>5. SessionFrame
  BY <1>0, <1>1, <1>2 DEF SessionFrame, Used, StoreInv
<1>6. ASSUME crossed' = FALSE PROVE ChatInv' /\ TurnInv'
  <2>1. ChatInv /\ TurnInv
    BY <1>0, <1>1, <1>6 DEF WatchInv
  <2>2. ~Live("ask")'
    BY <1>2 DEF Live, Requests
  <2>3. ChatInv'
    BY <1>0, <1>1, <2>1, <2>2, ChatSame DEF PageTypes, Panels, OrNone
  <2>4. \A c \in Conns : Watched(c)' = Watched(c)
    BY <1>4, PageKept
  <2>5. TurnInv'
    BY <1>1, <2>1, <2>4, TurnSame
  <2>6. QED BY <2>3, <2>5
<1>7. QED BY <1>4, <1>5, <1>6, PageWatch

LEMMA ConnectFailsWatch ==
    ASSUME IInv, IInv', WInv, Settled, NEW x \in Tasks, ConnectFails(x)
    PROVE  WInv'
<1>0. PageTypes /\ TasksInv /\ CallersInv /\ WatchInv /\ StoreInv
  BY DEF IInv, Types, WInv
<1>1. /\ UNCHANGED <<handling, subs, store, fate, question, told, crossed, panel, inbox, outbox, sent>>
      /\ link' = [link EXCEPT ![task[x].conn] = "closed"] /\ task[x].at = "connecting"
      /\ task' = [task EXCEPT ![x].failed = TRUE]
  BY DEF ConnectFails, PageStep, daemonVars
<1>2. task[x] \in TaskStates
  BY <1>0 DEF PageTypes
<1>3. task[x].conn \in Conns /\ link[task[x].conn] = "connecting"
  BY <1>0, <1>1, <1>2 DEF Settled, TasksInv, Connecting, TaskStates
<1>4. /\ \A y \in Tasks : y # x => task'[y] = task[y]
      /\ task'[x].failed = TRUE /\ task'[x].session = task[x].session /\ task'[x].at = "connecting"
  BY <1>0, <1>1, <1>2 DEF PageTypes, TaskStates
<1>5. \A c \in Conns : link'[c] = IF c = task[x].conn THEN "closed" ELSE link[c]
  BY <1>0, <1>1 DEF PageTypes
<1>6. PageFrame
  <2>1. CallsFrame
    BY <1>0, <1>1, <1>4, QuietFrame
  <2>2. LinksFrame
    BY <1>1, <1>5 DEF LinksFrame, OutFollows
  <2>3. DaemonFrame
    BY <1>1 DEF DaemonFrame
  <2>4. QED BY <2>1, <2>2, <2>3 DEF PageFrame
<1>7. SessionFrame
  BY <1>0, <1>1, <1>4 DEF SessionFrame, Used, StoreInv
<1>8. ASSUME crossed' = FALSE PROVE ChatInv' /\ TurnInv'
  <2>1. ChatInv /\ TurnInv
    BY <1>0, <1>1, <1>8 DEF WatchInv
  <2>2. task'["ask"] = task["ask"] \/ ~Live("ask")'
    BY <1>4, Names DEF Live
  <2>3. \A c \in Conns : Watched(c)' = Watched(c)
    BY <1>6, PageKept
  <2>4. Live("ask")' => Live("ask") /\ task'["ask"] = task["ask"]
    BY <1>6, <2>2, PageKept, Names
  <2>5. ChatInv'
    BY <1>0, <1>1, <1>5, <2>1, <2>4, ChatSame DEF PageTypes, Panels, OrNone
  <2>6. TurnInv'
    BY <1>1, <1>3, <1>5, <2>1, <2>3, TurnSame
  <2>7. QED BY <2>5, <2>6
<1>9. QED BY <1>6, <1>7, <1>8, PageWatch

LEMMA RejectWatch ==
    ASSUME IInv, IInv', WInv, NEW x \in Tasks, Reject(x)
    PROVE  WInv'
<1>0. PageTypes /\ TasksInv /\ CallersInv /\ WatchInv /\ StoreInv
  BY DEF IInv, Types, WInv
<1>1. /\ UNCHANGED <<handling, subs, store, fate, question, told, crossed, link, inbox, outbox, sent>>
      /\ Finish(x)
      /\ panel' \in {panel, Unblocked(panel), Caught(panel, task[x].key)}
  BY DEF Reject, PageStep, daemonVars, RecoveryFails
<1>2. panel \in Panels
  BY <1>0 DEF PageTypes
<1>3. /\ panel'.session = panel.session /\ panel'.current = panel.current
      /\ panel'.subscribed = panel.subscribed
      /\ \/ panel'.activeTurn = None
         \/ panel'.activeTurn = panel.activeTurn /\ panel'.recovering = panel.recovering
  <2>1. CASE panel' = Unblocked(panel)
    BY <1>2, <2>1, OtherPanels
  <2>2. CASE panel' = Caught(panel, task[x].key)
    BY <1>2, <2>2, CaughtPanel
  <2>3. QED BY <1>1, <2>1, <2>2
<1>4. task'[x] = Idle /\ \A y \in Tasks : y # x => task'[y] = task[y]
  BY <1>0, <1>1, FinishStep
<1>5. Idle.at = "idle" /\ Idle.session = None
  BY DEF Idle
<1>6. PageFrame
  <2>1. CallsFrame
    BY <1>0, <1>1, <1>4, <1>5, QuietFrame DEF Requests
  <2>2. LinksFrame
    BY <1>1, SameLinks DEF OutFollows
  <2>3. DaemonFrame
    BY <1>1 DEF DaemonFrame
  <2>4. QED BY <2>1, <2>2, <2>3 DEF PageFrame
<1>7. SessionFrame
  BY <1>0, <1>1, <1>3, <1>4, <1>5 DEF SessionFrame, Used, StoreInv
<1>8. ASSUME crossed' = FALSE PROVE ChatInv' /\ TurnInv'
  <2>1. ChatInv /\ TurnInv
    BY <1>0, <1>1, <1>8 DEF WatchInv
  <2>2. task'["ask"] = task["ask"] \/ ~Live("ask")'
    BY <1>4, <1>5, Names DEF Live, Requests
  <2>3. \A c \in Conns : Watched(c)' = Watched(c)
    BY <1>6, PageKept
  <2>4. Live("ask")' => Live("ask") /\ task'["ask"] = task["ask"]
    BY <1>6, <2>2, PageKept, Names
  <2>5. ChatInv'
    BY <1>1, <1>2, <1>3, <2>1, <2>4, ChatSame DEF Panels, OrNone
  <2>6. TurnInv'
    BY <1>1, <1>3, <2>1, <2>3, TurnSame
  <2>7. QED BY <2>5, <2>6
<1>9. QED BY <1>6, <1>7, <1>8, PageWatch

LEMMA StallWatch ==
    ASSUME IInv, IInv', WInv, NEW c \in Conns, Stall(c)
    PROVE  WInv'
<1>0. PageTypes /\ TasksInv /\ CallersInv /\ WatchInv /\ StoreInv
  BY DEF IInv, Types, WInv
<1>1. /\ UNCHANGED <<handling, subs, store, fate, question, told, crossed, panel, task, inbox, sent>>
      /\ link[c] = "open" /\ link' = [link EXCEPT ![c] = "stalled"] /\ Unheard
  BY DEF Stall, PageStep, daemonVars
<1>2. \A d \in Conns : /\ link'[d] = IF d = c THEN "stalled" ELSE link[d]
                       /\ link'[d] = "open" => outbox'[d] = outbox[d]
  BY <1>0, <1>1 DEF PageTypes, Unheard
<1>3. PageFrame
  <2>1. CallsFrame
    BY <1>0, <1>1, QuietFrame
  <2>2. LinksFrame
    BY <1>1, <1>2 DEF LinksFrame, OutFollows
  <2>3. DaemonFrame
    BY <1>1 DEF DaemonFrame
  <2>4. QED BY <2>1, <2>2, <2>3 DEF PageFrame
<1>4. SessionFrame
  BY <1>0, <1>1 DEF SessionFrame, Used, StoreInv
<1>5. ASSUME crossed' = FALSE PROVE ChatInv' /\ TurnInv'
  <2>1. ChatInv /\ TurnInv
    BY <1>0, <1>1, <1>5 DEF WatchInv
  <2>2. \A d \in Conns : Watched(d)' = Watched(d)
    BY <1>3, PageKept
  <2>3. Live("ask")' => Live("ask") /\ task'["ask"] = task["ask"]
    BY <1>1, <1>3, PageKept, Names
  <2>4. ChatInv'
    BY <1>0, <1>1, <1>2, <2>1, <2>3, ChatSame DEF PageTypes, Panels, OrNone
  <2>5. TurnInv'
    BY <1>1, <1>2, <2>1, <2>2, TurnSame
  <2>6. QED BY <2>4, <2>5
<1>6. QED BY <1>3, <1>4, <1>5, PageWatch

\* A chat that no connection is open for, and that is recovering or shows no
\* turn, is watched.
LEMMA ChatClosed ==
    ASSUME TasksInv', \A c \in Conns : link'[c] # "open", panel'.subscribed = FALSE,
           panel'.activeTurn # None => panel'.session # None /\ panel'.recovering = TRUE
    PROVE  ChatInv' /\ TurnInv'
<1>1. ~Live("ask")'
  <2>1. task'["ask"].at \in Requests => task'["ask"].conn \in Conns
    BY Names DEF TasksInv, TaskOK
  <2>2. QED BY <2>1 DEF Live
<1>2. ChatInv'
  BY <1>1 DEF ChatInv
<1>3. TurnInv'
  BY DEF TurnInv
<1>4. QED BY <1>2, <1>3

LEMMA LostChat ==
    ASSUME PageTypes, LinksInv, NEW c \in Conns, link[c] \in {"open", "stalled"},
           NEW t \in [Tasks -> TaskStates], ConnectionLost(c, t, Hung(link, c))
    PROVE  /\ panel'.session = panel.session /\ panel'.subscribed = FALSE
           /\ panel'.activeTurn = panel.activeTurn
           /\ panel'.recovering = TRUE \/ panel.session = None \/ panel.activeTurn = None
           /\ task'[c] = t[c] \/ (task'[c].at = "connecting" /\ task'[c].session = panel.session)
           /\ \A d \in Conns : link'[d] = "open" => link[d] = "open" /\ d # panel.current
<1> DEFINE p == Disconnected(panel)
           l == Hung(link, c)
           h == Hung(l, panel.current)
<1>0. c \in Tasks /\ c # None
  BY Names
<1>1. p \in Panels /\ p.current = None /\ p.subscribed = FALSE /\ p.session = panel.session
      /\ p.activeTurn = panel.activeTurn /\ p.gen = panel.gen
  BY OtherPanels DEF PageTypes
<1>2. l \in [Conns -> Links] /\ l[c] = "closed" /\ \A d \in Conns : d # c => l[d] = link[d]
  BY <1>0 DEF PageTypes, Hung, Links
<1>3. panel.current = None \/ panel.current \in Conns
  BY DEF PageTypes, Panels, OrNone
<1>4. h \in [Conns -> Links] /\ \A d \in Conns : h[d] = "open" => link[d] = "open" /\ d # panel.current
  <2>1. CASE panel.current = None
    BY <1>0, <1>2, <2>1, Names DEF Hung
  <2>2. CASE panel.current # None
    BY <1>2, <1>3, <2>2 DEF Hung, Links
  <2>3. QED BY <2>1, <2>2
<1> HIDE DEF p, l
<1>5. CASE ~(p.session # None /\ (p.activeTurn # None \/ InFlight))
  <2>1. panel' = p /\ task' = t /\ link' = h
    BY <1>5 DEF ConnectionLost, p, l
  <2>2. QED BY <1>0, <1>1, <1>4, <1>5, <2>1
<1>6. CASE p.session # None /\ (p.activeTurn # None \/ InFlight)
  <2> DEFINE r == [Idle EXCEPT !.session = p.session, !.gen = p.gen]
             o == [Retained(p) EXCEPT !.recovering = TRUE]
  <2>1. Dial(c, r, o, t, h)
    BY <1>6 DEF ConnectionLost, p, l
  <2>2. r \in TaskStates /\ r.failed = FALSE /\ r.session = panel.session
    BY <1>1, IdleTypes DEF Idle, TaskStates, Panels
  <2>3. /\ o \in Panels /\ o.current = None /\ o.session = panel.session /\ o.subscribed = FALSE
        /\ o.activeTurn = panel.activeTurn /\ o.recovering = TRUE
    <3> DEFINE q == Retained(p)
    <3>1. q \in Panels /\ q.current = None /\ q.session = panel.session /\ q.subscribed = FALSE
          /\ q.activeTurn = panel.activeTurn
      BY <1>1, RetainedPanel
    <3>2. o = [q EXCEPT !.recovering = TRUE]
      OBVIOUS
    <3> HIDE DEF q
    <3>3. QED BY <3>1, <3>2, ZenonT(60) DEF Panels
  <2> HIDE DEF r, o
  <2>4. Dials(c, r, o, t, h)
    BY <1>0, <1>4, <2>1, <2>2, <2>3, Dialed
  <2>5. panel' = [o EXCEPT !.current = None]
    BY <2>4 DEF Dials
  <2>6. panel'.session = panel.session /\ panel'.subscribed = FALSE
        /\ panel'.activeTurn = panel.activeTurn /\ panel'.recovering = TRUE
    BY <2>3, <2>5 DEF Panels
  <2>7. task'[c].at = "connecting" /\ task'[c].session = panel.session
    BY <2>2, <2>4 DEF Dials
  <2>8. \A d \in Conns : link'[d] = "open" => h[d] = "open"
    BY <2>4 DEF Dials
  <2>9. QED BY <1>4, <2>6, <2>7, <2>8
<1>7. QED BY <1>5, <1>6

LEMMA LoseWatch ==
    ASSUME IInv, IInv', WInv, NEW c \in Conns, Lose(c)
    PROVE  WInv'
<1> DEFINE t == [x \in Tasks |-> IF task[x].conn = c /\ task[x].at \in Requests
                                 THEN [task[x] EXCEPT !.failed = TRUE] ELSE task[x]]
<1>0. Types /\ PageTypes /\ TasksInv /\ LinksInv /\ CallersInv /\ WatchInv /\ StoreInv /\ TasksInv'
  BY DEF IInv, Types, WInv
<1>1. /\ link[c] \in {"open", "stalled"} /\ ConnectionLost(c, t, Hung(link, c)) /\ HangUp
      /\ UNCHANGED <<handling, subs, store, fate, question, told, crossed, sent>>
  BY DEF Lose, PageStep, daemonVars
<1>2. \A x \in Tasks : /\ [task[x] EXCEPT !.failed = TRUE] \in TaskStates
                       /\ [task[x] EXCEPT !.failed = TRUE].failed = TRUE
                       /\ [task[x] EXCEPT !.failed = TRUE].session = task[x].session
  <2>1. \A x \in Tasks : task[x] \in TaskStates
    BY <1>0 DEF PageTypes
  <2>2. QED BY <2>1 DEF TaskStates
<1>3. t \in [Tasks -> TaskStates]
  BY <1>0, <1>2 DEF PageTypes
<1>4. \A y \in Tasks : \/ t[y] = task[y]
                       \/ /\ task[y].at \in Requests /\ task[y].conn = c
                          /\ t[y] = [task[y] EXCEPT !.failed = TRUE]
  OBVIOUS
<1>5. \A y \in Tasks : t[y] = task[y] \/ (t[y].failed = TRUE /\ t[y].session = task[y].session)
  BY <1>2, <1>4
<1> HIDE DEF t
<1>6. /\ Lost(c, t) /\ \A d \in Conns : link'[d] = "open" => link[d] = "open"
  <2>1. CallsFail(c, t)
    BY <1>4 DEF CallsFail
  <2>2. PageLost(c, t)
    BY <1>0, <1>1, <1>3, <2>1, LostStep
  <2>3. QED BY <2>2 DEF PageLost
<1>7. /\ panel'.session = panel.session /\ panel'.subscribed = FALSE
      /\ panel'.activeTurn = panel.activeTurn
      /\ panel'.recovering = TRUE \/ panel.session = None \/ panel.activeTurn = None
      /\ task'[c] = t[c] \/ (task'[c].at = "connecting" /\ task'[c].session = panel.session)
      /\ \A d \in Conns : link'[d] = "open" => link[d] = "open" /\ d # panel.current
  BY <1>0, <1>1, <1>3, LostChat
<1>8. inbox' = [d \in Conns |-> IF link'[d] = "closed" THEN Orphans(inbox[d]) ELSE inbox[d]]
      /\ outbox' = [d \in Conns |-> IF link'[d] = "open" THEN outbox[d] ELSE <<>>]
  BY <1>1 DEF HangUp, Unheard
<1>9. \A y \in Tasks : task'[y] = t[y] \/ (task'[y].at = "connecting" /\ task'[y].session = panel.session)
  BY <1>6, <1>7 DEF Lost
<1>10. PageFrame
  <2>1. \A y \in Tasks : task'[y] = task[y] \/ task'[y].at \notin Requests \/ task'[y].failed = TRUE
    BY <1>5, <1>9 DEF Requests
  <2>2. CallsFrame
    BY <1>0, <1>8, <2>1, QuietFrame
  <2>3. LinksFrame
    BY <1>6, <1>8 DEF LinksFrame, OutFollows, Lost
  <2>4. DaemonFrame
    BY <1>1 DEF DaemonFrame
  <2>5. QED BY <2>2, <2>3, <2>4 DEF PageFrame
<1>11. SessionFrame
  <2>1. Used(panel.session) /\ \A y \in Tasks : Used(task[y].session)
    BY <1>0 DEF StoreInv, Used
  <2>2. \A y \in Tasks : \/ task'[y] = task[y]
                         \/ task'[y].session = panel.session /\ task'[y].at = "connecting"
                         \/ task'[y].session = task[y].session /\ task'[y].failed = TRUE
    BY <1>5, <1>9
  <2>3. QED BY <1>7, <2>1, <2>2 DEF SessionFrame
<1>12. ASSUME crossed' = FALSE PROVE ChatInv' /\ TurnInv'
  <2>1. ChatInv
    BY <1>0, <1>1, <1>12 DEF WatchInv
  <2>2. \A d \in Conns : link'[d] # "open"
    BY <1>7, <2>1 DEF ChatInv
  <2>3. panel'.activeTurn # None => panel'.session # None /\ panel'.recovering = TRUE
    BY <1>7, <2>1 DEF ChatInv
  <2>4. QED BY <1>0, <1>7, <2>2, <2>3, ChatClosed
<1>13. QED BY <1>10, <1>11, <1>12, PageWatch

LEMMA ReloadWatch ==
    ASSUME IInv, IInv', WInv, Reload
    PROVE  WInv'
<1> DEFINE r == [Idle EXCEPT !.session = panel.session]
           p == [FreshPanel EXCEPT !.session = panel.session, !.activeTurn = panel.activeTurn,
                                   !.recovering = TRUE]
           t == [x \in Tasks |-> Idle]
           l == [c \in Conns |-> IF link[c] = "unused" THEN "unused" ELSE "closed"]
<1>0. Types /\ PageTypes /\ TasksInv /\ LinksInv /\ CallersInv /\ WatchInv /\ StoreInv /\ TasksInv'
  BY DEF IInv, Types, WInv
<1>1. /\ panel.session # None /\ Dial("restore", r, p, t, l) /\ HangUp
      /\ UNCHANGED <<handling, subs, store, fate, question, told, crossed, sent>>
  BY DEF Reload, PageStep, daemonVars
<1>2. panel.session \in OrNone(Sessions) /\ panel.activeTurn \in OrNone(Keys)
  BY <1>0 DEF PageTypes, Panels
<1>3. r \in TaskStates /\ r.failed = FALSE /\ r.session = panel.session
  BY <1>2, IdleTypes DEF Idle, TaskStates
<1>4. p \in Panels /\ p.current = None /\ p.session = panel.session
      /\ p.subscribed = FALSE /\ p.recovering = TRUE
  <2>1. FreshPanel \in Panels
    <3>1. None \in OrNone(Sessions) /\ None \in OrNone(Keys) /\ None \in OrNone(Pendings)
          /\ None \in OrNone(Conns)
      BY DEF OrNone
    <3>2. QED BY <3>1 DEF FreshPanel, Panels
  <2>2. FreshPanel.current = None /\ FreshPanel.subscribed = FALSE
    BY DEF FreshPanel
  <2>3. QED BY <1>2, <2>1, <2>2 DEF Panels
<1>5. t \in [Tasks -> TaskStates] /\ l \in [Conns -> Links]
      /\ \A y \in Tasks : t[y] = Idle
  BY IdleTypes DEF Links
<1>6. \A c \in Conns : l[c] = (IF link[c] = "unused" THEN "unused" ELSE "closed")
  OBVIOUS
<1>7. "restore" \in Tasks
  BY Names
<1> HIDE DEF r, p, t, l
<1>8. Dials("restore", r, p, t, l)
  BY <1>1, <1>3, <1>4, <1>5, <1>7, Dialed
<1>9. /\ \A y \in Tasks : \/ task'[y] = Idle
                          \/ task'[y].at = "connecting" /\ task'[y].session = panel.session
      /\ \A c \in Conns : link'[c] = l[c] \/ (link'[c] = "connecting" /\ l[c] = "unused")
  BY <1>3, <1>4, <1>5, <1>8, Names DEF Dials
<1>10. panel'.session = panel.session /\ panel'.subscribed = FALSE /\ panel'.recovering = TRUE
  <2>1. panel' = [p EXCEPT !.current = None]
    BY <1>8 DEF Dials
  <2>2. QED BY <1>4, <2>1 DEF Panels
<1>11. inbox' = [d \in Conns |-> IF link'[d] = "closed" THEN Orphans(inbox[d]) ELSE inbox[d]]
  BY <1>1 DEF HangUp
<1>12. Idle.at = "idle" /\ Idle.session = None
  BY DEF Idle
<1>13. PageFrame
  <2>1. \A y \in Tasks : task'[y].at \notin Requests
    BY <1>9, <1>12 DEF Requests
  <2>2. CallsFrame
    BY <1>0, <1>11, <2>1, QuietFrame
  <2>3. LinksFrame
    BY <1>6, <1>9 DEF LinksFrame
  <2>4. DaemonFrame
    BY <1>1 DEF DaemonFrame
  <2>5. QED BY <2>2, <2>3, <2>4 DEF PageFrame
<1>14. SessionFrame
  <2>1. Used(panel.session) /\ Used(None)
    BY <1>0 DEF StoreInv, Used
  <2>2. \A y \in Tasks : task'[y].at # "fetching" /\ Used(task'[y].session)
    BY <1>9, <1>12, <2>1
  <2>3. QED BY <1>10, <2>1, <2>2 DEF SessionFrame
<1>15. ChatInv' /\ TurnInv'
  <2>1. \A c \in Conns : link'[c] # "open"
    BY <1>6, <1>9
  <2>2. QED BY <1>0, <1>1, <1>10, <2>1, ChatClosed
<1>16. QED BY <1>13, <1>14, <1>15, PageWatch

LEMMA TimeoutWatch ==
    ASSUME IInv, IInv', WInv, NEW x \in Tasks, Timeout(x)
    PROVE  WInv'
<1> DEFINE c == task[x].conn
           t == [task EXCEPT ![x].failed = TRUE]
           loses == task[x].at = "sending" /\ link[c] \in {"open", "stalled"}
<1>0. /\ Types /\ PageTypes /\ OutTypes /\ TasksInv /\ LinksInv /\ CallInv /\ CallersInv /\ WatchInv
      /\ StoreInv /\ TasksInv' /\ DaemonTypes
  BY DEF IInv, Types, WInv
<1>1. /\ task[x].at \in Requests
      /\ IF loses THEN ConnectionLost(c, t, Hung(link, c)) ELSE task' = t /\ UNCHANGED <<panel, link>>
      /\ inbox' = [inbox EXCEPT ![c] = IF link'[c] = "closed" THEN Orphans(@) ELSE Disown(x, @)]
      /\ handling' = [handling EXCEPT ![c] =
                        IF @ # None /\ @.from = x THEN [@ EXCEPT !.from = None] ELSE @]
      /\ outbox' = [d \in Conns |-> IF link'[d] = "open" THEN Without(x, outbox[d]) ELSE <<>>]
      /\ UNCHANGED <<subs, store, fate, question, sent, told, crossed>>
  BY DEF Timeout
<1>2. c \in Conns /\ task[x] \in TaskStates /\ task \in [Tasks -> TaskStates]
  BY <1>0, <1>1 DEF TasksInv, TaskOK, PageTypes
<1> DEFINE u == [task[x] EXCEPT !.failed = TRUE]
<1>3. u \in TaskStates /\ u.failed = TRUE /\ u.session = task[x].session
  BY <1>2 DEF TaskStates
<1>4. t = [task EXCEPT ![x] = u]
  BY <1>2
<1> HIDE DEF u
<1>5. t \in [Tasks -> TaskStates] /\ t[x] = u /\ \A y \in Tasks : y # x => t[y] = task[y]
  BY <1>2, <1>3, <1>4
<1>6. \A y \in Tasks : \/ t[y] = task[y]
                       \/ /\ task[y].at \in Requests /\ task[y].conn = c
                          /\ t[y] = [task[y] EXCEPT !.failed = TRUE]
  BY <1>1, <1>5 DEF u
<1>7. \A y \in Tasks : t[y] = task[y] \/ (t[y].failed = TRUE /\ t[y].session = task[y].session)
  BY <1>3, <1>5
<1> HIDE DEF t, c
<1>8. /\ panel'.session = panel.session /\ panel'.activeTurn = panel.activeTurn
      /\ loses => /\ panel'.subscribed = FALSE
                  /\ panel'.recovering = TRUE \/ panel.session = None \/ panel.activeTurn = None
                  /\ \A d \in Conns : link'[d] = "open" => d # panel.current
      /\ ~loses => panel' = panel /\ link' = link
      /\ \A y \in Tasks : \/ task'[y] = t[y]
                          \/ task'[y].at = "connecting" /\ task'[y].session = panel.session
      /\ \A d \in Conns : \/ link'[d] = link[d] \/ link'[d] = "closed"
                          \/ link'[d] = "connecting" /\ link[d] = "unused"
  <2>1. CASE loses
    <3>1. ConnectionLost(c, t, Hung(link, c)) /\ link[c] \in {"open", "stalled"}
      BY <1>1, <2>1
    <3>2. Lost(c, t)
      <4>1. CallsFail(c, t)
        BY <1>6 DEF CallsFail
      <4>2. PageLost(c, t)
        BY <1>0, <1>2, <1>5, <3>1, <4>1, LostStep
      <4>3. QED BY <4>2 DEF PageLost
    <3>3. /\ panel'.session = panel.session /\ panel'.subscribed = FALSE
          /\ panel'.activeTurn = panel.activeTurn
          /\ panel'.recovering = TRUE \/ panel.session = None \/ panel.activeTurn = None
          /\ task'[c] = t[c] \/ (task'[c].at = "connecting" /\ task'[c].session = panel.session)
          /\ \A d \in Conns : link'[d] = "open" => link[d] = "open" /\ d # panel.current
      BY <1>0, <1>2, <1>5, <3>1, LostChat
    <3>4. QED BY <2>1, <3>2, <3>3 DEF Lost
  <2>2. CASE ~loses
    BY <1>1, <2>2
  <2>3. QED BY <2>1, <2>2
<1>9. /\ \A d \in Conns : \/ inbox'[d] = inbox[d] \/ inbox'[d] = Orphans(inbox[d])
                          \/ inbox'[d] = Disown(x, inbox[d])
      /\ \A d \in Conns : link'[d] = "open" => outbox'[d] = Without(x, outbox[d])
  BY <1>0, <1>1, <1>2 DEF PageTypes
<1>10. PageFrame
  <2>1. \A y \in Tasks : task'[y] = task[y] \/ task'[y].at \notin Requests \/ task'[y].failed = TRUE
    BY <1>7, <1>8 DEF Requests
  <2>2. CallsFrame
    BY <1>0, <1>9, <2>1, QuietFrame
  <2>3. LinksFrame
    BY <1>8, <1>9 DEF LinksFrame, OutFollows
  <2>4. DaemonFrame
    <3>1. ASSUME NEW d \in Conns, handling'[d] # None
          PROVE  /\ handling[d] # None /\ handling'[d].key = handling[d].key
                 /\ handling'[d].session = handling[d].session
      <4>1. handling[d] # None => handling[d] \in Calls
        BY <1>0 DEF DaemonTypes, HeldCalls, OrNone
      <4>2. \/ handling'[d] = handling[d]
            \/ handling[d] # None /\ handling'[d] = [handling[d] EXCEPT !.from = None]
        BY <1>0, <1>1, <1>2 DEF DaemonTypes
      <4>3. QED BY <3>1, <4>1, <4>2 DEF Calls
    <3>2. QED BY <1>1, <3>1 DEF DaemonFrame
  <2>5. QED BY <2>2, <2>3, <2>4 DEF PageFrame
<1>11. SessionFrame
  <2>1. Used(panel.session) /\ \A y \in Tasks : Used(task[y].session)
    BY <1>0 DEF StoreInv, Used
  <2>2. \A y \in Tasks : \/ task'[y] = task[y]
                         \/ task'[y].session = panel.session /\ task'[y].at = "connecting"
                         \/ task'[y].session = task[y].session /\ task'[y].failed = TRUE
    BY <1>7, <1>8
  <2>3. QED BY <1>8, <2>1, <2>2 DEF SessionFrame
<1>12. ASSUME crossed' = FALSE PROVE ChatInv' /\ TurnInv'
  <2>1. ChatInv /\ TurnInv
    BY <1>0, <1>1, <1>12 DEF WatchInv
  <2>2. CASE loses
    <3>1. \A d \in Conns : link'[d] # "open"
      BY <1>8, <2>1, <2>2 DEF ChatInv
    <3>2. panel'.activeTurn # None => panel'.session # None /\ panel'.recovering = TRUE
      BY <1>8, <2>1, <2>2 DEF ChatInv
    <3>3. QED BY <1>0, <1>8, <2>2, <3>1, <3>2, ChatClosed
  <2>3. CASE ~loses
    <3>1. panel' = panel /\ link' = link /\ panel.current \in OrNone(Conns)
      BY <1>0, <1>8, <2>3 DEF PageTypes, Panels
    <3>2. \A d \in Conns : Watched(d)' = Watched(d)
      BY <1>10, PageKept
    <3>3. task'["ask"] = task["ask"] \/ ~Live("ask")'
      BY <1>7, <1>8, Names DEF Live, Requests
    <3>4. Live("ask")' => Live("ask") /\ task'["ask"] = task["ask"]
      BY <1>10, <3>3, PageKept, Names
    <3>5. ChatInv'
      BY <1>1, <2>1, <3>1, <3>4, ChatSame DEF OrNone
    <3>6. ASSUME NEW d \in Conns, link[d] = "open", NEW k, EndsAfter(outbox[d], 0, k)
          PROVE  EndsAfter(outbox'[d], 0, k)
      <4>1. outbox'[d] = Without(x, outbox[d]) /\ outbox[d] \in Seq(OutMessages)
        BY <1>0, <1>9, <3>1, <3>6 DEF OutTypes
      <4>2. \A i \in 1 .. Len(outbox[d]) : outbox[d][i].to = x => outbox[d][i].says # "ended"
        BY <1>0, <3>6, NoTaskEnds
      <4>3. QED BY <3>6, <4>1, <4>2, WithoutEnds
    <3>7. TurnInv'
      BY <2>1, <3>1, <3>2, <3>6, TurnSame
    <3>8. QED BY <3>5, <3>7
  <2>4. QED BY <2>2, <2>3
<1>13. QED BY <1>10, <1>11, <1>12, PageWatch

-----------------------------------------------------------------------------
\* A client is used, and one is reached.

AskSends(r, p) ==
    \E s \in TaskStates, at \in Requests :
        /\ s.conn = r.conn /\ Sends("ask", s, at)
        /\ \/ at = "creating" /\ p.session = None /\ s.session = r.session
           \/ at = "subscribing" /\ p.session # None /\ s.session = p.session
           \/ /\ at \in {"sending", "attaching"}
              /\ p.session # None /\ p.subscribed = TRUE /\ s.session = p.session

LEMMA AskUses ==
    ASSUME PageTypes, NEW r \in TaskStates, r.conn \in Conns, NEW p \in Panels, UseClient("ask", r, p),
           r.retry => r.key # None
    PROVE  panel' = p /\ AskSends(r, p)
<1>0. {"subscribing", "creating", "sending", "attaching"} \subseteq Requests /\ "ask" \in Tasks
  BY Names DEF Requests
<1>1. p.session \in OrNone(Sessions) /\ p.subscribed \in BOOLEAN
  BY DEF Panels
<1> DEFINE s == [r EXCEPT !.session = p.session]
<1>2. s \in TaskStates /\ s.conn = r.conn /\ s.key = r.key /\ s.session = p.session
  BY <1>1 DEF TaskStates
<1>3. /\ panel' = p
      /\ \/ p.session = None /\ Request("ask", r, "creating")
         \/ p.session # None /\ Request("ask", s, "subscribing")
         \/ /\ p.session # None /\ p.subscribed
            /\ Request("ask", s, IF r.retry THEN "sending" ELSE "attaching")
  BY DEF UseClient, EnsureActiveSession
<1> HIDE DEF s
<1>4. CASE p.session = None /\ Request("ask", r, "creating")
  <2>1. Sends("ask", r, "creating")
    BY <1>0, <1>4, Requested
  <2>2. QED BY <1>0, <1>3, <1>4, <2>1 DEF AskSends
<1>5. CASE p.session # None /\ Request("ask", s, "subscribing")
  <2>1. Sends("ask", s, "subscribing")
    BY <1>0, <1>2, <1>5, Requested
  <2>2. QED BY <1>0, <1>2, <1>3, <1>5, <2>1 DEF AskSends
<1>6. CASE /\ p.session # None /\ p.subscribed
           /\ Request("ask", s, IF r.retry THEN "sending" ELSE "attaching")
  <2> DEFINE at == IF r.retry THEN "sending" ELSE "attaching"
  <2>1. at \in Requests /\ at \in {"sending", "attaching"} /\ (at = "sending" => s.key # None)
    BY <1>0, <1>2
  <2> HIDE DEF at
  <2>2. Request("ask", s, at)
    BY <1>6 DEF at
  <2>3. Sends("ask", s, at)
    BY <1>0, <1>2, <2>1, <2>2, Requested
  <2>4. QED BY <1>1, <1>2, <1>3, <1>6, <2>1, <2>3 DEF AskSends
<1>7. QED BY <1>3, <1>4, <1>5, <1>6

LEMMA ReachWatch ==
    ASSUME IInv, IInv', WInv, Settled, task["ask"].at \in {"scope", "capturing"}, NEW p \in Panels,
           p.current = panel.current, p.session = panel.session, p.subscribed = panel.subscribed,
           p.activeTurn = panel.activeTurn, p.recovering = panel.recovering,
           Reach("ask", task["ask"], p), ReachStep
    PROVE  WInv'
<1> DEFINE a == task["ask"]
<1>0. /\ Types /\ PageTypes /\ OutTypes /\ TasksInv /\ LinksInv /\ CallInv /\ CallersInv /\ WatchInv
      /\ StoreInv /\ TasksInv'
  BY DEF IInv, Types, WInv
<1>1. "ask" \in Tasks /\ a \in TaskStates /\ a.failed = FALSE /\ (a.retry => a.key # None)
  <2>1. "ask" \in Tasks /\ a \in TaskStates
    BY <1>0, Names DEF PageTypes
  <2>2. AskOK(a) /\ a.at # "idle"
    BY <1>0 DEF TasksInv
  <2>3. a.failed = FALSE
    BY <2>1 DEF Settled, TaskStates
  <2>4. QED BY <2>1, <2>2, <2>3 DEF AskOK
<1>2. /\ crossed \in BOOLEAN /\ panel.subscribed \in BOOLEAN
      /\ panel.current = None \/ (panel.current \in Conns /\ link[panel.current] \in {"open", "stalled"})
  BY <1>0 DEF PageTypes, LinksInv, Panels, OrNone
<1>3. /\ UNCHANGED <<handling, subs, store, fate, question, told>>
      /\ crossed' = FALSE =>
            /\ crossed = FALSE
            /\ link' # link /\ panel.current # None => panel.subscribed = FALSE /\ panel.activeTurn = None
  BY <1>2 DEF ReachStep, daemonVars
<1>4. DaemonFrame
  BY <1>3 DEF DaemonFrame
<1>5. Used(panel.session) /\ Used(a.session) /\ Used(None)
  BY <1>0, <1>1 DEF StoreInv, Used
<1>6. CASE Matches(p)
  <2> DEFINE r == [a EXCEPT !.conn = p.current]
  <2>1. UseClient("ask", r, p) /\ link' = link /\ outbox' = outbox
    BY <1>6 DEF Reach
  <2>2. p.current \in Conns /\ link[p.current] = "open"
    BY <1>2, <1>6 DEF Matches
  <2>3. r \in TaskStates /\ r.conn = p.current /\ (r.retry => r.key # None) /\ r.session = a.session
    BY <1>1, <2>2 DEF TaskStates, OrNone
  <2> HIDE DEF r, a
  <2>4. panel' = p /\ AskSends(r, p)
    BY <1>0, <2>1, <2>2, <2>3, AskUses
  <2>5. PICK s \in TaskStates, at \in Requests :
           /\ s.conn = r.conn /\ Sends("ask", s, at)
           /\ \/ at = "creating" /\ p.session = None /\ s.session = r.session
              \/ at = "subscribing" /\ p.session # None /\ s.session = p.session
              \/ /\ at \in {"sending", "attaching"}
                 /\ p.session # None /\ p.subscribed = TRUE /\ s.session = p.session
    BY <2>4 DEF AskSends
  <2>6. /\ task'["ask"].at = at /\ task'["ask"].session = s.session /\ task'["ask"].conn = p.current
        /\ \A y \in Tasks : y # "ask" => task'[y] = task[y]
    BY <2>3, <2>5 DEF Sends
  <2>7. PageFrame
    <3>1. CallsFrame
      BY <1>0, <1>1, <2>2, <2>3, <2>5, SendsFrame
    <3>2. LinksFrame
      BY <2>1, SameLinks DEF OutFollows
    <3>3. QED BY <1>4, <3>1, <3>2 DEF PageFrame
  <2>8. SessionFrame
    <3>1. Used(s.session)
      BY <1>5, <2>3, <2>5
    <3>2. QED BY <1>5, <2>4, <2>6, <3>1 DEF SessionFrame
  <2>9. ASSUME crossed' = FALSE PROVE ChatInv' /\ TurnInv'
    <3>1. ChatInv /\ TurnInv
      BY <1>0, <1>3, <2>9 DEF WatchInv
    <3>2. \A c \in Conns : Watched(c)' = Watched(c)
      BY <2>7, PageKept
    <3>3. ChatInv'
      <4>1. \A c \in Conns : link'[c] = "open" => panel'.current = c
        BY <2>1, <2>4, <3>1 DEF ChatInv
      <4>2. panel'.subscribed = TRUE =>
               /\ panel'.session # None /\ panel'.current # None
               /\ link'[panel'.current] = "open" => panel'.session \in subs'[panel'.current]
        BY <1>3, <2>1, <2>4, <3>1 DEF ChatInv
      <4>3. panel'.activeTurn # None => panel'.session # None
        BY <2>4, <3>1 DEF ChatInv
      <4>4. /\ at \in {"attaching", "sending", "fetching"} =>
                  s.session = panel'.session /\ s.session \in subs'[p.current]
            /\ at = "subscribing" => s.session = panel'.session
            /\ at \in {"creating", "subscribingNew"} => panel'.session = None
        BY <1>3, <2>2, <2>4, <2>5, <3>1 DEF ChatInv
      <4>5. QED BY <2>6, <4>1, <4>2, <4>3, <4>4 DEF ChatInv
    <3>4. TurnInv'
      BY <2>1, <2>4, <3>1, <3>2, TurnSame
    <3>5. QED BY <3>3, <3>4
  <2>10. QED BY <2>7, <2>8, <2>9, PageWatch
<1>7. CASE ~Matches(p)
  <2> DEFINE o == IF a.retry THEN [p EXCEPT !.subscribed = FALSE] ELSE p
  <2>1. Dial("ask", a, o, task, link) /\ HangUp
    BY <1>7 DEF Reach
  <2>2. /\ o \in Panels /\ o.current = panel.current /\ o.session = panel.session
        /\ o.activeTurn = panel.activeTurn /\ o.recovering = panel.recovering
        /\ o.subscribed = TRUE => panel.subscribed = TRUE
    BY DEF Panels
  <2> HIDE DEF o, a
  <2>3. Dials("ask", a, o, task, link)
    <3>1. task \in [Tasks -> TaskStates] /\ link \in [Conns -> Links]
      BY <1>0 DEF PageTypes
    <3>2. QED BY <1>1, <2>1, <2>2, <3>1, Dialed
  <2>4. /\ \A y \in Tasks : y # "ask" => task'[y] = task[y]
        /\ task'["ask"].at = "connecting" /\ task'["ask"].session = a.session
        /\ \A c \in Conns : \/ link'[c] = link[c] /\ c # panel.current
                            \/ link'[c] = "closed" /\ c = panel.current
                            \/ link'[c] = "connecting" /\ link[c] = "unused"
    BY <2>2, <2>3 DEF Dials
  <2>5. /\ panel'.current = None /\ panel'.session = panel.session
        /\ panel'.activeTurn = panel.activeTurn /\ panel'.recovering = panel.recovering
        /\ panel'.subscribed = TRUE => panel.subscribed = TRUE
        /\ panel'.subscribed \in BOOLEAN
    <3>1. panel' = [o EXCEPT !.current = None]
      BY <2>3 DEF Dials
    <3>2. QED BY <2>2, <3>1 DEF Panels
  <2>6. inbox' = [d \in Conns |-> IF link'[d] = "closed" THEN Orphans(inbox[d]) ELSE inbox[d]]
        /\ outbox' = [d \in Conns |-> IF link'[d] = "open" THEN outbox[d] ELSE <<>>]
    BY <2>1 DEF HangUp, Unheard
  <2>7. PageFrame
    <3>1. \A y \in Tasks : task'[y] = task[y] \/ task'[y].at \notin Requests
      BY <2>4 DEF Requests
    <3>2. CallsFrame
      BY <1>0, <2>6, <3>1, QuietFrame
    <3>3. LinksFrame
      BY <2>4, <2>6 DEF LinksFrame, OutFollows
    <3>4. QED BY <1>4, <3>2, <3>3 DEF PageFrame
  <2>8. SessionFrame
    BY <1>5, <2>4, <2>5 DEF SessionFrame
  <2>9. ASSUME crossed' = FALSE PROVE ChatInv' /\ TurnInv'
    <3>1. ChatInv /\ TurnInv
      BY <1>0, <1>3, <2>9 DEF WatchInv
    <3>2. \A c \in Conns : link'[c] # "open"
      BY <2>4, <3>1 DEF ChatInv
    <3>3. panel.current # None => panel.subscribed = FALSE /\ panel.activeTurn = None
      <4>1. panel.current # None => link' # link
        BY <1>2, <2>4
      <4>2. QED BY <1>3, <2>9, <4>1
    <3>4. panel'.subscribed = FALSE
      BY <1>2, <2>5, <3>1, <3>3 DEF ChatInv
    <3>5. ~Live("ask")'
      BY <2>4 DEF Live, Requests
    <3>6. ChatInv'
      BY <2>5, <3>1, <3>2, <3>4, <3>5 DEF ChatInv
    <3>7. CASE panel.activeTurn = None
      BY <2>5, <3>6, <3>7 DEF TurnInv
    <3>8. CASE panel.current = None
      <4>1. \A c \in Conns : link[c] # "open"
        BY <3>1, <3>8, Names DEF ChatInv
      <4>2. \A c \in Conns : link[c] = "stalled" => link'[c] = "stalled"
        BY <2>4, <3>8, Names
      <4>3. TurnInv'
        BY <2>5, <3>1, <4>1, <4>2, TurnSame
      <4>4. QED BY <3>6, <4>3
    <3>9. QED BY <3>3, <3>6, <3>7, <3>8
  <2>10. QED BY <2>7, <2>8, <2>9, PageWatch
<1>8. QED BY <1>6, <1>7

LEMMA ScopeWatch ==
    ASSUME IInv, IInv', WInv, Settled, NEW fresh \in BOOLEAN, ScopeChecked(fresh)
    PROVE  WInv'
<1> DEFINE k == task["ask"].key
<1>0. PageTypes /\ TasksInv /\ WatchInv /\ StoreInv /\ panel \in Panels
  BY DEF IInv, Types, WInv, PageTypes
<1>1. task["ask"].at = "scope" /\ ReachStep
  BY DEF ScopeChecked
<1>2. CASE fresh
  <2> DEFINE p == IF Holds(panel, k) THEN Retained(panel) ELSE panel
  <2>1. Reach("ask", task["ask"], p)
    BY <1>2 DEF ScopeChecked
  <2>2. /\ p \in Panels /\ p.current = panel.current /\ p.session = panel.session
        /\ p.subscribed = panel.subscribed /\ p.activeTurn = panel.activeTurn
        /\ p.recovering = panel.recovering
    BY <1>0, RetainedPanel
  <2> HIDE DEF p
  <2>3. QED BY <1>1, <2>1, <2>2, ReachWatch
<1>3. CASE ~fresh
  <2>1. panel' = Dropped(panel, k) /\ Finish("ask") /\ UNCHANGED <<link, inbox, outbox, sent>>
    BY <1>3 DEF ScopeChecked
  <2>2. /\ panel'.current = panel.current /\ panel'.session = panel.session
        /\ panel'.subscribed = panel.subscribed /\ panel'.activeTurn = panel.activeTurn
        /\ panel'.recovering = panel.recovering
    BY <1>0, <2>1, DroppedPanel
  <2>3. "ask" \in Tasks /\ task'["ask"] = Idle /\ \A y \in Tasks : y # "ask" => task'[y] = task[y]
    BY <1>0, <2>1, Names, FinishStep
  <2>4. Idle.at = "idle" /\ Idle.session = None
    BY DEF Idle
  <2>5. UNCHANGED <<handling, subs, store, fate, question, told>> /\ (crossed' = FALSE => crossed = FALSE)
    BY <1>0, <1>1 DEF ReachStep, daemonVars, PageTypes
  <2>6. PageFrame
    <3>1. CallsFrame
      BY <1>0, <2>1, <2>3, <2>4, QuietFrame DEF Requests
    <3>2. LinksFrame
      BY <2>1, SameLinks DEF OutFollows
    <3>3. DaemonFrame
      BY <2>5 DEF DaemonFrame
    <3>4. QED BY <3>1, <3>2, <3>3 DEF PageFrame
  <2>7. SessionFrame
    BY <1>0, <2>2, <2>3, <2>4, <2>5 DEF SessionFrame, Used, StoreInv
  <2>8. ASSUME crossed' = FALSE PROVE ChatInv' /\ TurnInv'
    <3>1. ChatInv /\ TurnInv
      BY <1>0, <2>5, <2>8 DEF WatchInv
    <3>2. ~Live("ask")'
      BY <2>3, <2>4 DEF Live, Requests
    <3>3. \A c \in Conns : Watched(c)' = Watched(c)
      BY <2>6, PageKept
    <3>4. ChatInv'
      BY <1>0, <2>1, <2>2, <2>5, <3>1, <3>2, ChatSame DEF Panels, OrNone
    <3>5. TurnInv'
      BY <2>1, <2>2, <3>1, <3>3, TurnSame
    <3>6. QED BY <3>4, <3>5
  <2>9. QED BY <2>6, <2>7, <2>8, PageWatch
<1>4. QED BY <1>2, <1>3

LEMMA CaptureWatch ==
    ASSUME IInv, IInv', WInv, Settled, NEW captured \in BOOLEAN, CaptureDone(captured)
    PROVE  WInv'
<1>0. PageTypes /\ TasksInv /\ WatchInv /\ StoreInv /\ panel \in Panels
  BY DEF IInv, Types, WInv, PageTypes
<1>1. task["ask"].at = "capturing" /\ ReachStep
  BY DEF CaptureDone
<1>2. CASE captured
  <2>1. Reach("ask", task["ask"], panel)
    BY <1>2 DEF CaptureDone
  <2>2. QED BY <1>0, <1>1, <2>1, ReachWatch
<1>3. CASE ~captured
  <2>1. Finish("ask") /\ UNCHANGED <<panel, link, inbox, outbox, sent>>
    BY <1>3 DEF CaptureDone
  <2>2. "ask" \in Tasks /\ task'["ask"] = Idle /\ \A y \in Tasks : y # "ask" => task'[y] = task[y]
    BY <1>0, <2>1, Names, FinishStep
  <2>3. Idle.at = "idle" /\ Idle.session = None
    BY DEF Idle
  <2>4. UNCHANGED <<handling, subs, store, fate, question, told>> /\ (crossed' = FALSE => crossed = FALSE)
    BY <1>0, <1>1 DEF ReachStep, daemonVars, PageTypes
  <2>5. PageFrame
    <3>1. CallsFrame
      BY <1>0, <2>1, <2>2, <2>3, QuietFrame DEF Requests
    <3>2. LinksFrame
      BY <2>1, SameLinks DEF OutFollows
    <3>3. DaemonFrame
      BY <2>4 DEF DaemonFrame
    <3>4. QED BY <3>1, <3>2, <3>3 DEF PageFrame
  <2>6. SessionFrame
    BY <1>0, <2>1, <2>2, <2>3, <2>4 DEF SessionFrame, Used, StoreInv
  <2>7. ASSUME crossed' = FALSE PROVE ChatInv' /\ TurnInv'
    <3>1. ChatInv /\ TurnInv
      BY <1>0, <2>4, <2>7 DEF WatchInv
    <3>2. ~Live("ask")'
      BY <2>2, <2>3 DEF Live, Requests
    <3>3. \A c \in Conns : Watched(c)' = Watched(c)
      BY <2>5, PageKept
    <3>4. ChatInv'
      BY <1>0, <2>1, <2>4, <3>1, <3>2, ChatSame DEF Panels, OrNone
    <3>5. TurnInv'
      BY <2>1, <3>1, <3>3, TurnSame
    <3>6. QED BY <3>4, <3>5
  <2>8. QED BY <2>5, <2>6, <2>7, PageWatch
<1>4. QED BY <1>2, <1>3

LEMMA ConnectedWatch ==
    ASSUME IInv, IInv', WInv, Settled, NEW x \in Tasks, Connected(x)
    PROVE  WInv'
<1> DEFINE d == task[x].conn
           p == [panel EXCEPT !.current = d]
<1>0. PageTypes /\ OutTypes /\ TasksInv /\ LinksInv /\ CallersInv /\ WatchInv /\ StoreInv
  BY DEF IInv, Types, WInv
<1>1. /\ task[x].at = "connecting" /\ link' = [link EXCEPT ![d] = "open"]
      /\ crossed' = (crossed \/ panel.subscribed \/ \E c \in Conns : link[c] = "open")
      /\ UseClient(x, task[x], p)
      /\ UNCHANGED <<handling, subs, store, fate, question, told, outbox>>
  BY DEF Connected, daemonVars
<1>2. task[x] \in TaskStates /\ panel \in Panels /\ crossed \in BOOLEAN /\ panel.subscribed \in BOOLEAN
  BY <1>0 DEF PageTypes, Panels
<1>3. Connecting(task[x])
  BY <1>1, <1>2 DEF Settled, Connecting, TaskStates
<1>4. d \in Conns /\ link[d] = "connecting"
  BY <1>0, <1>3 DEF TasksInv
<1>5. \A c \in Conns : link'[c] = IF c = d THEN "open" ELSE link[c]
  BY <1>0, <1>1, <1>4 DEF PageTypes
<1>6. /\ p \in Panels /\ p.current = d /\ p.session = panel.session /\ p.subscribed = panel.subscribed
      /\ p.activeTurn = panel.activeTurn /\ p.recovering = panel.recovering
  BY <1>2, <1>4 DEF Panels, OrNone
<1>7. x = "ask" => (task[x].retry => task[x].key # None)
  <2>1. x = "ask" => AskOK(task[x])
    BY <1>0 DEF TasksInv
  <2>2. QED BY <1>1, <2>1 DEF AskOK
<1>8. crossed' = FALSE =>
        crossed = FALSE /\ panel.subscribed = FALSE /\ \A c \in Conns : link[c] # "open"
  BY <1>1, <1>2
<1> HIDE DEF d, p
<1>9. /\ panel' = p
      /\ \E s \in TaskStates, at \in Requests :
            /\ s.conn = d /\ Sends(x, s, at) /\ at # "fetching"
            /\ s.session = task[x].session \/ s.session = panel.session
            /\ x = "ask" => \/ at = "creating" /\ panel.session = None
                            \/ at = "subscribing" /\ s.session = panel.session
                            \/ panel.subscribed = TRUE
  <2>1. CASE x = "ask"
    <3>1. panel' = p /\ AskSends(task[x], p)
      BY <1>0, <1>1, <1>2, <1>4, <1>6, <1>7, <2>1, AskUses DEF d
    <3>2. PICK s \in TaskStates, at \in Requests :
             /\ s.conn = d /\ Sends("ask", s, at)
             /\ \/ at = "creating" /\ p.session = None /\ s.session = task[x].session
                \/ at = "subscribing" /\ p.session # None /\ s.session = p.session
                \/ /\ at \in {"sending", "attaching"}
                   /\ p.session # None /\ p.subscribed = TRUE /\ s.session = p.session
      BY <3>1 DEF AskSends, d
    <3>3. at # "fetching" /\ (s.session = task[x].session \/ s.session = panel.session)
      BY <1>6, <3>2
    <3>4. \/ at = "creating" /\ panel.session = None
          \/ at = "subscribing" /\ s.session = panel.session
          \/ panel.subscribed = TRUE
      BY <1>6, <3>2
    <3>5. QED BY <2>1, <3>1, <3>2, <3>3, <3>4
  <2>2. CASE x # "ask"
    <3>1. panel' = p /\ Request(x, task[x], "subscribing") /\ "subscribing" \in Requests
      BY <1>1, <2>2 DEF UseClient, Requests
    <3>2. Sends(x, task[x], "subscribing")
      BY <1>0, <1>2, <1>4, <3>1, Requested DEF d
    <3>3. QED BY <1>2, <2>2, <3>1, <3>2 DEF d
  <2>3. QED BY <2>1, <2>2
<1>10. PICK s \in TaskStates, at \in Requests :
            /\ s.conn = d /\ Sends(x, s, at) /\ at # "fetching"
            /\ s.session = task[x].session \/ s.session = panel.session
            /\ x = "ask" => \/ at = "creating" /\ panel.session = None
                            \/ at = "subscribing" /\ s.session = panel.session
                            \/ panel.subscribed = TRUE
  BY <1>9
<1>11. /\ task'[x].at = at /\ task'[x].session = s.session /\ task'[x].conn = d
       /\ \A y \in Tasks : y # x => task'[y] = task[y]
  BY <1>10 DEF Sends
<1>12. PageFrame
  <2>1. CallsFrame
    BY <1>0, <1>4, <1>10, SendsFrame
  <2>2. LinksFrame
    <3>1. subs[d] = {} /\ outbox[d] = <<>>
      BY <1>0, <1>4 DEF LinksInv
    <3>2. QED BY <1>1, <1>4, <1>5, <3>1 DEF LinksFrame, OutFollows
  <2>3. DaemonFrame
    BY <1>1, <1>8 DEF DaemonFrame
  <2>4. QED BY <2>1, <2>2, <2>3 DEF PageFrame
<1>13. SessionFrame
  <2>1. Used(panel.session) /\ Used(task[x].session)
    BY <1>0 DEF StoreInv, Used
  <2>2. QED BY <1>6, <1>9, <1>10, <1>11, <2>1 DEF SessionFrame
<1>14. ASSUME crossed' = FALSE PROVE ChatInv' /\ TurnInv'
  <2>1. ChatInv /\ TurnInv
    BY <1>0, <1>8, <1>14 DEF WatchInv
  <2>2. panel.subscribed = FALSE /\ \A c \in Conns : link[c] # "open"
    BY <1>8, <1>14
  <2>3. \A c \in Conns : link'[c] = "open" => panel'.current = c
    BY <1>5, <1>6, <1>9, <2>2
  <2>4. panel'.subscribed = FALSE /\ panel'.session = panel.session /\ panel'.activeTurn = panel.activeTurn
        /\ panel'.recovering = panel.recovering
    BY <1>6, <1>9, <2>2
  <2>5. CASE x = "ask"
    <3>1. \/ task'["ask"].at = "creating" /\ panel'.session = None
          \/ task'["ask"].at = "subscribing" /\ task'["ask"].session = panel'.session
      BY <1>10, <1>11, <2>2, <2>4, <2>5
    <3>2. ChatInv'
      BY <2>1, <2>3, <2>4, <3>1 DEF ChatInv
    <3>3. QED BY <1>1, <1>5, <1>4, <2>1, <2>2, <2>4, <3>2, TurnSame
  <2>6. CASE x # "ask"
    <3>1. ~Live("ask")'
      <4>1. task'["ask"] = task["ask"]
        BY <1>11, <2>6, Names
      <4>2. Live("ask")' => Live("ask")
        BY <1>12, <4>1, PageKept, Names
      <4>3. task["ask"].at \in Requests => task["ask"].conn \in Conns
        BY <1>0, Names DEF TasksInv, TaskOK
      <4>4. QED BY <2>2, <4>2, <4>3 DEF Live
    <3>2. ChatInv'
      BY <2>1, <2>3, <2>4, <3>1 DEF ChatInv
    <3>3. QED BY <1>1, <1>5, <1>4, <2>1, <2>2, <2>4, <3>2, TurnSame
  <2>7. QED BY <2>5, <2>6
<1>15. QED BY <1>12, <1>13, <1>14, PageWatch

-----------------------------------------------------------------------------
\* A message is received: x is the task that it answers, over connection c.

Heard(c, x, m) ==
    /\ link[c] = "open" /\ link' = link
    /\ UNCHANGED <<handling, subs, store, fate, crossed>>
    /\ \A d \in Conns : OutFollows(d)
    /\ Waiting(c, task[x]) /\ Fits(m, task[x]) /\ Holding(c, m, task[x])
    /\ crossed = FALSE =>
          /\ \A d \in Conns : link[d] = "open" =>
                \A k : EndsAfter(outbox[d], 0, k) => EndsAfter(outbox'[d], 0, k)
          /\ \A k \in Keys : Announces(m, k) => k \in Watched(c) \/ EndsAfter(outbox'[c], 0, k)

LEMMA FinishHeard ==
    ASSUME PageTypes, StoreInv, NEW c \in Conns, NEW x \in Tasks, NEW m, Heard(c, x, m),
           Finish(x), inbox' = inbox, question' = question, Used(panel'.session)
    PROVE  /\ PageFrame /\ SessionFrame /\ task'[x].at = "idle"
           /\ \A y \in Tasks : y # x => task'[y] = task[y]
<1>1. task'[x] = Idle /\ \A y \in Tasks : y # x => task'[y] = task[y]
  BY FinishStep
<1>2. Idle.at = "idle" /\ Idle.session = None
  BY DEF Idle
<1>3. CallsFrame
  BY <1>1, <1>2, QuietFrame DEF Requests
<1>4. LinksFrame
  BY SameLinks DEF Heard
<1>5. DaemonFrame
  BY DEF DaemonFrame, Heard
<1>6. SessionFrame
  BY <1>1, <1>2 DEF SessionFrame, Used
<1>7. QED BY <1>1, <1>2, <1>3, <1>4, <1>5, <1>6 DEF PageFrame

LEMMA SendHeard ==
    ASSUME PageTypes, StoreInv, NEW c \in Conns, NEW x \in Tasks, NEW m, Heard(c, x, m),
           NEW s \in TaskStates, s.conn = c, NEW at \in Requests, Sends(x, s, at),
           \A k \in Keys : Asked(k) => question'[k] = question[k],
           Used(panel'.session), Used(s.session),
           x # "ask" /\ at = "fetching" => s.session \in subs[c]
    PROVE  /\ PageFrame /\ SessionFrame
           /\ task'[x].at = at /\ task'[x].session = s.session /\ task'[x].conn = c
           /\ \A y \in Tasks : y # x => task'[y] = task[y]
<1>1. task'[x].at = at /\ task'[x].session = s.session /\ task'[x].conn = c
      /\ \A y \in Tasks : y # x => task'[y] = task[y]
  BY DEF Sends
<1>2. CallsFrame
  BY SendsFrame
<1>3. LinksFrame
  BY SameLinks DEF Heard
<1>4. DaemonFrame
  BY DEF DaemonFrame, Heard
<1>5. SessionFrame
  BY <1>1 DEF SessionFrame, Heard
<1>6. QED BY <1>1, <1>2, <1>3, <1>4, <1>5 DEF PageFrame

\* The turn that was shown, or none; and one that the message announces.
LEMMA TurnHeard ==
    ASSUME IInv, IInv', WInv, NEW c \in Conns, NEW x \in Tasks, NEW m, Heard(c, x, m), PageFrame,
           crossed = FALSE, TurnInv,
           \/ panel'.activeTurn = None
           \/ panel'.activeTurn = panel.activeTurn /\ panel'.recovering = panel.recovering
           \/ panel'.activeTurn \in Keys /\ Announces(m, panel'.activeTurn)
    PROVE  TurnInv'
<1>1. \A d \in Conns : Watched(d)' = Watched(d)
  BY PageKept
<1>2. CASE \/ panel'.activeTurn = None
           \/ panel'.activeTurn = panel.activeTurn /\ panel'.recovering = panel.recovering
  BY <1>1, <1>2, TurnSame DEF Heard
<1>3. CASE panel'.activeTurn \in Keys /\ Announces(m, panel'.activeTurn)
  <2>1. link'[c] = "open" /\ (\/ panel'.activeTurn \in Watched(c)'
                              \/ EndsAfter(outbox'[c], 0, panel'.activeTurn))
    BY <1>1, <1>3 DEF Heard
  <2>2. QED BY <2>1 DEF TurnInv, Ending
<1>4. QED BY <1>2, <1>3

LEMMA ChatHeard ==
    ASSUME IInv, IInv', WInv, NEW c \in Conns, NEW x \in Tasks, NEW m, Heard(c, x, m), PageFrame,
           ChatInv, panel'.session = panel.session,
           panel'.current = panel.current, panel'.subscribed = panel.subscribed,
           panel'.activeTurn = None \/ panel'.activeTurn = panel.activeTurn \/ panel.session # None,
           \/ x = "ask" /\ task'["ask"].at = "idle"
           \/ x # "ask" /\ task'["ask"] = task["ask"]
    PROVE  ChatInv'
<1>1. Live("ask")' => Live("ask") /\ task'["ask"] = task["ask"]
  <2>1. CASE task'["ask"].at = "idle"
    BY <2>1 DEF Live, Requests
  <2>2. CASE task'["ask"] = task["ask"]
    BY <2>2, PageKept, Names
  <2>3. QED BY <2>1, <2>2
<1>2. panel.current # None => panel.current \in Conns
  BY DEF IInv, Types, PageTypes, Panels, OrNone
<1>3. QED BY <1>1, <1>2, ChatSame DEF Heard

LEMMA GoneWatch ==
    ASSUME IInv, IInv', WInv, NEW c \in Conns, NEW x \in Tasks, NEW m, Heard(c, x, m),
           m.says = "not_found", x # "ask" \/ task[x].at = "subscribing",
           SessionGone(x, task[x]), question' = question
    PROVE  WInv'
<1> DEFINE r == task[x]
<1>0. /\ PageTypes /\ TasksInv /\ WatchInv /\ StoreInv /\ panel \in Panels /\ r \in TaskStates
  BY DEF IInv, Types, WInv, PageTypes
<1>1. r.conn = c /\ r.at \in Requests /\ r.failed = FALSE /\ store[r.session] = "forgotten"
  BY DEF Heard, Waiting, Holding
<1>2. Used(panel.session) /\ Used(r.session) /\ Used(None)
  BY <1>0 DEF StoreInv, Used
<1>3. LET q == Cleared(panel) IN
      /\ q.current = panel.current /\ q.session = None /\ q.activeTurn = None /\ q.subscribed = FALSE
  BY <1>0, ClearedPanel
<1>4. CASE x # "ask"
  <2>1. RecoveryFails(x, "not_found") /\ Finish(x) /\ UNCHANGED <<inbox, sent>>
    BY <1>4 DEF SessionGone
  <2>2. panel' = panel \/ (panel' = Cleared(panel) /\ panel.session = r.session)
    BY <2>1 DEF RecoveryFails, GuardHolds
  <2>3. Used(panel'.session)
    BY <1>2, <1>3, <2>2
  <2>4. /\ PageFrame /\ SessionFrame /\ task'["ask"] = task["ask"]
    BY <1>0, <1>4, <2>1, <2>3, FinishHeard, Names
  <2>5. ASSUME crossed' = FALSE PROVE ChatInv' /\ TurnInv'
    <3>1. ChatInv /\ TurnInv /\ crossed = FALSE
      BY <1>0, <2>5 DEF WatchInv, Heard
    <3>2. CASE panel' = panel
      BY <1>4, <2>4, <3>1, <3>2, TurnHeard, ChatHeard
    <3>3. CASE panel' = Cleared(panel) /\ panel.session = r.session
      <4>1. TurnInv'
        BY <1>3, <2>4, <3>1, <3>3, TurnHeard
      <4>2. \A d \in Conns : link'[d] = "open" => panel'.current = d
        BY <1>3, <3>1, <3>3 DEF ChatInv, Heard
      <4>3. ASSUME Live("ask")'
            PROVE  /\ task["ask"].at \notin {"attaching", "sending", "fetching"}
                   /\ task["ask"].at = "subscribing" => store[task["ask"].session] = "forgotten"
        <5>1. Live("ask") /\ "ask" \in Tasks
          BY <2>4, <4>3, PageKept, Names
        <5>2. task["ask"].conn \in Conns /\ link[task["ask"].conn] = "open"
          BY <1>0, <5>1 DEF Live, TasksInv, TaskOK
        <5>3. ~(task["ask"].session = r.session /\ task["ask"].session \in subs[task["ask"].conn])
          BY <1>0, <1>1, <5>2 DEF StoreInv
        <5>4. QED BY <1>1, <3>1, <3>3, <5>1, <5>3 DEF ChatInv
      <4>4. UNCHANGED <<subs, store>>
        BY DEF Heard
      <4>5. ChatInv'
        BY <1>3, <2>4, <3>3, <4>2, <4>3, <4>4 DEF ChatInv
      <4>6. QED BY <4>1, <4>5
    <3>4. QED BY <2>2, <3>2, <3>3
  <2>6. QED BY <2>4, <2>5, PageWatch
<1>5. CASE x = "ask"
  <2>1. panel' = Cleared(panel)
    BY <1>5 DEF SessionGone
  <2>2. Used(panel'.session)
    BY <1>2, <1>3, <2>1
  <2>3. /\ PageFrame /\ SessionFrame
        /\ task'["ask"].at \in {"idle", "creating"}
    <3>1. CASE r.retry
      <4>1. Finish(x) /\ UNCHANGED <<inbox, sent>>
        BY <1>5, <3>1 DEF SessionGone
      <4>2. QED BY <1>0, <1>5, <2>2, <4>1, FinishHeard
    <3>2. CASE ~r.retry
      <4>1. Request(x, r, "creating") /\ "creating" \in Requests
        BY <1>5, <3>2 DEF SessionGone, Requests
      <4>2. Sends(x, r, "creating")
        BY <1>0, <1>1, <4>1, Requested
      <4>3. QED BY <1>0, <1>1, <1>2, <1>5, <2>2, <4>1, <4>2, SendHeard
    <3>3. QED BY <3>1, <3>2
  <2>4. ASSUME crossed' = FALSE PROVE ChatInv' /\ TurnInv'
    <3>1. ChatInv /\ TurnInv /\ crossed = FALSE
      BY <1>0, <2>4 DEF WatchInv, Heard
    <3>2. TurnInv'
      BY <1>3, <2>1, <2>3, <3>1, TurnHeard
    <3>3. \A d \in Conns : link'[d] = "open" => panel'.current = d
      BY <1>3, <2>1, <3>1 DEF ChatInv, Heard
    <3>4. task'["ask"].at \in {"idle", "creating"} /\ panel'.session = None /\ panel'.subscribed = FALSE
          /\ panel'.activeTurn = None
      BY <1>3, <2>1, <2>3
    <3>5. ChatInv'
      BY <3>3, <3>4 DEF ChatInv, Live, Requests
    <3>6. QED BY <3>2, <3>5
  <2>5. QED BY <2>3, <2>4, PageWatch
<1>6. QED BY <1>4, <1>5

\* The ask that is answered is of the chat.
LEMMA HeardAsk ==
    ASSUME ChatInv, NEW c \in Conns, NEW m, Heard(c, "ask", m)
    PROVE  LET ask == task["ask"] IN
           /\ ask.conn = c /\ panel.current = c
           /\ ask.at \in {"attaching", "sending", "fetching"} =>
                 ask.session = panel.session /\ ask.session \in subs[c]
           /\ ask.at = "subscribing" =>
                 ask.session = panel.session \/ store[ask.session] = "forgotten"
           /\ ask.at \in {"creating", "subscribingNew"} => panel.session = None
<1>1. Live("ask") /\ task["ask"].conn = c /\ link[c] = "open"
  BY DEF Heard, Waiting, Live
<1>2. QED BY <1>1 DEF ChatInv

\* The ask goes on in the chat, over the current connection.
LEMMA ChatAsks ==
    ASSUME ChatInv, NEW c \in Conns, NEW m, Heard(c, "ask", m),
           panel'.current = panel.current, panel'.session # None,
           panel'.session \in subs[c],
           task'["ask"].at \in {"attaching", "sending", "fetching"},
           task'["ask"].conn = c, task'["ask"].session = panel'.session
    PROVE  ChatInv'
<1>1. panel.current = c /\ link' = link /\ subs' = subs /\ store' = store
  BY HeardAsk DEF Heard
<1>2. \A d \in Conns : link'[d] = "open" => panel'.current = d
  BY <1>1 DEF ChatInv
<1>3. c # None
  BY Names
<1>4. QED BY <1>1, <1>2, <1>3 DEF ChatInv

LEMMA SendAnsweredWatch ==
    ASSUME IInv, IInv', WInv, NEW c \in Conns, NEW m, Heard(c, "ask", m), task["ask"].at = "sending",
           SendAnswered(task["ask"], m.says), question' = question
    PROVE  WInv'
<1> DEFINE r == task["ask"]
<1>0. /\ PageTypes /\ TasksInv /\ WatchInv /\ StoreInv /\ panel \in Panels /\ r \in TaskStates
      /\ "ask" \in Tasks
  BY Names DEF IInv, Types, WInv, PageTypes
<1>1. r.conn = c /\ m.key = r.key
  BY DEF Heard, Waiting, Fits
<1>2. r.key \in Keys /\ r.session \in Sessions /\ r.session # None
  <2>1. AskOK(r) /\ TaskOK("ask", r)
    BY <1>0 DEF TasksInv
  <2>2. QED BY <1>0, <2>1 DEF AskOK, TaskOK, Requests, TaskStates, OrNone
<1>3. Used(panel.session) /\ Used(r.session)
  BY <1>0 DEF StoreInv, Used
<1>4. ASSUME Finish("ask"), UNCHANGED <<inbox, sent>>,
             panel'.session = panel.session, panel'.current = panel.current,
             panel'.subscribed = panel.subscribed, panel'.recovering = panel.recovering,
             \/ panel'.activeTurn = panel.activeTurn
             \/ m.says = "accepted" /\ panel'.activeTurn = r.key
      PROVE  WInv'
  <2>1. PageFrame /\ SessionFrame /\ task'["ask"].at = "idle"
    BY <1>0, <1>3, <1>4, FinishHeard
  <2>2. ASSUME crossed' = FALSE PROVE ChatInv' /\ TurnInv'
    <3>1. ChatInv /\ TurnInv /\ crossed = FALSE
      BY <1>0, <2>2 DEF WatchInv, Heard
    <3>2. panel.session # None
      BY <1>2, <3>1, HeardAsk
    <3>3. ChatInv'
      BY <1>0, <1>4, <2>1, <3>1, <3>2, ChatHeard
    <3>4. m.says = "accepted" /\ panel'.activeTurn = r.key => panel'.activeTurn \in Keys /\ Announces(m, panel'.activeTurn)
      BY <1>1, <1>2 DEF Announces
    <3>5. TurnInv'
      BY <1>0, <1>4, <2>1, <3>1, <3>4, TurnHeard
    <3>6. QED BY <3>3, <3>5
  <2>3. QED BY <2>1, <2>2, PageWatch
<1>5. CASE m.says = "accepted"
  <2>1. panel' = [Dropped(panel, r.key) EXCEPT !.activeTurn = r.key] /\ Finish("ask")
        /\ UNCHANGED <<inbox, sent>>
    BY <1>5 DEF SendAnswered
  <2>2. LET q == Dropped(panel, r.key) IN
        /\ q \in Panels /\ q.current = panel.current /\ q.session = panel.session
        /\ q.subscribed = panel.subscribed /\ q.recovering = panel.recovering
    BY <1>0, DroppedPanel
  <2>3. /\ panel'.current = panel.current /\ panel'.session = panel.session
        /\ panel'.subscribed = panel.subscribed /\ panel'.recovering = panel.recovering
        /\ panel'.activeTurn = r.key
    BY <2>1, <2>2 DEF Panels
  <2>4. QED BY <1>4, <1>5, <2>1, <2>3
<1>6. CASE m.says = "reused"
  <2> DEFINE s == [r EXCEPT !.gen = panel.gen]
  <2>1. panel' = Known(panel, r.key) /\ Request("ask", s, "fetching") /\ "fetching" \in Requests
    BY <1>6 DEF SendAnswered, Requests
  <2>2. s \in TaskStates /\ s.conn = r.conn /\ s.session = r.session
    BY <1>0 DEF TaskStates, Panels
  <2> HIDE DEF s
  <2>3. Sends("ask", s, "fetching")
    BY <1>0, <1>1, <2>1, <2>2, Requested
  <2>4. /\ panel'.current = panel.current /\ panel'.session = panel.session
        /\ panel'.activeTurn = panel.activeTurn /\ panel'.recovering = panel.recovering
    BY <1>0, <1>2, <2>1, KnownPanel
  <2>5. /\ PageFrame /\ SessionFrame /\ task'["ask"].at = "fetching"
        /\ task'["ask"].session = r.session /\ task'["ask"].conn = c
    BY <1>0, <1>1, <1>3, <2>1, <2>2, <2>3, <2>4, SendHeard
  <2>6. ASSUME crossed' = FALSE PROVE ChatInv' /\ TurnInv'
    <3>1. ChatInv /\ TurnInv /\ crossed = FALSE
      BY <1>0, <2>6 DEF WatchInv, Heard
    <3>2. r.session = panel.session /\ r.session \in subs[c]
      BY <3>1, HeardAsk
    <3>3. ChatInv'
      BY <1>2, <2>4, <2>5, <3>1, <3>2, ChatAsks
    <3>4. TurnInv'
      BY <1>0, <2>4, <2>5, <3>1, TurnHeard
    <3>5. QED BY <3>3, <3>4
  <2>7. QED BY <2>5, <2>6, PageWatch
<1>7. CASE m.says = "terminal"
  <2>1. panel' = Dropped(panel, r.key) /\ Finish("ask") /\ UNCHANGED <<inbox, sent>>
    BY <1>7 DEF SendAnswered
  <2>2. QED BY <1>0, <1>4, <2>1, DroppedPanel
<1>8. CASE m.says \notin {"accepted", "reused", "terminal"}
  <2>1. panel' = Caught(panel, r.key) /\ Finish("ask") /\ UNCHANGED <<inbox, sent>>
    BY <1>8 DEF SendAnswered
  <2>2. QED BY <1>0, <1>4, <2>1, CaughtPanel
<1>9. QED BY <1>5, <1>6, <1>7, <1>8

LEMMA CreatedWatch ==
    ASSUME IInv, IInv', WInv, NEW c \in Conns, NEW x \in Tasks, NEW m, Heard(c, x, m), m.says = "ok",
           task[x].at = "creating", Request(x, [task[x] EXCEPT !.session = m.session], "subscribingNew"),
           UNCHANGED <<panel, question>>
    PROVE  WInv'
<1> DEFINE r == task[x]
           s == [r EXCEPT !.session = m.session]
<1>0. PageTypes /\ TasksInv /\ WatchInv /\ StoreInv /\ r \in TaskStates
  BY DEF IInv, Types, WInv, PageTypes
<1>1. r.conn = c /\ m.session \in Sessions /\ store[m.session] # "unused"
  BY DEF Heard, Waiting, Fits, Holding
<1>2. x = "ask"
  BY <1>0 DEF TasksInv, TaskOK
<1>3. s \in TaskStates /\ s.conn = c /\ s.session = m.session
  BY <1>0, <1>1 DEF TaskStates, OrNone
<1>4. Request(x, s, "subscribingNew") /\ "subscribingNew" \in Requests
  BY DEF Requests
<1> HIDE DEF s
<1>5. Sends(x, s, "subscribingNew")
  BY <1>0, <1>3, <1>4, Requested
<1>6. Used(panel'.session) /\ Used(s.session)
  BY <1>0, <1>1, <1>3 DEF StoreInv, Used
<1>7. /\ PageFrame /\ SessionFrame /\ task'["ask"].at = "subscribingNew"
  BY <1>0, <1>2, <1>3, <1>4, <1>5, <1>6, SendHeard
<1>8. ASSUME crossed' = FALSE PROVE ChatInv' /\ TurnInv'
  <2>1. ChatInv /\ TurnInv /\ crossed = FALSE
    BY <1>0, <1>8 DEF WatchInv, Heard
  <2>2. panel.session = None
    BY <1>2, <2>1, HeardAsk
  <2>3. ChatInv'
    BY <1>7, <2>1, <2>2 DEF ChatInv, Heard
  <2>4. TurnInv'
    BY <1>2, <1>7, <2>1, TurnHeard
  <2>5. QED BY <2>3, <2>4
<1>9. QED BY <1>7, <1>8, PageWatch

LEMMA AttachedWatch ==
    ASSUME IInv, IInv', WInv, NEW c \in Conns, NEW m, Heard(c, "ask", m), task["ask"].at = "attaching",
           Attached(task["ask"])
    PROVE  WInv'
<1> DEFINE r == task["ask"]
           k == CHOOSE k \in Keys : question[k].text = None
           n == [r EXCEPT !.key = k]
           q == [key |-> k, session |-> r.session, retain |-> FALSE, known |-> None]
<1>0. /\ PageTypes /\ QuestionTypes /\ TasksInv /\ KeyInv /\ WatchInv /\ StoreInv
      /\ "ask" \in Tasks /\ r \in TaskStates /\ panel \in Panels /\ "sending" \in Requests
  BY Names DEF IInv, Types, WInv, PageTypes, Requests
<1>1. r.conn = c
  BY DEF Heard, Waiting
<1>2. r.key = None /\ r.session \in Sessions
  <2>1. AskOK(r) /\ TaskOK("ask", r)
    BY <1>0 DEF TasksInv
  <2>2. r.retry \in BOOLEAN
    BY <1>0 DEF TaskStates
  <2>3. QED BY <2>1, <2>2 DEF AskOK, TaskOK, Requests
<1>3. k \in Keys /\ question[k].text = None /\ k # None
  BY <1>0, <1>2 DEF KeyInv, Asked
<1>4. /\ question' = [question EXCEPT ![k].text = r.text, ![k].session = r.session]
      /\ panel' = [panel EXCEPT !.pending = q]
      /\ Request("ask", n, "sending")
  BY DEF Attached
<1>5. n \in TaskStates /\ n.key = k /\ n.conn = c /\ n.session = r.session
  BY <1>0, <1>1, <1>3 DEF TaskStates, OrNone
<1> HIDE DEF k, n, q
<1>6. Sends("ask", n, "sending")
  BY <1>0, <1>3, <1>4, <1>5, Requested
<1>7. /\ panel'.session = panel.session /\ panel'.current = panel.current
      /\ panel'.activeTurn = panel.activeTurn /\ panel'.recovering = panel.recovering
  BY <1>0, <1>4 DEF Panels
<1>8. \A l \in Keys : Asked(l) => question'[l] = question[l]
  <2>1. \A l \in Keys : l # k => question'[l] = question[l]
    BY <1>0, <1>3, <1>4 DEF QuestionTypes
  <2>2. QED BY <1>3, <2>1 DEF Asked
<1>9. Used(panel'.session) /\ Used(n.session)
  BY <1>0, <1>5, <1>7 DEF StoreInv, Used
<1>10. /\ PageFrame /\ SessionFrame /\ task'["ask"].at = "sending"
       /\ task'["ask"].session = r.session /\ task'["ask"].conn = c
  BY <1>0, <1>5, <1>6, <1>8, <1>9, SendHeard
<1>11. ASSUME crossed' = FALSE PROVE ChatInv' /\ TurnInv'
  <2>1. ChatInv /\ TurnInv /\ crossed = FALSE
    BY <1>0, <1>11 DEF WatchInv, Heard
  <2>2. r.session = panel.session /\ r.session \in subs[c]
    BY <2>1, HeardAsk
  <2>3. r.session # None
    BY <1>2
  <2>4. ChatInv'
    BY <1>7, <1>10, <2>1, <2>2, <2>3, ChatAsks
  <2>5. TurnInv'
    BY <1>0, <1>7, <1>10, <2>1, TurnHeard
  <2>6. QED BY <2>4, <2>5
<1>12. QED BY <1>10, <1>11, PageWatch

LEMMA SubscribedWatch ==
    ASSUME IInv, IInv', WInv, NEW c \in Conns, NEW x \in Tasks, NEW m, Heard(c, x, m), m.says = "ok",
           task[x].at \in {"subscribing", "subscribingNew"}, Subscribed(x, task[x]), question' = question
    PROVE  WInv'
<1> DEFINE r == task[x]
<1>0. /\ PageTypes /\ TasksInv /\ WatchInv /\ StoreInv /\ r \in TaskStates /\ panel \in Panels
  BY DEF IInv, Types, WInv, PageTypes
<1>1. r.conn = c /\ r.session \in subs[c] /\ store[r.session] = "known"
  BY <1>0 DEF Heard, Waiting, Holding, StoreInv
<1>2. r.session \in Sessions /\ r.session # None /\ r.retry \in BOOLEAN
  <2>1. TaskOK(x, r) /\ r.at \in Requests \ {"creating"}
    BY <1>0 DEF TasksInv, Requests
  <2>2. QED BY <1>0, <2>1 DEF TaskOK, TaskStates
<1>3. Used(panel.session) /\ Used(r.session)
  BY <1>0 DEF StoreInv, Used
<1>4. CASE x # "ask"
  <2>1. panel' = panel /\ Request(x, r, "fetching") /\ "fetching" \in Requests
    BY <1>4 DEF Subscribed, Requests
  <2>2. Sends(x, r, "fetching")
    BY <1>0, <1>1, <2>1, Requested
  <2>3. PageFrame /\ SessionFrame /\ task'["ask"] = task["ask"]
    BY <1>0, <1>1, <1>3, <1>4, <2>1, <2>2, SendHeard, Names
  <2>4. ASSUME crossed' = FALSE PROVE ChatInv' /\ TurnInv'
    <3>1. ChatInv /\ TurnInv /\ crossed = FALSE
      BY <1>0, <2>4 DEF WatchInv, Heard
    <3>2. QED BY <1>4, <2>1, <2>3, <3>1, ChatHeard, TurnHeard
  <2>5. QED BY <2>3, <2>4, PageWatch
<1>5. CASE x = "ask"
  <2> DEFINE at == IF r.retry THEN "sending" ELSE "attaching"
  <2>1. /\ panel' = IF r.at = "subscribingNew"
                    THEN [panel EXCEPT !.session = r.session, !.subscribed = TRUE]
                    ELSE [panel EXCEPT !.subscribed = (panel.session = r.session)]
        /\ Request(x, r, at)
    BY <1>5 DEF Subscribed
  <2>2. /\ panel'.current = panel.current /\ panel'.activeTurn = panel.activeTurn
        /\ panel'.recovering = panel.recovering
        /\ panel'.session = IF r.at = "subscribingNew" THEN r.session ELSE panel.session
    BY <1>0, <2>1 DEF Panels
  <2>3. at \in Requests /\ at \in {"attaching", "sending"} /\ (at = "sending" => r.key # None)
    <3>1. AskOK(r) /\ r.at # "idle"
      BY <1>0, <1>5 DEF TasksInv
    <3>2. QED BY <1>2, <3>1 DEF Requests, AskOK
  <2> HIDE DEF at
  <2>4. Sends(x, r, at)
    BY <1>0, <1>1, <2>1, <2>3, Requested
  <2>5. Used(panel'.session)
    BY <1>3, <2>2
  <2>6. PageFrame /\ SessionFrame /\ task'["ask"].at = at /\ task'["ask"].session = r.session
        /\ task'["ask"].conn = c
    BY <1>0, <1>1, <1>3, <1>5, <2>3, <2>4, <2>5, SendHeard
  <2>7. ASSUME crossed' = FALSE PROVE ChatInv' /\ TurnInv'
    <3>1. ChatInv /\ TurnInv /\ crossed = FALSE
      BY <1>0, <2>7 DEF WatchInv, Heard
    <3>2. r.at = "subscribing" => r.session = panel.session
      BY <1>1, <1>5, <3>1, HeardAsk
    <3>3. panel'.session = r.session
      BY <2>2, <3>2
    <3>4. ChatInv'
      BY <1>1, <1>2, <1>5, <2>2, <2>3, <2>6, <3>1, <3>3, ChatAsks
    <3>5. TurnInv'
      BY <2>2, <2>6, <3>1, TurnHeard
    <3>6. QED BY <3>4, <3>5
  <2>8. QED BY <2>6, <2>7, PageWatch
<1>6. QED BY <1>4, <1>5

LEMMA FetchedWatch ==
    ASSUME IInv, IInv', WInv, NEW c \in Conns, NEW x \in Tasks, NEW m, Heard(c, x, m),
           task[x].at = "fetching", m.snapshot \in [Keys -> Fates], Fetched(x, task[x], m.snapshot),
           question' = question
    PROVE  WInv'
<1> DEFINE r == task[x]
           o == [panel EXCEPT !.subscribed = TRUE]
           p == Rendered(o, m.snapshot)
<1>0. /\ PageTypes /\ TasksInv /\ WatchInv /\ StoreInv /\ FetchInv
      /\ panel \in Panels /\ m.snapshot # None
  BY DEF IInv, Types, WInv, PageTypes
<1>1. r.conn = c /\ Live(x)
  BY DEF Heard, Waiting, Live
<1>2. r.session \in Sessions /\ r.session # None
  <2>1. TaskOK(x, r) /\ r.at \in Requests \ {"creating"}
    BY <1>0 DEF TasksInv, Requests
  <2>2. QED BY <2>1 DEF TaskOK
<1>3. Finish(x) /\ UNCHANGED <<inbox, sent>>
      /\ panel' = IF ~GuardHolds(x) THEN panel
                  ELSE IF x = "ask" THEN Dropped(p, r.key) ELSE [p EXCEPT !.recovering = FALSE]
  BY DEF Fetched
<1>4. /\ o \in Panels /\ o.current = panel.current /\ o.session = panel.session /\ o.subscribed = TRUE
      /\ o.recovering = panel.recovering
  BY <1>0 DEF Panels
<1> HIDE DEF o
<1>5. /\ p \in Panels /\ p.current = panel.current /\ p.session = panel.session /\ p.subscribed = TRUE
      /\ p.activeTurn = None \/ m.snapshot[p.activeTurn] = "active"
  <2>1. /\ p \in Panels /\ p.current = o.current /\ p.session = o.session
        /\ p.subscribed = o.subscribed
        /\ p.activeTurn # None => m.snapshot[p.activeTurn] = "active"
    BY <1>4, RenderedPanel
  <2>2. QED BY <1>4, <2>1
<1> HIDE DEF p
<1>6. p.activeTurn \in OrNone(Keys)
  BY <1>5 DEF Panels
<1>7. GuardHolds(x) =>
        /\ panel'.current = panel.current /\ panel'.session = panel.session /\ panel'.subscribed = TRUE
        /\ panel'.activeTurn = None \/ (panel'.activeTurn \in Keys /\ Announces(m, panel'.activeTurn))
        /\ panel.session = r.session
  <2>1. ASSUME GuardHolds(x)
        PROVE  /\ panel'.current = p.current /\ panel'.session = p.session
               /\ panel'.subscribed = p.subscribed /\ panel'.activeTurn = p.activeTurn
    <3>1. CASE x = "ask"
      BY <1>3, <1>5, <2>1, <3>1, DroppedPanel
    <3>2. CASE x # "ask"
      BY <1>3, <1>5, <2>1, <3>2 DEF Panels
    <3>3. QED BY <3>1, <3>2
  <2>2. p.activeTurn = None \/ (p.activeTurn \in Keys /\ Announces(m, p.activeTurn))
    BY <1>0, <1>5, <1>6 DEF OrNone, Announces
  <2>3. QED BY <1>5, <2>1, <2>2 DEF GuardHolds
<1>8. Used(panel'.session)
  BY <1>0, <1>3, <1>7 DEF StoreInv, Used
<1>9. /\ PageFrame /\ SessionFrame /\ task'[x].at = "idle"
      /\ \A y \in Tasks : y # x => task'[y] = task[y]
  BY <1>0, <1>3, <1>8, FinishHeard
<1>10. x # "ask" => task'["ask"] = task["ask"]
  BY <1>9, Names
<1>11. ASSUME crossed' = FALSE PROVE ChatInv' /\ TurnInv'
  <2>1. ChatInv /\ TurnInv /\ crossed = FALSE
    BY <1>0, <1>11 DEF WatchInv, Heard
  <2>2. CASE ~GuardHolds(x)
    <3>1. panel' = panel
      BY <1>3, <2>2
    <3>2. QED BY <1>9, <1>10, <2>1, <3>1, ChatHeard, TurnHeard
  <2>3. CASE GuardHolds(x)
    <3>1. TurnInv'
      BY <1>7, <1>9, <2>1, <2>3, TurnHeard
    <3>2. panel.current = c /\ \A d \in Conns : link'[d] = "open" => panel'.current = d
      BY <1>7, <2>1, <2>3 DEF ChatInv, Heard
    <3>3. panel.session \in subs[c]
      <4>1. CASE x = "ask"
        BY <2>1, <4>1, HeardAsk
      <4>2. CASE x # "ask"
        BY <1>0, <1>1, <1>7, <2>3, <4>2 DEF FetchInv
      <4>3. QED BY <4>1, <4>2
    <3>4. c # None /\ UNCHANGED <<subs, store, link>>
      BY Names DEF Heard
    <3>5. Live("ask")' => Live("ask") /\ task'["ask"] = task["ask"]
      <4>1. CASE x = "ask"
        BY <1>9, <4>1 DEF Live, Requests
      <4>2. CASE x # "ask"
        BY <1>9, <1>10, <4>2, PageKept, Names
      <4>3. QED BY <4>1, <4>2
    <3>6. /\ panel'.subscribed = TRUE =>
                /\ panel'.session # None /\ panel'.current # None
                /\ link'[panel'.current] = "open" => panel'.session \in subs'[panel'.current]
      BY <1>2, <1>7, <2>3, <3>2, <3>3, <3>4
    <3>7. panel'.session # None
      BY <1>2, <1>7, <2>3
    <3>8. Live("ask")' =>
            LET ask == task'["ask"] IN
            /\ ask.at \in {"attaching", "sending", "fetching"} =>
                  ask.session = panel'.session /\ ask.session \in subs'[ask.conn]
            /\ ask.at = "subscribing" =>
                  ask.session = panel'.session \/ store'[ask.session] = "forgotten"
            /\ ask.at \in {"creating", "subscribingNew"} => panel'.session = None
      BY <1>7, <2>1, <2>3, <3>4, <3>5 DEF ChatInv
    <3>9. ChatInv'
      BY <3>2, <3>6, <3>7, <3>8 DEF ChatInv
    <3>10. QED BY <3>1, <3>9
  <2>4. QED BY <2>2, <2>3
<1>12. QED BY <1>9, <1>11, PageWatch

\* The task is over, and of the chat only a pending question changes.
LEMMA GivenUpWatch ==
    ASSUME IInv, IInv', WInv, NEW c \in Conns, NEW x \in Tasks, NEW m, Heard(c, x, m),
           panel' \in {panel, Caught(panel, task[x].key)}, Finish(x), UNCHANGED <<inbox, sent, question>>
    PROVE  WInv'
<1>0. /\ PageTypes /\ WatchInv /\ StoreInv /\ panel \in Panels
  BY DEF IInv, Types, WInv, PageTypes
<1>1. /\ panel'.session = panel.session /\ panel'.current = panel.current
      /\ panel'.subscribed = panel.subscribed /\ panel'.activeTurn = panel.activeTurn
      /\ panel'.recovering = panel.recovering
  <2>1. CASE panel' = panel
    BY <2>1
  <2>2. CASE panel' = Caught(panel, task[x].key)
    BY <1>0, <2>2, CaughtPanel
  <2>3. QED BY <2>1, <2>2
<1>2. Used(panel'.session)
  BY <1>0, <1>1 DEF StoreInv, Used
<1>3. /\ PageFrame /\ SessionFrame /\ task'[x].at = "idle"
      /\ \A y \in Tasks : y # x => task'[y] = task[y]
  BY <1>0, <1>2, FinishHeard
<1>4. x # "ask" => task'["ask"] = task["ask"]
  BY <1>3, Names
<1>5. ASSUME crossed' = FALSE PROVE ChatInv' /\ TurnInv'
  <2>1. ChatInv /\ TurnInv /\ crossed = FALSE
    BY <1>0, <1>5 DEF WatchInv, Heard
  <2>2. QED BY <1>1, <1>3, <1>4, <2>1, ChatHeard, TurnHeard
<1>6. QED BY <1>3, <1>5, PageWatch

LEMMA RespondWatch ==
    ASSUME IInv, IInv', WInv, NEW c \in Conns, NEW x \in Tasks, NEW m \in OutMessages, Heard(c, x, m),
           Respond(x, m)
    PROVE  WInv'
<1> DEFINE r == task[x]
<1>0. TasksInv
  BY DEF IInv
<1>1. Fits(m, r) /\ r.at \in Requests
  BY DEF Heard, Waiting
<1>2. r.at \in {"sending", "attaching"} => x = "ask"
  BY <1>0 DEF TasksInv, TaskOK
<1>3. CASE m.says = "not_found" /\ (x # "ask" \/ r.at = "subscribing")
  <2>1. SessionGone(x, r) /\ question' = question
    BY <1>3 DEF Respond
  <2>2. QED BY <1>3, <2>1, GoneWatch
<1>4. CASE ~(m.says = "not_found" /\ (x # "ask" \/ r.at = "subscribing"))
  <2>1. CASE r.at = "sending"
    <3>1. SendAnswered(r, m.says) /\ question' = question
      BY <1>4, <2>1 DEF Respond
    <3>2. QED BY <1>2, <2>1, <3>1, SendAnsweredWatch
  <2>2. CASE r.at = "creating" /\ m.says = "ok"
    <3>1. Request(x, [r EXCEPT !.session = m.session], "subscribingNew") /\ UNCHANGED <<panel, question>>
      BY <1>4, <2>2 DEF Respond
    <3>2. QED BY <2>2, <3>1, CreatedWatch
  <2>3. CASE r.at = "attaching" /\ m.says = "ok"
    <3>1. Attached(r)
      BY <1>4, <2>3 DEF Respond
    <3>2. QED BY <1>2, <2>3, <3>1, AttachedWatch
  <2>4. CASE r.at = "fetching" /\ m.says = "ok"
    <3>1. Fetched(x, r, m.snapshot) /\ question' = question
      BY <1>4, <2>4 DEF Respond
    <3>2. m.snapshot \in [Keys -> Fates]
      BY <1>1, <2>4 DEF Fits, OutMessages, Messages, OrNone
    <3>3. QED BY <2>4, <3>1, <3>2, FetchedWatch
  <2>5. CASE r.at \in {"subscribing", "subscribingNew"} /\ m.says = "ok"
    <3>1. Subscribed(x, r) /\ question' = question
      BY <1>4, <2>5 DEF Respond
    <3>2. QED BY <2>5, <3>1, SubscribedWatch
  <2>6. CASE r.at # "sending" /\ m.says # "ok"
    <3>1. /\ panel' = IF r.at = "fetching" THEN Caught(panel, r.key) ELSE panel
          /\ Finish(x) /\ UNCHANGED <<inbox, sent, question>>
      BY <1>4, <2>6 DEF Respond
    <3>2. QED BY <3>1, GivenUpWatch
  <2>7. QED BY <1>1, <2>1, <2>2, <2>3, <2>4, <2>5, <2>6 DEF Requests
<1>5. QED BY <1>3, <1>4

LEMMA NotifiedWatch ==
    ASSUME IInv, IInv', WInv, NEW c \in Conns, link[c] = "open", outbox[c] # <<>>,
           UNCHANGED <<link, handling, subs, store, fate, crossed>>,
           outbox'[c] = Tail(outbox[c]), \A d \in Conns : d # c => outbox'[d] = outbox[d],
           Head(outbox[c]) \in OutMessages, Head(outbox[c]).to = "page", Notified(Head(outbox[c]))
    PROVE  WInv'
<1> DEFINE m == Head(outbox[c])
<1>0. /\ PageTypes /\ OutTypes /\ WatchInv /\ StoreInv /\ panel \in Panels
  BY DEF IInv, Types, WInv, PageTypes
<1>1. UNCHANGED <<task, inbox, sent, question, told>>
  BY DEF Notified
<1>2. /\ panel'.session = panel.session /\ panel'.current = panel.current
      /\ panel'.subscribed = panel.subscribed /\ panel'.recovering = panel.recovering
      /\ \/ panel'.activeTurn = None
         \/ panel'.activeTurn = panel.activeTurn /\ ~(m.says = "ended" /\ panel'.activeTurn = m.key)
  <2>1. CASE m.says = "ended"
    <3>1. panel' = [panel EXCEPT !.activeTurn = IF panel.activeTurn = m.key THEN None ELSE panel.activeTurn]
      BY <2>1 DEF Notified
    <3>2. m.key # None
      BY DEF OutMessages
    <3>3. QED BY <1>0, <3>1, <3>2 DEF Panels
  <2>2. CASE m.says # "ended" /\ panel' = panel
    BY <2>2
  <2>3. CASE m.says # "ended" /\ panel.pending # None /\ panel' = [panel EXCEPT !.pending.known = m.key]
    BY <1>0, <2>3 DEF Panels
  <2>4. QED BY <2>1, <2>2, <2>3 DEF Notified
<1>3. \A d \in Conns : OutFollows(d)
  BY DEF OutFollows
<1>4. PageFrame
  <2>1. CallsFrame
    BY <1>0, <1>1, QuietFrame
  <2>2. LinksFrame
    BY <1>3, SameLinks
  <2>3. DaemonFrame
    BY <1>1 DEF DaemonFrame
  <2>4. QED BY <2>1, <2>2, <2>3 DEF PageFrame
<1>5. SessionFrame
  BY <1>0, <1>1, <1>2 DEF SessionFrame, Used, StoreInv
<1>6. ASSUME crossed' = FALSE PROVE ChatInv' /\ TurnInv'
  <2>1. ChatInv /\ TurnInv
    BY <1>0, <1>6 DEF WatchInv
  <2>2. Live("ask")' => Live("ask") /\ task'["ask"] = task["ask"]
    BY <1>1, <1>4, PageKept, Names
  <2>3. ChatInv'
    BY <1>0, <1>2, <2>1, <2>2, ChatSame DEF Panels, OrNone
  <2>4. \A d \in Conns : Watched(d)' = Watched(d)
    BY <1>4, PageKept
  <2>5. ASSUME panel'.activeTurn # None, NEW d \in Conns, EndsAfter(outbox[d], 0, panel'.activeTurn)
        PROVE  EndsAfter(outbox'[d], 0, panel'.activeTurn)
    <3>1. CASE d # c
      BY <2>5, <3>1
    <3>2. CASE d = c
      <4>1. outbox[c] \in Seq(OutMessages) /\ ~(m.says = "ended" /\ m.key = panel'.activeTurn)
        BY <1>0, <1>2, <2>5 DEF OutTypes
      <4>2. EndsAfter(Tail(outbox[c]), IF 0 = 0 THEN 0 ELSE 0 - 1, panel'.activeTurn)
        BY <2>5, <3>2, <4>1, TailEnds
      <4>3. QED BY <3>2, <4>2
    <3>3. QED BY <3>1, <3>2
  <2>6. TurnInv'
    BY <1>2, <2>1, <2>4, <2>5, TurnSame
  <2>7. QED BY <2>3, <2>6
<1>7. QED BY <1>4, <1>5, <1>6, PageWatch

LEMMA ReceiveWatch ==
    ASSUME IInv, IInv', WInv, NEW c \in Conns, Receive(c)
    PROVE  WInv'
<1> DEFINE m == Head(outbox[c])
<1>0. PageTypes /\ OutTypes /\ CallInv /\ WatchInv /\ AnswersInv
  BY DEF IInv, Types, WInv
<1>1. link[c] = "open" /\ outbox[c] # <<>> /\ outbox[c] \in Seq(OutMessages)
      /\ outbox' = [outbox EXCEPT ![c] = Tail(@)]
      /\ UNCHANGED <<link, handling, subs, store, fate, crossed>>
      /\ IF m.to = "page" THEN Notified(m) ELSE Respond(m.to, m)
  BY <1>0 DEF Receive, OutTypes, daemonVars
<1>2. m \in OutMessages /\ m = outbox[c][1] /\ 1 \in 1 .. Len(outbox[c])
  <2>1. m = outbox[c][1] /\ Len(outbox[c]) \in Nat /\ Len(outbox[c]) # 0
    BY <1>1, HeadTailProperties, LenProperties, EmptySeq
  <2>2. 1 \in 1 .. Len(outbox[c])
    BY <2>1
  <2>3. QED BY <1>1, <2>1, <2>2, ElementOfSeq
<1>3. outbox'[c] = Tail(outbox[c]) /\ \A d \in Conns : d # c => outbox'[d] = outbox[d]
  BY <1>0, <1>1 DEF OutTypes
<1> HIDE DEF m
<1>4. CASE m.to = "page"
  BY <1>1, <1>2, <1>3, <1>4, NotifiedWatch DEF m
<1>5. CASE m.to # "page"
  <2>1. m.to \in Tasks /\ Respond(m.to, m)
    BY <1>1, <1>2, <1>5 DEF OutMessages, Messages
  <2>2. PICK x \in Tasks : m.to = x
    BY <2>1
  <2>3. Waiting(c, task[x]) /\ Fits(m, task[x])
    <3>1. CallOK(c, x, task[x], inbox[c], handling[c], outbox[c])
      BY <1>0, <1>1 DEF CallInv
    <3>2. QED BY <1>1, <2>2, <3>1, CallReceived DEF m
  <2>4. Holding(c, m, task[x])
    BY <1>0, <1>1, <1>2, <2>2 DEF AnswersInv
  <2>5. \A d \in Conns : OutFollows(d)
    BY <1>1, <1>3 DEF OutFollows
  <2>6. m.says # "ended"
    BY <2>3 DEF Fits
  <2>7. ASSUME NEW d \in Conns, NEW k, EndsAfter(outbox[d], 0, k)
        PROVE  EndsAfter(outbox'[d], 0, k)
    <3>1. CASE d # c
      BY <1>3, <2>7, <3>1
    <3>2. CASE d = c
      <4>1. EndsAfter(Tail(outbox[c]), IF 0 = 0 THEN 0 ELSE 0 - 1, k)
        BY <1>1, <2>6, <2>7, <3>2, TailEnds DEF m
      <4>2. QED BY <1>3, <3>2, <4>1
    <3>3. QED BY <3>1, <3>2
  <2>8. ASSUME crossed = FALSE, NEW k \in Keys, Announces(m, k)
        PROVE  k \in Watched(c) \/ EndsAfter(outbox'[c], 0, k)
    <3>1. k \in Watched(c) \/ EndsAfter(outbox[c], 1, k)
      BY <1>0, <1>1, <1>2, <2>8 DEF WatchInv, OutInv, OutOK
    <3>2. ASSUME EndsAfter(outbox[c], 1, k) PROVE EndsAfter(outbox'[c], 0, k)
      <4>1. EndsAfter(Tail(outbox[c]), IF 1 = 0 THEN 0 ELSE 1 - 1, k)
        BY <1>1, <3>2, TailEnds
      <4>2. (IF 1 = 0 THEN 0 ELSE 1 - 1) = 0
        OBVIOUS
      <4>3. QED BY <1>3, <4>1, <4>2
    <3>3. QED BY <3>1, <3>2
  <2>9. Heard(c, x, m)
    BY <1>1, <2>3, <2>4, <2>5, <2>7, <2>8 DEF Heard
  <2>10. QED BY <1>2, <2>1, <2>2, <2>9, RespondWatch
<1>6. QED BY <1>4, <1>5

-----------------------------------------------------------------------------
\* A step of the daemon: the page is as it was.

PageSame == UNCHANGED <<panel, task, link, crossed>>

\* Subscriptions are kept, and sessions are created and forgotten for good.
Grows ==
    /\ \A c \in Conns : subs[c] \subseteq subs'[c]
    /\ \A s : store[s] # "unused" => store'[s] # "unused"
    /\ \A s : store[s] = "forgotten" => store'[s] = "forgotten"

LEMMA ServedWatch ==
    ASSUME IInv, WInv, PageSame, Grows, QuestionsInv', HandlersInv', AnswersInv',
           \A c \in Conns : link[c] = "open" => \A s \in subs'[c] : store'[s] = "known",
           crossed = FALSE => TurnInv' /\ OutInv'
    PROVE  WInv'
<1>0. /\ TasksInv /\ StoreInv /\ FetchInv /\ CallersInv /\ WatchInv /\ PageTypes
  BY DEF IInv, WInv, Types
<1>1. UNCHANGED <<panel, task, link, crossed>>
  BY DEF PageSame
<1>2. StoreInv'
  BY <1>0, <1>1 DEF StoreInv, Grows
<1>3. \A x \in Tasks : Live(x)' => Live(x) /\ task[x].conn \in Conns
  BY <1>0, <1>1 DEF Live, TasksInv, TaskOK
<1>4. FetchInv'
  BY <1>0, <1>1, <1>3 DEF FetchInv, Grows
<1>5. CallersInv'
  BY <1>0, <1>1 DEF CallersInv
<1>6. ASSUME crossed' = FALSE PROVE ChatInv'
  <2>1. ChatInv
    BY <1>0, <1>1, <1>6 DEF WatchInv
  <2>2. panel.current # None => panel.current \in Conns
    BY <1>0 DEF PageTypes, Panels, OrNone
  <2>3. panel'.subscribed = TRUE =>
          /\ panel'.session # None /\ panel'.current # None
          /\ link'[panel'.current] = "open" => panel'.session \in subs'[panel'.current]
    BY <1>1, <2>1, <2>2 DEF ChatInv, Grows
  <2>4. Live("ask")' =>
          LET ask == task'["ask"] IN
          /\ ask.at \in {"attaching", "sending", "fetching"} =>
                ask.session = panel'.session /\ ask.session \in subs'[ask.conn]
          /\ ask.at = "subscribing" =>
                ask.session = panel'.session \/ store'[ask.session] = "forgotten"
          /\ ask.at \in {"creating", "subscribingNew"} => panel'.session = None
    BY <1>1, <1>3, <2>1, Names DEF ChatInv, Grows
  <2>5. QED BY <1>1, <2>1, <2>3, <2>4 DEF ChatInv
<1>7. WatchInv'
  BY <1>1, <1>6 DEF WatchInv
<1>8. QED BY <1>2, <1>4, <1>5, <1>7 DEF WInv

\* Of a turn that was watched, either the end is posted or it is watched still.
LEMMA PostsWatch ==
    ASSUME IInv, WInv, PageSame, crossed = FALSE, NEW posts,
           \A d \in Conns : posts[d] \in Seq(OutMessages),
           \A d \in Conns : link[d] = "open" => outbox'[d] = outbox[d] \o posts[d],
           \A d \in Conns : link[d] = "open" =>
              /\ \A k \in Watched(d) : k \in Watched(d)' \/ EndsAfter(posts[d], 0, k)
              /\ OutOK(posts[d], Watched(d)')
    PROVE  TurnInv' /\ OutInv'
<1>0. OutTypes /\ TurnInv /\ OutInv /\ UNCHANGED <<panel, task, link, crossed>>
  BY DEF IInv, Types, WInv, WatchInv, PageSame
<1>1. ASSUME NEW d \in Conns, link[d] = "open" PROVE OutOK(outbox'[d], Watched(d)')
  <2>1. outbox[d] \in Seq(OutMessages) /\ OutOK(outbox[d], Watched(d))
    BY <1>0, <1>1 DEF OutTypes, OutInv
  <2>2. OutOK(outbox[d] \o posts[d], Watched(d)')
    BY <1>1, <2>1, PostedOK
  <2>3. QED BY <1>1, <2>2
<1>2. OutInv'
  BY <1>0, <1>1 DEF OutInv
<1>3. ASSUME NEW k, NEW d \in Conns, link[d] = "open", k \in Watched(d) \/ EndsAfter(outbox[d], 0, k)
      PROVE  k \in Watched(d)' \/ EndsAfter(outbox'[d], 0, k)
  <2>1. outbox[d] \in Seq(OutMessages) /\ 0 \in 0 .. Len(outbox[d])
    BY <1>0, LenProperties DEF OutTypes
  <2>2. EndsAfter(outbox[d], 0, k) \/ EndsAfter(posts[d], 0, k) => EndsAfter(outbox[d] \o posts[d], 0, k)
    BY <2>1, PostedEnds
  <2>3. QED BY <1>3, <2>2
<1>4. TurnInv'
  BY <1>0, <1>3 DEF TurnInv, Ending
<1>5. QED BY <1>2, <1>4

\* What is posted to connection d is true when it is posted.
Honest(d, p) ==
    \A i \in 1 .. Len(p) : \A x \in Tasks : p[i].to = x =>
       /\ p[i].says = "ok" /\ task[x].at \in {"subscribing", "subscribingNew"} =>
             task[x].session \in subs'[d]
       /\ p[i].says = "ok" /\ task[x].at = "creating" => store'[p[i].session] # "unused"
       /\ p[i].says = "not_found" => store'[task[x].session] = "forgotten"

LEMMA PostsAnswers ==
    ASSUME IInv, WInv, PageSame, Grows, NEW posts,
           \A d \in Conns : posts[d] \in Seq(OutMessages),
           \A d \in Conns : link[d] = "open" => outbox'[d] = outbox[d] \o posts[d],
           \A d \in Conns : link[d] = "open" => Honest(d, posts[d])
    PROVE  AnswersInv'
<1>0. OutTypes /\ AnswersInv /\ UNCHANGED <<panel, task, link, crossed>>
  BY DEF IInv, Types, WInv, PageSame
<1>1. SUFFICES ASSUME NEW d \in Conns, link[d] = "open", NEW i \in 1 .. Len(outbox'[d]), NEW x \in Tasks,
                      outbox'[d][i].to = x
               PROVE  /\ outbox'[d][i].says = "ok" /\ task[x].at \in {"subscribing", "subscribingNew"} =>
                            task[x].session \in subs'[d]
                      /\ outbox'[d][i].says = "ok" /\ task[x].at = "creating" =>
                            store'[outbox'[d][i].session] # "unused"
                      /\ outbox'[d][i].says = "not_found" => store'[task[x].session] = "forgotten"
  BY <1>0 DEF AnswersInv, Holding
<1> DEFINE out == outbox[d]
           p == posts[d]
           w == outbox'[d]
<1>2. out \in Seq(OutMessages) /\ p \in Seq(OutMessages) /\ w = out \o p /\ i \in 1 .. Len(w)
  BY <1>0, <1>1 DEF OutTypes
<1> HIDE DEF out, p, w
<1>3. /\ Len(out) \in Nat /\ Len(p) \in Nat /\ Len(w) = Len(out) + Len(p)
      /\ \A j \in 1 .. Len(out) + Len(p) : w[j] = IF j <= Len(out) THEN out[j] ELSE p[j - Len(out)]
  BY <1>2, ConcatProperties, LenProperties
<1>4. CASE i <= Len(out)
  <2>1. i \in 1 .. Len(out) /\ w[i] = out[i]
    BY <1>2, <1>3, <1>4
  <2>2. Holding(d, out[i], task[x])
    BY <1>0, <1>1, <2>1 DEF AnswersInv, out, w
  <2>3. QED BY <2>1, <2>2 DEF Holding, Grows, w
<1>5. CASE i > Len(out)
  <2> DEFINE j == i - Len(out)
  <2>1. j \in 1 .. Len(p) /\ w[i] = p[j]
    BY <1>2, <1>3, <1>5
  <2> HIDE DEF j
  <2>2. Honest(d, p)
    BY <1>1 DEF p
  <2>3. QED BY <1>1, <2>1, <2>2 DEF Honest, w
<1>6. QED BY <1>2, <1>3, <1>4, <1>5

\* The first call of an inbox, of a task that waits for its answer.
LEMMA FirstCall ==
    ASSUME IInv, NEW c \in Conns, inbox[c] # <<>>, NEW q, q = Head(inbox[c])
    PROVE  /\ \A i \in 1 .. Len(Tail(inbox[c])) : \E j \in 1 .. Len(inbox[c]) :
                 Tail(inbox[c])[i] = inbox[c][j]
           /\ \E j \in 1 .. Len(inbox[c]) : q = inbox[c][j]
           /\ \A x \in Tasks : link[c] = "open" /\ q.from = x =>
                 Live(x) /\ task[x].conn = c /\ q = Asks(x, task[x])
<1>0. PageTypes /\ CallInv
  BY DEF IInv, Types
<1>1. inbox[c] \in Seq(InCalls)
  BY <1>0 DEF PageTypes
<1>2. /\ Len(inbox[c]) \in Nat /\ Len(inbox[c]) # 0 /\ Len(Tail(inbox[c])) = Len(inbox[c]) - 1
      /\ q = inbox[c][1] /\ \A i \in 1 .. Len(Tail(inbox[c])) : Tail(inbox[c])[i] = inbox[c][i + 1]
  BY <1>1, HeadTailProperties, LenProperties, EmptySeq
<1>3. 1 \in 1 .. Len(inbox[c]) /\ \A i \in 1 .. Len(Tail(inbox[c])) : i + 1 \in 1 .. Len(inbox[c])
  BY <1>2
<1>4. ASSUME NEW x \in Tasks, link[c] = "open", q.from = x
      PROVE  Live(x) /\ task[x].conn = c /\ q = Asks(x, task[x])
  <2>1. CallOK(c, x, task[x], inbox[c], handling[c], outbox[c])
    BY <1>0, <1>4 DEF CallInv
  <2>2. ~NoCall(x, inbox[c], handling[c], outbox[c])
    BY <1>2, <1>3, <1>4 DEF NoCall
  <2>3. Waiting(c, task[x]) /\ q = Asks(x, task[x])
    BY <1>2, <1>3, <1>4, <2>1, <2>2 DEF CallOK
  <2>4. QED BY <1>4, <2>3 DEF Waiting, Live
<1>5. QED BY <1>2, <1>3, <1>4

\* A call that is answered as it is handled.
LEMMA AnsweredWatch ==
    ASSUME IInv, WInv, NEW c \in Conns, handling[c] = None, inbox[c] # <<>>,
           inbox' = [inbox EXCEPT ![c] = Tail(@)], DaemonStep, UNCHANGED <<handling, fate, question>>,
           Grows, \A d \in Conns : link[d] = "open" => \A s \in subs'[d] : store'[s] = "known",
           NEW q \in InCalls, q = Head(inbox[c]), NEW says, NEW s \in OrNone(Sessions),
           NEW snapshot \in Snapshots,
           says \in {"ok", "reused", "terminal", "refused", "not_found"},
           says = "ok" /\ q.kind \in {"subscribing", "subscribingNew"} => q.session \in subs'[c],
           says = "ok" /\ q.kind = "creating" => store'[s] # "unused",
           says = "not_found" =>
              q.kind # "creating" /\ (q.session = None \/ store[q.session] # "known"),
           snapshot # None =>
              /\ q.kind = "fetching"
              /\ \A k \in Keys : snapshot[k] = "active" =>
                    fate[k] = "active" /\ question[k].session = q.session,
           Post(Only(c, Answer(q, says, s, snapshot)))
    PROVE  WInv'
<1> DEFINE a == Answer(q, says, s, snapshot)
           posts == Only(c, a)
<1>0. /\ PageTypes /\ OutTypes /\ DaemonTypes /\ QuestionTypes /\ LinksInv /\ CallInv /\ TasksInv
      /\ QuestionsInv /\ HandlersInv /\ StoreInv /\ FetchInv /\ WatchInv
  BY DEF IInv, Types, WInv
<1>1. PageSame /\ link' = link
  BY DEF DaemonStep, pageVars, PageSame
<1>2. /\ a \in Seq(OutMessages)
      /\ \A i \in 1 .. Len(a) :
            /\ i = 1 /\ q.from \in Tasks /\ a[i].to = q.from /\ a[i].says = says
            /\ a[i].session = s /\ a[i].key = q.key /\ a[i].snapshot = snapshot
  <2>1. says \in Answers
    BY DEF Answers
  <2> HIDE DEF a
  <2>2. a = Answer(q, says, s, snapshot)
    BY DEF a
  <2>3. QED BY <2>1, <2>2, AnswerSays
<1> HIDE DEF a
<1>3. posts[c] = a /\ \A d \in Conns : d # c => posts[d] = <<>>
  BY DEF Only
<1>4. \A d \in Conns : posts[d] \in Seq(OutMessages)
  <2>1. <<>> \in Seq(OutMessages)
    BY EmptySeq
  <2> HIDE DEF posts
  <2>2. QED BY <1>2, <1>3, <2>1
<1>5. Post(posts)
  BY DEF a
<1> HIDE DEF posts
<1>6. \A d \in Conns : link[d] = "open" => outbox'[d] = outbox[d] \o posts[d]
  BY <1>0, <1>4, <1>5, Posted
<1>7. inbox'[c] = Tail(inbox[c]) /\ \A d \in Conns : d # c => inbox'[d] = inbox[d]
  BY <1>0 DEF PageTypes
<1>8. QuestionsInv'
  BY <1>0, <1>7, FirstCall, SMTT(30) DEF QuestionsInv, Asked
<1>9. HandlersInv'
  BY <1>0 DEF HandlersInv
<1>10. ASSUME link[c] = "open", NEW x \in Tasks, q.from = x
       PROVE  /\ Live(x) /\ task[x].conn = c /\ task[x].at = q.kind /\ task[x].session = q.session
              /\ q.kind # "creating" => q.session \in Sessions
  <2>1. Live(x) /\ task[x].conn = c /\ q = Asks(x, task[x])
    BY <1>10, FirstCall
  <2>2. task[x].at = q.kind /\ task[x].session = q.session
    BY <2>1 DEF Asks
  <2>3. TaskOK(x, task[x]) /\ task[x].at \in Requests
    BY <1>0, <2>1 DEF TasksInv, Live
  <2>4. QED BY <2>1, <2>2, <2>3 DEF TaskOK
<1>11. AnswersInv'
  <2>1. ASSUME link[c] = "open", NEW i \in 1 .. Len(a), NEW x \in Tasks, a[i].to = x
        PROVE  /\ a[i].says = "ok" /\ task[x].at \in {"subscribing", "subscribingNew"} =>
                     task[x].session \in subs'[c]
               /\ a[i].says = "ok" /\ task[x].at = "creating" => store'[a[i].session] # "unused"
               /\ a[i].says = "not_found" => store'[task[x].session] = "forgotten"
    <3>1. q.from = x /\ a[i].says = says /\ a[i].session = s
      BY <1>2, <2>1
    <3>2. /\ task[x].at = q.kind /\ task[x].session = q.session
          /\ q.kind # "creating" => q.session \in Sessions
      BY <1>10, <2>1, <3>1
    <3>3. ASSUME says = "not_found" PROVE store'[task[x].session] = "forgotten"
      <4>1. q.session \in Sessions /\ store[q.session] # "known"
        BY <3>2, <3>3
      <4>2. store[task[x].session] # "unused" /\ store[q.session] \in {"unused", "known", "forgotten"}
        BY <1>0, <3>2, <4>1 DEF StoreInv, DaemonTypes
      <4>3. QED BY <3>2, <4>1, <4>2 DEF Grows
    <3>4. says = "ok" /\ task[x].at \in {"subscribing", "subscribingNew"} => task[x].session \in subs'[c]
      BY <3>2
    <3>5. says = "ok" /\ task[x].at = "creating" => store'[s] # "unused"
      BY <3>2
    <3>6. QED BY <3>1, <3>3, <3>4, <3>5
  <2>2. link[c] = "open" => Honest(c, a)
    BY <2>1 DEF Honest
  <2>3. \A d \in Conns : d # c => Honest(d, posts[d])
    BY <1>3, EmptySeq DEF Honest
  <2>4. PICK p : p = posts
    OBVIOUS
  <2>5. (\A d \in Conns : p[d] \in Seq(OutMessages))
        /\ \A d \in Conns : link[d] = "open" => outbox'[d] = outbox[d] \o p[d]
    BY <1>4, <1>6, <2>4
  <2>6. p[c] = a /\ \A d \in Conns : d # c => p[d] = posts[d]
    BY <1>3, <2>4
  <2>7. \A d \in Conns : link[d] = "open" => Honest(d, p[d])
    BY <2>2, <2>3, <2>6
  <2>8. QED BY <1>1, <2>5, <2>7, PostsAnswers
<1>12. ASSUME crossed = FALSE PROVE TurnInv' /\ OutInv'
  <2>1. \A d \in Conns : Watched(d) \subseteq Watched(d)'
    BY DEF Watched, Grows
  <2>2. ASSUME link[c] = "open" PROVE OutOK(a, Watched(c)')
    <3>1. SUFFICES ASSUME NEW i \in 1 .. Len(a), NEW k \in Keys, Announces(a[i], k)
                   PROVE  k \in Watched(c)
      BY <2>1 DEF OutOK
    <3>2. a[i].says = says /\ a[i].snapshot = snapshot /\ q.from \in Tasks
      BY <1>2
    <3>3. PICK x \in Tasks : q.from = x
      BY <3>2
    <3>4. snapshot # None /\ snapshot[k] = "active"
      BY <3>1, <3>2 DEF Announces
    <3>5. Live(x) /\ task[x].conn = c /\ task[x].at = "fetching" /\ task[x].session = q.session
      BY <1>10, <2>2, <3>3, <3>4
    <3>6. q.session \in subs[c]
      <4>1. CASE x = "ask"
        BY <1>0, <1>12, <3>5, <4>1 DEF WatchInv, ChatInv
      <4>2. CASE x # "ask"
        BY <1>0, <3>5, <4>2 DEF FetchInv
      <4>3. QED BY <4>1, <4>2
    <3>7. QED BY <3>4, <3>6 DEF Watched
  <2>3. \A d \in Conns : d # c => OutOK(posts[d], Watched(d)')
    BY <1>3, EmptySeq DEF OutOK
  <2>4. \A d \in Conns : link[d] = "open" =>
              /\ \A k \in Watched(d) : k \in Watched(d)' \/ EndsAfter(posts[d], 0, k)
              /\ OutOK(posts[d], Watched(d)')
    BY <1>3, <2>1, <2>2, <2>3
  <2>5. QED BY <1>1, <1>4, <1>6, <1>12, <2>4, PostsWatch
<1>13. QED BY <1>1, <1>8, <1>9, <1>11, <1>12, ServedWatch

\* Turns begin and end, and what is posted tells of it.
LEMMA TellsWatch ==
    ASSUME IInv, WInv, DaemonStep, UNCHANGED <<subs, store>>, QuestionsInv', HandlersInv',
           NEW posts, Post(posts),
           \A d \in Conns : /\ posts[d] \in Seq(OutMessages)
                            /\ \A i \in 1 .. Len(posts[d]) :
                                  /\ posts[d][i].says \notin {"ok", "not_found"}
                                  /\ posts[d][i].snapshot = None,
           crossed = FALSE =>
              \A d \in Conns : link[d] = "open" =>
                 /\ \A k \in Watched(d) : k \in Watched(d)' \/ EndsAfter(posts[d], 0, k)
                 /\ \A i \in 1 .. Len(posts[d]) : posts[d][i].says = "accepted" =>
                       posts[d][i].key \in Watched(d)'
    PROVE  WInv'
<1>0. OutTypes /\ LinksInv /\ StoreInv
  BY DEF IInv, Types, WInv
<1>1. PageSame /\ Grows
  BY DEF DaemonStep, pageVars, PageSame, Grows
<1>2. \A d \in Conns : link[d] = "open" => outbox'[d] = outbox[d] \o posts[d]
  BY <1>0, Posted
<1>3. AnswersInv'
  <2>1. \A d \in Conns : link[d] = "open" => Honest(d, posts[d])
    BY DEF Honest
  <2>2. QED BY <1>1, <1>2, <2>1, PostsAnswers
<1>4. ASSUME crossed = FALSE PROVE TurnInv' /\ OutInv'
  <2>1. ASSUME NEW d \in Conns, link[d] = "open" PROVE OutOK(posts[d], Watched(d)')
    BY <1>4, <2>1 DEF OutOK, Announces
  <2>2. \A d \in Conns : link[d] = "open" =>
              /\ \A k \in Watched(d) : k \in Watched(d)' \/ EndsAfter(posts[d], 0, k)
              /\ OutOK(posts[d], Watched(d)')
    BY <1>4, <2>1
  <2>3. QED BY <1>1, <1>2, <1>4, <2>2, PostsWatch
<1>5. \A c \in Conns : link[c] = "open" => \A s \in subs'[c] : store'[s] = "known"
  BY <1>0 DEF StoreInv
<1>6. QED BY <1>1, <1>3, <1>4, <1>5, ServedWatch

LEMMA NoticeTells ==
    ASSUME QuestionTypes, NEW k \in Keys, NEW says \in {"created", "ended"}, NEW n, n = Notice(says, k)
    PROVE  /\ n \in OutMessages /\ n.to = "page" /\ n.says = says /\ n.key = k /\ n.snapshot = None
           /\ <<n>> \in Seq(OutMessages)
           /\ \A i \in 1 .. Len(<<n>>) : <<n>>[i].says = says /\ <<n>>[i].snapshot = None
           /\ says = "ended" => EndsAfter(<<n>>, 0, k)
<1>1. n \in OutMessages /\ n.to = "page" /\ n.key = k /\ n.says = says
  BY NoticeSays
<1>2. n.snapshot = None
  BY DEF Notice, Say
<1>3. <<n>> \in Seq(OutMessages) /\ Len(<<n>>) = 1 /\ <<n>>[1] = n
  BY <1>1
<1>4. \A i \in 1 .. Len(<<n>>) : <<n>>[i].says = says /\ <<n>>[i].snapshot = None
  BY <1>1, <1>2, <1>3
<1>5. says = "ended" => EndsAfter(<<n>>, 0, k)
  <2>1. 1 \in 1 .. Len(<<n>>) /\ 1 > 0
    BY <1>3
  <2>2. QED BY <1>1, <1>3, <2>1 DEF EndsAfter
<1>6. QED BY <1>1, <1>2, <1>3, <1>4, <1>5

\* A turn begins: the call is held, and the others subscribed are told.
LEMMA BeginWatch ==
    ASSUME IInv, WInv, NEW c \in Conns, handling[c] = None, inbox[c] # <<>>,
           inbox' = [inbox EXCEPT ![c] = Tail(@)], DaemonStep, UNCHANGED <<subs, store>>,
           NEW q \in InCalls, q = Head(inbox[c]), q.kind = "sending",
           fate[q.key] = "absent", question[q.key].session = q.session,
           fate' = [fate EXCEPT ![q.key] = "active"],
           handling' = [handling EXCEPT ![c] = q],
           question' = [question EXCEPT ![q.key].conn = c],
           Post([d \in Conns |-> IF d # c /\ ~Native /\ q.session \in subs[d]
                                 THEN <<Notice("created", q.key)>> ELSE <<>>])
    PROVE  WInv'
<1>0. /\ PageTypes /\ DaemonTypes /\ QuestionTypes /\ QuestionsInv /\ HandlersInv
  BY DEF IInv, Types, WInv
<1>1. q.key \in Keys /\ q # None
  BY DEF InCalls, Calls, OrNone
<1>2. PICK n : n = Notice("created", q.key)
  OBVIOUS
<1>3. PICK posts : posts = [d \in Conns |-> IF d # c /\ ~Native /\ q.session \in subs[d] THEN <<n>> ELSE <<>>]
  OBVIOUS
<1>4. Post(posts)
  BY <1>2, <1>3
<1>5. \A d \in Conns : /\ posts[d] \in Seq(OutMessages)
                       /\ \A i \in 1 .. Len(posts[d]) :
                             posts[d][i].says = "created" /\ posts[d][i].snapshot = None
  <2>1. /\ <<n>> \in Seq(OutMessages)
        /\ \A i \in 1 .. Len(<<n>>) : <<n>>[i].says = "created" /\ <<n>>[i].snapshot = None
    BY <1>0, <1>1, <1>2, NoticeTells
  <2>2. \A d \in Conns : posts[d] = <<n>> \/ posts[d] = <<>>
    BY <1>3
  <2>3. ASSUME NEW d \in Conns
        PROVE  /\ posts[d] \in Seq(OutMessages)
               /\ \A i \in 1 .. Len(posts[d]) :
                     posts[d][i].says = "created" /\ posts[d][i].snapshot = None
    <3>1. CASE posts[d] = <<n>>
      <4>1. PICK w : w = <<n>>
        OBVIOUS
      <4>2. /\ w \in Seq(OutMessages)
            /\ \A i \in 1 .. Len(w) : w[i].says = "created" /\ w[i].snapshot = None
        BY <2>1, <4>1
      <4>3. posts[d] = w
        BY <3>1, <4>1
      <4>4. QED BY <4>2, <4>3
    <3>2. CASE posts[d] = <<>>
      BY <3>2, EmptySeq
    <3>3. QED BY <2>2, <3>1, <3>2
  <2>4. QED BY <2>3
<1>6. /\ fate'[q.key] = "active" /\ \A k \in Keys : k # q.key => fate'[k] = fate[k]
      /\ handling'[c] = q /\ \A d \in Conns : d # c => handling'[d] = handling[d]
      /\ inbox'[c] = Tail(inbox[c]) /\ \A d \in Conns : d # c => inbox'[d] = inbox[d]
  BY <1>0, <1>1, SMTT(30) DEF DaemonTypes, PageTypes
<1>7. /\ \A k \in Keys : question'[k].text = question[k].text /\ question'[k].session = question[k].session
      /\ question'[q.key].conn = c /\ \A k \in Keys : k # q.key => question'[k] = question[k]
  BY <1>0, <1>1 DEF QuestionTypes, Rows
<1>8. Asked(q.key)
  BY <1>0, FirstCall, SMTT(30) DEF QuestionsInv
<1>9. QuestionsInv'
  <2>1. \A k \in Keys : fate'[k] # "absent" => question'[k].text # None
    BY <1>0, <1>6, <1>7, <1>8, SMTT(30) DEF QuestionsInv, Asked
  <2>2. ASSUME NEW d \in Conns, NEW i \in 1 .. Len(inbox'[d]), inbox'[d][i].kind = "sending"
        PROVE  question'[inbox'[d][i].key].text # None
    <3>1. PICK j \in 1 .. Len(inbox[d]) : inbox'[d][i] = inbox[d][j]
      <4>1. CASE d = c
        BY <1>6, <2>2, <4>1, FirstCall
      <4>2. CASE d # c
        BY <1>6, <2>2, <4>2
      <4>3. QED BY <4>1, <4>2
    <3>2. inbox[d][j] \in InCalls
      BY <1>0, ElementOfSeq DEF PageTypes
    <3>3. inbox[d][j].key \in Keys
      BY <2>2, <3>1, <3>2, SMTT(30) DEF InCalls, Calls, OrNone
    <3>4. question[inbox[d][j].key].text # None
      BY <1>0, <2>2, <3>1, SMTT(30) DEF QuestionsInv, Asked
    <3>5. QED BY <1>7, <3>1, <3>3, <3>4, SMTT(30)
  <2>3. QED BY <2>1, <2>2, ZenonT(60) DEF QuestionsInv, Asked
<1>10. HandlersInv'
  <2>1. SUFFICES ASSUME NEW d \in Conns, handling'[d] # None
                 PROVE  /\ fate'[handling'[d].key] = "active" /\ question'[handling'[d].key].conn = d
                        /\ question'[handling'[d].key].session = handling'[d].session
    BY SMTT(30) DEF HandlersInv
  <2>2. CASE d = c
    BY <1>1, <1>6, <1>7, <2>2, SMTT(30)
  <2>3. CASE d # c
    <3>1. handling'[d] = handling[d] /\ handling[d].key \in Keys
      BY <1>0, <1>6, <2>1, <2>3 DEF DaemonTypes, HeldCalls, Calls, OrNone
    <3>2. fate[handling[d].key] = "active" /\ question[handling[d].key].conn = d
          /\ question[handling[d].key].session = handling[d].session
      BY <1>0, <2>1, <3>1 DEF HandlersInv
    <3>3. handling[d].key # q.key
      BY <3>2, SMTT(30)
    <3>4. QED BY <1>6, <1>7, <3>1, <3>2, <3>3
  <2>4. QED BY <2>2, <2>3, SMTT(30)
<1>11. \A d \in Conns : Watched(d) \subseteq Watched(d)'
  BY <1>6, <1>7 DEF Watched
<1>12. QED BY <1>4, <1>5, <1>9, <1>10, <1>11, TellsWatch

LEMMA HandleWatch ==
    ASSUME IInv, WInv, NEW c \in Conns, Handle(c)
    PROVE  WInv'
<1>0. PageTypes /\ OutTypes /\ DaemonTypes /\ QuestionTypes /\ StoreInv
  BY SMTT(30) DEF IInv, Types, WInv
<1>1. handling[c] = None /\ inbox[c] # <<>> /\ inbox' = [inbox EXCEPT ![c] = Tail(@)] /\ DaemonStep
  BY DEF Handle
<1>2. Head(inbox[c]) \in InCalls
  BY <1>0, <1>1, HeadTailProperties DEF PageTypes
<1>3. PICK q \in InCalls : q = Head(inbox[c])
  BY <1>2
<1> DEFINE known == q.session # None /\ store[q.session] = "known"
<1>4. q.session \in OrNone(Sessions) /\ q.key \in OrNone(Keys) /\ (q.kind = "sending" => q.key \in Keys)
      /\ q.kind \in Requests
  BY DEF InCalls, Calls, OrNone
<1>5. known => q.session \in Sessions
  BY <1>4 DEF OrNone
<1>6. None \in Snapshots
  BY DEF Snapshots, OrNone
<1>7. ASSUME UNCHANGED <<subs, store>>
      PROVE  Grows /\ \A d \in Conns : link[d] = "open" => \A s \in subs'[d] : store'[s] = "known"
  BY <1>0, <1>7, SMTT(30) DEF Grows, StoreInv
<1>8. CASE q.kind \in {"subscribing", "subscribingNew"}
  <2>1. /\ subs' = IF known THEN [subs EXCEPT ![c] = @ \cup {q.session}] ELSE subs
        /\ Post(Only(c, Answer(q, IF known THEN "ok" ELSE "not_found", q.session, None)))
        /\ UNCHANGED <<handling, store, fate, question>>
    BY <1>3, <1>8 DEF Handle
  <2>2. /\ \A d \in Conns : subs'[d] = IF known /\ d = c THEN subs[d] \cup {q.session} ELSE subs[d]
    BY <1>0, <2>1 DEF DaemonTypes
  <2>3. Grows /\ \A d \in Conns : link[d] = "open" => \A s \in subs'[d] : store'[s] = "known"
    BY <1>0, <2>1, <2>2 DEF Grows, StoreInv
  <2>4. known => q.session \in subs'[c]
    BY <2>2
  <2>5. QED BY <1>1, <1>3, <1>4, <1>6, <1>8, <2>1, <2>3, <2>4, AnsweredWatch
<1>9. CASE q.kind = "creating"
  <2>1. UNCHANGED <<handling, subs, fate, question>>
    BY <1>3, <1>9 DEF Handle
  <2>2. CASE UNCHANGED store /\ Post(Only(c, Answer(q, "refused", q.session, None)))
    BY <1>1, <1>3, <1>4, <1>6, <1>7, <1>9, <2>1, <2>2, AnsweredWatch
  <2>3. ASSUME NEW s \in Sessions, store[s] = "unused", store' = [store EXCEPT ![s] = "known"],
               Post(Only(c, Answer(q, "ok", s, None)))
        PROVE  WInv'
    <3>1. s \in OrNone(Sessions) /\ store'[s] = "known"
          /\ \A e : e # s => store'[e] = store[e]
      BY <1>0, <2>3 DEF DaemonTypes, OrNone
    <3>2. Grows /\ \A d \in Conns : link[d] = "open" => \A e \in subs'[d] : store'[e] = "known"
      BY <1>0, <2>1, <2>3, <3>1, SMTT(30) DEF Grows, StoreInv
    <3>3. QED BY <1>1, <1>3, <1>6, <1>9, <2>1, <2>3, <3>1, <3>2, AnsweredWatch
  <2>4. \/ \E s \in Sessions : /\ store[s] = "unused" /\ store' = [store EXCEPT ![s] = "known"]
                               /\ Post(Only(c, Answer(q, "ok", s, None)))
        \/ UNCHANGED store /\ Post(Only(c, Answer(q, "refused", q.session, None)))
    BY <1>3, <1>9 DEF Handle
  <2>5. QED BY <2>2, <2>3, <2>4
<1>10. CASE q.kind = "attaching"
  <2>1. /\ Post(Only(c, Answer(q, IF known THEN "ok" ELSE "not_found", q.session, None)))
        /\ UNCHANGED <<handling, subs, store, fate, question>>
    BY <1>3, <1>10 DEF Handle, daemonVars
  <2>2. QED BY <1>1, <1>3, <1>4, <1>6, <1>7, <1>10, <2>1, AnsweredWatch
<1>11. CASE q.kind = "fetching"
  <2> DEFINE f == [k \in Keys |-> IF question[k].session = q.session THEN fate[k] ELSE "absent"]
  <2>1. /\ IF known THEN Post(Only(c, Answer(q, "ok", q.session, f)))
           ELSE Post(Only(c, Answer(q, "not_found", q.session, None)))
        /\ UNCHANGED <<handling, subs, store, fate, question>>
    BY <1>3, <1>11 DEF Handle, daemonVars
  <2>2. f \in [Keys -> Fates]
    BY <1>0 DEF DaemonTypes, Fates
  <2>3. f \in Snapshots /\ \A k \in Keys : f[k] = "active" => fate[k] = "active" /\ question[k].session = q.session
    BY <2>2 DEF Snapshots, OrNone
  <2> HIDE DEF f
  <2>4. PICK g \in Snapshots : g = f
    BY <2>3
  <2>5. CASE known
    BY <1>1, <1>3, <1>4, <1>7, <1>11, <2>1, <2>3, <2>4, <2>5, AnsweredWatch
  <2>6. CASE ~known
    BY <1>1, <1>3, <1>4, <1>6, <1>7, <1>11, <2>1, <2>6, AnsweredWatch
  <2>7. QED BY <2>5, <2>6, SMTT(30)
<1>12. CASE q.kind = "sending"
  <2> DEFINE own == question[q.key].session = q.session
             says == IF ~known THEN "not_found"
                     ELSE IF own /\ fate[q.key] = "failed" THEN "terminal"
                     ELSE IF own /\ fate[q.key] # "absent" THEN "reused"
                     ELSE "refused"
             begins == fate[q.key] = "absent" /\ known /\ own /\ \A k \in Keys : fate[k] # "active"
  <2>1. UNCHANGED <<subs, store>>
    BY <1>3, <1>12, SMTT(30) DEF Handle
  <2>2. CASE begins
    <3>1. /\ fate' = [fate EXCEPT ![q.key] = "active"]
          /\ handling' = [handling EXCEPT ![c] = q]
          /\ question' = [question EXCEPT ![q.key].conn = c]
          /\ Post([d \in Conns |-> IF d # c /\ ~Native /\ q.session \in subs[d]
                                   THEN <<Notice("created", q.key)>> ELSE <<>>])
      BY <1>3, <1>12, <2>2 DEF Handle
    <3>2. QED BY <1>1, <1>3, <1>12, <2>1, <2>2, <3>1, BeginWatch
  <2>3. CASE ~begins
    <3>1. Post(Only(c, Answer(q, says, q.session, None))) /\ UNCHANGED <<handling, fate, question>>
      BY <1>3, <1>12, <2>3 DEF Handle
    <3>2. says \in {"reused", "terminal", "refused", "not_found"} /\ (says = "not_found" => ~known)
      OBVIOUS
    <3>3. PICK w : w = says
      OBVIOUS
    <3> HIDE DEF says
    <3>4. QED BY <1>1, <1>3, <1>4, <1>6, <1>7, <1>12, <2>1, <3>1, <3>2, <3>3, AnsweredWatch
  <2>4. QED BY <2>2, <2>3
<1>13. QED BY <1>4, <1>8, <1>9, <1>10, <1>11, <1>12 DEF Requests

LEMMA TurnEndsWatch ==
    ASSUME Native = FALSE, IInv, WInv, NEW k \in Keys, NEW outcome \in {"completed", "failed"},
           TurnEnds(k, outcome)
    PROVE  WInv'
<1>0. /\ PageTypes /\ DaemonTypes /\ QuestionTypes /\ QuestionsInv /\ HandlersInv
  BY DEF IInv, Types, WInv
<1>1. PICK n : n = Notice("ended", k)
  OBVIOUS
<1>2. PICK posts : posts = [c \in Conns |-> IF Hears(c, k, question[k].session) THEN <<n>> ELSE <<>>]
  OBVIOUS
<1>3. DaemonStep /\ UNCHANGED <<inbox, handling, subs, store, question>>
      /\ fate[k] = "active" /\ handling[question[k].conn] = None
      /\ fate' = [fate EXCEPT ![k] = outcome] /\ Post(posts)
  BY <1>1, <1>2 DEF TurnEnds
<1>4. PICK w : w = <<n>>
  OBVIOUS
<1>5. /\ w \in Seq(OutMessages) /\ EndsAfter(w, 0, k)
      /\ \A i \in 1 .. Len(w) : w[i].says = "ended" /\ w[i].snapshot = None
  <2>1. /\ <<n>> \in Seq(OutMessages) /\ EndsAfter(<<n>>, 0, k)
        /\ \A i \in 1 .. Len(<<n>>) : <<n>>[i].says = "ended" /\ <<n>>[i].snapshot = None
    BY <1>0, <1>1, NoticeTells
  <2>2. QED BY <1>4, <2>1
<1>6. \A d \in Conns : posts[d] = w \/ (posts[d] = <<>> /\ question[k].session \notin subs[d])
  BY <1>2, <1>4 DEF Hears
<1>7. \A d \in Conns : /\ posts[d] \in Seq(OutMessages)
                       /\ \A i \in 1 .. Len(posts[d]) :
                             posts[d][i].says = "ended" /\ posts[d][i].snapshot = None
  <2>1. <<>> \in Seq(OutMessages) /\ Len(<<>>) = 0
    BY EmptySeq
  <2>2. PICK e : e = <<>>
    OBVIOUS
  <2>3. e \in Seq(OutMessages) /\ Len(e) = 0
    BY <2>1, <2>2
  <2>4. \A d \in Conns : posts[d] = w \/ posts[d] = e
    BY <1>6, <2>2
  <2>5. ASSUME NEW d \in Conns
        PROVE  /\ posts[d] \in Seq(OutMessages)
               /\ \A i \in 1 .. Len(posts[d]) : posts[d][i].says = "ended" /\ posts[d][i].snapshot = None
    <3>1. CASE posts[d] = w
      BY <1>5, <3>1
    <3>2. CASE posts[d] = e
      BY <2>3, <3>2
    <3>3. QED BY <2>4, <3>1, <3>2
  <2>6. QED BY <2>5
<1>8. fate'[k] = outcome /\ \A l \in Keys : l # k => fate'[l] = fate[l]
  BY <1>0, <1>3 DEF DaemonTypes
<1>9. QuestionsInv'
  BY <1>0, <1>3, <1>8 DEF QuestionsInv, Asked
<1>10. HandlersInv'
  <2>1. SUFFICES ASSUME NEW d \in Conns, handling[d] # None
                 PROVE  /\ fate'[handling[d].key] = "active" /\ question[handling[d].key].conn = d
                        /\ question[handling[d].key].session = handling[d].session
    BY <1>3 DEF HandlersInv
  <2>2. handling[d].key \in Keys
    BY <1>0, <2>1 DEF DaemonTypes, HeldCalls, Calls, OrNone
  <2>3. /\ fate[handling[d].key] = "active" /\ question[handling[d].key].conn = d
        /\ question[handling[d].key].session = handling[d].session
    BY <1>0, <2>1 DEF HandlersInv
  <2>4. handling[d].key # k
    BY <1>3, <2>1, <2>3
  <2>5. QED BY <1>8, <2>2, <2>3, <2>4
<1>11. ASSUME NEW d \in Conns, NEW l \in Watched(d)
       PROVE  l \in Watched(d)' \/ EndsAfter(posts[d], 0, l)
  <2>1. l \in Keys /\ fate[l] = "active" /\ question[l].session \in subs[d]
    BY DEF Watched
  <2>2. CASE l # k
    BY <1>3, <1>8, <2>1, <2>2 DEF Watched
  <2>3. CASE l = k
    BY <1>5, <1>6, <2>1, <2>3
  <2>4. QED BY <2>2, <2>3
<1>12. QED BY <1>3, <1>7, <1>9, <1>10, <1>11, TellsWatch

LEMMA SendHandledWatch ==
    ASSUME Native = FALSE, IInv, WInv, NEW c \in Conns, NEW started \in BOOLEAN,
           SendHandled(c, started)
    PROVE  WInv'
<1>0. /\ PageTypes /\ OutTypes /\ DaemonTypes /\ QuestionTypes /\ TasksInv /\ CallInv /\ LinksInv
      /\ QuestionsInv /\ HandlersInv /\ WatchInv
  BY DEF IInv, Types, WInv
<1>1. handling[c] # None /\ handling' = [handling EXCEPT ![c] = None] /\ DaemonStep
      /\ UNCHANGED <<inbox, subs, store, question>>
  BY DEF SendHandled
<1>2. handling[c] \in HeldCalls
  BY <1>0, <1>1 DEF DaemonTypes, OrNone
<1>3. PICK q \in HeldCalls : q = handling[c]
  BY <1>2
<1>4. q \in InCalls /\ q.kind = "sending" /\ q.key \in Keys /\ q.session \in OrNone(Sessions) /\ q # None
  BY DEF HeldCalls, InCalls, Calls, OrNone
<1>5. fate[q.key] = "active" /\ question[q.key].conn = c /\ question[q.key].session = q.session
  BY <1>0, <1>1, <1>3 DEF HandlersInv
<1> DEFINE says == IF started THEN "accepted" ELSE "refused"
<1>6. PICK a : a = Answer(q, says, q.session, None)
  OBVIOUS
<1>7. PICK n : n = Notice("created", q.key)
  OBVIOUS
<1>8. PICK e : e = Notice("ended", q.key)
  OBVIOUS
<1>9. PICK others : others = IF started THEN <<>> ELSE <<e>>
  OBVIOUS
<1>10. PICK first : first = [d \in Conns |-> IF d = c THEN a ELSE <<>>]
  OBVIOUS
<1>11. PICK tells : tells = [d \in Conns |-> IF Hears(d, q.key, q.session)
                                             THEN (IF d = c THEN <<n>> ELSE <<>>) \o others ELSE <<>>]
  OBVIOUS
<1>12. PICK posts : posts = [d \in Conns |-> first[d] \o tells[d]]
  OBVIOUS
<1>13. /\ fate' = IF started THEN fate ELSE [fate EXCEPT ![q.key] = "failed"]
       /\ Post(posts)
  <2>1. posts = [d \in Conns |->
                 (IF d = c THEN Answer(q, IF started THEN "accepted" ELSE "refused",
                                       q.session, None) ELSE <<>>)
                 \o (IF Hears(d, q.key, q.session)
                     THEN (IF d = c THEN <<Notice("created", q.key)>> ELSE <<>>)
                          \o (IF started THEN <<>> ELSE <<Notice("ended", q.key)>>)
                     ELSE <<>>)]
    BY <1>6, <1>7, <1>8, <1>9, <1>10, <1>11, <1>12
  <2>2. QED BY <1>3, <2>1 DEF SendHandled
<1>14. PICK none : none = <<>>
  OBVIOUS
<1>15. none \in Seq(OutMessages) /\ Len(none) = 0
  BY <1>14, EmptySeq
\* The messages: an answer to whoever asked, and notices of a begin and an end.
<1>16. /\ a \in Seq(OutMessages)
       /\ \A i \in 1 .. Len(a) : /\ a[i].says = says /\ a[i].snapshot = None
                                 /\ a[i].key = q.key /\ q.from \in Tasks
  <2>1. says \in Answers /\ None \in Snapshots
    BY DEF Answers, Snapshots, OrNone
  <2>2. QED BY <1>4, <1>6, <2>1, AnswerSays
<1>17. PICK wn : wn = <<n>>
  OBVIOUS
<1>18. PICK we : we = <<e>>
  OBVIOUS
<1>19. /\ wn \in Seq(OutMessages) /\ \A i \in 1 .. Len(wn) : wn[i].says = "created" /\ wn[i].snapshot = None
       /\ we \in Seq(OutMessages) /\ \A i \in 1 .. Len(we) : we[i].says = "ended" /\ we[i].snapshot = None
       /\ EndsAfter(we, 0, q.key)
  <2>1. /\ <<n>> \in Seq(OutMessages)
        /\ \A i \in 1 .. Len(<<n>>) : <<n>>[i].says = "created" /\ <<n>>[i].snapshot = None
    BY <1>0, <1>4, <1>7, NoticeTells
  <2>2. /\ <<e>> \in Seq(OutMessages) /\ EndsAfter(<<e>>, 0, q.key)
        /\ \A i \in 1 .. Len(<<e>>) : <<e>>[i].says = "ended" /\ <<e>>[i].snapshot = None
    BY <1>0, <1>4, <1>8, NoticeTells
  <2>3. QED BY <1>17, <1>18, <2>1, <2>2
<1>33. PICK other : other = IF started THEN none ELSE we
  OBVIOUS
<1>20. \A d \in Conns :
          /\ posts[d] = first[d] \o tells[d]
          /\ first[d] = none \/ (d = c /\ first[d] = a)
          /\ \/ tells[d] = none /\ q.session \notin subs[d]
             \/ \E w \in {none, wn} : tells[d] = w \o other
  BY <1>9, <1>10, <1>11, <1>12, <1>14, <1>17, <1>18, <1>33 DEF Hears
<1> DEFINE Kinds(p) == \A i \in 1 .. Len(p) :
                          /\ p[i].says \in {"accepted", "refused", "created", "ended"} /\ p[i].snapshot = None
                          /\ p[i].says = "accepted" => started /\ p[i].key = q.key /\ q.from \in Tasks
<1>21. ASSUME NEW u \in Seq(OutMessages), NEW v \in Seq(OutMessages), Kinds(u), Kinds(v)
       PROVE  u \o v \in Seq(OutMessages) /\ Kinds(u \o v)
  <2>1. /\ u \o v \in Seq(OutMessages) /\ Len(u \o v) = Len(u) + Len(v) /\ Len(u) \in Nat /\ Len(v) \in Nat
        /\ \A i \in 1 .. Len(u) + Len(v) : (u \o v)[i] = IF i <= Len(u) THEN u[i] ELSE v[i - Len(u)]
    BY ConcatProperties, LenProperties
  <2>2. ASSUME NEW i \in 1 .. Len(u \o v)
        PROVE  \/ \E j \in 1 .. Len(u) : (u \o v)[i] = u[j]
               \/ \E j \in 1 .. Len(v) : (u \o v)[i] = v[j]
    <3>1. CASE i <= Len(u)
      BY <2>1, <3>1
    <3>2. CASE i > Len(u)
      <4>1. i - Len(u) \in 1 .. Len(v) /\ (u \o v)[i] = v[i - Len(u)]
        BY <2>1, <3>2
      <4>2. QED BY <4>1
    <3>3. QED BY <2>1, <3>1, <3>2
  <2>3. QED BY <1>21, <2>1, <2>2, SMTT(30)
<1>22. Kinds(none) /\ Kinds(a) /\ Kinds(wn) /\ Kinds(we)
  BY <1>15, <1>16, <1>19
<1> HIDE DEF Kinds
<1>23. \A d \in Conns : tells[d] \in Seq(OutMessages) /\ Kinds(tells[d])
  <2>1. SUFFICES ASSUME NEW d \in Conns PROVE tells[d] \in Seq(OutMessages) /\ Kinds(tells[d])
    OBVIOUS
  <2>2. other \in Seq(OutMessages) /\ Kinds(other)
    BY <1>15, <1>19, <1>22, <1>33
  <2>3. CASE tells[d] = none
    BY <1>15, <1>22, <2>3
  <2>4. ASSUME NEW w \in {none, wn}, tells[d] = w \o other
        PROVE  tells[d] \in Seq(OutMessages) /\ Kinds(tells[d])
    <3>1. w \in Seq(OutMessages) /\ Kinds(w)
      BY <1>15, <1>19, <1>22
    <3>2. w \o other \in Seq(OutMessages) /\ Kinds(w \o other)
      BY <1>21, <2>2, <3>1
    <3>3. QED BY <2>4, <3>2
  <2>5. QED BY <1>20, <2>3, <2>4
<1>24. \A d \in Conns : posts[d] \in Seq(OutMessages) /\ Kinds(posts[d])
  <2>1. SUFFICES ASSUME NEW d \in Conns PROVE posts[d] \in Seq(OutMessages) /\ Kinds(posts[d])
    OBVIOUS
  <2>2. first[d] \in Seq(OutMessages) /\ Kinds(first[d])
    BY <1>15, <1>16, <1>20, <1>22
  <2>3. PICK u : u = first[d]
    OBVIOUS
  <2>4. PICK v : v = tells[d]
    OBVIOUS
  <2>5. u \o v \in Seq(OutMessages) /\ Kinds(u \o v)
    BY <1>21, <1>23, <2>2, <2>3, <2>4
  <2>6. QED BY <1>20, <2>3, <2>4, <2>5
\* The end is told to whoever hears of the turn.
<1>25. ASSUME started = FALSE, NEW d \in Conns, q.session \in subs[d]
       PROVE  EndsAfter(posts[d], 0, q.key)
  <2>1. PICK w \in {none, wn} : tells[d] = w \o we
    BY <1>20, <1>25, <1>33
  <2>7. w \in Seq(OutMessages)
    BY <1>15, <1>19
  <2>2. w \in Seq(OutMessages) /\ 0 \in 0 .. Len(w)
    BY <2>7, LenProperties
  <2>3. EndsAfter(tells[d], 0, q.key)
    BY <1>19, <2>1, <2>2, PostedEnds
  <2>8. first[d] \in Seq(OutMessages)
    BY <1>15, <1>16, <1>20
  <2>4. first[d] \in Seq(OutMessages) /\ tells[d] \in Seq(OutMessages) /\ 0 \in 0 .. Len(first[d])
    BY <1>23, <2>8, LenProperties
  <2>5. EndsAfter(first[d] \o tells[d], 0, q.key)
    BY <2>3, <2>4, PostedEnds
  <2>6. QED BY <1>20, <2>5
<1>26. /\ \A l \in Keys : fate'[l] = IF ~started /\ l = q.key THEN "failed" ELSE fate[l]
       /\ handling'[c] = None /\ \A d \in Conns : d # c => handling'[d] = handling[d]
  BY <1>0, <1>1, <1>13 DEF DaemonTypes
<1>27. QuestionsInv'
  BY <1>0, <1>1, <1>5, <1>26 DEF QuestionsInv, Asked
<1>28. HandlersInv'
  <2>1. SUFFICES ASSUME NEW d \in Conns, handling'[d] # None
                 PROVE  /\ fate'[handling'[d].key] = "active" /\ question[handling'[d].key].conn = d
                        /\ question[handling'[d].key].session = handling'[d].session
    BY <1>1 DEF HandlersInv
  <2>2. d # c /\ handling'[d] = handling[d] /\ handling[d] # None
    BY <1>26, <2>1
  <2>3. handling[d].key \in Keys
    BY <1>0, <2>2 DEF DaemonTypes, HeldCalls, Calls, OrNone
  <2>4. /\ fate[handling[d].key] = "active" /\ question[handling[d].key].conn = d
        /\ question[handling[d].key].session = handling[d].session
    BY <1>0, <2>2 DEF HandlersInv
  <2>5. handling[d].key # q.key
    BY <1>5, <2>2, <2>4
  <2>6. QED BY <1>26, <2>2, <2>3, <2>4, <2>5
<1>29. ASSUME NEW d \in Conns, NEW l \in Watched(d)
       PROVE  l \in Watched(d)' \/ EndsAfter(posts[d], 0, l)
  <2>1. l \in Keys /\ fate[l] = "active" /\ question[l].session \in subs[d]
    BY DEF Watched
  <2>2. CASE started \/ l # q.key
    BY <1>1, <1>26, <2>1, <2>2 DEF Watched
  <2>3. CASE ~started /\ l = q.key
    BY <1>5, <1>25, <2>1, <2>3
  <2>4. QED BY <2>2, <2>3
\* It is accepted for an ask that hears of the turn.
<1>30. ASSUME crossed = FALSE, NEW d \in Conns, link[d] = "open", NEW i \in 1 .. Len(posts[d]),
              posts[d][i].says = "accepted"
       PROVE  posts[d][i].key \in Watched(d)'
  <2>1. started /\ posts[d][i].key = q.key
    BY <1>24, <1>30 DEF Kinds
  <2>2. d = c /\ q.from \in Tasks
    <3>1. ASSUME first[d] = none PROVE FALSE
      <4>1. posts[d] = tells[d]
        <5>1. PICK v : v = tells[d]
          OBVIOUS
        <5>2. v \in Seq(OutMessages)
          BY <1>23, <5>1
        <5>3. none \o v = v
          BY <1>14, <5>2, ConcatEmptySeq
        <5>4. posts[d] = none \o tells[d]
          BY <1>20, <3>1
        <5>5. QED BY <5>1, <5>3, <5>4
      <4>2. tells[d] = none \/ tells[d] = wn
        <5>1. ASSUME NEW w \in {none, wn}, tells[d] = w \o other PROVE tells[d] = none \/ tells[d] = wn
          <6>1. w \in Seq(OutMessages)
            BY <1>15, <1>19
          <6>2. w \o none = w
            BY <1>14, <6>1, ConcatEmptySeq
          <6>3. other = none
            BY <1>33, <2>1
          <6>4. QED BY <5>1, <6>2, <6>3
        <5>2. QED BY <1>20, <5>1
      <4>3. posts[d] = none \/ posts[d] = wn
        BY <4>1, <4>2
      <4>4. QED BY <1>15, <1>19, <1>30, <4>3
    <3>2. QED BY <1>20, <1>24, <1>30, <3>1 DEF Kinds
  <2>3. PICK x \in Tasks : q.from = x
    BY <2>2
  <2>4. CallOK(c, x, task[x], inbox[c], handling[c], outbox[c])
    BY <1>0, <1>30, <2>2 DEF CallInv
  <2>5. ~NoCall(x, inbox[c], handling[c], outbox[c]) /\ q = Asks(x, task[x])
    BY <1>1, <1>3, <2>3, <2>4 DEF CallOK, NoCall
  <2>6. Waiting(c, task[x]) /\ task[x].at = "sending" /\ task[x].session = q.session
    BY <1>4, <2>4, <2>5 DEF CallOK, Asks
  <2>7. x = "ask" /\ Live("ask") /\ task["ask"].conn = c
    BY <1>0, <1>30, <2>2, <2>6 DEF TasksInv, TaskOK, Waiting, Live
  <2>8. q.session \in subs[c]
    BY <1>0, <1>30, <2>6, <2>7 DEF WatchInv, ChatInv
  <2>9. QED BY <1>1, <1>4, <1>5, <1>26, <2>1, <2>2, <2>8 DEF Watched
<1>31. \A d \in Conns : /\ posts[d] \in Seq(OutMessages)
                        /\ \A i \in 1 .. Len(posts[d]) :
                              /\ posts[d][i].says \notin {"ok", "not_found"}
                              /\ posts[d][i].snapshot = None
  BY <1>24 DEF Kinds
<1>32. QED BY <1>1, <1>13, <1>27, <1>28, <1>29, <1>30, <1>31, TellsWatch

LEMMA DropConnWatch ==
    ASSUME Native = FALSE, IInv, WInv, NEW c \in Conns, DropConn(c)
    PROVE  WInv'
<1>0. /\ PageTypes /\ DaemonTypes /\ QuestionsInv /\ HandlersInv /\ StoreInv /\ AnswersInv /\ WatchInv
  BY DEF IInv, Types, WInv
<1>1. /\ inbox' = [inbox EXCEPT ![c] = <<>>]
      /\ UNCHANGED <<outbox, handling, subs, store, question, panel, task, link, crossed>>
  BY DEF DropConn, DaemonStep, pageVars
<1>2. fate' = fate
  <2>1. fate' = [k \in Keys |-> fate[k]]
    BY DEF DropConn
  <2>2. QED BY <1>0, <2>1 DEF DaemonTypes
<1>3. inbox'[c] = <<>> /\ \A d \in Conns : d # c => inbox'[d] = inbox[d]
  BY <1>0, <1>1 DEF PageTypes
<1>4. QuestionsInv'
  BY <1>0, <1>1, <1>2, <1>3, EmptySeq DEF QuestionsInv, Asked
<1>5. HandlersInv'
  BY <1>0, <1>1, <1>2 DEF HandlersInv
<1>6. AnswersInv'
  BY <1>0, <1>1 DEF AnswersInv, Holding
<1>7. PageSame /\ Grows
  BY <1>1 DEF PageSame, Grows
<1>8. \A d \in Conns : link[d] = "open" => \A s \in subs'[d] : store'[s] = "known"
  BY <1>0, <1>1 DEF StoreInv
<1>9. crossed = FALSE => TurnInv' /\ OutInv'
  <2>1. \A d \in Conns : Watched(d)' = Watched(d)
    BY <1>1, <1>2 DEF Watched
  <2>2. QED BY <1>0, <1>1, <2>1 DEF WatchInv, TurnInv, Ending, OutInv
<1>10. QED BY <1>4, <1>5, <1>6, <1>7, <1>8, <1>9, ServedWatch

\* What is forgotten was watched by nobody.
LEMMA ForgetWatch ==
    ASSUME IInv, WInv, Forget
    PROVE  WInv'
<1>0. /\ PageTypes /\ DaemonTypes /\ TasksInv /\ QuestionsInv /\ StoreInv /\ CallersInv /\ WatchInv
  BY DEF IInv, Types, WInv
<1>1. UNCHANGED <<inbox, outbox, handling, subs, question, panel, task, link, crossed>>
  BY DEF Forget, DaemonStep, pageVars
<1>2. \A c \in Conns : link[c] # "open" /\ link[c] # "stalled" /\ handling[c] = None /\ inbox[c] = <<>>
  BY DEF Forget
<1>3. \A k \in Keys : fate'[k] # "absent" => fate[k] # "absent"
  BY DEF Forget
<1>4. QuestionsInv'
  BY <1>0, <1>1, <1>3 DEF QuestionsInv, Asked
<1>5. HandlersInv' /\ AnswersInv' /\ OutInv'
  BY <1>1, <1>2 DEF HandlersInv, AnswersInv, OutInv
<1>6. StoreInv'
  <2>1. \A s \in Sessions : store[s] # "unused" => store'[s] # "unused"
    BY DEF Forget
  <2>2. /\ panel.session # None => panel.session \in Sessions
        /\ \A x \in Tasks : task[x].session # None => task[x].session \in Sessions
    BY <1>0 DEF PageTypes, Panels, TaskStates, OrNone
  <2>3. QED BY <1>0, <1>1, <1>2, <2>1, <2>2 DEF StoreInv
<1>7. \A x \in Tasks : ~Live(x)'
  BY <1>0, <1>1, <1>2 DEF Live, TasksInv, TaskOK
<1>8. FetchInv' /\ CallersInv'
  BY <1>0, <1>1, <1>7 DEF FetchInv, CallersInv
<1>9. ASSUME crossed' = FALSE PROVE ChatInv' /\ TurnInv'
  <2>1. ChatInv /\ TurnInv
    BY <1>0, <1>1, <1>9 DEF WatchInv
  <2>2. TurnInv'
    BY <1>1, <1>2, <2>1 DEF TurnInv, Ending
  <2>3. panel.current # None => panel.current \in Conns
    BY <1>0 DEF PageTypes, Panels, OrNone
  <2>4. QED BY <1>1, <1>2, <1>7, <2>1, <2>2, <2>3, Names DEF ChatInv
<1>10. QED BY <1>4, <1>5, <1>6, <1>8, <1>9 DEF WInv, WatchInv

LEMMA StutterWatch ==
    ASSUME WInv, UNCHANGED vars
    PROVE  WInv'
<1>1. UNCHANGED <<panel, task, link, inbox, outbox, handling, subs, store, fate, question, sent, told, crossed>>
  BY DEF vars, pageVars, daemonVars
<1>2. QuestionsInv' /\ HandlersInv' /\ StoreInv'
  BY <1>1 DEF WInv, QuestionsInv, HandlersInv, StoreInv, Asked
<1>3. AnswersInv' /\ FetchInv' /\ CallersInv'
  BY <1>1 DEF WInv, AnswersInv, Holding, FetchInv, CallersInv, Live
<1>4. \A c \in Conns : Watched(c)' = Watched(c)
  BY <1>1 DEF Watched
<1>5. WatchInv'
  BY <1>1, <1>4 DEF WInv, WatchInv, ChatInv, Live, TurnInv, Ending, OutInv
<1>6. QED BY <1>2, <1>3, <1>5 DEF WInv

LEMMA InitWatch == Init => WInv
<1> SUFFICES ASSUME Init PROVE WInv
  OBVIOUS
<1>1. /\ \A c \in Conns : link[c] = "unused" /\ inbox[c] = <<>> /\ handling[c] = None
      /\ \A k \in Keys : fate[k] = "absent"
      /\ \A x \in Tasks : task[x] = Idle
      /\ panel = FreshPanel
  BY DEF Init
<1>2. Idle.at = "idle" /\ Idle.session = None /\ "idle" \notin Requests /\ "idle" # "fetching"
  BY DEF Idle, Requests
<1>3. panel.session = None /\ panel.activeTurn = None /\ panel.subscribed = FALSE
  BY <1>1 DEF FreshPanel
<1>4. QuestionsInv /\ HandlersInv
  BY <1>1, EmptySeq DEF QuestionsInv, HandlersInv
<1>5. StoreInv /\ AnswersInv
  BY <1>1, <1>2, <1>3 DEF StoreInv, AnswersInv
<1>6. FetchInv /\ CallersInv
  BY <1>1, <1>2 DEF FetchInv, CallersInv, Live
<1>7. WatchInv
  BY <1>1, <1>2, <1>3, Names DEF WatchInv, ChatInv, TurnInv, OutInv, Live
<1>8. QED BY <1>4, <1>5, <1>6, <1>7 DEF WInv

LEMMA NextWatch ==
    ASSUME Native = FALSE, IInv, WInv, [Next]_vars
    PROVE  WInv'
<1>0. IInv'
  BY NextInv
<1>1. ASSUME NEW x \in Tasks, Reject(x) PROVE WInv'
  BY <1>0, <1>1, RejectWatch
<1>2. ASSUME Settled, Event PROVE WInv'
  <2>1. ASSUME NEW text \in Texts, Submit(text) PROVE WInv'
    BY <1>0, <2>1, SubmitWatch
  <2>2. CASE AskSteps
    BY <1>0, <1>2, <2>2, ScopeWatch, CaptureWatch DEF AskSteps
  <2>3. ASSUME NEW x \in Tasks, TaskSteps(x) PROVE WInv'
    BY <1>0, <1>2, <2>3, ConnectedWatch, ConnectFailsWatch, TimeoutWatch DEF TaskSteps
  <2>4. ASSUME NEW c \in Conns, Receive(c) \/ Stall(c) \/ Lose(c) \/ DropConn(c) PROVE WInv'
    BY <1>0, <2>4, ReceiveWatch, StallWatch, LoseWatch, DropConnWatch
  <2>5. ASSUME NEW c \in Conns, Serves(c) PROVE WInv'
    BY <2>5, HandleWatch, SendHandledWatch DEF Serves
  <2>6. ASSUME NEW k \in Keys, NEW outcome \in {"completed", "failed"}, TurnEnds(k, outcome) PROVE WInv'
    BY <2>6, TurnEndsWatch
  <2>7. CASE Reload
    BY <1>0, <2>7, ReloadWatch
  <2>8. CASE Forget
    BY <2>8, ForgetWatch
  <2>9. QED BY <1>2, <2>1, <2>2, <2>3, <2>4, <2>5, <2>6, <2>7, <2>8 DEF Event
<1>3. CASE UNCHANGED vars
  BY <1>3, StutterWatch
<1>4. QED BY <1>1, <1>2, <1>3 DEF Next

\* Over WebSockets, every turn that the page shows as active is one whose end it
\* will be told, or a connection is about to be lost: until a connection takes
\* the place of one that the chat relies on, the page never waits for a turn that
\* nobody tells it the end of.
THEOREM ActiveTurnWatched ==
    ASSUME Native = FALSE
    PROVE  Spec => []ActiveTurnIsWatched
<1>1. Init => IInv /\ WInv
  BY InitInv, InitWatch
<1>2. IInv /\ WInv /\ [Next]_vars => IInv' /\ WInv'
  BY NextInv, NextWatch
<1>3. IInv /\ WInv => ActiveTurnIsWatched
  <2> SUFFICES ASSUME IInv, WInv, ~crossed, panel.activeTurn # None, ~panel.recovering
               PROVE  EndIsComing(panel.activeTurn)
    BY DEF ActiveTurnIsWatched, PanelLearnsEnd
  <2>1. crossed = FALSE /\ panel.recovering = FALSE
    BY DEF IInv, Types, PageTypes, Panels
  <2>2. Ending(panel.activeTurn)
    BY <2>1 DEF WInv, WatchInv, TurnInv
  <2>3. QED BY <2>2 DEF Ending, EndIsComing, Watched, EndsAfter, Hears
<1>4. QED BY <1>1, <1>2, <1>3, PTL DEF Spec
===============================================================================

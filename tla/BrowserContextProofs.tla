------------------------ MODULE BrowserContextProofs ------------------------
(***************************************************************************)
(* Theorems about BrowserContext, whatever the rules for texts are.        *)
(***************************************************************************)
EXTENDS BrowserContext, FiniteSetTheorems, WellFoundedInduction, TLAPS

-----------------------------------------------------------------------------
\* The entry.

Connections == [via : {"none", "websocket", "native"}, allowed : BOOLEAN, ready : BOOLEAN]
EntryInv ==
    /\ conn \in Connections /\ proved \in BOOLEAN
    /\ conn = NoConn => stored = None /\ prompted = None
    /\ EntryIsChecked

LEMMA InitEntry == Init => EntryInv
<1>1. NoConn \in Connections /\ NoConn.ready = FALSE
  BY DEF NoConn, Connections
<1>2. QED BY <1>1 DEF Init, EntryInv, EntryIsChecked

LEMMA EntryStep == EntryInv /\ [Next]_vars => EntryInv'
<1> SUFFICES ASSUME EntryInv, [Next]_vars PROVE EntryInv'
  OBVIOUS
<1> USE DEF EntryInv, EntryIsChecked
<1>1. ASSUME NEW at, NEW n, Redirect(at, n) PROVE EntryInv'
  BY <1>1 DEF Redirect
<1>2. CASE HttpRequest
  <2>1. ASSUME NEW origin, HttpForeign(origin) PROVE EntryInv'
    BY <2>1 DEF HttpForeign, Served, Answer
  <2>2. ASSUME NEW method, Preflight(method) PROVE EntryInv'
    BY <2>2 DEF Preflight, Served, Answer
  <2>3. ASSUME NEW server, NEW token, NEW body \in Bodies, HttpCapture(server, token, body) PROVE EntryInv'
    BY <2>3 DEF HttpCapture, Served, Answer, Bodies
  <2>4. QED BY <1>2, <2>1, <2>2, <2>3 DEF HttpRequest
<1>3. CASE TakeReply
  BY <1>3 DEF TakeReply
<1>4. ASSUME NEW via \in {"websocket", "native"}, NEW origin, Connect(via, origin) PROVE EntryInv'
  <2>1. CASE via = "websocket" /\ origin = "web"
    BY <1>4, <2>1 DEF Connect, Replies, Answer
  <2>2. CASE ~(via = "websocket" /\ origin = "web")
    <3>1. PICK b \in BOOLEAN : b = (origin # "web")
      OBVIOUS
    <3>2. conn' = [via |-> via, allowed |-> b, ready |-> FALSE]
          /\ UNCHANGED <<reply, proved, stored, prompted>> /\ conn = NoConn
      BY <1>4, <2>2, <3>1 DEF Connect
    <3>3. conn' \in Connections /\ conn'.ready = FALSE
      BY <3>2 DEF Connections
    <3>4. QED BY <3>2, <3>3
  <2>3. QED BY <2>1, <2>2
<1>5. CASE Disconnect
  BY <1>5 DEF Disconnect, NoConn, Connections
<1>6. ASSUME NEW version, NEW token, Initialize(version, token) PROVE EntryInv'
  <2>1. UNCHANGED <<stored, prompted>> /\ conn # NoConn
    BY <1>6 DEF Initialize
  <2>2. CASE UNCHANGED <<conn, proved>> /\ \E code \in {"unsupported_version", "unauthorized", "forbidden_origin"} :
               Replies(code)
    BY <2>1, <2>2 DEF Replies, Answer
  <2>3. CASE conn' = [conn EXCEPT !.ready = TRUE] /\ proved' = TRUE
    <3>1. conn' \in Connections /\ conn'.ready = TRUE
      BY <2>3 DEF Connections
    <3>2. conn' # NoConn
      BY <3>1 DEF NoConn
    <3>3. QED BY <2>1, <2>3, <3>1, <3>2
  <2>4. QED BY <1>6, <2>2, <2>3 DEF Initialize
<1>7. CASE NotJson \/ TooEarly \/ UnknownMethod \/ StatusGet
  BY <1>7 DEF NotJson, TooEarly, UnknownMethod, StatusGet, Turned, Replies, Answer
<1>8. ASSUME NEW body \in Bodies, NEW known, AttachBrowserContext(body, known) PROVE EntryInv'
  BY <1>8 DEF AttachBrowserContext, Replies, Answer, Bodies, NoConn
<1>9. CASE MessageSend
  BY <1>9 DEF MessageSend, Replies, Answer, NoConn
<1>10. CASE UNCHANGED vars
  BY <1>10 DEF vars
<1>11. QED BY <1>1, <1>2, <1>3, <1>4, <1>5, <1>6, <1>7, <1>8, <1>9, <1>10 DEF Next

\* Nothing is stored, told or given to Codex on a connection that has not shown
\* what its kind has to show, in whatever order it asks.
THEOREM EntryIsCheckedHolds == Spec => []EntryIsChecked
<1>1. Init => EntryInv
  BY InitEntry
<1>2. EntryInv /\ [Next]_vars => EntryInv'
  BY EntryStep
<1>3. EntryInv => EntryIsChecked
  BY DEF EntryInv
<1>4. QED BY <1>1, <1>2, <1>3, PTL DEF Spec
LEMMA TypeStep == EntryInv /\ EntryInv' /\ TypeOK /\ [Next]_vars => TypeOK'
<1> SUFFICES ASSUME EntryInv', TypeOK, [Next]_vars PROVE TypeOK'
  OBVIOUS
<1>1. /\ conn'.via \in {"none", "websocket", "native"} /\ conn'.ready \in BOOLEAN
      /\ proved' \in BOOLEAN
  BY DEF EntryInv, Connections
<1>2. redirects' \in 0 .. MaxRedirects
  <2>1. CASE redirects' = redirects
    BY <2>1 DEF TypeOK
  <2>2. ASSUME NEW at, NEW n, Redirect(at, n) PROVE redirects' \in 0 .. MaxRedirects
    BY <2>2, BoundsAssumption DEF Redirect, TypeOK
  <2>3. QED
    BY <2>1, <2>2 DEF Next, vars, HttpRequest, HttpForeign, Preflight, HttpCapture, Served,
                      TakeReply, Connect, Disconnect, Initialize, NotJson, TooEarly,
                      UnknownMethod, StatusGet, Turned, AttachBrowserContext, MessageSend
<1>3. reply' # None => reply'.cors \in BOOLEAN
  <2>1. \A status, capture : Answer(status, TRUE, capture).cors \in BOOLEAN
                             /\ Answer(status, FALSE, capture).cors \in BOOLEAN
    BY DEF Answer
  <2> HIDE DEF Answer
  <2>2. CASE UNCHANGED reply
    BY <2>2 DEF TypeOK
  <2>3. ASSUME NEW code, Replies(code) PROVE reply'.cors \in BOOLEAN
    BY <2>1, <2>3 DEF Replies
  <2>4. CASE HttpRequest
    <3>1. ASSUME NEW origin, HttpForeign(origin) PROVE reply'.cors \in BOOLEAN
      BY <2>1, <3>1 DEF HttpForeign
    <3>2. ASSUME NEW method, Preflight(method) PROVE reply'.cors \in BOOLEAN
      BY <2>1, <3>2 DEF Preflight
    <3>3. ASSUME NEW server, NEW token, NEW body \in Bodies, HttpCapture(server, token, body)
          PROVE  reply'.cors \in BOOLEAN
      BY <2>1, <3>3 DEF HttpCapture, Bodies
    <3>4. QED BY <2>4, <3>1, <3>2, <3>3 DEF HttpRequest
  <2>5. CASE TakeReply
    BY <2>5 DEF TakeReply
  <2>6. ASSUME NEW via, NEW origin, Connect(via, origin) PROVE reply' # None => reply'.cors \in BOOLEAN
    BY <2>2, <2>3, <2>6 DEF Connect
  <2>7. CASE Disconnect
    BY <2>2, <2>7 DEF Disconnect
  <2>8. ASSUME NEW version, NEW token, Initialize(version, token) PROVE reply'.cors \in BOOLEAN
    BY <2>3, <2>8 DEF Initialize
  <2>9. CASE NotJson \/ TooEarly \/ UnknownMethod \/ StatusGet
    BY <2>3, <2>9 DEF NotJson, TooEarly, UnknownMethod, StatusGet, Turned
  <2>10. ASSUME NEW body \in Bodies, NEW known \in BOOLEAN, AttachBrowserContext(body, known)
         PROVE  reply'.cors \in BOOLEAN
    BY <2>3, <2>10 DEF AttachBrowserContext, Bodies
  <2>11. CASE MessageSend
    BY <2>3, <2>11 DEF MessageSend
  <2>12. ASSUME NEW at, NEW n, Redirect(at, n) PROVE UNCHANGED reply
    BY <2>12 DEF Redirect
  <2>13. QED
    BY <2>2, <2>4, <2>5, <2>6, <2>7, <2>8, <2>9, <2>10, <2>11, <2>12 DEF Next, vars
<1>4. QED BY <1>1, <1>2, <1>3 DEF TypeOK

\* The variables keep their types.
THEOREM TypeCorrect == Spec => []TypeOK
<1>1. Init => EntryInv
  BY InitEntry
<1>2. Init => TypeOK
  BY <1>1, BoundsAssumption DEF Init, TypeOK, EntryInv, Connections
<1>3. EntryInv /\ [Next]_vars => EntryInv'
  BY EntryStep
<1>4. EntryInv /\ EntryInv' /\ TypeOK /\ [Next]_vars => TypeOK'
  BY TypeStep
<1>5. QED BY <1>1, <1>2, <1>3, <1>4, PTL DEF Spec

-----------------------------------------------------------------------------
\* What becomes of a page.

PageOK == page.items \in Seq(Items) \ {<<>>} /\ page = [url |-> page.url, items |-> page.items]

FlowInv ==
    /\ PageOK
    /\ conn = NoConn => stored = None /\ prompted = None
    /\ reply # None /\ reply.capture # None => reply.capture = ProcessCapture(page)
    /\ stored # None => stored = Attachment(ProcessCapture(page))
    /\ prompted # None =>
          stored # None /\ prompted = [context |-> stored.context, review |-> stored.review]

LEMMA FlowStep ==
    ASSUME EntryInv, FlowInv, [Next]_vars
    PROVE  FlowInv'
<1>0. /\ PageOK
      /\ conn = NoConn => stored = None /\ prompted = None
      /\ reply # None /\ reply.capture # None => reply.capture = ProcessCapture(page)
      /\ stored # None => stored = Attachment(ProcessCapture(page))
      /\ prompted # None =>
            stored # None /\ prompted = [context |-> stored.context, review |-> stored.review]
  BY DEF FlowInv
<1>1. ASSUME NEW at, NEW n, Redirect(at, n) PROVE FlowInv'
  <2>1. /\ page' = [page EXCEPT !.url = Place(at, Encode(@, n))]
        /\ reply = None /\ conn = NoConn /\ UNCHANGED <<conn, reply, stored, prompted>>
    BY <1>1 DEF Redirect
  <2>2. PageOK'
    BY <1>0, <2>1 DEF PageOK
  <2>3. QED BY <1>0, <2>1, <2>2 DEF FlowInv
<1>2. ASSUME UNCHANGED <<page, conn, stored, prompted>>,
             reply' # None => reply'.capture = None \/ reply'.capture = ProcessCapture(page)
      PROVE  FlowInv'
  <2>1. PageOK' /\ ProcessCapture(page)' = ProcessCapture(page)
    BY <1>0, <1>2 DEF PageOK
  <2>2. QED BY <1>0, <1>2, <2>1 DEF FlowInv
<1>3. CASE HttpRequest
  <2>1. ASSUME NEW origin, HttpForeign(origin) PROVE FlowInv'
    BY <1>2, <2>1 DEF HttpForeign, Served, Answer
  <2>2. ASSUME NEW method, Preflight(method) PROVE FlowInv'
    BY <1>2, <2>2 DEF Preflight, Served, Answer
  <2>3. ASSUME NEW server, NEW token, NEW body \in Bodies, HttpCapture(server, token, body) PROVE FlowInv'
    BY <1>2, <2>3 DEF HttpCapture, Served, Answer, Bodies
  <2>4. QED BY <1>3, <2>1, <2>2, <2>3 DEF HttpRequest
<1>4. CASE TakeReply
  BY <1>2, <1>4 DEF TakeReply
<1>5. CASE NotJson \/ TooEarly \/ UnknownMethod \/ StatusGet
  BY <1>2, <1>5 DEF NotJson, TooEarly, UnknownMethod, StatusGet, Turned, Replies, Answer
<1>6. ASSUME UNCHANGED <<page, stored, prompted>>, conn' = NoConn => conn = NoConn,
             reply' # None => reply' = reply \/ reply'.capture = None
      PROVE  FlowInv'
  <2>1. PageOK' /\ ProcessCapture(page)' = ProcessCapture(page)
    BY <1>0, <1>6 DEF PageOK
  <2>2. QED BY <1>0, <1>6, <2>1 DEF FlowInv
<1>7. ASSUME NEW via \in {"websocket", "native"}, NEW origin, Connect(via, origin) PROVE FlowInv'
  BY <1>6, <1>7 DEF Connect, Replies, Answer
<1>8. CASE Disconnect
  <2>1. PageOK'
    BY <1>0, <1>8 DEF PageOK, Disconnect
  <2>2. QED BY <1>8, <2>1 DEF FlowInv, Disconnect
<1>9. ASSUME NEW version, NEW token, Initialize(version, token) PROVE FlowInv'
  <2>1. conn # NoConn /\ conn \in Connections /\ UNCHANGED <<page, stored, prompted>>
    BY <1>9 DEF Initialize, EntryInv
  <2>2. conn' = conn \/ conn' = [conn EXCEPT !.ready = TRUE]
    BY <1>9 DEF Initialize
  <2>3. conn' # NoConn
    BY <2>1, <2>2 DEF NoConn, Connections
  <2>4. reply'.capture = None
    BY <1>9 DEF Initialize, Replies, Answer
  <2>5. QED BY <1>6, <2>1, <2>3, <2>4
<1>10. ASSUME NEW body \in Bodies, NEW known \in BOOLEAN, AttachBrowserContext(body, known)
       PROVE  FlowInv'
  <2>1. /\ conn.ready /\ stored = None /\ UNCHANGED <<page, conn, prompted>>
        /\ stored' = stored \/ stored' = Attachment(ProcessCapture(page))
        /\ reply'.capture = None
    <3>1. conn.ready /\ stored = None /\ UNCHANGED <<page, conn, prompted>>
      BY <1>10 DEF AttachBrowserContext
    <3>2. CASE body = "page" /\ known
      BY <1>10, <3>2 DEF AttachBrowserContext, Replies, Answer
    <3>3. CASE body = "page" /\ ~known
      BY <1>10, <3>3 DEF AttachBrowserContext, Replies, Answer
    <3>4. CASE body # "page"
      <4>1. (Replies("context_too_large") \/ Replies("context_rejected")) /\ UNCHANGED stored
        <5>1. CASE body = "large"
          BY <1>10, <5>1 DEF AttachBrowserContext
        <5>2. CASE body \in {"not_json", "old_version"}
          BY <1>10, <5>2 DEF AttachBrowserContext
        <5>3. QED BY <3>4, <5>1, <5>2 DEF Bodies
      <4>2. QED BY <3>1, <4>1 DEF Replies, Answer
    <3>5. QED BY <3>1, <3>2, <3>3, <3>4
  <2>2. PageOK' /\ ProcessCapture(page)' = ProcessCapture(page)
    BY <1>0, <2>1 DEF PageOK
  <2>3. conn # NoConn
    BY <2>1 DEF NoConn
  <2>4. QED BY <1>0, <2>1, <2>2, <2>3 DEF FlowInv
<1>11. CASE MessageSend
  <2>1. /\ conn.ready /\ stored # None /\ UNCHANGED <<page, conn, stored>>
        /\ prompted' = [context |-> stored.context, review |-> stored.review]
        /\ reply'.capture = None
    BY <1>11 DEF MessageSend, Replies, Answer
  <2>2. PageOK' /\ ProcessCapture(page)' = ProcessCapture(page)
    BY <1>0, <2>1 DEF PageOK
  <2>3. conn # NoConn
    BY <2>1 DEF NoConn
  <2>4. QED BY <1>0, <2>1, <2>2, <2>3 DEF FlowInv
<1>12. CASE UNCHANGED vars
  BY <1>6, <1>12 DEF vars
<1>13. QED BY <1>1, <1>3, <1>4, <1>5, <1>7, <1>8, <1>9, <1>10, <1>11, <1>12 DEF Next

LEMMA Flow == Spec => [](EntryInv /\ FlowInv)
<1>1. Init => EntryInv
  BY InitEntry
<1>2. Init => FlowInv
  BY PagesAssumption DEF Init, FlowInv, PageOK
<1>3. EntryInv /\ FlowInv /\ [Next]_vars => EntryInv' /\ FlowInv'
  BY EntryStep, FlowStep
<1>4. QED BY <1>1, <1>2, <1>3, PTL DEF Spec

-----------------------------------------------------------------------------
\* What a capture makes of the page.

LEMMA LabelProperties ==
    ASSUME NEW item, DOMAIN item.texts \subseteq Nat
    PROVE  \/ LabelOf(item) = <<>>
           \/ \E j \in DOMAIN item.texts : LabelOf(item) = item.texts[j]
<1> DEFINE filled == {i \in DOMAIN item.texts : item.texts[i] # <<>>}
<1>1. CASE filled = {}
  BY <1>1 DEF LabelOf
<1>2. CASE filled # {}
  <2>1. PICK i \in filled : \A j \in filled : ~ (<<j, i>> \in OpToRel(<, Nat))
    BY <1>2, NatLessThanWellFounded, WFMin
  <2>2. \A j \in filled : i <= j
    <3>1. i \in Nat /\ \A j \in filled : j \in Nat
      OBVIOUS
    <3>2. \A j \in filled : ~ (j < i)
      BY <2>1, <3>1 DEF OpToRel
    <3>3. QED BY <3>1, <3>2
  <2> DEFINE first == CHOOSE n \in filled : \A j \in filled : n <= j
  <2>3. first \in filled
    BY <2>2
  <2>4. LabelOf(item) = item.texts[first]
    BY <1>2 DEF LabelOf
  <2>5. QED BY <2>3, <2>4
<1>3. QED BY <1>1, <1>2

LEMMA PlaceIn ==
    ASSUME NEW items, NEW place
    PROVE  place \in Places(items) <=>
              \E i \in DOMAIN items : \E j \in DOMAIN items[i].texts : place = <<i, j>>
  BY DEF Places

\* The page, its masked form and the context have the same places.
SameShape(c) ==
    /\ DOMAIN c.items = DOMAIN page.items
    /\ \A i \in DOMAIN page.items : /\ DOMAIN c.items[i].texts = DOMAIN page.items[i].texts
                                    /\ c.items[i].visible = page.items[i].visible

LEMMA SanitizedAt ==
    ASSUME NEW m, m = Sanitized(page)
    PROVE  /\ SameShape(m) /\ m.url = UrlRule(page.url)
           /\ \A i \in DOMAIN page.items : \A j \in DOMAIN page.items[i].texts :
                 m.items[i].texts[j] = TextRule(page.items[i].texts[j])
<1>1. m.url = UrlRule(page.url)
      /\ m.items = [i \in DOMAIN page.items |->
                      [texts |-> [j \in DOMAIN page.items[i].texts |-> TextRule(page.items[i].texts[j])],
                       visible |-> page.items[i].visible]]
  BY DEF Sanitized, Mapped
<1>2. QED BY <1>1 DEF SameShape

LEMMA ContextIs ==
    ASSUME NEW c, c = ContextOf(Sanitized(page))
    PROVE  /\ c.url = UrlRule(page.url).text /\ c = [url |-> c.url, items |-> c.items]
           /\ c.items = [i \in DOMAIN page.items |->
                 [texts |-> [j \in DOMAIN page.items[i].texts |-> TextRule(page.items[i].texts[j]).text],
                  visible |-> page.items[i].visible]]
<1>1. PICK m : m = Sanitized(page)
  OBVIOUS
<1>2. /\ SameShape(m) /\ m.url = UrlRule(page.url)
      /\ \A i \in DOMAIN page.items : \A j \in DOMAIN page.items[i].texts :
            m.items[i].texts[j] = TextRule(page.items[i].texts[j])
  BY <1>1, SanitizedAt
<1>3. /\ c = [url |-> m.url.text, items |-> c.items]
      /\ c.items = [i \in DOMAIN m.items |->
                      [texts |-> [j \in DOMAIN m.items[i].texts |-> m.items[i].texts[j].text],
                       visible |-> m.items[i].visible]]
  BY <1>1 DEF ContextOf, Mapped, TextOf
<1>4. c.url = UrlRule(page.url).text /\ c = [url |-> c.url, items |-> c.items]
  BY <1>2, <1>3
<1>5. \A i \in DOMAIN page.items :
         [texts |-> [j \in DOMAIN m.items[i].texts |-> m.items[i].texts[j].text], visible |-> m.items[i].visible]
         = [texts |-> [j \in DOMAIN page.items[i].texts |-> TextRule(page.items[i].texts[j]).text],
            visible |-> page.items[i].visible]
  BY <1>2 DEF SameShape
<1>6. DOMAIN m.items = DOMAIN page.items
  BY <1>2, SMTT(30) DEF SameShape
<1>7. QED BY <1>3, <1>4, <1>5, <1>6

LEMMA ContextAt ==
    ASSUME NEW c, c = ContextOf(Sanitized(page))
    PROVE  /\ SameShape(c) /\ c.url = UrlRule(page.url).text
           /\ \A i \in DOMAIN page.items : \A j \in DOMAIN page.items[i].texts :
                 c.items[i].texts[j] = TextRule(page.items[i].texts[j]).text
<1>1. /\ c.url = UrlRule(page.url).text
      /\ c.items = [i \in DOMAIN page.items |->
            [texts |-> [j \in DOMAIN page.items[i].texts |-> TextRule(page.items[i].texts[j]).text],
             visible |-> page.items[i].visible]]
  BY ContextIs
<1>2. QED BY <1>1 DEF SameShape

-----------------------------------------------------------------------------
\* What the rules are relied on for, of the texts of the page that is captured.

\* What they return has no secret in it that can be read.
RulesHide ==
    /\ Readable(UrlRule(page.url).text)
    /\ \A place \in Places(page.items) : Readable(TextRule(At(page.items, place)).text)

\* They leave a page alone that has no secret and is not encoded too often.
RulesKeep ==
    Benign(page.url) /\ (\A place \in Places(page.items) : Benign(At(page.items, place))) =>
        /\ ~UrlRule(page.url).masked /\ (page.url # <<>> => UrlRule(page.url).text = page.url)
        /\ \A place \in Places(page.items) :
              LET t == At(page.items, place)
              IN ~TextRule(t).masked /\ TextRule(t).text = t

\* They say of a text that it is masked exactly if they changed it.
RulesTell ==
    /\ UrlRule(page.url).masked <=> UrlRule(page.url).text # page.url
    /\ \A place \in Places(page.items) :
          LET t == At(page.items, place)
          IN TextRule(t).masked <=> TextRule(t).text # t

LEMMA ContextReadable ==
    ASSUME PageOK, RulesHide, NEW c, c = ContextOf(Sanitized(page))
    PROVE  /\ ContextIsReadable(c)
           /\ Readable(PromptOf(c).url)
           /\ \A i \in DOMAIN PromptOf(c).labels : Readable(PromptOf(c).labels[i])
           /\ Readable(IF c.url # <<>> THEN c.url ELSE LabelOf(c.items[1]))
<1>1. /\ SameShape(c) /\ c.url = UrlRule(page.url).text
      /\ \A i \in DOMAIN page.items : \A j \in DOMAIN page.items[i].texts :
            c.items[i].texts[j] = TextRule(page.items[i].texts[j]).text
  BY ContextAt
<1>2. \A i \in DOMAIN page.items : \A j \in DOMAIN page.items[i].texts : Readable(c.items[i].texts[j])
  <2>1. SUFFICES ASSUME NEW i \in DOMAIN page.items, NEW j \in DOMAIN page.items[i].texts
                 PROVE  Readable(c.items[i].texts[j])
    OBVIOUS
  <2>2. PICK place : place = <<i, j>>
    OBVIOUS
  <2>3. place \in Places(page.items) /\ At(page.items, place) = page.items[i].texts[j]
    BY <2>2, PlaceIn DEF At
  <2>4. QED BY <1>1, <2>3 DEF RulesHide
<1>3. Readable(c.url)
  BY <1>1 DEF RulesHide
<1>4. ContextIsReadable(c)
  <2>1. ASSUME NEW place \in Places(c.items) PROVE Readable(At(c.items, place))
    <3>0. PICK i \in DOMAIN c.items : \E j \in DOMAIN c.items[i].texts : place = <<i, j>>
      BY PlaceIn
    <3>1. PICK j \in DOMAIN c.items[i].texts : place = <<i, j>>
      BY <3>0
    <3>2. At(c.items, place) = c.items[i].texts[j]
      BY <3>1 DEF At
    <3>3. QED BY <1>1, <1>2, <3>1, <3>2 DEF SameShape
  <2>2. QED BY <1>3, <2>1 DEF ContextIsReadable
<1>5. ASSUME NEW i \in DOMAIN c.items PROVE Readable(LabelOf(c.items[i]))
  <2>1. PICK item : item = c.items[i]
    OBVIOUS
  <2>2. DOMAIN item.texts = DOMAIN page.items[i].texts /\ i \in DOMAIN page.items
    BY <1>1, <1>5, <2>1 DEF SameShape
  <2>3. page.items[i].texts \in Seq(Seq(Pieces))
    <3>1. page.items \in Seq(Items)
      BY DEF PageOK
    <3>2. page.items[i] \in Items
      BY <2>2, <3>1
    <3>3. QED BY <3>2 DEF Items
  <2>4. DOMAIN item.texts \subseteq Nat
    BY <2>2, <2>3
  <2>5. LabelOf(item) = <<>> \/ \E j \in DOMAIN item.texts : LabelOf(item) = item.texts[j]
    BY <2>4, LabelProperties
  <2>6. Readable(<<>>)
    BY DEF Readable
  <2>7. QED BY <1>2, <2>1, <2>2, <2>5, <2>6
<1>6. /\ PromptOf(c).url = c.url
      /\ DOMAIN PromptOf(c).labels = Shown(c.items)
      /\ \A i \in Shown(c.items) : PromptOf(c).labels[i] = LabelOf(c.items[i]) /\ i \in DOMAIN c.items
  BY DEF PromptOf, Shown
<1>7. 1 \in DOMAIN c.items
  <2>1. page.items \in Seq(Items) /\ page.items # <<>>
    BY DEF PageOK
  <2>2. 1 \in DOMAIN page.items
    BY <2>1
  <2>3. QED BY <1>1, <2>2 DEF SameShape
<1>8. QED BY <1>3, <1>4, <1>5, <1>6, <1>7

\* Nothing readable that the rules would have masked is in a reply, in the store
\* or in what Codex is given: the handlers pass on only what the rules returned.
THEOREM NothingHidesHolds == Spec => [](RulesHide => NothingHides)
<1>1. ASSUME FlowInv, RulesHide PROVE NothingHides
  <2>0. PageOK
    BY <1>1 DEF FlowInv
  <2>1. PICK c : c = ContextOf(Sanitized(page))
    OBVIOUS
  <2>2. /\ ContextIsReadable(c) /\ Readable(PromptOf(c).url)
        /\ \A i \in DOMAIN PromptOf(c).labels : Readable(PromptOf(c).labels[i])
        /\ Readable(IF c.url # <<>> THEN c.url ELSE LabelOf(c.items[1]))
    BY <1>1, <2>0, <2>1, ContextReadable
  <2>3. PICK capture : capture = ProcessCapture(page)
    OBVIOUS
  <2>4. capture.context = c /\ capture.prompt = PromptOf(c)
    BY <2>1, <2>3 DEF ProcessCapture, CaptureOf
  <2>5. Captured => reply.capture = capture
    BY <1>1, <2>3 DEF FlowInv, Captured
  <2>6. ASSUME stored # None
        PROVE  stored.context = c /\ stored.summary = IF c.url # <<>> THEN c.url ELSE LabelOf(c.items[1])
    BY <1>1, <2>3, <2>4, <2>6 DEF FlowInv, Attachment
  <2>7. prompted # None => stored # None /\ prompted.context = stored.context
    BY <1>1 DEF FlowInv
  <2>8. QED BY <2>2, <2>4, <2>5, <2>6, <2>7 DEF NothingHides
<1>2. EntryInv /\ FlowInv => (RulesHide => NothingHides)
  BY <1>1
<1>3. QED BY <1>2, Flow, PTL

-----------------------------------------------------------------------------
\* What is masked, and how much.

LEMMA PlacesFinite ==
    ASSUME NEW items \in Seq(Items)
    PROVE  IsFiniteSet(Places(items))
<1> DEFINE Fields(i) == {<<i, j>> : j \in DOMAIN items[i].texts}
           Family == {Fields(i) : i \in DOMAIN items}
<1>1. ASSUME NEW i \in DOMAIN items PROVE IsFiniteSet(Fields(i))
  <2>1. items[i] \in Items
    BY <1>1
  <2>2. items[i].texts \in Seq(Seq(Pieces))
    BY <2>1 DEF Items
  <2>3. DOMAIN items[i].texts = 1 .. Len(items[i].texts) /\ Len(items[i].texts) \in Nat
    BY <2>2
  <2>4. IsFiniteSet(DOMAIN items[i].texts)
    BY <2>3, FS_Interval
  <2> DEFINE f == [j \in DOMAIN items[i].texts |-> <<i, j>>]
  <2>5. f \in Surjection(DOMAIN items[i].texts, Fields(i))
    BY DEF Surjection
  <2> HIDE DEF f, Fields
  <2>6. QED BY <2>4, <2>5, FS_Surjection
<1>2. DOMAIN items = 1 .. Len(items) /\ Len(items) \in Nat
  OBVIOUS
<1>3. IsFiniteSet(DOMAIN items)
  BY <1>2, FS_Interval
<1>4. IsFiniteSet(Family)
  <2> DEFINE f == [i \in DOMAIN items |-> Fields(i)]
  <2> HIDE DEF Fields
  <2>1. f \in Surjection(DOMAIN items, Family)
    BY DEF Surjection
  <2> HIDE DEF f, Family
  <2>2. QED BY <1>3, <2>1, FS_Surjection
<1>5. \A T \in Family : IsFiniteSet(T)
  BY <1>1
<1>6. Places(items) = UNION Family
  BY DEF Places
<1> HIDE DEF Family
<1>7. QED BY <1>4, <1>5, <1>6, FS_UNION

LEMMA MaskedCount ==
    ASSUME PageOK, NEW m, m = Sanitized(page)
    PROVE  /\ MaskedTexts(m) \in Nat
           /\ MaskedTexts(m) > 0 <=>
                 \/ UrlRule(page.url).masked
                 \/ \E place \in Places(page.items) : TextRule(At(page.items, place)).masked
<1> DEFINE masked == {place \in Places(m.items) : At(m.items, place).masked}
<1>1. /\ SameShape(m) /\ m.url = UrlRule(page.url)
      /\ \A i \in DOMAIN page.items : \A j \in DOMAIN page.items[i].texts :
            m.items[i].texts[j] = TextRule(page.items[i].texts[j])
  BY SanitizedAt
<1>2. Places(m.items) = Places(page.items)
  <2>1. \A place : place \in Places(m.items) <=> place \in Places(page.items)
    BY <1>1, PlaceIn DEF SameShape
  <2>2. QED BY <2>1
<1>3. \A place \in Places(page.items) : At(m.items, place) = TextRule(At(page.items, place))
  <2>1. SUFFICES ASSUME NEW place \in Places(page.items)
                 PROVE  At(m.items, place) = TextRule(At(page.items, place))
    OBVIOUS
  <2>2. PICK i \in DOMAIN page.items : \E j \in DOMAIN page.items[i].texts : place = <<i, j>>
    BY PlaceIn
  <2>3. PICK j \in DOMAIN page.items[i].texts : place = <<i, j>>
    BY <2>2
  <2>4. At(m.items, place) = m.items[i].texts[j] /\ At(page.items, place) = page.items[i].texts[j]
    BY <2>3 DEF At
  <2>5. QED BY <1>1, <2>4
<1>4. masked = {place \in Places(page.items) : TextRule(At(page.items, place)).masked}
  BY <1>2, <1>3
<1>5. IsFiniteSet(masked)
  <2>1. IsFiniteSet(Places(page.items))
    BY PlacesFinite DEF PageOK
  <2>2. masked \in SUBSET Places(page.items)
    BY <1>2
  <2> HIDE DEF masked
  <2>3. QED BY <2>1, <2>2, FS_Subset
<1>6. Cardinality(masked) \in Nat /\ (Cardinality(masked) = 0 <=> masked = {})
  <2> HIDE DEF masked
  <2>1. QED BY <1>5, FS_CardinalityType, FS_EmptySet
<1>7. MaskedTexts(m) = Cardinality(masked) + (IF UrlRule(page.url).masked THEN 1 ELSE 0)
  BY <1>1 DEF MaskedTexts
<1>8. masked # {} <=> \E place \in Places(page.items) : TextRule(At(page.items, place)).masked
  BY <1>4
<1> HIDE DEF masked
<1>9. CASE UrlRule(page.url).masked
  BY <1>6, <1>7, <1>9
<1>10. CASE ~UrlRule(page.url).masked
  BY <1>6, <1>7, <1>8, <1>10
<1>11. QED BY <1>9, <1>10

LEMMA SameContext ==
    ASSUME PageOK, NEW c, c = ContextOf(Sanitized(page)),
           \A place \in Places(page.items) : TextRule(At(page.items, place)).text = At(page.items, place)
    PROVE  c.items = page.items /\ (c.url = page.url => c = page)
<1>1. /\ c = [url |-> c.url, items |-> c.items]
      /\ c.items = [i \in DOMAIN page.items |->
            [texts |-> [j \in DOMAIN page.items[i].texts |-> TextRule(page.items[i].texts[j]).text],
             visible |-> page.items[i].visible]]
  BY ContextIs
<1>2. \A i \in DOMAIN page.items : \A j \in DOMAIN page.items[i].texts :
         TextRule(page.items[i].texts[j]).text = page.items[i].texts[j]
  <2>1. SUFFICES ASSUME NEW i \in DOMAIN page.items, NEW j \in DOMAIN page.items[i].texts
                 PROVE  TextRule(page.items[i].texts[j]).text = page.items[i].texts[j]
    OBVIOUS
  <2>2. PICK place : place = <<i, j>>
    OBVIOUS
  <2>3. place \in Places(page.items) /\ At(page.items, place) = page.items[i].texts[j]
    BY <2>2, PlaceIn DEF At
  <2>4. QED BY <2>3
<1>3. page.items \in Seq(Items) /\ page = [url |-> page.url, items |-> page.items]
  BY DEF PageOK
<1>4. ASSUME NEW i \in DOMAIN page.items
      PROVE  [texts |-> [j \in DOMAIN page.items[i].texts |-> TextRule(page.items[i].texts[j]).text],
              visible |-> page.items[i].visible] = page.items[i]
  <2>1. PICK item : item = page.items[i]
    OBVIOUS
  <2>2. item \in Items
    BY <1>3, <1>4, <2>1
  <2>3. item.texts \in Seq(Seq(Pieces)) /\ item = [texts |-> item.texts, visible |-> item.visible]
    BY <2>2 DEF Items
  <2>4. item.texts = [j \in DOMAIN item.texts |-> item.texts[j]]
    BY <2>3
  <2>5. [j \in DOMAIN item.texts |-> TextRule(item.texts[j]).text] = item.texts
    BY <1>2, <1>4, <2>1, <2>4
  <2>6. QED BY <2>1, <2>3, <2>5
<1>5. page.items = [i \in DOMAIN page.items |-> page.items[i]]
  BY <1>3
<1>6. c.items = page.items
  BY <1>1, <1>4, <1>5
<1>7. QED BY <1>1, <1>3, <1>6

LEMMA WarningsOfPage ==
    PageOK => (Warnings(page) # {} <=>
                 \E i \in DOMAIN page.items : page.items[i].visible /\
                    \E j \in DOMAIN page.items[i].texts : \E c \in DOMAIN Keywords :
                       Speaks(page.items[i].texts[j], c))
<1>1. ASSUME NEW w \in Warnings(page)
      PROVE  \E i \in DOMAIN page.items : page.items[i].visible /\
                \E j \in DOMAIN page.items[i].texts : \E c \in DOMAIN Keywords :
                   Speaks(page.items[i].texts[j], c)
  <2>1. /\ w \in Places(page.items) \X DOMAIN Keywords
        /\ w[1][1] \in Shown(page.items) /\ Speaks(At(page.items, w[1]), w[2])
    BY DEF Warnings
  <2>2. PICK i \in DOMAIN page.items : \E j \in DOMAIN page.items[i].texts : w[1] = <<i, j>>
    BY <2>1, PlaceIn
  <2>3. PICK j \in DOMAIN page.items[i].texts : w[1] = <<i, j>>
    BY <2>2
  <2>4. At(page.items, w[1]) = page.items[i].texts[j] /\ page.items[i].visible
    BY <2>1, <2>3 DEF At, Shown
  <2>5. w[2] \in DOMAIN Keywords
    BY <2>1
  <2>6. QED BY <2>1, <2>4, <2>5
<1>2. ASSUME NEW i \in DOMAIN page.items, page.items[i].visible,
             NEW j \in DOMAIN page.items[i].texts, NEW c \in DOMAIN Keywords,
             Speaks(page.items[i].texts[j], c)
      PROVE  Warnings(page) # {}
  <2>1. PICK place : place = <<i, j>>
    OBVIOUS
  <2>2. place \in Places(page.items) /\ At(page.items, place) = page.items[i].texts[j] /\ place[1] = i
    BY <2>1, PlaceIn DEF At
  <2>3. i \in Shown(page.items)
    BY <1>2 DEF Shown
  <2>4. PICK w : w = <<place, c>>
    OBVIOUS
  <2>5. w \in Places(page.items) \X DOMAIN Keywords /\ w[1] = place /\ w[2] = c
    BY <2>2, <2>4
  <2>6. w \in Warnings(page)
    BY <1>2, <2>2, <2>3, <2>5 DEF Warnings
  <2>7. QED BY <2>6
<1>3. QED BY <1>1, <1>2

\* What is stored, and given to Codex, is what the pipeline made of the page.
LEMMA GivenIs ==
    ASSUME FlowInv, NEW given \in Given
    PROVE  /\ given.context = ContextOf(Sanitized(page))
           /\ given.review = [warnings |-> Warnings(page), masked |-> MaskedTexts(Sanitized(page))]
           /\ stored.warns <=> given.review.warnings # {}
<1>1. stored # None
  BY DEF FlowInv, Given
<1>2. PICK capture : capture = ProcessCapture(page)
  OBVIOUS
<1>3. /\ capture.context = ContextOf(Sanitized(page))
      /\ capture.review = [warnings |-> Warnings(page), masked |-> MaskedTexts(Sanitized(page))]
  BY <1>2 DEF ProcessCapture, CaptureOf, Review
<1>4. /\ stored.context = capture.context /\ stored.review = capture.review
      /\ stored.warns = (capture.review.warnings # {})
  BY <1>1, <1>2 DEF FlowInv, Attachment
<1>5. given.context = stored.context /\ given.review = stored.review
  BY DEF FlowInv, Given
<1>6. QED BY <1>3, <1>4, <1>5

\* The review that is stored and given to Codex warns exactly if the page does,
\* and counts masked texts exactly if the context is not that of the page, for
\* rules that mask what they change.
THEOREM ReviewMatchesHolds == Spec => [](RulesTell => ReviewMatches)
<1>1. ASSUME FlowInv, RulesTell, NEW given \in Given
      PROVE  /\ given.review.warnings # {} <=>
                   \E i \in DOMAIN page.items : page.items[i].visible /\
                      \E j \in DOMAIN page.items[i].texts : \E c \in DOMAIN Keywords :
                         Speaks(page.items[i].texts[j], c)
             /\ stored.warns <=> given.review.warnings # {}
             /\ given.review.masked > 0 <=> given.context # page
  <2>0. PageOK
    BY <1>1 DEF FlowInv
  <2>1. PICK m : m = Sanitized(page)
    OBVIOUS
  <2>2. PICK c : c = ContextOf(Sanitized(page))
    OBVIOUS
  <2>3. /\ given.context = c /\ given.review.warnings = Warnings(page)
        /\ given.review.masked = MaskedTexts(m)
        /\ stored.warns <=> given.review.warnings # {}
    BY <1>1, <2>1, <2>2, GivenIs
  <2>4. MaskedTexts(m) > 0 <=> \/ UrlRule(page.url).masked
                               \/ \E place \in Places(page.items) : TextRule(At(page.items, place)).masked
    BY <2>0, <2>1, MaskedCount
  <2>5. /\ c.url = UrlRule(page.url).text
        /\ \A i \in DOMAIN page.items : \A j \in DOMAIN page.items[i].texts :
              c.items[i].texts[j] = TextRule(page.items[i].texts[j]).text
    BY <2>2, ContextAt
  <2>6. ASSUME UrlRule(page.url).masked PROVE c # page
    BY <1>1, <2>5, <2>6 DEF RulesTell
  <2>7. ASSUME NEW place \in Places(page.items), TextRule(At(page.items, place)).masked PROVE c # page
    <3>1. PICK i \in DOMAIN page.items : \E j \in DOMAIN page.items[i].texts : place = <<i, j>>
      BY PlaceIn
    <3>2. PICK j \in DOMAIN page.items[i].texts : place = <<i, j>>
      BY <3>1
    <3>3. At(page.items, place) = page.items[i].texts[j]
      BY <3>2 DEF At
    <3>4. TextRule(page.items[i].texts[j]).text # page.items[i].texts[j]
      BY <1>1, <2>7, <3>3 DEF RulesTell
    <3>5. c.items[i].texts[j] # page.items[i].texts[j]
      BY <2>5, <3>4
    <3>6. QED BY <3>5
  <2>8. ASSUME ~UrlRule(page.url).masked,
               \A place \in Places(page.items) : ~TextRule(At(page.items, place)).masked
        PROVE  c = page
    <3>1. c.url = page.url
      BY <1>1, <2>5, <2>8 DEF RulesTell
    <3>2. \A place \in Places(page.items) : TextRule(At(page.items, place)).text = At(page.items, place)
      BY <1>1, <2>8 DEF RulesTell
    <3>3. QED BY <2>0, <2>2, <3>1, <3>2, SameContext
  <2>9. given.review.masked > 0 <=> given.context # page
    BY <2>3, <2>4, <2>6, <2>7, <2>8
  <2>10. QED BY <2>0, <2>3, <2>9, WarningsOfPage
<1>2. EntryInv /\ FlowInv => (RulesTell => ReviewMatches)
  BY <1>1 DEF ReviewMatches
<1>3. QED BY <1>2, Flow, PTL

\* A page of which the rules would change nothing is stored, and reaches Codex,
\* as it is, and its review says that nothing was masked.
THEOREM BenignKeptHolds == Spec => [](RulesKeep => BenignKept)
<1>1. ASSUME FlowInv, RulesKeep, NEW given \in Given,
             Benign(page.url) /\ (\A place \in Places(page.items) : Benign(At(page.items, place)))
      PROVE  /\ given.review.masked = 0
             /\ given.context.items = page.items
             /\ page.url # <<>> => given.context.url = page.url
  <2>0. PageOK
    BY <1>1 DEF FlowInv
  <2>1. PICK m : m = Sanitized(page)
    OBVIOUS
  <2>2. PICK c : c = ContextOf(Sanitized(page))
    OBVIOUS
  <2>3. given.context = c /\ given.review.masked = MaskedTexts(m)
    BY <1>1, <2>1, <2>2, GivenIs
  <2>4. /\ ~UrlRule(page.url).masked /\ (page.url # <<>> => UrlRule(page.url).text = page.url)
        /\ \A place \in Places(page.items) :
              /\ ~TextRule(At(page.items, place)).masked
              /\ TextRule(At(page.items, place)).text = At(page.items, place)
    BY <1>1 DEF RulesKeep
  <2>5. MaskedTexts(m) \in Nat /\ ~(MaskedTexts(m) > 0)
    BY <2>0, <2>1, <2>4, MaskedCount
  <2>6. MaskedTexts(m) = 0
    BY <2>5
  <2>7. c.items = page.items
    BY <2>0, <2>2, <2>4, SameContext
  <2>8. c.url = UrlRule(page.url).text
    BY <2>2, ContextAt
  <2>9. QED BY <2>3, <2>4, <2>6, <2>7, <2>8
<1>2. EntryInv /\ FlowInv => (RulesKeep => BenignKept)
  BY <1>1 DEF BenignKept
<1>3. QED BY <1>2, Flow, PTL
===============================================================================

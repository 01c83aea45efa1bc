--------------------------- MODULE BrowserContext ---------------------------
(***************************************************************************)
(* From the page the user looks at to what Codex is told of it: the        *)
(* capture pipeline with its safety review (crates/capture-pipeline,       *)
(* safety, safety-rules, prompt, screen-context), the HTTP boundary that   *)
(* the daemon and the desktop app each have (http_boundary.rs, bridge.rs), *)
(* and the requests of the protocol that lead there: initialize,           *)
(* context/attach_browser and message/send.                                *)
(*                                                                         *)
(* The page is read once (the extension is SidePanel) and follows the      *)
(* redirects a login goes through: each puts the address so far, encoded,  *)
(* into the next one.  A text that is absent is empty.  One session, one   *)
(* attachment; the turns are Daemon's, their store SessionStore.           *)
(*                                                                         *)
(* What the rules of crates/safety-rules make of a text is a parameter,    *)
(* [text, masked]: MCBrowserContext gives it the rules of Redaction.       *)
(***************************************************************************)
EXTENDS PageTexts, FiniteSets, FiniteSetsExt

CONSTANTS
    TextRule(_),   \* mask_secret_like_text
    UrlRule(_),    \* redact_secret_bearing_url
    Pages,         \* [url, items]: the title, the selection and controls, [texts, visible]
    Secrets,       \* pieces of text nobody may read
    MaxRedirects,  \* redirects on the way to the page
    MaxEncodings,  \* how often the first of them encodes the address
    MaxNested,     \* how often a piece is encoded once there are more of them
    None

ASSUME BoundsAssumption ==
    MaxRedirects \in Nat /\ MaxEncodings \in Nat \ {0} /\ MaxNested \in Nat

\* The first item is the title.
Items == [texts : Seq(Seq(Pieces)), visible : BOOLEAN]
ASSUME PagesAssumption == Pages \subseteq [url : Seq(Pieces), items : Seq(Items) \ {<<>>}]

VARIABLES
    page,       \* the page that is captured
    redirects,  \* how many led to it
    conn,       \* the connection: how it came, if from where it may, and initialized
    proved,     \* it has shown what its kind of connection has to show
    reply,      \* the last reply of a server, None before the first
    stored,     \* the attachment in the store
    prompted    \* what Codex was given with the message
vars == <<page, redirects, conn, proved, reply, stored, prompted>>

NoConn == [via |-> "none", allowed |-> FALSE, ready |-> FALSE]

Init ==
    /\ page \in Pages
    /\ redirects = 0
    /\ conn = NoConn /\ proved = FALSE
    /\ reply = None /\ stored = None /\ prompted = None

-----------------------------------------------------------------------------
\* The page.

\* What encoding leaves alone is what a token is made of.
Encode(t, n) == [i \in DOMAIN t |->
                    IF IsToken(t[i]) THEN t[i] ELSE [t[i] EXCEPT !.e = @ + n]]

Host == <<Word(<<"https">>), Char(":"), Char("/"), Char("/"), Word(<<"login">>), Char("/")>>
Place(at, t) ==
    LET Key == <<Word(<<"next">>), Char("=")>>
    IN Host \o (CASE at = "query" -> <<Char("?")>> \o Key
                  [] at = "fragment" -> <<Char("#")>> \o Key
                  [] at = "route" -> <<Char("#"), Char("/"), Word(<<"home">>), Char("?")>> \o Key
                  [] at = "path" -> <<>>) \o t

\* The address so far becomes a value of the next one.
Redirect(at, n) ==
    /\ redirects < MaxRedirects /\ page.url # <<>> /\ reply = None /\ conn = NoConn
    /\ redirects > 0 => \A i \in DOMAIN page.url : page.url[i].e + n <= MaxNested
    /\ redirects' = redirects + 1
    /\ page' = [page EXCEPT !.url = Place(at, Encode(@, n))]
    /\ UNCHANGED <<conn, proved, reply, stored, prompted>>

-----------------------------------------------------------------------------
\* process_capture: the safety review of a page and what is made of it.

\* Where the texts of a page are: item and field.
Places(items) == UNION {{<<i, j>> : j \in DOMAIN items[i].texts} : i \in DOMAIN items}
At(items, place) == items[place[1]].texts[place[2]]
Shown(items) == {i \in DOMAIN items : items[i].visible}

Keywords == [destructive |-> {"delete"}, revoke |-> {"reset"}, secret |-> {"token", "password"}]
Speaks(t, category) ==
    \E i \in DOMAIN t : t[i].k = "word" /\ \E j \in DOMAIN t[i].w : t[i].w[j] \in Keywords[category]

\* detect_danger: at most one warning of each category for each visible text.
Warnings(p) ==
    {warning \in Places(p.items) \X DOMAIN Keywords :
        /\ warning[1][1] \in Shown(p.items)
        /\ Speaks(At(p.items, warning[1]), warning[2])}

\* sanitize_screen_context: every text, and whether it was masked.
Mapped(items, F(_)) ==
    [i \in DOMAIN items |-> [texts |-> [j \in DOMAIN items[i].texts |-> F(items[i].texts[j])],
                             visible |-> items[i].visible]]
TextOf(done) == done.text
Sanitized(p) == [url |-> UrlRule(p.url), items |-> Mapped(p.items, TextRule)]
ContextOf(m) == [url |-> m.url.text, items |-> Mapped(m.items, TextOf)]
MaskedTexts(m) ==
    Cardinality({place \in Places(m.items) : At(m.items, place).masked})
    + (IF m.url.masked THEN 1 ELSE 0)

\* Mutant of Review: the page is looked at for danger once it has been masked.
ReviewMasked(p, m) == [warnings |-> Warnings(ContextOf(m)), masked |-> MaskedTexts(m)]

\* review_screen_context, and the summary of it that is shown and stored.
Review(p, m) == [warnings |-> Warnings(p), masked |-> MaskedTexts(m)]

\* build_codex_prompt: what is visible, by the first of its texts there is.
LabelOf(item) ==
    LET filled == {i \in DOMAIN item.texts : item.texts[i] # <<>>}
    IN IF filled = {} THEN <<>> ELSE item.texts[CHOOSE i \in filled : \A j \in filled : i <= j]
PromptOf(c) == [url |-> c.url, labels |-> [i \in Shown(c.items) |-> LabelOf(c.items[i])]]

CaptureOf(p, m) ==
    [context |-> ContextOf(m), prompt |-> PromptOf(ContextOf(m)), review |-> Review(p, m)]
ProcessCapture(p) == CaptureOf(p, Sanitized(p))

-----------------------------------------------------------------------------
\* A caller takes the reply before it asks again.
TakeReply ==
    /\ reply # None /\ reply' = None
    /\ UNCHANGED <<page, redirects, conn, proved, stored, prompted>>

\* POST and OPTIONS /v0/capture: both servers, each with a token of its own.

Bodies == {"large", "not_json", "old_version", "page"}
Answer(status, cors, capture) == [status |-> status, cors |-> cors, capture |-> capture]
Served == reply = None /\ UNCHANGED <<page, redirects, conn, proved, stored, prompted>>

\* Only an extension may call; others are not told so in a way a page can read.
HttpForeign(origin) ==
    /\ origin # "extension"
    /\ reply' = Answer("forbidden", FALSE, None) /\ Served

Preflight(method) ==
    /\ reply' = Answer(IF method = "POST" THEN "no_content" ELSE "forbidden", TRUE, None)
    /\ Served

HttpCapture(server, token, body) ==
    /\ IF token # server
       THEN reply' = Answer(IF token = "none" THEN "unauthorized" ELSE "forbidden", TRUE, None)
       ELSE reply' = CASE body = "large" -> Answer("too_large", TRUE, None)
                       [] body \in {"not_json", "old_version"} -> Answer("bad_request", TRUE, None)
                       [] body = "page" -> Answer("ok", TRUE, ProcessCapture(page))
    /\ Served

-----------------------------------------------------------------------------
\* The protocol.

Replies(code) == reply = None /\ reply' = Answer(code, FALSE, None)

\* ws_upgrade lets a page in no more than the capture does, but also a program
\* without an origin; the host says who started it.
Connect(via, origin) ==
    /\ conn = NoConn /\ reply = None
    /\ IF via = "websocket" /\ origin = "web"
       THEN Replies("forbidden") /\ UNCHANGED conn
       ELSE conn' = [via |-> via, allowed |-> origin # "web", ready |-> FALSE] /\ UNCHANGED reply
    /\ UNCHANGED <<page, redirects, proved, stored, prompted>>

\* The connection closes: the next one starts from nothing.
Disconnect ==
    /\ conn # NoConn /\ reply = None
    /\ conn' = NoConn /\ proved' = FALSE /\ UNCHANGED reply
    /\ stored' = None /\ prompted' = None
    /\ UNCHANGED <<page, redirects>>

Credentials(token) ==
    IF conn.via = "websocket" THEN token = "daemon" ELSE conn.allowed

\* Mutant of Initialize: the connection is ready before its token is looked at.
InitializeFirst(version, token) ==
    /\ conn # NoConn
    /\ conn' = [conn EXCEPT !.ready = TRUE]
    /\ proved' = (proved \/ (version = "v0" /\ Credentials(token)))
    /\ Replies("initialized")
    /\ UNCHANGED <<page, redirects, stored, prompted>>

\* One that fails takes nothing from a connection that was ready before.
Initialize(version, token) ==
    /\ conn # NoConn
    /\ CASE version # "v0" -> Replies("unsupported_version") /\ UNCHANGED <<conn, proved>>
         [] version = "v0" /\ ~Credentials(token) ->
                /\ Replies(IF conn.via = "websocket" THEN "unauthorized" ELSE "forbidden_origin")
                /\ UNCHANGED <<conn, proved>>
         [] OTHER -> /\ conn' = [conn EXCEPT !.ready = TRUE] /\ proved' = TRUE
                     /\ Replies("initialized")
    /\ UNCHANGED <<page, redirects, stored, prompted>>

\* handle_text and handle_request, for what has no effect.
Turned(code) ==
    /\ conn # NoConn /\ Replies(code)
    /\ UNCHANGED <<page, redirects, conn, proved, stored, prompted>>
NotJson == Turned("invalid_request")
TooEarly == ~conn.ready /\ Turned("unauthorized")
UnknownMethod == conn.ready /\ Turned("method_not_found")
StatusGet == conn.ready /\ Turned("status")

\* capture_summary: the address, or else the title.
Attachment(capture) ==
    [context |-> capture.context, review |-> capture.review,
     summary |-> IF capture.context.url # <<>> THEN capture.context.url
                 ELSE LabelOf(capture.context.items[1]),
     warns |-> capture.review.warnings # {}]

\* context/attach_browser: nothing is stored of a page that was not reviewed.
AttachBrowserContext(body, known) ==
    /\ conn.ready /\ stored = None
    /\ CASE body = "large" -> Replies("context_too_large") /\ UNCHANGED stored
         [] body \in {"not_json", "old_version"} -> Replies("context_rejected") /\ UNCHANGED stored
         [] body = "page" /\ ~known -> Replies("session_not_found") /\ UNCHANGED stored
         [] body = "page" /\ known ->
                stored' = Attachment(ProcessCapture(page)) /\ Replies("attached")
    /\ UNCHANGED <<page, redirects, conn, proved, prompted>>

\* message/send gives Codex the stored review and context (load_context_text).
MessageSend ==
    /\ conn.ready /\ stored # None /\ prompted = None
    /\ prompted' = [context |-> stored.context, review |-> stored.review]
    /\ Replies("turn_started")
    /\ UNCHANGED <<page, redirects, conn, proved, stored>>

HttpRequest ==
    /\ conn = NoConn
    /\ \/ \E origin \in {"none", "web"} : HttpForeign(origin)
       \/ \E method \in {"POST", "GET"} : Preflight(method)
       \/ \E server \in {"daemon", "bridge"}, token \in {"none", "daemon", "bridge"},
             body \in Bodies : HttpCapture(server, token, body)

Next ==
    \/ \E at \in {"query", "fragment", "route", "path"}, n \in 1 .. MaxEncodings : Redirect(at, n)
    \/ HttpRequest \/ TakeReply
    \/ \E via \in {"websocket", "native"}, origin \in {"none", "extension", "web"} :
          Connect(via, origin)
    \/ Disconnect
    \/ \E version \in {"v0", "old"}, token \in {"none", "daemon", "bridge"} :
          Initialize(version, token)
    \/ NotJson \/ TooEarly \/ UnknownMethod \/ StatusGet
    \/ \E body \in Bodies, known \in BOOLEAN : AttachBrowserContext(body, known)
    \/ MessageSend

Spec == Init /\ [][Next]_vars

-----------------------------------------------------------------------------
TypeOK ==
    /\ redirects \in 0 .. MaxRedirects
    /\ conn.via \in {"none", "websocket", "native"} /\ conn.ready \in BOOLEAN
    /\ proved \in BOOLEAN
    /\ reply # None => reply.cors \in BOOLEAN

\* A connection stores nothing, sends nothing to Codex and learns nothing of it
\* before it has shown the token of the daemon or come through a native host the
\* browser started for an extension: in whatever order it asks, whatever attempts
\* to initialize failed before, and whoever was connected earlier.
EntryIsChecked ==
    /\ conn.ready => proved
    /\ stored # None \/ prompted # None => proved
    /\ ~proved /\ reply # None => reply.status \notin {"attached", "turn_started", "status"}

Readable(t) == \A i \in DOMAIN t : [t[i] EXCEPT !.e = 0] \notin Secrets
ContextIsReadable(c) ==
    Readable(c.url) /\ \A place \in Places(c.items) : Readable(At(c.items, place))
Captured == reply # None /\ reply.capture # None

\* No secret of a page leaves the daemon: not in the reply of a capture, the
\* summary and context of an attachment or what Codex is given, however many
\* redirects have encoded it and wherever they put it.
NothingHides ==
    /\ Captured =>
          /\ ContextIsReadable(reply.capture.context)
          /\ Readable(reply.capture.prompt.url)
          /\ \A i \in DOMAIN reply.capture.prompt.labels : Readable(reply.capture.prompt.labels[i])
    /\ stored # None => Readable(stored.summary) /\ ContextIsReadable(stored.context)
    /\ prompted # None => ContextIsReadable(prompted.context)

\* What is stored, and given to Codex: the context and the review of one page.
Given == {r \in {stored, prompted} : r # None}

\* A page without a secret that is encoded less often than the code decodes
\* reaches Codex as it is, and nothing is said to be masked, unless an encoded
\* character stands right before an identifier with the digits of a card: what is
\* left of its "%" belongs to the token, which is a UUID no more.
LooksLikeCard(p) ==
    LET Length(i) == p.r[i].n
    IN p.k = "run" /\ MapThenSumSet(Length, {i \in DOMAIN p.r : p.r[i].c = "9"}) >= 13
Benign(t) ==
    /\ Readable(t) /\ \A i \in DOMAIN t : t[i].e < 5
    /\ \A i \in DOMAIN t : i > 1 /\ LooksLikeCard(t[i]) => t[i - 1].e = 0
BenignKept ==
    \A given \in Given :
        Benign(page.url) /\ (\A place \in Places(page.items) : Benign(At(page.items, place))) =>
          /\ given.review.masked = 0
          /\ given.context.items = page.items
          /\ page.url # <<>> => given.context.url = page.url

\* What Codex is told of the danger of a page is what the page says to the user,
\* the words included that were masked on the way; and it is told of masked
\* texts exactly if the context it is given is not that of the page.
ReviewMatches ==
    \A given \in Given :
        /\ given.review.warnings # {} <=>
              \E i \in DOMAIN page.items : page.items[i].visible /\
                 \E j \in DOMAIN page.items[i].texts : \E c \in DOMAIN Keywords :
                    Speaks(page.items[i].texts[j], c)
        /\ stored.warns <=> given.review.warnings # {}
        /\ given.review.masked > 0 <=> given.context # page
=============================================================================

------------------------------ MODULE Redaction ------------------------------
(***************************************************************************)
(* crates/safety-rules/src/redaction.rs: which texts of a page are masked  *)
(* and what is taken out of its URL.                                       *)
(*                                                                         *)
(* The word lists of the code are represented by a few of their entries.   *)
(* URLs without an authority are left out, and hosts are readable words.   *)
(***************************************************************************)
EXTENDS PageTexts, SequencesExt, FiniteSets

Plain(p, ks) == p.k \in ks /\ p.e = 0

MASKED == <<Word(<<"[masked]">>)>>
REDACTED == <<Word(<<"[REDACTED]">>)>>

AlwaysKeys == {<<"token">>, <<"api", "key">>, <<"password">>, <<"reset", "code">>}
Continuations == {"field", "reset", "settings"}
MaxLabelWords == 3
\* Mutant of MaxDecodeDepth: a value is decoded once less often.
MaxDecodeDepthFour == 4
MaxDecodeDepth == 5

Split(s, Cut(_)) ==
    LET at == <<0>> \o SetToSortSeq({i \in DOMAIN s : Cut(s[i])}, LAMBDA i, j : i < j)
                    \o <<Len(s) + 1>>
    IN [i \in 1 .. Len(at) - 1 |-> SubSeq(s, at[i] + 1, at[i + 1] - 1)]
Join(parts, sep) ==
    FlattenSeq([i \in DOMAIN parts |-> IF i = 1 THEN parts[i] ELSE <<sep>> \o parts[i]])
FirstOf(t, ks) == SelectInSeq(t, LAMBDA p : Plain(p, ks))  \* 0 if there is none

-----------------------------------------------------------------------------
\* The shape of a token: runs of characters of one kind, [c, n, hex].

Symbols == {"-", "_", ".", "~"}
Kinds(rs) == {rs[i].c : i \in DOMAIN rs}
Size(rs) == FoldLeft(LAMBDA n, r : n + r.n, 0, rs)
DigitsOf(rs) == Size(SelectSeq(rs, LAMBDA r : r.c = "9"))
AllHex(rs) == \A i \in DOMAIN rs : rs[i].c \in {"a", "A"} => rs[i].hex
Segments(rs, c) == Split(rs, LAMBDA r : r.c = c)

IsUuid(rs) ==
    /\ AllHex(rs) /\ Kinds(rs) \cap Symbols = {"-"}
    /\ LET s == Segments(rs, "-") IN [i \in DOMAIN s |-> Size(s[i])] = <<8, 4, 4, 4, 12>>

IsJwt(rs) ==
    /\ "~" \notin Kinds(rs) /\ Size(rs) >= 20
    /\ LET s == Segments(rs, ".") IN Len(s) = 3 /\ \A i \in DOMAIN s : s[i] # <<>>

\* Words of letters in one case or begun by a capital, and short numbers.
IsWordLabel(s) ==
    \/ Kinds(s) \in {{"a"}, {"A"}} /\ (Len(s) > 1 \/ s[1].n >= 2)
    \/ Len(s) = 2 /\ s[1].c = "A" /\ s[1].n = 1 /\ s[2].c = "a"
IsNumberLabel(s) == Kinds(s) = {"9"} /\ Size(s) \in 2 .. 4
IsSlug(rs) ==
    LET s == Segments(rs, "-")
    IN /\ \A i \in DOMAIN s : IsWordLabel(s[i]) \/ IsNumberLabel(s[i])
       /\ \E i, j \in DOMAIN s : i # j /\ Kinds(s[i]) # {"9"} /\ Kinds(s[j]) # {"9"}

\* Words of three letters and more, each begun by a capital, and up to four digits.
IsCamel(rs) ==
    LET l == Front(rs)
    IN /\ Len(rs) > 1 /\ Last(rs).c = "9" /\ Last(rs).n <= 4
       /\ \A i \in DOMAIN l :
             \/ l[i].c = "a" /\ l[i].n >= (IF i = 1 THEN 3 ELSE 2)
             \/ l[i].c = "A" /\ l[i].n = 1 /\ i < Len(l) /\ l[i + 1].c = "a"
       /\ \E i \in 2 .. Len(l) : l[i].c = "A"
IsSingleWord(rs) ==
    /\ Len(rs) = 2 /\ rs[1].c \in {"a", "A"} /\ rs[1].n >= 8 /\ rs[2].c = "9" /\ rs[2].n <= 4

\* Nobody would read it; kinds, size and digits are those of the token.
IsHighEntropy(rs, kinds, size, digits) ==
    LET plain == kinds \cap Symbols = {}
    IN /\ size >= 20 /\ ~IsSlug(rs) /\ ~IsCamel(rs) /\ ~IsSingleWord(rs)
       /\ kinds \cap {"a", "A"} # {}
       /\ \/ size >= 24 /\ plain /\ AllHex(rs)
          \/ digits > 0 /\ "A" \in kinds /\ ("a" \in kinds \/ ~plain)
          \/ digits > 0 /\ ~plain
          \/ digits >= 6 /\ plain /\ ~({"a", "A"} \subseteq kinds) /\ digits * 4 >= size

\* A numeric code, or a run of characters that nobody would read.
IsSecretToken(p) ==
    \/ p.k = "digits" /\ p.n \in 6 .. 8
    \/ p.k = "run" /\ ~IsUuid(p.r) /\ (IsJwt(p.r) \/ IsHighEntropy(p.r, Kinds(p.r), Size(p.r), DigitsOf(p.r)))

-----------------------------------------------------------------------------
\* What a text says as it stands.

\* The token follows the hexadecimal digits of an encoded character.
Glued(t, i) == i > 1 /\ t[i - 1].e > 0

HasSecretToken(t) == \E i \in DOMAIN t : IsSecretToken(t[i]) /\ ~Glued(t, i)

HasSignal(t) ==
    \E i \in 1 .. Len(t) - 1 :
        t[i].k = "word" /\ \/ Last(t[i].w) = "bearer" /\ Plain(t[i + 1], {" "})
                           \/ Last(t[i].w) = "authorization" /\ Plain(t[i + 1], {":"})

\* The characters as runs; what is left of "%" after an encoded one is one, too.
Chars(c, n) == [c |-> c, n |-> n, hex |-> TRUE]
EscapeOf(p) ==
    <<Chars("%", 1)>> \o IF p.k \in {" ", "&", "#", "@"} THEN <<Chars("9", 2 * p.e)>>
                     ELSE <<Chars("9", 2 * p.e - 1), Chars("A", 1)>>
CharactersOf(p) ==
    CASE p.k = "word" -> <<[Chars("a", 1) EXCEPT !.hex = FALSE]>>
      [] p.k = "run" -> p.r
      [] p.k = "digits" -> <<Chars("9", p.n)>>
      [] OTHER -> IF p.e > 0 THEN EscapeOf(p) ELSE <<Chars(p.k, 1)>>

\* What reaches as far to both sides of i as there are no other characters.
RangeAt(rs, i, cs) ==
    LET Within(j, k) == \A h \in j .. k : rs[h].c \in cs
    IN {j \in DOMAIN rs : Within(i, j) /\ Within(j, i)}
Slice(rs, at) == SubSeq(rs, Min(at), Max(at))

\* Thirteen to nineteen digits with blanks and hyphens between them, unless the
\* token that they begin in is a UUID.
IsCardLength(n) == n \in 13 .. 19
HasCard(t) ==
    LET rs == FlattenSeq([i \in DOMAIN t |-> CharactersOf(t[i])])
    IN \E i \in DOMAIN rs :
          LET group == RangeAt(rs, i, {"9", " ", "-"})
          IN /\ rs[i].c = "9" /\ \A h \in group : rs[h].c = "9" => i <= h
             /\ IsCardLength(DigitsOf(Slice(rs, group)))
             /\ ~IsUuid(Slice(rs, RangeAt(rs, i, {"9", "a", "A", "-"})))

ValueOnlySecret(t) == HasSignal(t) \/ HasCard(t) \/ HasSecretToken(t)

\* The words of a key: what touches another character is not the word it looks.
WordsAt(t, i) ==
    CASE Plain(t[i], {" "}) -> <<>>
      [] t[i].k = "word" /\ i > 1 /\ ~Plain(t[i - 1], {" "}) -> <<"?">> \o Tail(t[i].w)
      [] t[i].k = "word" /\ (i = 1 \/ Plain(t[i - 1], {" "})) -> t[i].w
      [] OTHER -> <<"?">>
WordsOf(t) == FlattenSeq([i \in DOMAIN t |-> WordsAt(t, i)])

KeyClass(ws) ==
    CASE \E key \in AlwaysKeys : IsSuffix(key, ws) -> "always"
      [] ws = <<"code">> -> "aware"
      [] OTHER -> "none"
UrlKeyClass(ws) == IF ws = <<"code">> THEN "always" ELSE KeyClass(ws)

\* The key before a separator: back to a character that is not part of keys.
KeyBefore(t, i) ==
    LET stops == {j \in 1 .. i - 1 : ~IsToken(t[j]) /\ ~Plain(t[j], {" "})}
        from == IF stops = {} THEN 1
                ELSE LET j == CHOOSE j \in stops : \A h \in stops : h <= j
                     IN IF t[j].e > 0 THEN j ELSE j + 1
    IN SubSeq(t, from, i - 1)

-----------------------------------------------------------------------------
\* Values, URLs and pairs, decoded layer by layer.

\* decode_form_value: one encoding less, up to the first "&".
Decode(t) ==
    LET end == FirstOf(t, {"&"})
    IN [i \in 1 .. (IF end = 0 THEN Len(t) ELSE end - 1) |->
           [t[i] EXCEPT !.e = IF @ > 0 THEN @ - 1 ELSE 0]]

IsUrl(t) ==
    /\ Len(t) >= 5 /\ t[1].k = "word"
    /\ Plain(t[2], {":"}) /\ Plain(t[3], {"/"}) /\ Plain(t[4], {"/"}) /\ t[5].k = "word"

\* What follows the host: sections, each cut into pairs or into values.
Section(mark, text, cut, pairs) == [mark |-> mark, text |-> text, cut |-> cut, pairs |-> pairs]

\* redact_fragment: a route, a route with a query, or pairs.
FragmentSections(t) ==
    LET mark == FirstOf(t, {"?"})
        hash == <<Char("#")>>
    IN CASE mark # 0 -> <<Section(hash, SubSeq(t, 1, mark - 1), "none", FALSE),
                          Section(<<Char("?")>>, SubSeq(t, mark + 1, Len(t)), "&", TRUE)>>
         [] mark = 0 /\ t # <<>> /\ Plain(t[1], {"/"}) -> <<Section(hash, t, "none", FALSE)>>
         [] OTHER -> <<Section(hash, t, "&", TRUE)>>

ParseUrl(text) ==
    LET t == [i \in DOMAIN text |-> IF Plain(text[i], {" "}) THEN [text[i] EXCEPT !.e = 1]
                                    ELSE text[i]]
        hash == FirstOf(t, {"#"})
        body == IF hash = 0 THEN t ELSE SubSeq(t, 1, hash - 1)
        mark == FirstOf(body, {"?"})
        base == IF mark = 0 THEN body ELSE SubSeq(body, 1, mark - 1)
        host == IF Len(base) >= 7 /\ Plain(base[6], {"@"}) THEN 7 ELSE 5
        path == IF Len(base) > host THEN SubSeq(base, host + 1, Len(base)) ELSE <<Char("/")>>
        query == SubSeq(body, mark + 1, Len(body))
    IN [scheme |-> SubSeq(base, 1, 4), user |-> SubSeq(base, 5, host - 1), host |-> base[host],
        sections |-> <<Section(<<>>, path, "/", FALSE)>>
                     \o (IF mark = 0 THEN <<>> ELSE <<Section(<<Char("?")>>, query, "&", TRUE)>>)
                     \o (IF hash = 0 THEN <<>>
                         ELSE FragmentSections(SubSeq(t, hash + 1, Len(t))))]

RECURSIVE ValueIsSecret(_), LayerIsSecret(_), RedactParsed(_)

\* contains_secret_key_assignment
AssignsSecret(t) ==
    \E i \in DOMAIN t :
        /\ Plain(t[i], {"=", ":"})
        /\ LET value == SubSeq(t, i + 1, Len(t))
               class == KeyClass(WordsOf(KeyBefore(t, i)))
           IN \/ class = "always"
              \/ class = "aware" /\ LayerIsSecret(value)
              \/ class = "none" /\ ValueIsSecret(value)

\* url_value_layer_has_secret
LayerIsSecret(t) ==
    \/ ValueOnlySecret(t) \/ AssignsSecret(t)
    \/ IsUrl(t) /\ RedactParsed(ParseUrl(t)).masked
    \/ \E part \in Range(Split(t, LAMBDA p : Plain(p, {"?", "#", "&"}))) :
          LET eq == FirstOf(part, {"="})
              key == SubSeq(part, 1, eq - 1)
              value == SubSeq(part, eq + 1, Len(part))
              class == UrlKeyClass(WordsOf(Decode(key)))
          IN eq # 0 /\ (class = "always" \/ ValueIsSecret(key) \/ ValueIsSecret(value))

\* any_decoded_layer: the value and what it decodes to, and whether it is encoded
\* more often than that, which is not looked into and counts as secret.
Layers(t) == LET d[i \in 0 .. MaxDecodeDepth] == IF i = 0 THEN t ELSE Decode(d[i - 1]) IN d
\* Mutant of TooDeep: what is encoded more often than that is let through.
TooDeepNever(layers) == FALSE
TooDeep(layers) == layers[MaxDecodeDepth] # layers[MaxDecodeDepth - 1]

AnyLayerIsSecret(layers) ==
    TooDeep(layers) \/ \E d \in Range(layers) : LayerIsSecret(d)
ValueIsSecret(t) == AnyLayerIsSecret(Layers(t))

\* redact_pair, should_redact_pair_value; a value that stands alone is a key.
PairOf(key, value, keyIs, valueIs) ==
    [text |-> (IF keyIs THEN REDACTED ELSE key)
              \o (IF value = <<>> THEN <<>>
                  ELSE <<Char("=")>> \o (IF valueIs THEN REDACTED ELSE Tail(value))),
     masked |-> keyIs \/ valueIs]
RedactPair(key, value) ==
    PairOf(key, value, ValueIsSecret(key),
           value # <<>> /\ (\/ UrlKeyClass(WordsOf(Decode(key))) = "always"
                            \/ ValueIsSecret(Tail(value))))

RedactPart(part, pairs) ==
    LET eq == IF pairs THEN FirstOf(part, {"="}) ELSE 0
        end == IF eq = 0 THEN Len(part) ELSE eq - 1
    IN RedactPair(SubSeq(part, 1, end), SubSeq(part, end + 1, Len(part)))

SectionOf(section, done) ==
    [text |-> section.mark \o Join([i \in DOMAIN done |-> done[i].text], Char(section.cut)),
     masked |-> \E i \in DOMAIN done : done[i].masked]
\* redact_url_path, redact_pair_list, redact_fragment_route
RedactSection(section) ==
    LET parts == Split(section.text, LAMBDA p : Plain(p, {section.cut}))
    IN SectionOf(section, [i \in DOMAIN parts |-> RedactPart(parts[i], section.pairs)])

RedactUserOf(url) == url.user # <<>>

\* redact_parsed_url
UrlOf(url, done) ==
    [text |-> url.scheme \o (IF RedactUserOf(url) THEN <<>> ELSE url.user) \o <<url.host>>
              \o FlattenSeq([i \in DOMAIN done |-> done[i].text]),
     masked |-> RedactUserOf(url) \/ \E i \in DOMAIN done : done[i].masked]
RedactParsed(url) ==
    UrlOf(url, [i \in DOMAIN url.sections |-> RedactSection(url.sections[i])])

-----------------------------------------------------------------------------
\* Texts in prose.

\* contains_secret_label_value_sequence: a label of up to three words and what
\* follows it.
HasLabelledValue(t) ==
    LET chunks == SelectSeq(Split(t, LAMBDA p : Plain(p, {" "})), LAMBDA c : c # <<>>)
        Label(a, v) == FlattenSeq([i \in 1 .. v - a |-> WordsOf(chunks[a + i - 1])])
    IN \E v \in 2 .. Len(chunks) : \E a \in 1 .. v - 1 :
          LET value == SelectSeq(chunks[v], LAMBDA p : IsToken(p) \/ p.e > 0)
              class == KeyClass(Label(a, v))
          IN /\ v - a <= MaxLabelWords /\ value # <<>>
             /\ ~\E word \in Continuations : value = <<Word(<<word>>)>>
             /\ class = "always" \/ (class = "aware" /\ LayerIsSecret(chunks[v]))

\* contains_secret_signal
AnyLayerSpeaks(t, layers) ==
    \/ TooDeep(layers)
    \/ \E d \in Range(layers) : HasLabelledValue(d) \/ (d # t /\ LayerIsSecret(d))
TextIsSecret(t) == ValueOnlySecret(t) \/ AssignsSecret(t) \/ AnyLayerSpeaks(t, Layers(t))

\* mask_secret_like_text and redact_secret_bearing_url
MaskText(t) == IF TextIsSecret(t) THEN [text |-> MASKED, masked |-> TRUE]
               ELSE [text |-> t, masked |-> FALSE]
RedactUrl(t) == IF IsUrl(t) THEN RedactParsed(ParseUrl(t)) ELSE MaskText(t)
=============================================================================

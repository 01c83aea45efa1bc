-------------------------- MODULE MCBrowserContext --------------------------
EXTENDS BrowserContext, Redaction

Scheme == <<Word(<<"https">>), Char(":"), Char("/"), Char("/")>>
Site == Scheme \o <<Word(<<"app">>)>>
Hunter == Word(<<"hunter">>)
Eq(key) == <<Word(key), Char("=")>>
C(c, n, hex) == [c |-> c, n |-> n, hex |-> hex]
Hex32 == Run(<<C("a", 9, TRUE), C("9", 7, TRUE), C("a", 9, TRUE), C("9", 7, TRUE)>>)
Hex4 == C("a", 4, TRUE)
Hyphen == C("-", 1, FALSE)
Uuid == Run(<<C("a", 8, TRUE), Hyphen, C("9", 4, TRUE), Hyphen, Hex4, Hyphen,
              C("9", 4, TRUE), Hyphen, C("a", 8, TRUE), C("9", 4, TRUE)>>)
CardUuid == Run(<<C("9", 3, TRUE), C("a", 1, TRUE), C("9", 4, TRUE), Hyphen, Hex4, Hyphen, Hex4,
                  Hyphen, C("a", 1, TRUE), C("9", 3, TRUE), Hyphen, C("9", 12, TRUE)>>)
Slug == Run(<<C("a", 9, FALSE), C("-", 1, FALSE), C("a", 8, FALSE), C("-", 1, FALSE),
              C("9", 4, FALSE)>>)
Camel == Run(<<C("a", 8, FALSE), C("A", 1, FALSE), C("a", 8, FALSE), C("9", 3, FALSE)>>)
Jwt == Run(<<C("a", 8, FALSE), C("9", 2, FALSE), C(".", 1, FALSE), C("A", 9, FALSE),
             C(".", 1, FALSE), C("a", 7, FALSE)>>)
Card(a, b) == <<Digits(a), Char(" "), Digits(4), Char(" "), Digits(4), Char(" "), Digits(b)>>

Links ==
    { Site \o <<Char("?")>> \o Eq(<<"access", "token">>) \o <<Hunter>>,
      Site \o <<Char("?")>> \o Eq(<<"page">>) \o <<Digits(2), Char("&")>> \o Eq(<<"code">>) \o <<Hunter>>,
      Site \o <<Char("/"), Word(<<"reset">>), Char("/"), Digits(6)>>,
      Site \o <<Char("/"), Hex32, Char("/"), Word(<<"files">>)>>,
      Site \o <<Char("#")>> \o Eq(<<"id">>) \o <<Jwt>>,
      Scheme \o <<Word(<<"user">>), Char("@"), Word(<<"app">>), Char("/"), Word(<<"files">>)>>,
      Site \o <<Char("?")>> \o Eq(<<"card">>) \o <<Digits(16)>>,
      Site \o <<Char("/"), Uuid, Char("?")>> \o Eq(<<"page">>) \o <<Digits(2)>>,
      Site \o <<Char("/"), CardUuid, Char("/"), Word(<<"files">>)>>,
      Site \o <<Char("/"), Slug, Char("/"), Camel>> }
Titles ==
    { <<Word(<<"password">>), Char(" "), Word(<<"settings">>)>>,
      <<Word(<<"password">>), Char(":"), Char(" "), Hunter>>,
      <<Word(<<"card">>), Char(" ")>> \o Card(4, 4) }
Selections == { <<>>, <<Word(<<"reset">>), Char(" "), Word(<<"code">>), Char(" "), Hunter>> }
Controls ==
    { [texts |-> <<<<>>, <<Word(<<"delete">>), Char(" "), Word(<<"files">>)>>>>, visible |-> TRUE],
      [texts |-> <<<<Word(<<"api", "key">>), Char(" "), Hunter>>, <<Word(<<"key">>)>>>>,
       visible |-> FALSE] }
Item(t) == [texts |-> <<t>>, visible |-> TRUE]
MCPages ==
    {[url |-> link, items |-> <<Item(<<Word(<<"files">>)>>), Item(<<>>)>>] : link \in Links}
    \cup {[url |-> <<>>, items |-> <<Item(title), Item(selected)>> \o controls] :
             title \in Titles, selected \in Selections,
             controls \in {<<>>} \cup {<<c>> : c \in Controls}}
MCSecrets == {Hunter, Hex32, Jwt, Word(<<"user">>), Digits(4), Digits(6), Digits(16)}
=============================================================================

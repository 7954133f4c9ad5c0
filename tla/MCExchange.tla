------------------------------- MODULE MCExchange -------------------------------
(* The URIs, targets and settings of Exchange for model checking. *)
EXTENDS Exchange

a == 97

\* The paths "/", "/a", "/%2E" and "/+." with the queries (none), a="", a=" " and %=a, a="..?",
\* and +_="=", each in every way to write it.
MCTargets == [
  path : {<<Slash>>, <<Slash, a>>, <<Slash, Percent, 50, 69>>, <<Slash, Plus, Dot>>},
  query : {<<>>, <<<<<<a>>, <<>>>>>>,
           <<<<<<a>>, <<Space>>>>, <<<<Percent>>, <<a>>>>>>,
           <<<<<<a>>, <<Dot, Dot, Question>>>>>>,
           <<<<<<Plus, 95>>, <<Equals>>>>>>}]

\* "/", ".", "?", "a", "=", "&", "+", "%2E", "%2f", "%3F", "%25", "%2G", "%-1", "%0x", "%+a", "%G", "%".
Tokens == {
  <<Slash>>, <<Dot>>, <<Question>>, <<a>>, <<Equals>>, <<Ampersand>>, <<Plus>>,
  <<Percent, 50, 69>>, <<Percent, 50, 102>>, <<Percent, 51, 70>>, <<Percent, 50, 53>>,
  <<Percent, 50, 71>>, <<Percent, Minus, 49>>, <<Percent, 48, 120>>, <<Percent, Plus, a>>,
  <<Percent, 71>>, <<Percent>>}

\* These, every sequence of up to two tokens, of three behind "/", of four of a query behind
\* "/a?", and of five with an escaped "&" among them.
SomeURIs ==
  UNION {w[2] : w \in WrittenAs}
    \cup {FlattenSeq(s) : s \in BoundedSeq(Tokens, 2)}
    \cup {<<Slash>> \o FlattenSeq(s) : s \in [1 .. 3 -> Tokens]}
    \cup {<<Slash, a, Question>> \o FlattenSeq(s) :
            s \in [1 .. 4 -> {<<a>>, <<Equals>>, <<Ampersand>>, <<Dot>>, <<Question>>}]
                   \cup [1 .. 5 -> {<<a>>, <<Equals>>, <<Ampersand>>, <<Percent, 50, 54>>}]}

MCOrder == <<
  "Accept", "Access-Control-Allow-Credentials", "Access-Control-Allow-Headers",
  "Access-Control-Allow-Methods", "Access-Control-Allow-Origin",
  "Access-Control-Expose-Headers", "Access-Control-Max-Age", "Content-Type", "GET", "POST">>

MCWords == ToSet(MCOrder)
  \cup {CRLF, ": ", ",", "/", "true", "false", "text", "plain", "0", "9", "here", "there"}
  \cup {StatusLine[status] : status \in DOMAIN StatusLine}

Plain == [cors |-> [enabled |-> FALSE, allowedOrigins |-> {}, exposedHeaders |-> {},
                    allowedHeaders |-> {}, allowedMethods |-> {}, allowedCredentials |-> FALSE,
                    maxAge |-> "0"],
          origin |-> NoOrigin, status |-> "OK", headers |-> <<>>, content |-> <<>>]

CORSSettings == {[Plain EXCEPT !.cors = c, !.origin = o] :
  c \in [enabled : BOOLEAN, allowedOrigins : {{}, {"*"}, {"here"}, {"there", "*"}},
         exposedHeaders : {{"Accept", "Content-Type"}}, allowedHeaders : {{}},
         allowedMethods : {{"GET"}, {"GET", "POST"}}, allowedCredentials : BOOLEAN, maxAge : {"9"}],
  o \in {"here", "there", NoOrigin}}

Contents == {<<>>, <<"text">>, <<CRLF, "text">>, <<"Content-Type", ": ", "text", CRLF, CRLF>>}

Replies == {[s EXCEPT !.status = r, !.headers = h, !.content = c] :
  s \in {Plain, [Plain EXCEPT !.cors.enabled = TRUE, !.origin = "here"]},
  r \in DOMAIN StatusLine \cup {"IM_USED"},
  h \in {<<>>, "Content-Type" :> <<"text", "/", "plain">>,
         ("Content-Type" :> <<>>) @@ ("Accept" :> <<": ", "text">>)},
  c \in Contents}

MCSettings == CORSSettings \cup Replies

MCCases == {<<u, Plain>> : u \in SomeURIs} \cup ({<<Slash>>, <<Dot, Dot>>} \X MCSettings)

MCURIs == {case[1] : case \in MCCases}
===============================================================================

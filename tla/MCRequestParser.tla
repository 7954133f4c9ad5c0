--------------------------- MODULE MCRequestParser ---------------------------
(* Instances of RequestParser for TLC. *)
EXTENDS RequestParser

Message(request, major, minor) ==
  [request |-> [request EXCEPT !.major = Number(major), !.minor = Number(minor)],
   version |-> [major |-> major, minor |-> minor]]

Get == [NoRequest EXCEPT !.method = <<"letter", "T">>, !.uri = <<"slash", "letter">>]

\* Request lines: the shortest, versions of two digits and with a zero in front, and a URI that
\* is not ASCII.
RequestLines == {
  Message(Get, <<"1">>, <<"1">>),
  Message([Get EXCEPT !.method = <<"H">>, !.uri = <<>>], <<"0">>, <<"0">>),
  Message([Get EXCEPT !.uri = <<"slash", "lead2", "bad", "special">>], <<"1", "2">>, <<"0", "3">>)}

Plain(request) == Message(request, <<"1">>, <<"1">>)

Length(value) == <<<<"content-length">>, value>>
Other == <<<<"letter", "minus">>, <<"letter", "SP", "colon">>>>

WithHeaders(headers) == Plain([Get EXCEPT !.headers = headers])
WithContent(value, content) ==
  Plain([Get EXCEPT !.headers = <<Length(value)>>, !.content = content])

\* Headers: none of length, an empty value, lengths that are no number, are out of range, or
\* are zero, and two lengths of which the last counts.
Headers == {
  WithHeaders(<<Other>>),
  WithHeaders(<<Other, <<<<"content-length", "letter">>, <<"2">>>>>>),
  WithHeaders(<<Length(<<>>)>>),
  WithHeaders(<<Length(<<"letter">>)>>),
  WithHeaders(<<Length(<<"2", "SP">>)>>),
  WithHeaders(<<Length(<<"1", "1">>)>>),
  WithHeaders(<<Length(<<"minus", "0">>), Other>>),
  WithHeaders(<<Length(<<"2">>), Length(<<"0">>)>>),
  Plain([Get EXCEPT !.headers = <<Length(<<"4">>), Other, Length(<<"plus", "1">>)>>,
                    !.content = <<"CR">>])}

\* Contents: characters of every size, one that straddles the declared length by one, two and
\* three bytes, and a negative length.
Contents == {
  WithContent(<<"2">>, <<"letter", "LF">>),
  WithContent(<<"2">>, <<"lead2", "cont">>),
  WithContent(<<"3">>, <<"lead3", "cont", "cont">>),
  WithContent(<<"4">>, <<"letter", "lead2", "cont", "SP">>),
  WithContent(<<"4">>, <<"lead4", "cont", "cont", "cont">>),
  WithContent(<<"minus", "1">>, [i \in 1 .. 15 |-> "letter"])}

Straddling == {
  WithContent(<<"2">>, <<"letter", "lead2", "cont">>),
  WithContent(<<"1">>, <<"lead3", "cont", "cont">>),
  WithContent(<<"1">>, <<"lead4", "cont", "cont", "cont">>)}

AllMessages == RequestLines \cup Headers \cup Contents \cup Straddling

\* One byte is replaced or lost.
Damaged(bytes) ==
  {ReplaceAt(bytes, i, c) : i \in DOMAIN bytes, c \in Bytes}
    \cup {RemoveAt(bytes, i) : i \in DOMAIN bytes}

\* What arrives: the message intact or damaged, and something after it or nothing.
Arriving(m) ==
  LET bytes == Encode(m.request, m.version)
  IN  {sent \o trailer : sent \in {bytes} \cup Damaged(bytes),
                         trailer \in {<<>>, <<"cont", "letter">>}}

AllTransmissions == UNION {{m} \X Arriving(m) : m \in AllMessages}
==============================================================================

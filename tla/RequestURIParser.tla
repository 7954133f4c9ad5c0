---------------------------- MODULE RequestURIParser ----------------------------
(***************************************************************************)
(* RequestURIParserService::parse: the decoding of a request's URI, one    *)
(* iteration of its loop at a time, the checks of the decoded URI, and the *)
(* items of its query string, one match of the regular expression at a     *)
(* time.  A character is its code.                                         *)
(***************************************************************************)
EXTENDS Integers, Accumulation

CONSTANTS
  URIs,       \* what requests have as URI: what the request parser lets pass
  Targets     \* the paths and query strings of which clients write URIs

Byte == 0 .. 255

ASSUME URIsAssumption == URIs \subseteq Seq(Byte)

VARIABLES
  received,   \* the URI of the request, as it arrived: in
  i,          \* the index of the loop over it, from 1
  out,        \* what was decoded of it
  rest,       \* what the regular expression has not searched of the query string
  uri,        \* m_uri of the request
  query,      \* its query strings, in the order in which they were added
  parsing     \* "decode", "query", and then what parse() returned: "accepted" or "rejected"

uriVars == <<received, i, out, rest, uri, query, parsing>>

Percent == 37    Ampersand == 38    Plus == 43    Minus == 45    Dot == 46
Slash == 47      Equals == 61       Question == 63               Space == 32

Digits == 48 .. 57
Uppercase == 65 .. 90
Lowercase == 97 .. 122
WordChars == Digits \cup Uppercase \cup Lowercase \cup {95, Plus, Percent}   \* [\w+%]

\* The targets have an absolute path without ".." and "?", names of the characters of [\w+%]
\* and values without "&": the code splits the URI after it has decoded it, so that others
\* cannot be told apart.
Item == Seq(WordChars) \X Seq(Byte \ {Ampersand})
IsTarget(t) ==
  /\ t.path \in Seq(Byte \ {Question}) /\ Len(t.path) > 0 /\ t.path[1] = Slash
  /\ \A k \in 1 .. Len(t.path) - 1 : ~(t.path[k] = Dot /\ t.path[k + 1] = Dot)
  /\ t.query \in Seq(Item)
  /\ \A n \in 1 .. Len(t.query) : Len(t.query[n][1]) > 0

ASSUME TargetsAssumption == \A t \in Targets : IsTarget(t)

HexDigits == Digits \cup 65 .. 70 \cup 97 .. 102
HexValue(c) == IF c \in Digits THEN c - 48 ELSE IF c \in Uppercase THEN c - 55 ELSE c - 87

\* A defect: the two digits are read as signed.
readHexSigned(a, b) ==
  IF a \in HexDigits /\ b \in HexDigits
  THEN {(IF a > 55 THEN -256 ELSE 0) + 16 * HexValue(a) + HexValue(b)}
  ELSE {}

WhiteSpace == {Space} \cup 9 .. 13

\* What `is >> std::hex >> value` makes of two characters, as a char: none, or one value.  White
\* space is skipped, a sign is read, and so is a digit with something else behind it, which
\* `i += 2` then skips; "0x" is a prefix that lacks its digits.
readHex(a, b) ==
  IF a \in HexDigits
  THEN IF b \in HexDigits THEN {16 * HexValue(a) + HexValue(b)}
       ELSE IF a = 48 /\ b \in {88, 120} THEN {} ELSE {HexValue(a)}
  ELSE IF a \in WhiteSpace \cup {Plus} /\ b \in HexDigits THEN {HexValue(b)}
  ELSE IF a = Minus /\ b \in HexDigits THEN {(256 - HexValue(b)) % 256}
  ELSE {}

\* A defect: any "?" excuses the ".." of the path.
ClimbsUpUnlessQuery(s) ==
  /\ \E d \in 1 .. Len(s) - 1 : s[d] = Dot /\ s[d + 1] = Dot
  /\ \A q \in 1 .. Len(s) : s[q] # Question

\* Whether ".." is in s, and no "?" is before its first occurrence.
ClimbsUp(s) ==
  \E d \in 1 .. Len(s) - 1 :
    /\ s[d] = Dot /\ s[d + 1] = Dot
    /\ \A q \in 1 .. Len(s) : s[q] = Question => q > d

Bad(s) == Len(s) = 0 \/ s[1] # Slash

\* The length of s before its first "?", or of all of it.
PathEnd(s, n) ==
  /\ \A k \in 1 .. n : s[k] # Question
  /\ n < Len(s) => s[n + 1] = Question

\* A defect: the value of an item is all that is left, (.*).
MatchToEnd(s, b, e, v) ==
  /\ s[e] = Equals /\ b < e
  /\ \A k \in b .. e - 1 : s[k] \in WordChars
  /\ \A t \in 1 .. e - 1 : s[t] # Equals
  /\ b > 1 => s[b - 1] \notin WordChars
  /\ v = Len(s)

\* The first match of ([\w+%]+)=([^&]*) in s: its name is at b .. e - 1, its value at e + 1 .. v.
Match(s, b, e, v) ==
  LET named(f, t) == s[t] = Equals /\ \A k \in f .. t - 1 : s[k] \in WordChars
  IN  /\ b < e /\ e <= v /\ named(b, e)
      /\ \A f \in 1 .. b - 1, t \in 1 .. Len(s) : f < t => ~named(f, t)
      /\ \A k \in e + 1 .. v : s[k] # Ampersand
      /\ v < Len(s) => s[v + 1] = Ampersand

URIInit ==
  /\ received \in URIs
  /\ i = 1 /\ out = <<>> /\ rest = <<>>
  /\ uri = received /\ query = <<>>
  /\ parsing = "decode"

Reject == parsing' = "rejected" /\ UNCHANGED <<received, i, out, rest, uri, query>>

Append1(c, n) ==
  /\ out' = Append(out, c) /\ i' = i + n
  /\ UNCHANGED <<received, rest, uri, query, parsing>>

\* A defect: the index does not skip the digits of the escape.
DecodeEscapeShort ==
  /\ parsing = "decode" /\ i <= Len(received) /\ received[i] = Percent
  /\ IF i + 2 <= Len(received)
     THEN LET value == readHex(received[i + 1], received[i + 2])
          IN  IF value = {} THEN Reject ELSE \E c \in value : Append1(c, 2)
     ELSE Reject

DecodeEscape ==
  /\ parsing = "decode" /\ i <= Len(received) /\ received[i] = Percent
  /\ IF i + 2 <= Len(received)
     THEN LET value == readHex(received[i + 1], received[i + 2])
          IN  IF value = {} THEN Reject ELSE \E c \in value : Append1(c, 3)
     ELSE Reject

DecodeCharacter ==
  /\ parsing = "decode" /\ i <= Len(received) /\ received[i] # Percent
  /\ Append1(IF received[i] = Plus THEN Space ELSE received[i], 1)

\* The loop is over: the checks, and the first half of parseQueryString, which splits the
\* decoded URI at its first "?".
CheckDecoded ==
  /\ parsing = "decode" /\ i > Len(received)
  /\ IF ClimbsUp(out) \/ Bad(out) THEN Reject
     ELSE \E n \in 0 .. Len(out) :
            /\ PathEnd(out, n)
            /\ uri' = SubSeq(out, 1, n) /\ rest' = SubSeq(out, n + 1, Len(out))
            /\ parsing' = "query"
            /\ UNCHANGED <<received, i, out, query>>

\* The regular expression finds its next match, and the item is added.
AddItem ==
  /\ parsing = "query"
  /\ \E b, e, v \in 1 .. Len(rest) :
       /\ Match(rest, b, e, v)
       /\ query' = Append(query, <<SubSeq(rest, b, e - 1), SubSeq(rest, e + 1, v)>>)
       /\ rest' = SubSeq(rest, v + 1, Len(rest))
  /\ UNCHANGED <<received, i, out, uri, parsing>>

\* It finds none.
Accept ==
  /\ parsing = "query"
  /\ ~\E b, e, v \in 1 .. Len(rest) : Match(rest, b, e, v)
  /\ parsing' = "accepted"
  /\ UNCHANGED <<received, i, out, rest, uri, query>>

parse == DecodeEscape \/ DecodeCharacter \/ CheckDecoded \/ AddItem \/ Accept

-----------------------------------------------------------------------------
(* Properties *)

URITypeOK ==
  /\ received \in URIs
  /\ i \in 1 .. Len(received) + 1
  /\ out \in Seq(Byte) /\ rest \in Seq(Byte) /\ uri \in Seq(Byte)
  /\ query \in Seq(Seq(Byte) \X Seq(Byte))
  /\ parsing \in {"decode", "query", "accepted", "rejected"}

\* However its characters are escaped, the path of an accepted URI is absolute, and holds
\* neither ".." nor the "?" that starts the query; the one of a rejected URI is left as it
\* arrived.  RequestURIParserService::parse promises the first, and its callers rely on it.
ConfinedPath ==
  IF parsing \in {"query", "accepted"}
  THEN /\ Len(uri) > 0 /\ uri[1] = Slash
       /\ \A k \in 1 .. Len(uri) : uri[k] # Question
       /\ \A k \in 1 .. Len(uri) - 1 : ~(uri[k] = Dot /\ uri[k + 1] = Dot)
  ELSE uri = received /\ query = <<>>

\* The signs that end a name in s.
NameEnds(s) == {e \in 2 .. Len(s) : s[e] = Equals /\ s[e - 1] \in WordChars}

\* Those of items: of the signs in one field of s, between two "&", it is the first.
ItemSigns(s) ==
  {e \in NameEnds(s) :
     \A f \in NameEnds(s) : f < e => \E k \in f + 1 .. e - 1 : s[k] = Ampersand}

\* The item whose sign is at e: the characters of [\w+%] before it, and the rest of its field.
IsItem(s, e, item) ==
  \E b \in 1 .. e - 1, v \in e .. Len(s) :
    /\ item = <<SubSeq(s, b, e - 1), SubSeq(s, e + 1, v)>>
    /\ \A k \in b .. e - 1 : s[k] \in WordChars
    /\ b > 1 => s[b - 1] \notin WordChars
    /\ \A k \in e + 1 .. v : s[k] # Ampersand
    /\ v < Len(s) => s[v + 1] = Ampersand

\* The decoded URI behind its path, from the "?" on.
DecodedQuery == SubSeq(out, Len(uri) + 1, Len(out))

\* The query strings of an accepted URI are those of the fields of its decoded query, in their
\* order and none left out: at most one of each field, whatever the fields without a name are
\* like.  The fields are those of the decoded text, so that an "&" that was escaped ends an
\* item too.
ItemsOfFields ==
  parsing = "accepted" =>
    \E at \in [1 .. Len(query) -> 1 .. Len(DecodedQuery)] :
      /\ \A m, n \in 1 .. Len(query) : m < n => at[m] < at[n]
      /\ {at[n] : n \in 1 .. Len(query)} = ItemSigns(DecodedQuery)
      /\ \A n \in 1 .. Len(query) : IsItem(DecodedQuery, at[n], query[n])

-----------------------------------------------------------------------------
(* URIs as clients write them *)

HexOf(n) == {c \in HexDigits : HexValue(c) = n}

\* A character and the part of a URI that it is in.
Marked == (Byte \X {"path", "name", "value"}) \cup ({Question, Ampersand, Equals} \X {"separator"})

Of(s, part) == [n \in 1 .. Len(s) |-> <<s[n], part>>]
Separator(c) == <<<<c, "separator">>>>

ItemText(c, item) ==
  Separator(c) \o Of(item[1], "name") \o Separator(Equals) \o Of(item[2], "value")

NextText ==
  [p \in Seq(Marked) \X Item |->
     p[1] \o ItemText(IF p[1] = <<>> THEN Question ELSE Ampersand, p[2])]

QueryText(items) == Accumulated(NextText, <<>>, items)
TargetText(t) == Of(t.path, "path") \o QueryText(t.query)

\* The characters that have a meaning in a part, and must be escaped there.
Reserved == [path |-> {Question}, name |-> {Ampersand, Equals}, value |-> {Ampersand}]

\* The ways to write a character.
Written(c, part) ==
  IF part = "separator" THEN {<<c>>}
  ELSE {<<Percent, h, l>> : h \in HexOf(c \div 16), l \in HexOf(c % 16)}
         \cup (IF c = Space THEN {<<Plus>>} ELSE {})
         \cup (IF c \in Reserved[part] \cup {Space, Percent, Plus} THEN {} ELSE {<<c>>})

Joins(S, T) == {s \o t : s \in S, t \in T}

NextWritten == [p \in (SUBSET Seq(Byte)) \X Marked |-> Joins(p[1], Written(p[2][1], p[2][2]))]

\* A target is a path and a sequence of items <<name, value>>.
WrittenAll(text) == Accumulated(NextWritten, {<<>>}, text)
WrittenTarget(t) == WrittenAll(TargetText(t))

WrittenAs == {<<t, WrittenTarget(t)>> : t \in Targets}

\* However a client escapes a target, parse() accepts it and reads back its path, with the
\* escapes decoded once, and its items in their order.
TargetReadBack ==
  parsing \in {"accepted", "rejected"} =>
    \A w \in WrittenAs :
      received \in w[2] => parsing = "accepted" /\ uri = w[1].path /\ query = w[1].query
===============================================================================

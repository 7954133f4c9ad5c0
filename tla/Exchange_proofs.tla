----------------------------- MODULE Exchange_proofs -----------------------------
(***************************************************************************)
(* What holds of every exchange: the types, that an accepted path is       *)
(* confined, that the items of its query are those of the fields, that the *)
(* client reads the reply and the headers of CORS as they were meant, and  *)
(* that a URI is read as the target that the client wrote.                 *)
(***************************************************************************)
EXTENDS Exchange, ReplyBuilders_proofs

\* A part of a sequence has its elements.
LEMMA PartOf ==
  ASSUME NEW S, NEW s \in Seq(S), NEW m \in 1 .. Len(s) + 1, NEW n \in 0 .. Len(s)
  PROVE  /\ SubSeq(s, m, n) \in Seq(S)
         /\ Len(SubSeq(s, m, n)) = IF m <= n THEN n - m + 1 ELSE 0
         /\ \A k \in 1 .. Len(SubSeq(s, m, n)) : SubSeq(s, m, n)[k] = s[m + k - 1]
  BY SubSeqProperties

\* What is read of an escape is a char, whatever the two characters are.
LEMMA EscapeIsByte ==
  ASSUME NEW x \in Byte, NEW y \in Byte
  PROVE  readHex(x, y) \subseteq Byte
<1> DEFINE value(c) == HexValue(c)
<1>1. ASSUME NEW c \in HexDigits PROVE value(c) \in 0 .. 15
  BY <1>1 DEF HexDigits, HexValue, Digits, Uppercase
<1>2. ASSUME NEW p \in 0 .. 15, NEW q \in 0 .. 15
      PROVE  16 * p + q \in Byte /\ p \in Byte /\ (256 - q) % 256 \in Byte
  BY <1>2 DEF Byte
<1> QED
  BY <1>1, <1>2 DEF readHex

\* The checks of the decoded URI are enough: the part before the "?" is a confined path.
LEMMA ChecksConfine ==
  ASSUME NEW s \in Seq(Byte), ~ClimbsUp(s), ~Bad(s), NEW n \in 0 .. Len(s), PathEnd(s, n)
  PROVE  LET path == SubSeq(s, 1, n)
         IN  /\ Len(path) > 0 /\ path[1] = Slash
             /\ \A k \in 1 .. Len(path) : path[k] # Question
             /\ \A k \in 1 .. Len(path) - 1 : ~(path[k] = Dot /\ path[k + 1] = Dot)
<1> DEFINE path == SubSeq(s, 1, n)
<1>1. Len(s) \in Nat /\ Len(s) > 0 /\ s[1] = Slash
  BY DEF Bad
<1>2. n > 0
  BY <1>1 DEF PathEnd, Slash, Question
<1>3. Len(path) = n /\ \A k \in 1 .. n : path[k] = s[k]
  BY <1>1, <1>2, PartOf
<1>4. \A k \in 1 .. n : path[k] # Question
  BY <1>3 DEF PathEnd
<1>5. ASSUME NEW k \in 1 .. n - 1, path[k] = Dot, path[k + 1] = Dot PROVE FALSE
  <2>1. k \in 1 .. Len(s) - 1 /\ s[k] = Dot /\ s[k + 1] = Dot
    BY <1>1, <1>3, <1>5
  <2>2. PICK q \in 1 .. Len(s) : s[q] = Question /\ ~(q > k)
    BY <2>1 DEF ClimbsUp
  <2> QED
    BY <1>1, <2>2 DEF PathEnd
<1> HIDE DEF path
<1> QED
  BY <1>1, <1>2, <1>3, <1>4, <1>5 DEF path

\* What the calls made of the reply of the web services.
Replied ==
  LET sent == addCORSHeaders(setting.cors, setting.origin, setting.headers)
  IN  /\ stage = "headers" => headers = setting.headers
      /\ stage = "buffer" => headers = sent
      /\ stage = "write" => /\ setting.status \in DOMAIN StatusLine
                           /\ buffer = buildBuffer(setting.status, sent, setting.content)

\* The invariant of the proof.
IInv == TypeOK /\ ConfinedPath /\ Replied

LEMMA InitIInv == Init => IInv
<1> SUFFICES ASSUME Init PROVE IInv
  OBVIOUS
<1>1. received \in URIs /\ received \in Seq(Byte) /\ setting \in Settings
  BY CasesAssumption, URIsAssumption DEF Init, URIInit
<1> QED
  BY <1>1 DEF Init, URIInit, IInv, TypeOK, URITypeOK, ConfinedPath, Replied

\* The steps of parse() preserve the types and the confinement.
LEMMA ParsePreserves ==
  ASSUME URITypeOK, ConfinedPath, parse
  PROVE  URITypeOK' /\ ConfinedPath'
<1>1. received \in Seq(Byte) /\ Len(received) \in Nat /\ Len(out) \in Nat /\ Len(rest) \in Nat
  BY URIsAssumption DEF URITypeOK
<1>2. ASSUME parsing = "decode", Reject PROVE URITypeOK' /\ ConfinedPath'
  BY <1>2 DEF Reject, URITypeOK, ConfinedPath
<1>3. ASSUME NEW c \in Byte, NEW n \in 1 .. 3, i + n <= Len(received) + 1,
             parsing = "decode", Append1(c, n)
      PROVE  URITypeOK' /\ ConfinedPath'
  BY <1>1, <1>3 DEF Append1, URITypeOK, ConfinedPath
<1>4. CASE DecodeEscape
  <2>1. CASE i + 2 <= Len(received)
    <3> DEFINE value == readHex(received[i + 1], received[i + 2])
    <3>1. value \subseteq Byte
      BY <1>1, <2>1, EscapeIsByte DEF URITypeOK
    <3>2. IF value = {} THEN Reject ELSE \E c \in value : Append1(c, 3)
      BY <1>4, <2>1 DEF DecodeEscape
    <3>3. parsing = "decode" /\ i + 3 <= Len(received) + 1
      BY <1>1, <1>4, <2>1 DEF DecodeEscape, URITypeOK
    <3> HIDE DEF value
    <3> QED
      BY <1>2, <1>3, <3>1, <3>2, <3>3
  <2>2. CASE ~(i + 2 <= Len(received))
    BY <1>2, <1>4, <2>2 DEF DecodeEscape
  <2> QED
    BY <2>1, <2>2
<1>5. CASE DecodeCharacter
  <2> DEFINE c == IF received[i] = Plus THEN Space ELSE received[i]
  <2>1. i \in 1 .. Len(received) /\ parsing = "decode"
    BY <1>1, <1>5 DEF DecodeCharacter, URITypeOK
  <2>2. received[i] \in Byte /\ i + 1 <= Len(received) + 1
    BY <1>1, <2>1
  <2>3. c \in Byte
    BY <2>2 DEF Byte, Space
  <2>4. Append1(c, 1)
    BY <1>5 DEF DecodeCharacter
  <2> HIDE DEF c
  <2> QED
    BY <1>3, <2>1, <2>2, <2>3, <2>4
<1>6. CASE CheckDecoded
  <2>1. CASE ClimbsUp(out) \/ Bad(out)
    BY <1>2, <1>6, <2>1 DEF CheckDecoded
  <2>2. CASE ~ClimbsUp(out) /\ ~Bad(out)
    <3>1. PICK n \in 0 .. Len(out) :
            /\ PathEnd(out, n)
            /\ uri' = SubSeq(out, 1, n) /\ rest' = SubSeq(out, n + 1, Len(out))
            /\ parsing' = "query"
            /\ UNCHANGED <<received, i, out, query>>
      BY <1>6, <2>2 DEF CheckDecoded
    <3>2. uri' \in Seq(Byte) /\ rest' \in Seq(Byte)
      BY <1>1, <3>1, PartOf DEF URITypeOK
    <3>3. URITypeOK'
      BY <3>1, <3>2 DEF URITypeOK
    <3>4. ConfinedPath'
      BY <2>2, <3>1, ChecksConfine DEF URITypeOK, ConfinedPath
    <3> QED
      BY <3>3, <3>4
  <2> QED
    BY <2>1, <2>2
<1>7. CASE AddItem
  <2>1. PICK b \in 1 .. Len(rest), e \in 1 .. Len(rest), v \in 1 .. Len(rest) :
          /\ Match(rest, b, e, v)
          /\ query' = Append(query, <<SubSeq(rest, b, e - 1), SubSeq(rest, e + 1, v)>>)
          /\ rest' = SubSeq(rest, v + 1, Len(rest))
    BY <1>7 DEF AddItem
  <2> DEFINE name == SubSeq(rest, b, e - 1)
             text == SubSeq(rest, e + 1, v)
  <2>2. UNCHANGED <<received, i, out, uri, parsing>> /\ parsing = "query"
    BY <1>7 DEF AddItem
  <2>4. b \in 1 .. Len(rest) + 1 /\ e - 1 \in 0 .. Len(rest)
    BY <1>1
  <2>5. name \in Seq(Byte) /\ text \in Seq(Byte)
    <3>1. e + 1 \in 1 .. Len(rest) + 1 /\ v \in 0 .. Len(rest)
      BY <1>1
    <3> QED
      BY <2>4, <3>1, PartOf, SMTT(40) DEF URITypeOK
  <2>6. rest' \in Seq(Byte)
    BY <1>1, <2>1, PartOf, SMTT(40) DEF URITypeOK
  <2> HIDE DEF name, text
  <2>7. query' = Append(query, <<name, text>>) /\ query \in Seq(Seq(Byte) \X Seq(Byte))
    BY <2>1 DEF name, text, URITypeOK
  <2>8. query' \in Seq(Seq(Byte) \X Seq(Byte))
    BY <2>5, <2>7
  <2>9. URITypeOK' /\ ConfinedPath'
    BY <2>2, <2>6, <2>8 DEF URITypeOK, ConfinedPath
  <2> QED
    BY <2>9
<1>8. CASE Accept
  BY <1>8 DEF Accept, URITypeOK, ConfinedPath
<1> QED
  BY <1>4, <1>5, <1>6, <1>7, <1>8 DEF parse

LEMMA StepIInv == IInv /\ [Next]_vars => IInv'
<1> SUFFICES ASSUME IInv, [Next]_vars PROVE IInv'
  OBVIOUS
<1>1. CASE ParseURI
  <2>1. URITypeOK' /\ ConfinedPath'
    BY <1>1, ParsePreserves DEF ParseURI, IInv, TypeOK
  <2> QED
    BY <1>1, <2>1 DEF ParseURI, IInv, TypeOK, Replied
<1>2. ASSUME UNCHANGED uriVars PROVE (URITypeOK /\ ConfinedPath)'
  BY <1>2 DEF uriVars, IInv, TypeOK, URITypeOK, ConfinedPath
<1>3. CASE ProcessRequest
  BY <1>2, <1>3 DEF ProcessRequest, uriVars, IInv, TypeOK, Replied
<1>4. CASE AddCORSHeaders
  BY <1>2, <1>4 DEF AddCORSHeaders, uriVars, IInv, TypeOK, Replied
<1>5. CASE BuildBuffer
  BY <1>2, <1>5 DEF BuildBuffer, uriVars, IInv, TypeOK, Replied
<1>6. CASE UNCHANGED vars
  BY <1>2, <1>6 DEF vars, uriVars, IInv, TypeOK, Replied
<1> QED
  BY <1>1, <1>3, <1>4, <1>5, <1>6 DEF Next, Ended

\* The invariant holds of every URI and every setting of an exchange.
THEOREM Invariance == Spec => []IInv
  BY InitIInv, StepIInv, PTL DEF Spec

\* The variables of an exchange have their types: the loop stays inside the URI, what an escape
\* decodes to is a char, and nothing is replied before parse() returned.
THEOREM TypeCorrect == Spec => []TypeOK
<1>1. IInv => TypeOK
  BY DEF IInv
<1> QED
  BY <1>1, Invariance, PTL

\* Whatever a request has as URI, an accepted path is absolute and holds no ".." and no "?".
THEOREM PathsAreConfined == Spec => []ConfinedPath
<1>1. IInv => ConfinedPath
  BY DEF IInv
<1> QED
  BY <1>1, Invariance, PTL

-----------------------------------------------------------------------------
(* What the client reads. *)

\* The headers of a setting, and those that addCORSHeaders makes of them, can be written.
LEMMA SentHeaders ==
  ASSUME NEW s \in Settings
  PROVE  /\ IsHeaders(s.headers) /\ CORSNames \cap DOMAIN s.headers = {}
         /\ IsHeaders(addCORSHeaders(s.cors, s.origin, s.headers))
<1>1. Setting(s) /\ CORSNames \subseteq Strings
  BY CasesAssumption
<1>2. IsHeaders(s.headers) /\ CORSNames \cap DOMAIN s.headers = {}
  BY <1>1 DEF Setting, IsHeaders
<1>3. /\ s.origin = NoOrigin \/ s.origin \in Words \ {CRLF}
      /\ s.cors.maxAge \in Words \ {CRLF}
      /\ s.cors.exposedHeaders \cup s.cors.allowedHeaders \cup s.cors.allowedMethods \subseteq Strings
  BY <1>1 DEF Setting
<1>4. IsHeaders(addCORSHeaders(s.cors, s.origin, s.headers))
  BY <1>1, <1>2, <1>3, CORSHeadersTyped
<1> QED
  BY <1>2, <1>4

\* What is read in the buffer that is written.
IsRead(b, s, sent) ==
  /\ HasEmptyLine(b)
  /\ StatusRead(b) = {s.status}
  /\ ContentRead(b) = s.content
  /\ HeadersRead(b) = {<<name, sent[name]>> : name \in DOMAIN sent}

LEMMA WrittenIsRead ==
  ASSUME IInv, stage = "write"
  PROVE  IsRead(buffer, setting, addCORSHeaders(setting.cors, setting.origin, setting.headers))
<1> DEFINE sent == addCORSHeaders(setting.cors, setting.origin, setting.headers)
           status == setting.status
           content == setting.content
<1>1. setting \in Settings
  BY DEF IInv, TypeOK
<1>2. status \in DOMAIN StatusLine /\ buffer = buildBuffer(status, sent, content)
  BY DEF IInv, Replied
<1>3. IsHeaders(sent)
  BY <1>1, SentHeaders
<1>4. content \in Seq(Words)
  BY <1>1, CasesAssumption DEF Setting
<1> HIDE DEF sent, status, content
<1>5. /\ HasEmptyLine(buffer)
      /\ StatusRead(buffer) = {status}
      /\ ContentRead(buffer) = content
      /\ HeadersRead(buffer) = {<<name, sent[name]>> : name \in DOMAIN sent}
  BY <1>2, <1>3, <1>4, ReplyRead
<1> QED
  BY <1>5 DEF IsRead, sent, status, content

LEMMA ReplyIsRead == IInv => ReplyReadBack
<1> SUFFICES ASSUME IInv, stage = "write"
             PROVE  LET replied == {<<name, setting.headers[name]>> : name \in DOMAIN setting.headers}
                    IN  /\ HasEmptyLine(buffer)
                        /\ StatusRead(buffer) = {setting.status}
                        /\ ContentRead(buffer) = setting.content
                        /\ {h \in HeadersRead(buffer) : h[1] \notin CORSNames} = replied
  BY DEF ReplyReadBack
<1> DEFINE h == setting.headers
           cors == setting.cors
           origin == setting.origin
           sent == addCORSHeaders(cors, origin, h)
<1>1. IsRead(buffer, setting, sent)
  BY WrittenIsRead
<1>2. setting \in Settings
  BY DEF IInv, TypeOK
<1>3. CORSNames \cap DOMAIN h = {}
  BY <1>2, SentHeaders
<1>4. /\ DOMAIN h \subseteq DOMAIN sent /\ DOMAIN sent \subseteq DOMAIN h \cup CORSNames
      /\ \A name \in DOMAIN h : sent[name] = h[name]
  <2>1. CASE ~cors.enabled \/ origin = NoOrigin
    <3>1. sent = h
      BY <2>1 DEF addCORSHeaders
    <3> HIDE DEF sent, h
    <3> QED
      BY <3>1
  <2>2. CASE cors.enabled /\ origin # NoOrigin
    <3>1. IsWithCORS(sent, h, cors, origin)
      BY <1>3, <2>2, CORSAdded
    <3> HIDE DEF sent, h, cors, origin
    <3> QED
      BY <3>1 DEF IsWithCORS, CORSNames
  <2> QED
    BY <2>1, <2>2
<1> HIDE DEF sent, h
<1>5. {r \in HeadersRead(buffer) : r[1] \notin CORSNames} = {<<name, h[name]>> : name \in DOMAIN h}
  <2>1. HeadersRead(buffer) = {<<name, sent[name]>> : name \in DOMAIN sent}
    BY <1>1 DEF IsRead
  <2>2. ASSUME NEW r \in HeadersRead(buffer), r[1] \notin CORSNames
        PROVE  r \in {<<name, h[name]>> : name \in DOMAIN h}
    <3>1. PICK name \in DOMAIN sent : r = <<name, sent[name]>>
      BY <2>1
    <3>2. name \in DOMAIN h
      BY <1>4, <2>2, <3>1
    <3> QED
      BY <1>4, <3>1, <3>2
  <2>3. ASSUME NEW r \in {<<name, h[name]>> : name \in DOMAIN h}
        PROVE  r \in HeadersRead(buffer) /\ r[1] \notin CORSNames
    <3>1. PICK name \in DOMAIN h : r = <<name, h[name]>>
      BY <2>3
    <3>2. name \in DOMAIN sent /\ r = <<name, sent[name]>> /\ name \notin CORSNames
      BY <1>3, <1>4, <3>1
    <3> QED
      BY <2>1, <3>2
  <2> QED
    BY <2>2, <2>3
<1> QED
  BY <1>1, <1>5 DEF IsRead, h

\* The values of the headers of a name that are read.
Found(b, name) == {h[2] : h \in {r \in HeadersRead(b) : r[1] = name}}

LEMMA FoundIs ==
  ASSUME NEW b, NEW s, NEW sent, IsRead(b, s, sent), NEW name
  PROVE  Found(b, name) = IF name \in DOMAIN sent THEN {sent[name]} ELSE {}
<1>1. HeadersRead(b) = {<<n, sent[n]>> : n \in DOMAIN sent}
  BY DEF IsRead
<1>2. ASSUME NEW x \in Found(b, name) PROVE name \in DOMAIN sent /\ x = sent[name]
  <2>1. PICK r \in HeadersRead(b) : r[1] = name /\ x = r[2]
    BY <1>2 DEF Found
  <2>2. PICK n \in DOMAIN sent : r = <<n, sent[n]>>
    BY <1>1, <2>1
  <2> QED
    BY <2>1, <2>2
<1>3. ASSUME name \in DOMAIN sent PROVE sent[name] \in Found(b, name)
  <2> DEFINE r == <<name, sent[name]>>
  <2>1. r \in HeadersRead(b) /\ r[1] = name /\ r[2] = sent[name]
    BY <1>1, <1>3
  <2> HIDE DEF r
  <2> QED
    BY <2>1 DEF Found
<1> QED
  BY <1>2, <1>3

LEMMA CORSIsRead == IInv => CORSReadBack
<1> SUFFICES ASSUME IInv, stage = "write" PROVE CORSReadBack
  BY DEF CORSReadBack
<1> DEFINE h == setting.headers
           cors == setting.cors
           origin == setting.origin
           sent == addCORSHeaders(cors, origin, h)
           found(name) == Found(buffer, name)
           list(name) == {ItemsRead(value) : value \in found(name)}
           origins == {origin} \cap
                        (IF "*" \in cors.allowedOrigins THEN {origin} ELSE cors.allowedOrigins)
<1>1. IsRead(buffer, setting, sent)
  BY WrittenIsRead
<1>2. setting \in Settings
  BY DEF IInv, TypeOK
<1>3. CORSNames \cap DOMAIN h = {}
  BY <1>2, SentHeaders
<1>4. \A name : found(name) = IF name \in DOMAIN sent THEN {sent[name]} ELSE {}
  BY <1>1, FoundIs
<1>5. CASE cors.enabled /\ origin # NoOrigin
  <2>1. IsWithCORS(sent, h, cors, origin)
    BY <1>3, <1>5, CORSAdded
  <2>2. /\ cors.exposedHeaders \subseteq Strings /\ cors.allowedHeaders \subseteq Strings
        /\ cors.allowedMethods \subseteq Strings
    BY <1>2, CasesAssumption DEF Setting
  <2>3. /\ ItemsRead(getCommaSeparatedList(cors.exposedHeaders)) = cors.exposedHeaders
        /\ ItemsRead(getCommaSeparatedList(cors.allowedHeaders)) = cors.allowedHeaders
        /\ ItemsRead(getCommaSeparatedList(cors.allowedMethods)) = cors.allowedMethods
    BY <2>2, ItemsOfList
  <2> HIDE DEF sent, found
  <2>4. /\ found(ExposeHeaders) = {getCommaSeparatedList(cors.exposedHeaders)}
        /\ found(AllowHeaders) = {getCommaSeparatedList(cors.allowedHeaders)}
        /\ found(AllowMethods) = {getCommaSeparatedList(cors.allowedMethods)}
        /\ found(AllowCredentials) = {<<IF cors.allowedCredentials THEN "true" ELSE "false">>}
        /\ found(MaxAge) = {<<cors.maxAge>>}
    BY <1>4, <2>1 DEF IsWithCORS
  <2>5. /\ list(ExposeHeaders) = {cors.exposedHeaders}
        /\ list(AllowHeaders) = {cors.allowedHeaders}
        /\ list(AllowMethods) = {cors.allowedMethods}
    BY <2>3, <2>4
  <2>6. found(AllowOrigin) = {<<o>> : o \in origins}
    <3>1. CASE isAllowedOrigin(cors, origin)
      <4>1. found(AllowOrigin) = {<<origin>>}
        BY <1>4, <2>1, <3>1 DEF IsWithCORS
      <4>2. origins = {origin}
        BY <3>1 DEF isAllowedOrigin
      <4> HIDE DEF origins
      <4> QED
        BY <4>1, <4>2
    <3>2. CASE ~isAllowedOrigin(cors, origin)
      <4>1. AllowOrigin \notin DOMAIN sent
        BY <1>3, <2>1, <3>2, CORSNamesDiffer DEF IsWithCORS, CORSNames
      <4>2. found(AllowOrigin) = {}
        BY <1>4, <4>1
      <4>3. origins = {}
        BY <3>2 DEF isAllowedOrigin
      <4> HIDE DEF origins
      <4> QED
        BY <4>2, <4>3
    <3> QED
      BY <3>1, <3>2
  <2> QED
    BY <1>5, <2>4, <2>5, <2>6, Zenon DEF CORSReadBack, Found, found
<1>6. CASE ~(cors.enabled /\ origin # NoOrigin)
  <2>1. sent = h
    BY <1>6 DEF addCORSHeaders
  <2> HIDE DEF sent, h
  <2>2. \A name \in CORSNames : found(name) = {}
    BY <1>3, <1>4, <2>1
  <2> QED
    BY <1>6, <2>2, Zenon DEF CORSReadBack, Found
<1> QED
  BY <1>5, <1>6

\* For every reply of the web services, whatever its headers and its content are, the client
\* reads its status, its headers and its content in the buffer that is written.
THEOREM RepliesAreReadBack == Spec => []ReplyReadBack
  BY ReplyIsRead, Invariance, PTL

\* For every configuration of CORS and every origin, the client reads in the buffer that is
\* written what the configuration says of its origin, and nothing if CORS is not enabled.
THEOREM CORSIsReadBack == Spec => []CORSReadBack
  BY CORSIsRead, Invariance, PTL
-----------------------------------------------------------------------------
(* The ways to write a character. *)

LEMMA CodesAre ==
  /\ Byte = 0 .. 255
  /\ Percent = 37 /\ Ampersand = 38 /\ Plus = 43 /\ Minus = 45 /\ Dot = 46
  /\ Slash = 47 /\ Equals = 61 /\ Question = 63 /\ Space = 32
  BY DEF Byte, Percent, Ampersand, Plus, Minus, Dot, Slash, Equals, Question, Space

\* The two ways to write a character: as an escape, and as itself or a "+".
IsForm(f, c) ==
  /\ f \in Seq(Byte)
  /\ \/ Len(f) = 3 /\ f[1] = Percent /\ readHex(f[2], f[3]) = {c}
     \/ Len(f) = 1 /\ f[1] # Percent /\ c = (IF f[1] = Plus THEN Space ELSE f[1])

\* An escape is read as the character that it was written for.
LEMMA EscapeReadBack ==
  ASSUME NEW c \in Byte, NEW h \in HexOf(c \div 16), NEW l \in HexOf(c % 16)
  PROVE  h \in Byte /\ l \in Byte /\ readHex(h, l) = {c}
<1>1. h \in HexDigits /\ l \in HexDigits /\ HexValue(h) = c \div 16 /\ HexValue(l) = c % 16
  BY DEF HexOf
<1>2. 16 * (c \div 16) + (c % 16) = c
  BY DEF Byte
<1>3. h \in Byte /\ l \in Byte
  BY <1>1 DEF HexDigits, Byte, Digits
<1>4. readHex(h, l) = {16 * HexValue(h) + HexValue(l)}
  BY <1>1 DEF readHex
<1>5. 16 * HexValue(h) + HexValue(l) = c
  <2> DEFINE high == HexValue(h)
             low == HexValue(l)
  <2>1. high = c \div 16 /\ low = c % 16
    BY <1>1
  <2> HIDE DEF high, low
  <2>2. 16 * high + low = c
    BY <1>2, <2>1
  <2> QED
    BY <2>2 DEF high, low
<1> QED
  BY <1>3, <1>4, <1>5, Zenon

LEMMA WrittenIsForm ==
  ASSUME NEW m \in Marked, NEW f \in Written(m[1], m[2]) PROVE IsForm(f, m[1])
<1> DEFINE c == m[1]
           part == m[2]
<1>1. c \in Byte
  BY CodesAre DEF Marked
<1>2. CASE part = "separator"
  <2>1. c \in {Question, Ampersand, Equals}
    BY <1>2 DEF Marked
  <2>2. f = <<c>>
    BY <1>2 DEF Written
  <2> QED
    BY <1>1, <2>1, <2>2, CodesAre DEF IsForm
<1>3. CASE part # "separator"
  <2>1. \/ \E h \in HexOf(c \div 16), l \in HexOf(c % 16) : f = <<Percent, h, l>>
        \/ c = Space /\ f = <<Plus>>
        \/ c \notin {Space, Percent, Plus} /\ f = <<c>>
    BY <1>3 DEF Written
  <2>2. ASSUME NEW h \in HexOf(c \div 16), NEW l \in HexOf(c % 16), f = <<Percent, h, l>>
        PROVE  IsForm(f, c)
    <3>1. h \in Byte /\ l \in Byte /\ readHex(h, l) = {c}
      BY <1>1, EscapeReadBack
    <3>2. Percent \in Byte
      BY CodesAre
    <3>3. f \in Seq(Byte) /\ Len(f) = 3 /\ f[1] = Percent /\ f[2] = h /\ f[3] = l
      BY <2>2, <3>1, <3>2
    <3> QED
      BY <3>1, <3>3 DEF IsForm
  <2>3. CASE c = Space /\ f = <<Plus>>
    BY <2>3, CodesAre DEF IsForm
  <2>4. CASE c \notin {Space, Percent, Plus} /\ f = <<c>>
    BY <1>1, <2>4, CodesAre DEF IsForm
  <2> QED
    BY <2>1, <2>2, <2>3, <2>4
<1> QED
  BY <1>2, <1>3

\* s holds f behind its first n elements.
At(s, n, f) == \A k \in 1 .. Len(f) : s[n + k] = f[k]

\* w is the pieces one behind the other, and cut[n] is where the n-th ends.
IsCut(w, pieces, cut) ==
  /\ w \in Seq(Byte) /\ pieces \in Seq(Seq(Byte))
  /\ cut \in [0 .. Len(pieces) -> 0 .. Len(w)] /\ cut[0] = 0 /\ cut[Len(pieces)] = Len(w)
  /\ \A n \in 1 .. Len(pieces) :
       cut[n] = cut[n - 1] + Len(pieces[n]) /\ At(w, cut[n - 1], pieces[n])

LEMMA CutOfNothing == \E cut : IsCut(<<>>, <<>>, cut)
<1>1. IsCut(<<>>, <<>>, [n \in 0 .. 0 |-> 0])
  BY DEF IsCut
<1> QED
  BY <1>1

\* One piece more.
LEMMA CutGrows ==
  ASSUME NEW w, NEW pieces, NEW cut, IsCut(w, pieces, cut), NEW f \in Seq(Byte)
  PROVE  \E more : IsCut(w \o f, Append(pieces, f), more)
<1> DEFINE N == Len(pieces)
           L == Len(w)
           v == w \o f
           longer == Append(pieces, f)
           more == [n \in 0 .. N + 1 |-> IF n <= N THEN cut[n] ELSE L + Len(f)]
<1>1. /\ w \in Seq(Byte) /\ pieces \in Seq(Seq(Byte))
      /\ cut \in [0 .. N -> 0 .. L] /\ cut[0] = 0 /\ cut[N] = L
  BY DEF IsCut
<1>2. N \in Nat /\ L \in Nat /\ Len(f) \in Nat
  BY <1>1, LenProperties
<1>3. /\ v \in Seq(Byte) /\ Len(v) = L + Len(f)
      /\ \A k \in 1 .. L : v[k] = w[k]
      /\ \A k \in 1 .. Len(f) : v[L + k] = f[k]
  BY <1>1
<1>4. /\ longer \in Seq(Seq(Byte)) /\ Len(longer) = N + 1 /\ longer[N + 1] = f
      /\ \A n \in 1 .. N : longer[n] = pieces[n] /\ Len(pieces[n]) \in Nat
  BY <1>1
<1> HIDE DEF v, longer
<1>5. /\ more \in [0 .. N + 1 -> 0 .. Len(v)] /\ more[0] = 0 /\ more[N + 1] = Len(v)
      /\ \A n \in 0 .. N : more[n] = cut[n] /\ cut[n] \in 0 .. L
  <2>1. \A n \in 0 .. N : cut[n] \in 0 .. L
    BY <1>1
  <2> QED
    BY <1>1, <1>2, <1>3, <2>1
<1> HIDE DEF more
<1>6. ASSUME NEW n \in 1 .. N + 1
      PROVE  more[n] = more[n - 1] + Len(longer[n]) /\ At(v, more[n - 1], longer[n])
  <2>1. CASE n = N + 1
    <3>1. n - 1 = N /\ N \in 0 .. N
      BY <1>2, <2>1
    <3>2. more[n] = more[n - 1] + Len(f) /\ more[n - 1] = L
      BY <1>1, <1>3, <1>5, <2>1, <3>1
    <3> QED
      BY <1>3, <1>4, <2>1, <3>2 DEF At
  <2>2. CASE n \in 1 .. N
    <3>1. n \in 0 .. N /\ n - 1 \in 0 .. N
      BY <1>2, <2>2
    <3>2. more[n] = cut[n] /\ more[n - 1] = cut[n - 1] /\ cut[n] \in 0 .. L /\ cut[n - 1] \in 0 .. L
      BY <1>5, <3>1
    <3>3. cut[n] = cut[n - 1] + Len(pieces[n]) /\ At(w, cut[n - 1], pieces[n])
      BY <2>2 DEF IsCut
    <3>4. longer[n] = pieces[n] /\ Len(pieces[n]) \in Nat
      BY <1>4, <2>2
    <3>5. ASSUME NEW k \in 1 .. Len(pieces[n]) PROVE v[cut[n - 1] + k] = pieces[n][k]
      <4>1. w[cut[n - 1] + k] = pieces[n][k]
        BY <3>3 DEF At
      <4>2. cut[n - 1] + k \in 1 .. L
        BY <1>2, <3>2, <3>3, <3>4, SMTT(40)
      <4> QED
        BY <1>3, <4>1, <4>2
    <3> QED
      BY <3>2, <3>3, <3>4, <3>5 DEF At
  <2> QED
    BY <1>2, <2>1, <2>2
<1>7. IsCut(v, longer, more)
  BY <1>3, <1>4, <1>5, <1>6 DEF IsCut
<1> QED
  BY <1>7 DEF v, longer

\* The pieces are ways to write the characters of a text.
AreForms(pieces, text) ==
  Len(pieces) = Len(text) /\ \A n \in 1 .. Len(text) : IsForm(pieces[n], text[n][1])

LEMMA JoinsIn ==
  ASSUME NEW S, NEW T, NEW x
  PROVE  x \in Joins(S, T) <=> \E s \in S, t \in T : x = s \o t
  BY DEF Joins

LEMMA WrittenOperation == Operation(NextWritten, SUBSET Seq(Byte), Marked)
<1>1. ASSUME NEW old \in SUBSET Seq(Byte), NEW m \in Marked
      PROVE  Joins(old, Written(m[1], m[2])) \in SUBSET Seq(Byte)
  <2>1. ASSUME NEW s \in old, NEW f \in Written(m[1], m[2]) PROVE s \o f \in Seq(Byte)
    <3>1. f \in Seq(Byte)
      BY WrittenIsForm DEF IsForm
    <3> QED
      BY <3>1
  <2> SUFFICES ASSUME NEW x \in Joins(old, Written(m[1], m[2])) PROVE x \in Seq(Byte)
    OBVIOUS
  <2>2. PICK s \in old, f \in Written(m[1], m[2]) : x = s \o f
    BY JoinsIn
  <2> QED
    BY <2>1, <2>2
<1> QED
  BY <1>1 DEF Operation, NextWritten

\* Whatever way a text is written in is a way to write each of its characters.
LEMMA CutsExist ==
  ASSUME NEW text \in Seq(Marked), NEW w \in WrittenAll(text)
  PROVE  \E pieces, cut : IsCut(w, pieces, cut) /\ AreForms(pieces, text)
<1> DEFINE base == {<<>>}
           P == {s \in Seq(Marked) : \A x \in WrittenAll(s) :
                   \E pieces, cut : IsCut(x, pieces, cut) /\ AreForms(pieces, s)}
<1>1. base \in SUBSET Seq(Byte)
  BY EmptySeq
<1>2. \A s : WrittenAll(s) = Accumulated(NextWritten, base, s)
  BY DEF WrittenAll
<1> HIDE DEF base
<1>3. <<>> \in P
  <2>1. WrittenAll(<<>>) = base
    BY <1>1, <1>2, WrittenOperation, AccumulatedEmpty
  <2>2. AreForms(<<>>, <<>>)
    BY DEF AreForms
  <2> QED
    BY <2>1, <2>2, CutOfNothing, EmptySeq DEF base
<1>4. ASSUME NEW s \in Seq(Marked), NEW m \in Marked, s \in P PROVE Append(s, m) \in P
  <2>1. WrittenAll(Append(s, m)) = Applied(NextWritten, WrittenAll(s), m)
    <3> DEFINE A == SUBSET Seq(Byte)
    <3>1. base \in A /\ Operation(NextWritten, A, Marked)
      BY <1>1, WrittenOperation
    <3> HIDE DEF A
    <3> QED
      BY <1>2, <3>1, AccumulatedAppend
  <2>2. WrittenAll(s) \in SUBSET Seq(Byte)
    BY <1>1, <1>2, WrittenOperation, AccumulatedType
  <2>3. WrittenAll(Append(s, m)) = Joins(WrittenAll(s), Written(m[1], m[2]))
    BY <2>1, <2>2 DEF Applied, NextWritten
  <2>4. ASSUME NEW x \in WrittenAll(Append(s, m))
        PROVE  \E pieces, cut : IsCut(x, pieces, cut) /\ AreForms(pieces, Append(s, m))
    <3>1. PICK y \in WrittenAll(s), f \in Written(m[1], m[2]) : x = y \o f
      BY <2>3, <2>4, JoinsIn
    <3>2. PICK pieces, cut : IsCut(y, pieces, cut) /\ AreForms(pieces, s)
      BY <1>4
    <3>3. IsForm(f, m[1]) /\ f \in Seq(Byte)
      BY WrittenIsForm DEF IsForm
    <3>4. PICK more : IsCut(y \o f, Append(pieces, f), more)
      BY <3>2, <3>3, CutGrows
    <3>5. AreForms(Append(pieces, f), Append(s, m))
      <4>1. pieces \in Seq(Seq(Byte)) /\ Len(pieces) = Len(s)
        BY <3>2 DEF IsCut, AreForms
      <4> DEFINE p == Append(pieces, f)
                 r == Append(s, m)
      <4>2. /\ Len(p) = Len(s) + 1 /\ p[Len(s) + 1] = f
            /\ \A n \in 1 .. Len(s) : p[n] = pieces[n]
        BY <3>3, <4>1
      <4>3. /\ Len(r) = Len(s) + 1 /\ r[Len(s) + 1] = m
            /\ \A n \in 1 .. Len(s) : r[n] = s[n]
        OBVIOUS
      <4>4. Len(s) \in Nat /\ \A n \in 1 .. Len(s) : IsForm(pieces[n], s[n][1])
        BY <3>2, LenProperties DEF AreForms
      <4> HIDE DEF p, r
      <4>5. ASSUME NEW n \in 1 .. Len(s) + 1 PROVE IsForm(p[n], r[n][1])
        BY <3>3, <4>2, <4>3, <4>4
      <4>6. AreForms(p, r)
        BY <4>2, <4>3, <4>5 DEF AreForms
      <4> QED
        BY <4>6 DEF p, r
    <3> QED
      BY <3>1, <3>4, <3>5
  <2> QED
    BY <2>4
<1>5. Seq(Marked) \subseteq P
  <2> HIDE DEF P
  <2> QED
    BY <1>3, <1>4, SequenceInduction
<1> QED
  BY <1>5
-----------------------------------------------------------------------------
(* The loop over the received URI. *)

\* The characters of a text.
Codes(text) == [n \in 1 .. Len(text) |-> text[n][1]]

\* What was decoded of the received URI is the beginning of the text that it is a way to write.
DecodedSo(text) ==
  \E pieces, cut :
    /\ IsCut(received, pieces, cut) /\ AreForms(pieces, text)
    /\ Len(out) <= Len(text) /\ i = cut[Len(out)] + 1
    /\ \A k \in 1 .. Len(out) : out[k] = text[k][1]

\* The piece that the loop is at.
LEMMA PieceReached ==
  ASSUME URITypeOK, NEW text \in Seq(Marked), NEW pieces, NEW cut,
         IsCut(received, pieces, cut), AreForms(pieces, text),
         Len(out) <= Len(text), i = cut[Len(out)] + 1
  PROVE  LET f == pieces[Len(out) + 1]
         IN  /\ i <= Len(received) <=> Len(out) < Len(text)
             /\ Len(out) < Len(text) =>
                  /\ IsForm(f, text[Len(out) + 1][1]) /\ Len(f) \in Nat
                  /\ i - 1 + Len(f) = cut[Len(out) + 1] /\ cut[Len(out) + 1] <= Len(received)
                  /\ \A k \in 1 .. Len(f) : received[i - 1 + k] = f[k]
<1> DEFINE n == Len(out)
           N == Len(text)
           L == Len(received)
           f == pieces[n + 1]
<1>1. n \in Nat /\ N \in Nat /\ L \in Nat /\ n <= N
  BY URIsAssumption, LenProperties DEF URITypeOK
<1>2. /\ N = Len(pieces) /\ cut[N] = L /\ i = cut[n] + 1
      /\ \A k \in 0 .. N : cut[k] \in 0 .. L
  BY DEF IsCut, AreForms
<1>3. ASSUME n < N
      PROVE  /\ IsForm(f, text[n + 1][1]) /\ Len(f) \in 1 .. 3
             /\ cut[n + 1] = cut[n] + Len(f) /\ cut[n + 1] <= L
             /\ \A k \in 1 .. Len(f) : received[cut[n] + k] = f[k]
  <2>1. n + 1 \in 1 .. N /\ n + 1 \in 0 .. N /\ (n + 1) - 1 = n
    BY <1>1, <1>3
  <2>2. IsForm(f, text[n + 1][1])
    BY <2>1 DEF AreForms
  <2>3. cut[n + 1] = cut[n] + Len(f) /\ At(received, cut[n], f)
    BY <1>2, <2>1 DEF IsCut
  <2>4. Len(f) \in 1 .. 3
    BY <2>2 DEF IsForm
  <2>5. cut[n + 1] <= L
    BY <1>1, <1>2, <2>1
  <2> QED
    BY <2>2, <2>3, <2>4, <2>5 DEF At
<1>4. cut[n] \in 0 .. L
  BY <1>1, <1>2
<1> HIDE DEF n, N, L, f
<1>5. i <= L <=> n < N
  <2>1. CASE n < N
    <3>1. Len(f) \in 1 .. 3 /\ cut[n] + Len(f) <= L
      BY <1>3, <2>1
    <3>2. i = cut[n] + 1
      BY <1>2
    <3>3. i <= L
      <4> DEFINE behind == cut[n]
                 more == Len(f)
      <4>1. behind \in 0 .. L /\ more \in 1 .. 3 /\ behind + more <= L /\ i = behind + 1
        BY <1>4, <3>1, <3>2
      <4> HIDE DEF behind, more
      <4> QED
        BY <1>1, <4>1
    <3> QED
      BY <2>1, <3>3
  <2>2. CASE n = N
    <3>1. i = L + 1
      BY <1>2, <2>2
    <3> QED
      BY <1>1, <2>2, <3>1
  <2> QED
    BY <1>1, <2>1, <2>2
<1>6. ASSUME n < N
      PROVE  /\ IsForm(f, text[n + 1][1]) /\ Len(f) \in Nat
             /\ i - 1 + Len(f) = cut[n + 1] /\ cut[n + 1] <= L
             /\ \A k \in 1 .. Len(f) : received[i - 1 + k] = f[k]
  <2>1. i - 1 = cut[n]
    BY <1>2, <1>4
  <2> QED
    BY <1>3, <1>4, <1>6, <2>1, SMTT(40)
<1> QED
  BY <1>5, <1>6 DEF n, N, L, f

\* An iteration of the loop reads the next character of the text.
LEMMA CharacterRead ==
  ASSUME URITypeOK, NEW text \in Seq(Marked), DecodedSo(text), DecodeEscape \/ DecodeCharacter
  PROVE  DecodedSo(text)' /\ parsing' = "decode"
<1> DEFINE n == Len(out)
           c == text[n + 1][1]
<1>1. PICK pieces, cut :
        /\ IsCut(received, pieces, cut) /\ AreForms(pieces, text)
        /\ n <= Len(text) /\ i = cut[n] + 1
        /\ \A k \in 1 .. n : out[k] = text[k][1]
  BY DEF DecodedSo
<1> DEFINE f == pieces[n + 1]
<1>2. /\ n < Len(text) /\ IsForm(f, c) /\ Len(f) \in Nat
      /\ i - 1 + Len(f) = cut[n + 1] /\ cut[n + 1] <= Len(received)
      /\ \A k \in 1 .. Len(f) : received[i - 1 + k] = f[k]
  <2>1. i <= Len(received)
    BY DEF DecodeEscape, DecodeCharacter
  <2> QED
    BY <1>1, <2>1, PieceReached
<1>3. parsing = "decode" /\ i \in Nat /\ Len(received) \in Nat /\ n \in Nat /\ Len(text) \in Nat
  BY URIsAssumption, LenProperties DEF URITypeOK, DecodeEscape, DecodeCharacter
<1> HIDE DEF f, c
<1>4. Append1(c, Len(f))
  <2>1. CASE Len(f) = 3 /\ f[1] = Percent /\ readHex(f[2], f[3]) = {c}
    <3>1. received[i] = f[1] /\ received[i + 1] = f[2] /\ received[i + 2] = f[3]
      <4>1. i - 1 + 1 = i /\ i - 1 + 2 = i + 1 /\ i - 1 + 3 = i + 2
        BY <1>3
      <4> QED
        BY <1>2, <2>1, <4>1
    <3>2. i + 2 <= Len(received)
      BY <1>2, <1>3, <2>1
    <3>3. DecodeEscape
      BY <2>1, <3>1 DEF DecodeCharacter
    <3>4. \E x \in {c} : Append1(x, 3)
      BY <2>1, <3>1, <3>2, <3>3 DEF DecodeEscape
    <3> QED
      BY <2>1, <3>4
  <2>2. CASE Len(f) = 1 /\ f[1] # Percent /\ c = (IF f[1] = Plus THEN Space ELSE f[1])
    <3>1. received[i] = f[1]
      <4>1. i - 1 + 1 = i
        BY <1>3
      <4> QED
        BY <1>2, <2>2, <4>1
    <3>2. DecodeCharacter
      BY <2>2, <3>1 DEF DecodeEscape
    <3> QED
      BY <2>2, <3>1, <3>2 DEF DecodeCharacter
  <2> QED
    BY <1>2, <2>1, <2>2 DEF IsForm
<1>5. /\ out' = Append(out, c) /\ i' = i + Len(f)
      /\ UNCHANGED <<received, parsing>>
  BY <1>4 DEF Append1
<1>6. /\ Len(out') = n + 1 /\ out'[n + 1] = c
      /\ \A k \in 1 .. n : out'[k] = out[k]
  <2>1. out \in Seq(Byte)
    BY DEF URITypeOK
  <2> HIDE DEF n
  <2>2. n = Len(out)
    BY DEF n
  <2> QED
    BY <1>5, <2>1, <2>2
<1>7. i' = cut[n + 1] + 1
  BY <1>2, <1>3, <1>5
<1>8. \A k \in 1 .. n + 1 : out'[k] = text[k][1]
  BY <1>1, <1>3, <1>6 DEF c
<1>9. Len(out') <= Len(text)
  BY <1>2, <1>3, <1>6
<1> HIDE DEF n
<1> QED
  BY <1>1, <1>3, <1>5, <1>6, <1>7, <1>8, <1>9 DEF DecodedSo

\* After the loop the whole text is decoded.
LEMMA TextDecoded ==
  ASSUME URITypeOK, NEW text \in Seq(Marked), DecodedSo(text), i > Len(received)
  PROVE  out = Codes(text)
<1>1. PICK pieces, cut :
        /\ IsCut(received, pieces, cut) /\ AreForms(pieces, text)
        /\ Len(out) <= Len(text) /\ i = cut[Len(out)] + 1
        /\ \A k \in 1 .. Len(out) : out[k] = text[k][1]
  BY DEF DecodedSo
<1>2. ~(Len(out) < Len(text))
  <2>1. ~(i <= Len(received))
    BY URIsAssumption DEF URITypeOK
  <2> QED
    BY <1>1, <2>1, PieceReached
<1>3. Len(out) = Len(text) /\ out \in Seq(Byte)
  BY <1>1, <1>2, LenProperties DEF URITypeOK
<1> QED
  BY <1>1, <1>3 DEF Codes
-----------------------------------------------------------------------------
(* The characters of a target. *)

\* A sequence is determined by its two parts.
LEMMA IsJoined ==
  ASSUME NEW S, NEW a \in Seq(S), NEW b \in Seq(S), NEW r \in Seq(S),
         Len(r) = Len(a) + Len(b), \A k \in 1 .. Len(a) : r[k] = a[k],
         \A k \in 1 .. Len(b) : r[Len(a) + k] = b[k]
  PROVE  r = a \o b
<1> DEFINE j == a \o b
<1>1. /\ j \in Seq(S) /\ Len(j) = Len(a) + Len(b)
      /\ \A k \in 1 .. Len(a) : j[k] = a[k]
      /\ \A k \in 1 .. Len(b) : j[Len(a) + k] = b[k]
  OBVIOUS
<1> HIDE DEF j
<1>2. Len(a) \in Nat /\ Len(b) \in Nat
  BY LenProperties
<1>3. ASSUME NEW k \in 1 .. Len(r) PROVE r[k] = j[k]
  <2>1. CASE k \in 1 .. Len(a)
    BY <1>1, <2>1
  <2>2. CASE k \notin 1 .. Len(a)
    <3>1. k - Len(a) \in 1 .. Len(b) /\ Len(a) + (k - Len(a)) = k
      BY <1>2, <2>2
    <3> DEFINE x == k - Len(a)
    <3>2. x \in 1 .. Len(b) /\ Len(a) + x = k
      BY <3>1
    <3> HIDE DEF x
    <3>3. r[Len(a) + x] = b[x] /\ j[Len(a) + x] = b[x]
      BY <1>1, <3>2
    <3> QED
      BY <3>2, <3>3
  <2> QED
    BY <2>1, <2>2
<1>4. r = j
  BY <1>1, <1>3
<1> QED
  BY <1>4 DEF j

LEMMA CodesAreBytes ==
  ASSUME NEW s \in Seq(Marked)
  PROVE  /\ Codes(s) \in Seq(Byte) /\ Len(Codes(s)) = Len(s)
         /\ \A k \in 1 .. Len(s) : Codes(s)[k] = s[k][1]
<1>1. \A m \in Marked : m[1] \in Byte
  BY CodesAre DEF Marked
<1>2. Len(s) \in Nat /\ \A k \in 1 .. Len(s) : s[k][1] \in Byte
  BY <1>1, LenProperties
<1> QED
  BY <1>2 DEF Codes

LEMMA CodesJoined ==
  ASSUME NEW s \in Seq(Marked), NEW t \in Seq(Marked)
  PROVE  s \o t \in Seq(Marked) /\ Codes(s \o t) = Codes(s) \o Codes(t)
<1> DEFINE j == s \o t
<1>1. /\ j \in Seq(Marked) /\ Len(j) = Len(s) + Len(t)
      /\ \A k \in 1 .. Len(s) : j[k] = s[k]
      /\ \A k \in 1 .. Len(t) : j[Len(s) + k] = t[k]
  OBVIOUS
<1> HIDE DEF j
<1>2. Len(s) \in Nat /\ Len(t) \in Nat
  BY LenProperties
<1>3. /\ Codes(j) \in Seq(Byte) /\ Len(Codes(j)) = Len(j)
      /\ \A k \in 1 .. Len(j) : Codes(j)[k] = j[k][1]
  BY <1>1, CodesAreBytes
<1>4. /\ Codes(s) \in Seq(Byte) /\ Len(Codes(s)) = Len(s)
      /\ \A k \in 1 .. Len(s) : Codes(s)[k] = s[k][1]
  BY CodesAreBytes
<1>5. /\ Codes(t) \in Seq(Byte) /\ Len(Codes(t)) = Len(t)
      /\ \A k \in 1 .. Len(t) : Codes(t)[k] = t[k][1]
  BY CodesAreBytes
<1>6. \A k \in 1 .. Len(s) : Codes(j)[k] = Codes(s)[k]
  BY <1>1, <1>2, <1>3, <1>4
<1>7. ASSUME NEW k \in 1 .. Len(t) PROVE Codes(j)[Len(s) + k] = Codes(t)[k]
  <2>1. Len(s) + k \in 1 .. Len(j)
    BY <1>1, <1>2
  <2> QED
    BY <1>1, <1>3, <1>5, <2>1, ZenonT(60)
<1>8. Codes(j) = Codes(s) \o Codes(t)
  <2> DEFINE cs == Codes(s)
             ct == Codes(t)
             cj == Codes(j)
  <2>1. /\ cs \in Seq(Byte) /\ ct \in Seq(Byte) /\ cj \in Seq(Byte)
        /\ Len(cj) = Len(cs) + Len(ct) /\ \A k \in 1 .. Len(cs) : cj[k] = cs[k]
        /\ \A k \in 1 .. Len(ct) : cj[Len(cs) + k] = ct[k]
    BY <1>1, <1>3, <1>4, <1>5, <1>6, <1>7
  <2> HIDE DEF cs, ct, cj
  <2>2. cj = cs \o ct
    BY <2>1, IsJoined
  <2> QED
    BY <2>2 DEF cs, ct, cj
<1> QED
  BY <1>1, <1>8 DEF j

LEMMA CodesOf ==
  ASSUME NEW s \in Seq(Byte), NEW part \in {"path", "name", "value"}
  PROVE  Of(s, part) \in Seq(Marked) /\ Codes(Of(s, part)) = s
<1> DEFINE o == Of(s, part)
<1>1. Len(s) \in Nat /\ \A k \in 1 .. Len(s) : <<s[k], part>> \in Marked
  BY LenProperties DEF Marked
<1>2. o \in Seq(Marked) /\ Len(o) = Len(s) /\ \A k \in 1 .. Len(s) : o[k] = <<s[k], part>>
  BY <1>1 DEF Of
<1> HIDE DEF o
<1>3. Codes(o) \in Seq(Byte) /\ Len(Codes(o)) = Len(s) /\ \A k \in 1 .. Len(s) : Codes(o)[k] = s[k]
  BY <1>1, <1>2 DEF Codes
<1> QED
  BY <1>2, <1>3 DEF o

LEMMA CodesOfSeparator ==
  ASSUME NEW c \in {Question, Ampersand, Equals}
  PROVE  Separator(c) \in Seq(Marked) /\ Codes(Separator(c)) = <<c>> /\ <<c>> \in Seq(Byte)
<1>1. <<c, "separator">> \in Marked /\ c \in Byte
  BY CodesAre DEF Marked
<1>2. /\ Separator(c) \in Seq(Marked) /\ Len(Separator(c)) = 1
      /\ Separator(c)[1] = <<c, "separator">>
  BY <1>1 DEF Separator
<1>3. Codes(Separator(c)) \in Seq(Byte) /\ Len(Codes(Separator(c))) = 1 /\ Codes(Separator(c))[1] = c
  BY <1>1, <1>2 DEF Codes
<1> QED
  BY <1>1, <1>2, <1>3
-----------------------------------------------------------------------------
(* The items of a query. *)

ItemCodes(c, item) == <<c>> \o item[1] \o <<Equals>> \o item[2]
Leading(n) == IF n = 1 THEN Question ELSE Ampersand

LEMMA ItemIs ==
  ASSUME NEW item \in Item, NEW c \in {Question, Ampersand}
  PROVE  LET name == item[1]
             value == item[2]
             f == ItemCodes(c, item)
         IN  /\ name \in Seq(WordChars) /\ name \in Seq(Byte)
             /\ value \in Seq(Byte) /\ \A k \in 1 .. Len(value) : value[k] # Ampersand
             /\ f \in Seq(Byte) /\ Len(f) = Len(name) + Len(value) + 2 /\ 1 \in 1 .. Len(f)
             /\ f[1] = c /\ f[Len(name) + 2] = Equals
             /\ \A k \in 1 .. Len(name) : f[k + 1] = name[k]
             /\ \A k \in 1 .. Len(value) : f[Len(name) + 2 + k] = value[k]
<1> DEFINE name == item[1]
           value == item[2]
<1>1. WordChars \subseteq Byte /\ c \in Byte /\ Equals \in Byte
  BY CodesAre DEF WordChars, Digits, Uppercase, Lowercase
<1>2. /\ name \in Seq(WordChars) /\ value \in Seq(Byte \ {Ampersand})
      /\ item = <<name, value>>
  BY DEF Item
<1> HIDE DEF name, value
<1>3. name \in Seq(Byte) /\ value \in Seq(Byte) /\ \A k \in 1 .. Len(value) : value[k] # Ampersand
  BY <1>1, <1>2
<1> DEFINE x == <<c>> \o name
           y == x \o <<Equals>>
           f == y \o value
<1>4. /\ x \in Seq(Byte) /\ Len(x) = Len(name) + 1 /\ x[1] = c
      /\ \A k \in 1 .. Len(name) : x[k + 1] = name[k]
  BY <1>1, <1>3
<1> HIDE DEF x
<1>5. y \in Seq(Byte) /\ Len(y) = Len(name) + 2
  BY <1>1, <1>3, <1>4
<1>6. /\ y[1] = c /\ y[Len(name) + 2] = Equals
      /\ \A k \in 1 .. Len(name) : y[k + 1] = name[k]
  BY <1>1, <1>3, <1>4
<1>7. Len(name) \in Nat /\ Len(value) \in Nat
  BY <1>3, LenProperties
<1> HIDE DEF y
<1>8. /\ f \in Seq(Byte) /\ Len(f) = Len(y) + Len(value)
      /\ \A k \in 1 .. Len(y) : f[k] = y[k]
      /\ \A k \in 1 .. Len(value) : f[Len(y) + k] = value[k]
  BY <1>3, <1>5
<1> HIDE DEF f
<1>9. f[1] = c /\ f[Len(name) + 2] = Equals
  BY <1>5, <1>6, <1>7, <1>8
<1>10. ASSUME NEW k \in 1 .. Len(name) PROVE f[k + 1] = name[k]
  <2>1. k + 1 \in 1 .. Len(y)
    BY <1>5, <1>7
  <2> QED
    BY <1>6, <1>8, <2>1
<1>11. Len(f) = Len(name) + Len(value) + 2 /\ 1 \in 1 .. Len(f)
  BY <1>5, <1>7, <1>8
<1>12. ItemCodes(c, item) = f
  BY DEF ItemCodes, f, y, x, name, value
<1> QED
  BY <1>2, <1>3, <1>5, <1>8, <1>9, <1>10, <1>11, <1>12 DEF name, value

\* One item more in the text of a query.
LEMMA ItemTextIs ==
  ASSUME NEW item \in Item, NEW c \in {Question, Ampersand}
  PROVE  ItemText(c, item) \in Seq(Marked) /\ Codes(ItemText(c, item)) = ItemCodes(c, item)
<1> DEFINE name == item[1]
           value == item[2]
           t1 == Separator(c)
           t2 == Of(name, "name")
           t3 == Separator(Equals)
           t4 == Of(value, "value")
<1>1. name \in Seq(Byte) /\ value \in Seq(Byte)
  BY ItemIs
<1>2. ItemText(c, item) = t1 \o t2 \o t3 \o t4
  BY DEF ItemText
<1> HIDE DEF name, value
<1>3. t1 \in Seq(Marked) /\ Codes(t1) = <<c>>
  BY CodesOfSeparator
<1>4. t3 \in Seq(Marked) /\ Codes(t3) = <<Equals>>
  BY CodesOfSeparator
<1>5. t2 \in Seq(Marked) /\ Codes(t2) = name /\ t4 \in Seq(Marked) /\ Codes(t4) = value
  BY <1>1, CodesOf
<1> HIDE DEF t1, t2, t3, t4
<1>6. t1 \o t2 \in Seq(Marked) /\ Codes(t1 \o t2) = <<c>> \o name
  BY <1>3, <1>5, CodesJoined
<1>7. t1 \o t2 \o t3 \in Seq(Marked) /\ Codes(t1 \o t2 \o t3) = <<c>> \o name \o <<Equals>>
  BY <1>4, <1>6, CodesJoined
<1>8. /\ t1 \o t2 \o t3 \o t4 \in Seq(Marked)
      /\ Codes(t1 \o t2 \o t3 \o t4) = <<c>> \o name \o <<Equals>> \o value
  BY <1>5, <1>7, CodesJoined
<1> QED
  BY <1>2, <1>8 DEF ItemCodes, name, value
LEMMA NextTextOperation == Operation(NextText, Seq(Marked), Item)
<1>1. ASSUME NEW T \in Seq(Marked), NEW item \in Item, NEW c \in {Question, Ampersand}
      PROVE  T \o ItemText(c, item) \in Seq(Marked)
  BY ItemTextIs, CodesJoined
<1>2. ASSUME NEW p \in Seq(Marked) \X Item
      PROVE  p[1] \o ItemText(IF p[1] = <<>> THEN Question ELSE Ampersand, p[2]) \in Seq(Marked)
  BY <1>1
<1> QED
  BY <1>2 DEF Operation, NextText

\* The pieces are the characters of items, in their order.
AreItems(pieces, items) ==
  Len(pieces) = Len(items) /\ \A n \in 1 .. Len(items) : pieces[n] = ItemCodes(Leading(n), items[n])

\* The characters of a query are those of its items.
IsQuery(text, items) ==
  /\ text \in Seq(Marked) /\ (text = <<>> <=> items = <<>>)
  /\ \E pieces, cut : IsCut(Codes(text), pieces, cut) /\ AreItems(pieces, items)

LEMMA QueryGrows ==
  ASSUME NEW T \in Seq(Marked), NEW items \in Seq(Item), IsQuery(T, items), NEW item \in Item
  PROVE  IsQuery(NextText[<<T, item>>], Append(items, item))
<1> DEFINE c == IF T = <<>> THEN Question ELSE Ampersand
           more == ItemText(c, item)
           f == ItemCodes(c, item)
           N == Len(items)
           all == Append(items, item)
<1>1. c \in {Question, Ampersand} /\ c = Leading(N + 1)
  <2>1. T = <<>> <=> N = 0
    BY EmptySeq DEF IsQuery
  <2>2. N \in Nat
    BY LenProperties
  <2> QED
    BY <2>1, <2>2 DEF Leading
<1>2. NextText[<<T, item>>] = T \o more
  BY DEF NextText
<1> HIDE DEF c
<1>3. more \in Seq(Marked) /\ Codes(more) = f
  BY <1>1, ItemTextIs
<1>4. f \in Seq(Byte) /\ 1 \in 1 .. Len(f)
  BY <1>1, ItemIs
<1> HIDE DEF more, f
<1>5. T \o more \in Seq(Marked) /\ Codes(T \o more) = Codes(T) \o f
  BY <1>3, CodesJoined
<1>6. T \o more # <<>>
  <2>1. Len(more) > 0
    <3>1. 1 \in 1 .. Len(more) /\ Len(more) \in Nat
      BY <1>3, <1>4, CodesAreBytes, LenProperties
    <3> QED
      BY <3>1
  <2>2. Len(T \o more) = Len(T) + Len(more) /\ Len(T) \in Nat /\ Len(more) \in Nat
    BY <1>3, LenProperties, ConcatProperties
  <2> QED
    BY <2>1, <2>2
<1>7. PICK pieces, cut : IsCut(Codes(T), pieces, cut) /\ AreItems(pieces, items)
  BY DEF IsQuery
<1>8. PICK longer : IsCut(Codes(T) \o f, Append(pieces, f), longer)
  BY <1>4, <1>7, CutGrows
<1>9. AreItems(Append(pieces, f), all) /\ all # <<>>
  <2> DEFINE p == Append(pieces, f)
  <2>1. pieces \in Seq(Seq(Byte)) /\ Len(pieces) = N
    BY <1>7 DEF IsCut, AreItems
  <2>2. Len(p) = N + 1 /\ p[N + 1] = f /\ \A n \in 1 .. N : p[n] = pieces[n]
    <3>1. f \in Seq(Byte)
      BY <1>4
    <3>2. Len(p) = Len(pieces) + 1 /\ p[Len(pieces) + 1] = f /\ \A n \in 1 .. Len(pieces) : p[n] = pieces[n]
      BY <2>1, <3>1, AppendProperties
    <3> HIDE DEF p, N
    <3> QED
      BY <2>1, <3>2
  <2>3. Len(all) = N + 1 /\ all[N + 1] = item /\ \A n \in 1 .. N : all[n] = items[n]
    OBVIOUS
  <2>4. N \in Nat /\ \A n \in 1 .. N : pieces[n] = ItemCodes(Leading(n), items[n])
    BY <1>7, LenProperties DEF AreItems
  <2> HIDE DEF p, all, N
  <2>5. ASSUME NEW n \in 1 .. N + 1 PROVE p[n] = ItemCodes(Leading(n), all[n])
    BY <1>1, <2>2, <2>3, <2>4 DEF f
  <2>6. AreItems(p, all)
    BY <2>2, <2>3, <2>5 DEF AreItems
  <2>7. all # <<>>
    BY <2>3, <2>4
  <2> QED
    BY <2>6, <2>7 DEF p
<1> HIDE DEF all
<1>10. IsQuery(T \o more, all)
  BY <1>5, <1>6, <1>8, <1>9 DEF IsQuery
<1> QED
  BY <1>2, <1>10 DEF all

LEMMA QueryTextIs ==
  ASSUME NEW items \in Seq(Item)
  PROVE  IsQuery(QueryText(items), items)
<1> DEFINE A == Seq(Marked)
           base == <<>>
           P == {s \in Seq(Item) : IsQuery(QueryText(s), s)}
<1>1. base \in A /\ Operation(NextText, A, Item)
  BY EmptySeq, NextTextOperation
<1>2. \A s : QueryText(s) = Accumulated(NextText, base, s)
  BY DEF QueryText
<1>3. <<>> \in P
  <2>1. QueryText(<<>>) = <<>>
    <3> HIDE DEF A, base
    <3>1. QueryText(<<>>) = base
      BY <1>1, <1>2, AccumulatedEmpty
    <3> QED
      BY <3>1 DEF base
  <2>2. Codes(<<>>) = <<>>
    BY DEF Codes
  <2>3. AreItems(<<>>, <<>>)
    BY DEF AreItems
  <2>4. IsQuery(<<>>, <<>>)
    BY <2>2, <2>3, CutOfNothing, EmptySeq DEF IsQuery
  <2> QED
    BY <2>1, <2>4, EmptySeq
<1>4. ASSUME NEW s \in Seq(Item), NEW item \in Item, s \in P PROVE Append(s, item) \in P
  <2>1. QueryText(Append(s, item)) = Applied(NextText, QueryText(s), item)
    <3> HIDE DEF A, base
    <3> QED
      BY <1>1, <1>2, AccumulatedAppend
  <2>2. QueryText(s) \in Seq(Marked) /\ IsQuery(QueryText(s), s)
    BY <1>4 DEF IsQuery
  <2>3. QueryText(Append(s, item)) = NextText[<<QueryText(s), item>>]
    BY <2>1 DEF Applied
  <2>4. IsQuery(QueryText(Append(s, item)), Append(s, item))
    BY <2>2, <2>3, QueryGrows
  <2> QED
    BY <2>4
<1>5. Seq(Item) \subseteq P
  <2> HIDE DEF P
  <2> QED
    BY <1>3, <1>4, SequenceInduction
<1> QED
  BY <1>5
-----------------------------------------------------------------------------
(* The checks of the decoded URI. *)


\* The two parts of a sequence, taken apart again.
LEMMA PartsOfJoined ==
  ASSUME NEW S, NEW a \in Seq(S), NEW b \in Seq(S), NEW s, s = a \o b
  PROVE  SubSeq(s, 1, Len(a)) = a /\ SubSeq(s, Len(a) + 1, Len(s)) = b
<1> DEFINE L == Len(a)
           M == Len(b)
           front == SubSeq(s, 1, L)
           back == SubSeq(s, L + 1, L + M)
<1>1. L \in Nat /\ M \in Nat
  BY LenProperties
<1>2. /\ s \in Seq(S) /\ Len(s) = L + M
      /\ \A k \in 1 .. L : s[k] = a[k]
      /\ \A k \in 1 .. M : s[L + k] = b[k]
  OBVIOUS
<1>3. front \in Seq(S) /\ Len(front) = L /\ \A k \in 1 .. Len(front) : front[k] = s[k]
  <2>1. 1 \in 1 .. Len(s) + 1 /\ L \in 0 .. Len(s)
    BY <1>1, <1>2
  <2> HIDE DEF L
  <2>2. /\ front \in Seq(S) /\ Len(front) = IF 1 <= L THEN L - 1 + 1 ELSE 0
        /\ \A k \in 1 .. Len(front) : front[k] = s[1 + k - 1]
    BY <1>2, <2>1, PartOf
  <2> HIDE DEF front
  <2>3. Len(front) = L
    BY <1>1, <2>2
  <2>4. ASSUME NEW k \in 1 .. Len(front) PROVE front[k] = s[k]
    <3>1. 1 + k - 1 = k
      BY <1>1, <2>3
    <3> QED
      BY <2>2, <3>1
  <2> QED
    BY <2>2, <2>3, <2>4
<1>4. back \in Seq(S) /\ Len(back) = M /\ \A k \in 1 .. Len(back) : back[k] = s[L + k]
  <2>1. L + 1 \in 1 .. Len(s) + 1 /\ L + M \in 0 .. Len(s)
    BY <1>1, <1>2
  <2> DEFINE from == L + 1
             to == L + M
  <2> HIDE DEF L, M, from, to
  <2>2. /\ back \in Seq(S) /\ Len(back) = IF from <= to THEN to - from + 1 ELSE 0
        /\ \A k \in 1 .. Len(back) : back[k] = s[from + k - 1]
    <3>1. back = SubSeq(s, from, to) /\ from \in 1 .. Len(s) + 1 /\ to \in 0 .. Len(s)
      BY <2>1 DEF back, from, to
    <3> HIDE DEF back
    <3> QED
      BY <1>2, <3>1, PartOf, SMTT(40)
  <2> HIDE DEF back
  <2>3. Len(back) = M
    BY <1>1, <2>2 DEF from, to
  <2>4. ASSUME NEW k \in 1 .. Len(back) PROVE back[k] = s[L + k]
    <3>1. from + k - 1 = L + k
      BY <1>1, <2>3 DEF from
    <3> QED
      BY <2>2, <3>1
  <2> QED
    BY <2>2, <2>3, <2>4
<1> HIDE DEF front, back
<1>5. front = a
  <2>1. \A k \in 1 .. L : front[k] = a[k]
    BY <1>2, <1>3
  <2> QED
    BY <1>3, <2>1
<1>6. back = b
  <2>1. back \in Seq(S) /\ Len(back) = Len(b) /\ \A k \in 1 .. Len(back) : back[k] = b[k]
    BY <1>2, <1>4
  <2> QED
    BY <2>1, SeqEqual
<1> QED
  BY <1>2, <1>5, <1>6 DEF front, back

LEMMA TargetIs ==
  ASSUME NEW t \in Targets
  PROVE  /\ t.path \in Seq(Byte) /\ Len(t.path) > 0 /\ t.path[1] = Slash
         /\ \A k \in 1 .. Len(t.path) : t.path[k] # Question
         /\ \A k \in 1 .. Len(t.path) - 1 : ~(t.path[k] = Dot /\ t.path[k + 1] = Dot)
         /\ t.query \in Seq(Item)
         /\ \A n \in 1 .. Len(t.query) : Len(t.query[n][1]) > 0
<1>1. IsTarget(t)
  BY TargetsAssumption
<1>2. t.path \in Seq(Byte \ {Question})
  BY <1>1 DEF IsTarget
<1>3. t.path \in Seq(Byte) /\ \A k \in 1 .. Len(t.path) : t.path[k] # Question
  BY <1>2
<1> QED
  BY <1>1, <1>3 DEF IsTarget

\* The text of a target: its path, and what a query makes of the rest.
LEMMA TargetTextIs ==
  ASSUME NEW t \in Targets
  PROVE  LET text == TargetText(t)
             behind == QueryText(t.query)
         IN  /\ text \in Seq(Marked) /\ behind \in Seq(Marked)
             /\ Codes(behind) \in Seq(Byte)
             /\ Codes(text) = t.path \o Codes(behind)
             /\ Len(Codes(behind)) > 0 => Codes(behind)[1] = Question
<1> DEFINE path == Of(t.path, "path")
           behind == QueryText(t.query)
           codes == Codes(behind)
<1>1. t.path \in Seq(Byte) /\ t.query \in Seq(Item)
  BY TargetIs
<1>2. IsQuery(behind, t.query)
  BY <1>1, QueryTextIs
<1>3. path \in Seq(Marked) /\ Codes(path) = t.path
  BY <1>1, CodesOf
<1> HIDE DEF path, behind
<1>4. behind \in Seq(Marked)
  BY <1>2 DEF IsQuery
<1>5. path \o behind \in Seq(Marked) /\ Codes(path \o behind) = t.path \o codes /\ codes \in Seq(Byte)
  BY <1>3, <1>4, CodesJoined, CodesAreBytes, ZenonT(60)
<1>6. ASSUME Len(codes) > 0 PROVE codes[1] = Question
  <2>1. PICK pieces, cut : IsCut(codes, pieces, cut) /\ AreItems(pieces, t.query)
    BY <1>2 DEF IsQuery
  <2> HIDE DEF codes
  <2>2. /\ cut[0] = 0 /\ cut[Len(pieces)] = Len(codes) /\ Len(pieces) = Len(t.query)
        /\ \A n \in 1 .. Len(pieces) : At(codes, cut[n - 1], pieces[n])
    BY <2>1 DEF IsCut, AreItems
  <2>3. Len(t.query) \in Nat
    BY <1>1, LenProperties
  <2>4. 1 \in 1 .. Len(t.query)
    BY <1>6, <2>2, <2>3
  <2>5. At(codes, 0, pieces[1]) /\ pieces[1] = ItemCodes(Question, t.query[1])
    <3>1. 1 - 1 = 0
      OBVIOUS
    <3>2. pieces[1] = ItemCodes(Leading(1), t.query[1])
      BY <2>1, <2>4 DEF AreItems
    <3> QED
      BY <2>2, <2>4, <3>1, <3>2 DEF Leading
  <2> DEFINE item == t.query[1]
             f == pieces[1]
  <2>6. item \in Item
    BY <1>1, <2>4
  <2> HIDE DEF item
  <2>7. f[1] = Question
    <3>1. f = ItemCodes(Question, item)
      BY <2>5 DEF item
    <3> HIDE DEF f
    <3> QED
      BY <2>6, <3>1, ItemIs
  <2>8. 1 \in 1 .. Len(f)
    <3>1. f = ItemCodes(Question, item)
      BY <2>5 DEF item
    <3> HIDE DEF f
    <3> QED
      BY <2>6, <3>1, ItemIs
  <2> HIDE DEF f
  <2>9. codes[0 + 1] = f[1]
    BY <2>5, <2>8 DEF At, f
  <2> QED
    BY <2>7, <2>9
<1> QED
  BY <1>4, <1>5, <1>6 DEF TargetText, path, behind

\* The checks accept the decoded URI of a target, and split it at the end of its path.
LEMMA TargetPasses ==
  ASSUME NEW t \in Targets, NEW codes \in Seq(Byte), Len(codes) > 0 => codes[1] = Question,
         NEW s, s = t.path \o codes
  PROVE  /\ ~ClimbsUp(s) /\ ~Bad(s)
         /\ \A n \in 0 .. Len(s) : PathEnd(s, n) =>
              SubSeq(s, 1, n) = t.path /\ SubSeq(s, n + 1, Len(s)) = codes
<1> DEFINE path == t.path
           L == Len(path)
<1>1. /\ path \in Seq(Byte) /\ L > 0 /\ path[1] = Slash
      /\ \A k \in 1 .. L : path[k] # Question
      /\ \A k \in 1 .. L - 1 : ~(path[k] = Dot /\ path[k + 1] = Dot)
  BY TargetIs
<1> HIDE DEF path
<1>2. /\ s \in Seq(Byte) /\ Len(s) = L + Len(codes) /\ L \in Nat /\ Len(codes) \in Nat
      /\ \A k \in 1 .. L : s[k] = path[k]
      /\ \A k \in 1 .. Len(codes) : s[L + k] = codes[k]
  <2>1. s = path \o codes
    BY DEF path
  <2> QED
    BY <1>1, <2>1
<1> HIDE DEF L
<1>3. ASSUME Len(s) > L PROVE L + 1 \in 1 .. Len(s) /\ s[L + 1] = Question
  <2>1. 1 \in 1 .. Len(codes) /\ L + 1 \in 1 .. Len(s)
    BY <1>2, <1>3
  <2>2. s[L + 1] = codes[1]
    BY <1>2, <2>1
  <2> QED
    BY <2>1, <2>2
<1>4. ASSUME ClimbsUp(s) PROVE FALSE
  <2>1. PICK d \in 1 .. Len(s) - 1 :
          /\ s[d] = Dot /\ s[d + 1] = Dot
          /\ \A q \in 1 .. Len(s) : s[q] = Question => q > d
    BY <1>4 DEF ClimbsUp
  <2>2. CASE d < L
    <3>1. d \in 1 .. L - 1 /\ d \in 1 .. L /\ d + 1 \in 1 .. L
      BY <1>2, <2>2
    <3> QED
      BY <1>1, <1>2, <2>1, <3>1 DEF L
  <2>3. CASE d = L
    <3>1. Len(s) > L
      BY <1>2, <2>3
    <3>2. s[d + 1] = Question
      BY <1>3, <2>3, <3>1
    <3>3. Dot # Question
      BY DEF Dot, Question
    <3> QED
      BY <2>1, <3>2, <3>3
  <2>4. CASE d > L
    <3>1. L + 1 \in 1 .. Len(s) /\ s[L + 1] = Question /\ ~(L + 1 > d)
      <4>1. Len(s) > L /\ ~(L + 1 > d)
        BY <1>2, <2>4
      <4> QED
        BY <1>3, <4>1
    <3> QED
      BY <2>1, <3>1
  <2> QED
    BY <1>2, <2>2, <2>3, <2>4
<1>5. ~Bad(s)
  <2>1. L > 0 /\ path[1] = Slash
    BY <1>1 DEF L
  <2>2. 1 \in 1 .. L /\ Len(s) # 0
    BY <1>2, <2>1
  <2>3. s[1] = Slash
    BY <1>2, <2>1, <2>2
  <2> QED
    BY <2>2, <2>3 DEF Bad
<1>6. ASSUME NEW n \in 0 .. Len(s), PathEnd(s, n) PROVE n = L
  <2>1. ~(n < L)
    <3> SUFFICES ASSUME n < L PROVE FALSE
      OBVIOUS
    <3>1. n + 1 \in 1 .. L /\ n < Len(s)
      BY <1>2
    <3>2. s[n + 1] = path[n + 1] /\ path[n + 1] # Question
      BY <1>1, <1>2, <3>1 DEF L
    <3> QED
      BY <1>6, <3>1, <3>2 DEF PathEnd
  <2>2. ~(n > L)
    <3> SUFFICES ASSUME n > L PROVE FALSE
      OBVIOUS
    <3>1. Len(s) > L /\ L + 1 \in 1 .. n
      BY <1>2
    <3> QED
      BY <1>3, <1>6, <3>1 DEF PathEnd
  <2> QED
    BY <1>2, <2>1, <2>2
<1>7. SubSeq(s, 1, L) = path /\ SubSeq(s, L + 1, Len(s)) = codes
  <2>1. s = path \o codes
    BY DEF path
  <2> QED
    BY <1>1, <2>1, PartsOfJoined DEF L
<1> QED
  BY <1>4, <1>5, <1>6, <1>7 DEF path
-----------------------------------------------------------------------------
(* The matches of the regular expression. *)

\* What is left of a query begins with an item, whose codes are f.
Begins(r, f) ==
  /\ r \in Seq(Byte) /\ Len(f) <= Len(r) /\ \A k \in 1 .. Len(f) : r[k] = f[k]
  /\ Len(f) < Len(r) => r[Len(f) + 1] = Ampersand

\* The only match in r has its name behind the first character, and is the item.
MatchesAt(r, e1, v1, item) ==
  /\ 2 \in 1 .. Len(r) /\ e1 \in 1 .. Len(r) /\ v1 \in 1 .. Len(r)
  /\ Match(r, 2, e1, v1)
  /\ \A b, e, v \in 1 .. Len(r) : Match(r, b, e, v) => b = 2 /\ e = e1 /\ v = v1
  /\ SubSeq(r, 2, e1 - 1) = item[1] /\ SubSeq(r, e1 + 1, v1) = item[2]

\* The first match is the item at the beginning, and no other.
LEMMA FirstMatch ==
  ASSUME NEW item \in Item, Len(item[1]) > 0, NEW c \in {Question, Ampersand}, NEW r,
         Begins(r, ItemCodes(c, item))
  PROVE  MatchesAt(r, Len(item[1]) + 2, Len(ItemCodes(c, item)), item)
<1> DEFINE name == item[1]
           value == item[2]
           f == ItemCodes(c, item)
           M == Len(name)
           V == Len(value)
           e1 == M + 2
           v1 == Len(f)
<1>1. /\ name \in Seq(WordChars) /\ name \in Seq(Byte) /\ value \in Seq(Byte)
      /\ \A k \in 1 .. V : value[k] # Ampersand
      /\ v1 = M + V + 2 /\ f[1] = c /\ f[M + 2] = Equals
      /\ \A k \in 1 .. M : f[k + 1] = name[k]
      /\ \A k \in 1 .. V : f[M + 2 + k] = value[k]
  BY ItemIs
<1>2. /\ r \in Seq(Byte) /\ v1 <= Len(r) /\ \A k \in 1 .. v1 : r[k] = f[k]
      /\ v1 < Len(r) => r[v1 + 1] = Ampersand
  BY DEF Begins
<1>3. M \in Nat /\ V \in Nat /\ M > 0 /\ Len(r) \in Nat
  <2>1. M > 0
    OBVIOUS
  <2> QED
    BY <1>1, <1>2, <2>1, LenProperties
<1>4. c \notin WordChars /\ Equals \notin WordChars
  BY CodesAre DEF WordChars, Digits, Uppercase, Lowercase
<1>5. \A k \in 1 .. M : name[k] \in WordChars
  BY <1>1
<1> HIDE DEF name, value, f, M, V, e1, v1
<1>6. e1 = M + 2 /\ v1 = M + V + 2 /\ e1 \in 3 .. v1 /\ v1 \in 1 .. Len(r)
  BY <1>1, <1>2, <1>3 DEF e1
<1>7. r[1] = c /\ r[e1] = Equals
  <2>1. 1 \in 1 .. v1 /\ e1 \in 1 .. v1
    BY <1>3, <1>6
  <2> QED
    BY <1>1, <1>2, <1>6, <2>1
<1>8. ASSUME NEW k \in 2 .. e1 - 1 PROVE r[k] = name[k - 1] /\ r[k] \in WordChars
  <2>1. k - 1 \in 1 .. M /\ k \in 1 .. v1 /\ (k - 1) + 1 = k
    BY <1>3, <1>6
  <2> DEFINE x == k - 1
  <2>2. x \in 1 .. M /\ x + 1 = k
    BY <2>1
  <2> HIDE DEF x
  <2>3. r[k] = f[k] /\ f[x + 1] = name[x] /\ name[x] \in WordChars
    BY <1>1, <1>2, <1>5, <2>1, <2>2
  <2> QED
    BY <2>2, <2>3 DEF x
<1>9. ASSUME NEW k \in e1 + 1 .. v1 PROVE r[k] = value[k - e1] /\ r[k] # Ampersand
  <2> DEFINE x == k - e1
  <2>1. x \in 1 .. V /\ k \in 1 .. v1 /\ M + 2 + x = k
    BY <1>3, <1>6
  <2> HIDE DEF x
  <2>2. r[k] = f[k] /\ f[M + 2 + x] = value[x] /\ value[x] # Ampersand
    BY <1>1, <1>2, <2>1
  <2> QED
    BY <2>1, <2>2 DEF x
<1>10. Match(r, 2, e1, v1)
  <2>1. ASSUME NEW g \in 1 .. 2 - 1, NEW u \in 1 .. Len(r), g < u PROVE ~(\A k \in g .. u - 1 : r[k] \in WordChars)
    <3>1. 1 \in g .. u - 1
      BY <1>3, <2>1
    <3>2. r[1] \notin WordChars
      BY <1>4, <1>7
    <3> QED
      BY <3>1, <3>2
  <2> QED
    BY <1>2, <1>6, <1>7, <1>8, <1>9, <2>1 DEF Match
<1>11. ASSUME NEW b \in 1 .. Len(r), NEW e \in 1 .. Len(r), NEW v \in 1 .. Len(r), Match(r, b, e, v)
       PROVE  b = 2 /\ e = e1 /\ v = v1
  <2>1. /\ b < e /\ e <= v /\ r[e] = Equals /\ \A k \in b .. e - 1 : r[k] \in WordChars
        /\ \A g \in 1 .. b - 1, u \in 1 .. Len(r) :
             g < u => ~(r[u] = Equals /\ \A k \in g .. u - 1 : r[k] \in WordChars)
        /\ \A k \in e + 1 .. v : r[k] # Ampersand
        /\ v < Len(r) => r[v + 1] = Ampersand
    BY <1>11 DEF Match
  <2>2. b # 1
    <3> SUFFICES ASSUME b = 1 PROVE FALSE
      OBVIOUS
    <3>1. 1 \in b .. e - 1
      BY <1>3, <2>1
    <3> QED
      BY <1>4, <1>7, <2>1, <3>1
  <2>3. ~(b > 2)
    <3> SUFFICES ASSUME b > 2 PROVE FALSE
      OBVIOUS
    <3>1. 2 \in 1 .. b - 1 /\ e1 \in 1 .. Len(r) /\ 2 < e1
      BY <1>3, <1>6
    <3>2. \A k \in 2 .. e1 - 1 : r[k] \in WordChars
      BY <1>8
    <3> QED
      BY <1>7, <2>1, <3>1, <3>2
  <2>4. b = 2
    BY <1>3, <2>2, <2>3
  <2>5. ~(e < e1)
    <3> SUFFICES ASSUME e < e1 PROVE FALSE
      OBVIOUS
    <3>1. e \in 2 .. e1 - 1
      BY <1>6, <2>1, <2>4
    <3> QED
      BY <1>4, <1>8, <2>1, <3>1
  <2>6. ~(e > e1)
    <3> SUFFICES ASSUME e > e1 PROVE FALSE
      OBVIOUS
    <3>1. e1 \in b .. e - 1
      BY <1>6, <2>4
    <3> QED
      BY <1>4, <1>7, <2>1, <3>1
  <2>7. e = e1
    BY <1>6, <2>5, <2>6
  <2>8. ~(v < v1)
    <3> SUFFICES ASSUME v < v1 PROVE FALSE
      OBVIOUS
    <3>1. v + 1 \in e1 + 1 .. v1 /\ v < Len(r)
      BY <1>2, <1>3, <1>6, <2>1, <2>7
    <3> QED
      BY <1>9, <2>1, <3>1
  <2>9. ~(v > v1)
    <3> SUFFICES ASSUME v > v1 PROVE FALSE
      OBVIOUS
    <3>1. v1 + 1 \in e + 1 .. v /\ v1 < Len(r)
      BY <1>3, <1>6, <2>7
    <3> QED
      BY <1>2, <2>1, <3>1
  <2> QED
    BY <1>3, <1>6, <2>4, <2>7, <2>8, <2>9
<1>12. SubSeq(r, 2, e1 - 1) = name
  <2> DEFINE to == e1 - 1
             s == SubSeq(r, 2, to)
  <2>1. 2 \in 1 .. Len(r) + 1 /\ to \in 0 .. Len(r) /\ to = M + 1
    BY <1>3, <1>6
  <2> HIDE DEF to
  <2>2. /\ s \in Seq(Byte) /\ Len(s) = IF 2 <= to THEN to - 2 + 1 ELSE 0
        /\ \A k \in 1 .. Len(s) : s[k] = r[2 + k - 1]
    BY <1>2, <2>1, PartOf
  <2> HIDE DEF s
  <2>3. Len(s) = M
    BY <1>3, <2>1, <2>2
  <2>4. ASSUME NEW k \in 1 .. Len(s) PROVE s[k] = name[k]
    <3> DEFINE x == k + 1
    <3>1. x \in 2 .. e1 - 1 /\ 2 + k - 1 = x /\ x - 1 = k
      BY <1>3, <1>6, <2>3
    <3> HIDE DEF x
    <3> QED
      BY <1>8, <2>2, <3>1
  <2>5. s = name
    BY <1>1, <2>2, <2>3, <2>4, SeqEqual DEF M
  <2> QED
    BY <2>5 DEF s, to
<1>13. SubSeq(r, e1 + 1, v1) = value
  <2> DEFINE from == e1 + 1
             s == SubSeq(r, from, v1)
  <2>1. from \in 1 .. Len(r) + 1 /\ v1 \in 0 .. Len(r) /\ v1 = from + V - 1
    BY <1>3, <1>6
  <2> HIDE DEF from
  <2>2. /\ s \in Seq(Byte) /\ Len(s) = IF from <= v1 THEN v1 - from + 1 ELSE 0
        /\ \A k \in 1 .. Len(s) : s[k] = r[from + k - 1]
    BY <1>2, <2>1, PartOf
  <2> HIDE DEF s
  <2>3. Len(s) = V
    BY <1>3, <2>1, <2>2
  <2>4. ASSUME NEW k \in 1 .. Len(s) PROVE s[k] = value[k]
    <3> DEFINE x == e1 + k
    <3>1. x \in e1 + 1 .. v1 /\ from + k - 1 = x /\ x - e1 = k
      BY <1>3, <1>6, <2>3 DEF from
    <3> HIDE DEF x
    <3> QED
      BY <1>9, <2>2, <3>1
  <2>5. s = value
    BY <1>1, <2>2, <2>3, <2>4, SeqEqual DEF V
  <2> QED
    BY <2>5 DEF s, from
<1>14. 2 \in 1 .. Len(r) /\ e1 \in 1 .. Len(r) /\ v1 \in 1 .. Len(r)
  BY <1>3, <1>6
<1> QED
  BY <1>10, <1>11, <1>12, <1>13, <1>14, Zenon DEF MatchesAt, name, value, f, M, e1, v1
\* What is left of s behind its first n elements.
Behind(s, n) == SubSeq(s, n + 1, Len(s))

LEMMA BehindIs ==
  ASSUME NEW S, NEW s \in Seq(S), NEW n \in 0 .. Len(s)
  PROVE  /\ Behind(s, n) \in Seq(S) /\ Len(Behind(s, n)) = Len(s) - n
         /\ \A k \in 1 .. Len(s) - n : Behind(s, n)[k] = s[n + k]
<1> DEFINE from == n + 1
           r == SubSeq(s, from, Len(s))
<1>1. Len(s) \in Nat /\ from \in 1 .. Len(s) + 1 /\ Len(s) \in 0 .. Len(s)
  BY LenProperties
<1> HIDE DEF from
<1>2. /\ r \in Seq(S) /\ Len(r) = IF from <= Len(s) THEN Len(s) - from + 1 ELSE 0
      /\ \A k \in 1 .. Len(r) : r[k] = s[from + k - 1]
  BY <1>1, PartOf
<1> HIDE DEF r
<1>3. Len(r) = Len(s) - n
  BY <1>1, <1>2 DEF from
<1>4. ASSUME NEW k \in 1 .. Len(r) PROVE r[k] = s[n + k]
  <2>1. from + k - 1 = n + k
    BY <1>1, <1>3 DEF from
  <2> QED
    BY <1>2, <2>1
<1> QED
  BY <1>2, <1>3, <1>4 DEF Behind, r, from

LEMMA BehindBehind ==
  ASSUME NEW S, NEW s \in Seq(S), NEW n \in 0 .. Len(s), NEW m \in 0 .. Len(s) - n
  PROVE  Behind(Behind(s, n), m) = Behind(s, n + m)
<1> DEFINE a == Behind(s, n)
           x == Behind(a, m)
           y == Behind(s, n + m)
           L == Len(s)
<1>1. L \in Nat /\ n \in Nat /\ m \in Nat /\ n <= L /\ m <= L - n
  BY LenProperties
<1>2. a \in Seq(S) /\ Len(a) = L - n /\ \A k \in 1 .. L - n : a[k] = s[n + k]
  BY BehindIs
<1>3. m \in 0 .. Len(a) /\ n + m \in 0 .. Len(s)
  BY <1>1, <1>2
<1> HIDE DEF a
<1>4. /\ x \in Seq(S) /\ Len(x) = Len(a) - m
      /\ \A k \in 1 .. Len(a) - m : x[k] = a[m + k]
  BY <1>2, <1>3, BehindIs, SMTT(40)
<1>5. /\ y \in Seq(S) /\ Len(y) = Len(s) - (n + m)
      /\ \A k \in 1 .. Len(s) - (n + m) : y[k] = s[n + m + k]
  BY <1>3, BehindIs
<1> HIDE DEF x, y, L
<1>6. Len(x) = Len(y)
  BY <1>1, <1>2, <1>4, <1>5 DEF L
<1>7. ASSUME NEW k \in 1 .. Len(x) PROVE x[k] = y[k]
  <2>1. /\ k \in 1 .. Len(a) - m /\ k \in 1 .. Len(s) - (n + m) /\ m + k \in 1 .. L - n
        /\ n + (m + k) = n + m + k
    BY <1>1, <1>2, <1>4 DEF L
  <2> QED
    BY <1>2, <1>4, <1>5, <2>1
<1>8. x = y
  BY <1>4, <1>5, <1>6, <1>7, SeqEqual
<1> QED
  BY <1>8 DEF x, y, a

\* The codes of a query behind its first n items: nothing, or the next item at the beginning.
LEMMA NextItemBegins ==
  ASSUME NEW items \in Seq(Item), NEW w, NEW pieces, NEW cut,
         IsCut(w, pieces, cut), AreItems(pieces, items), NEW n \in 0 .. Len(items)
  PROVE  /\ cut[n] \in 0 .. Len(w)
         /\ n = Len(items) => Behind(w, cut[n]) = <<>>
         /\ n < Len(items) =>
              /\ Begins(Behind(w, cut[n]), ItemCodes(Leading(n + 1), items[n + 1]))
              /\ Behind(Behind(w, cut[n]), Len(ItemCodes(Leading(n + 1), items[n + 1])))
                   = Behind(w, cut[n + 1])
<1> DEFINE N == Len(items)
           r == Behind(w, cut[n])
           at == cut[n]
           L == Len(w)
<1>1. /\ w \in Seq(Byte) /\ cut \in [0 .. N -> 0 .. L] /\ cut[N] = L /\ Len(pieces) = N
      /\ \A k \in 1 .. N : /\ pieces[k] = ItemCodes(Leading(k), items[k])
                           /\ cut[k] = cut[k - 1] + Len(pieces[k])
                           /\ At(w, cut[k - 1], pieces[k])
  BY DEF IsCut, AreItems
<1>2. N \in Nat /\ L \in Nat /\ \A k \in 0 .. N : cut[k] \in 0 .. L
  BY <1>1, LenProperties
<1>3. at \in 0 .. L
  BY <1>2
<1>4. r \in Seq(Byte) /\ Len(r) = L - at /\ \A k \in 1 .. L - at : r[k] = w[at + k]
  BY <1>1, <1>3, BehindIs, ZenonT(60)
<1>5. ASSUME n = N PROVE r = <<>>
  <2>1. at = L
    BY <1>1, <1>5
  <2> HIDE DEF r
  <2>2. Len(r) = 0
    BY <1>2, <1>4, <2>1
  <2> QED
    BY <1>4, <2>2, EmptySeq
<1>6. ASSUME n < N
      PROVE  LET f == ItemCodes(Leading(n + 1), items[n + 1])
             IN  Begins(r, f) /\ Behind(r, Len(f)) = Behind(w, cut[n + 1])
  <2> DEFINE f == ItemCodes(Leading(n + 1), items[n + 1])
             next == cut[n + 1]
             F == Len(f)
  <2>1. n + 1 \in 1 .. N /\ n + 1 \in 0 .. N /\ (n + 1) - 1 = n
    BY <1>2, <1>6
  <2>2. pieces[n + 1] = f /\ next = at + F /\ At(w, at, f)
    BY <1>1, <2>1
  <2>3. f \in Seq(Byte) /\ F \in Nat
    <3>1. items[n + 1] \in Item /\ Leading(n + 1) \in {Question, Ampersand}
      BY <2>1 DEF Leading
    <3>2. f \in Seq(Byte)
      BY <3>1, ItemIs
    <3> QED
      BY <3>2, LenProperties
  <2>4. next \in 0 .. L
    BY <1>2, <2>1
  <2> HIDE DEF f, next, F, at, r, L, N
  <2>5. F <= L - at
    BY <1>2, <1>3, <2>2, <2>3, <2>4
  <2>6. \A k \in 1 .. F : r[k] = f[k]
    <3> SUFFICES ASSUME NEW k \in 1 .. F PROVE r[k] = f[k]
      OBVIOUS
    <3>1. k \in 1 .. L - at /\ k \in 1 .. Len(f)
      BY <1>2, <1>3, <2>3, <2>5 DEF F
    <3>2. w[at + k] = f[k]
      BY <2>2, <3>1 DEF At
    <3> QED
      BY <1>4, <3>1, <3>2
  <2>7. ASSUME F < Len(r) PROVE r[F + 1] = Ampersand
    <3> DEFINE g == ItemCodes(Leading(n + 2), items[n + 2])
    <3>1. next < L
      BY <1>2, <1>3, <1>4, <2>2, <2>3, <2>7
    <3>2. n + 1 # N
      BY <1>1, <3>1 DEF next
    <3>3. n + 2 \in 1 .. N /\ (n + 2) - 1 = n + 1
      BY <1>2, <2>1, <3>2
    <3>4. pieces[n + 2] = g /\ At(w, next, g)
      BY <1>1, <3>3 DEF next
    <3>5. items[n + 2] \in Item /\ Leading(n + 2) = Ampersand
      <4>1. n + 2 # 1
        BY <2>1
      <4> QED
        BY <3>3, <4>1 DEF Leading, N
    <3>6. 1 \in 1 .. Len(g) /\ g[1] = Ampersand
      BY <3>5, ItemIs
    <3> HIDE DEF g
    <3>7. w[next + 1] = Ampersand
      BY <3>4, <3>6 DEF At
    <3>8. F + 1 \in 1 .. L - at /\ at + (F + 1) = next + 1
      BY <1>2, <1>3, <1>4, <2>2, <2>3, <2>7
    <3> QED
      BY <1>4, <3>7, <3>8
  <2>8. Begins(r, f)
    BY <1>4, <2>5, <2>6, <2>7 DEF Begins, F
  <2>9. Behind(r, F) = Behind(w, at + F)
    <3>1. at \in 0 .. Len(w) /\ F \in 0 .. Len(w) - at
      BY <1>2, <1>3, <2>3, <2>5 DEF L
    <3> QED
      BY <1>1, <3>1, BehindBehind DEF r, at
  <2> QED
    BY <2>2, <2>8, <2>9 DEF f, F, next
<1> QED
  BY <1>3, <1>5, <1>6 DEF N, r, at, L
-----------------------------------------------------------------------------
(* What parse() makes of a URI that a client wrote. *)

\* What is read of a target's query is its first items, and the rest is left.
QueriedSo(t) ==
  LET w == Codes(QueryText(t.query))
  IN  /\ uri = t.path /\ Len(query) <= Len(t.query)
      /\ \A n \in 1 .. Len(query) : query[n] = t.query[n]
      /\ \E pieces, cut :
           /\ IsCut(w, pieces, cut) /\ AreItems(pieces, t.query)
           /\ rest = Behind(w, cut[Len(query)])

ReadSo(t) ==
  /\ parsing = "decode" => DecodedSo(TargetText(t))
  /\ parsing \in {"query", "accepted"} => QueriedSo(t)
  /\ parsing = "accepted" => Len(query) = Len(t.query)
  /\ parsing # "rejected"

\* The invariant of the proof: a URI that is a way to write a target is read as that target.
TargetsRead == \A t \in Targets : received \in WrittenTarget(t) => ReadSo(t)

LEMMA InitTargetsRead == Init => TargetsRead
<1> SUFFICES ASSUME Init, NEW t \in Targets, received \in WrittenTarget(t) PROVE ReadSo(t)
  BY DEF TargetsRead
<1> DEFINE text == TargetText(t)
<1>1. text \in Seq(Marked) /\ received \in WrittenAll(text)
  BY TargetTextIs DEF WrittenTarget
<1> HIDE DEF text
<1>2. PICK pieces, cut : IsCut(received, pieces, cut) /\ AreForms(pieces, text)
  BY <1>1, CutsExist
<1>3. i = 1 /\ out = <<>> /\ parsing = "decode"
  BY DEF Init, URIInit
<1>4. Len(text) \in Nat
  BY <1>1, LenProperties
<1>5. i = cut[Len(out)] + 1 /\ Len(out) <= Len(text) /\ \A k \in 1 .. Len(out) : out[k] = text[k][1]
  <2>1. Len(out) = 0
    BY <1>3
  <2>2. cut[0] = 0
    BY <1>2 DEF IsCut
  <2> QED
    BY <1>3, <1>4, <2>1, <2>2
<1>6. DecodedSo(text)
  BY <1>2, <1>5 DEF DecodedSo
<1> QED
  BY <1>3, <1>6 DEF ReadSo, text

\* The decoded URI passes the checks, and is split where the path ends.
LEMMA CheckedSo ==
  ASSUME URITypeOK, ConfinedPath, NEW t \in Targets, ReadSo(t), CheckDecoded
  PROVE  ReadSo(t)'
<1> DEFINE text == TargetText(t)
           w == Codes(QueryText(t.query))
<1>1. /\ text \in Seq(Marked) /\ w \in Seq(Byte) /\ Codes(text) = t.path \o w
      /\ Len(w) > 0 => w[1] = Question
  BY TargetTextIs
<1>2. parsing = "decode" /\ i > Len(received) /\ DecodedSo(text) /\ query = <<>>
  BY DEF CheckDecoded, ReadSo, ConfinedPath
<1> HIDE DEF text, w
<1>3. out = t.path \o w
  BY <1>1, <1>2, TextDecoded
<1>4. /\ ~ClimbsUp(out) /\ ~Bad(out)
      /\ \A n \in 0 .. Len(out) : PathEnd(out, n) =>
           SubSeq(out, 1, n) = t.path /\ SubSeq(out, n + 1, Len(out)) = w
  BY <1>1, <1>3, TargetPasses, ZenonT(60)
<1>5. uri' = t.path /\ rest' = w /\ parsing' = "query" /\ query' = <<>>
  BY <1>2, <1>4 DEF CheckDecoded
<1>6. t.query \in Seq(Item)
  BY TargetIs
<1>7. PICK pieces, cut : IsCut(w, pieces, cut) /\ AreItems(pieces, t.query)
  BY <1>6, QueryTextIs DEF IsQuery, w
<1>8. Behind(w, cut[0]) = w
  <2> DEFINE a == Behind(w, 0)
  <2>1. cut[0] = 0 /\ 0 \in 0 .. Len(w) /\ Len(w) \in Nat
    BY <1>1, <1>7, LenProperties DEF IsCut
  <2>2. a \in Seq(Byte) /\ Len(a) = Len(w) - 0 /\ \A k \in 1 .. Len(w) - 0 : a[k] = w[0 + k]
    BY <1>1, <2>1, BehindIs
  <2> HIDE DEF a
  <2>3. Len(a) = Len(w) /\ \A k \in 1 .. Len(a) : a[k] = w[k]
    BY <2>1, <2>2
  <2>4. a = w
    BY <1>1, <2>2, <2>3, SeqEqual
  <2> QED
    BY <2>1, <2>4 DEF a
<1>9. Len(query') = 0 /\ Len(t.query) \in Nat
  BY <1>5, <1>6, LenProperties
<1>10. QueriedSo(t)'
  BY <1>5, <1>7, <1>8, <1>9 DEF QueriedSo, w
<1> QED
  BY <1>5, <1>10 DEF ReadSo

\* The next match is the next item, and after the last there is none.
LEMMA MatchedSo ==
  ASSUME URITypeOK, NEW t \in Targets, ReadSo(t), AddItem \/ Accept
  PROVE  ReadSo(t)'
<1> DEFINE w == Codes(QueryText(t.query))
           n == Len(query)
           N == Len(t.query)
<1>1. parsing = "query" /\ QueriedSo(t)
  BY DEF AddItem, Accept, ReadSo
<1>2. PICK pieces, cut :
        /\ IsCut(w, pieces, cut) /\ AreItems(pieces, t.query)
        /\ rest = Behind(w, cut[n])
  BY <1>1 DEF QueriedSo
<1>3. uri = t.path /\ n <= N /\ \A k \in 1 .. n : query[k] = t.query[k]
  BY <1>1 DEF QueriedSo
<1>4. /\ t.query \in Seq(Item) /\ query \in Seq(Seq(Byte) \X Seq(Byte))
      /\ \A k \in 1 .. N : Len(t.query[k][1]) > 0
  BY TargetIs DEF URITypeOK
<1>5. n \in Nat /\ N \in Nat /\ n \in 0 .. N
  BY <1>3, <1>4, LenProperties
<1> HIDE DEF w, n, N
<1>6. CASE n = N
  <2>1. rest = <<>>
    BY <1>2, <1>4, <1>5, <1>6, NextItemBegins DEF N
  <2>2. Len(rest) = 0
    BY <2>1
  <2>3. ~AddItem
    BY <2>2 DEF AddItem
  <2>4. Accept
    BY <2>3
  <2>5. parsing' = "accepted" /\ UNCHANGED <<uri, query, rest>>
    BY <2>4 DEF Accept
  <2>6. QueriedSo(t)'
    BY <1>1, <2>5 DEF QueriedSo
  <2> QED
    BY <1>6, <2>5, <2>6 DEF ReadSo, n, N
<1>7. CASE n < N
  <2> DEFINE item == t.query[n + 1]
             c == Leading(n + 1)
             e1 == Len(item[1]) + 2
             v1 == Len(ItemCodes(c, item))
  <2>1. n + 1 \in 1 .. N
    BY <1>5, <1>7
  <2>2. item \in Item /\ Len(item[1]) > 0 /\ c \in {Question, Ampersand}
    BY <1>4, <2>1 DEF N, Leading
  <2>3. Begins(rest, ItemCodes(c, item)) /\ Behind(rest, v1) = Behind(w, cut[n + 1])
    BY <1>2, <1>4, <1>5, <1>7, NextItemBegins DEF N
  <2> HIDE DEF item, c, e1, v1
  <2>4. /\ 2 \in 1 .. Len(rest) /\ e1 \in 1 .. Len(rest) /\ v1 \in 1 .. Len(rest)
        /\ Match(rest, 2, e1, v1)
        /\ \A b, e, v \in 1 .. Len(rest) : Match(rest, b, e, v) => b = 2 /\ e = e1 /\ v = v1
        /\ SubSeq(rest, 2, e1 - 1) = item[1] /\ SubSeq(rest, e1 + 1, v1) = item[2]
    <3>1. MatchesAt(rest, e1, v1, item)
      BY <2>2, <2>3, FirstMatch DEF e1, v1
    <3> QED
      BY <3>1, Zenon DEF MatchesAt
  <2>5. ~Accept
    BY <2>4 DEF Accept
  <2>6. AddItem
    BY <2>5
  <2>7. PICK b \in 1 .. Len(rest), e \in 1 .. Len(rest), v \in 1 .. Len(rest) :
          /\ Match(rest, b, e, v)
          /\ query' = Append(query, <<SubSeq(rest, b, e - 1), SubSeq(rest, e + 1, v)>>)
          /\ rest' = SubSeq(rest, v + 1, Len(rest))
    BY <2>6 DEF AddItem
  <2>8. UNCHANGED <<uri, parsing>>
    BY <2>6 DEF AddItem
  <2>9. b = 2 /\ e = e1 /\ v = v1
    BY <2>4, <2>7
  <2>10. query' = Append(query, item)
    <3>1. <<item[1], item[2]>> = item
      BY <2>2 DEF Item
    <3> QED
      BY <2>4, <2>7, <2>9, <3>1
  <2>11. rest' = Behind(w, cut[n + 1])
    BY <2>3, <2>7, <2>9 DEF Behind
  <2>12. Len(query') = n + 1 /\ query'[n + 1] = item /\ \A k \in 1 .. n : query'[k] = query[k]
    <3>1. query \in Seq(Seq(Byte) \X Seq(Byte)) /\ item \in Seq(Byte) \X Seq(Byte)
      <4>1. item[1] \in Seq(Byte) /\ item[2] \in Seq(Byte)
        BY <2>2, ItemIs
      <4> QED
        BY <1>4, <2>2, <4>1 DEF Item
    <3> QED
      BY <2>10, <3>1, AppendProperties DEF n
  <2>13. ASSUME NEW k \in 1 .. n + 1 PROVE query'[k] = t.query[k]
    BY <1>3, <1>5, <2>12 DEF item
  <2>14. n + 1 <= Len(t.query)
    BY <1>5, <1>7 DEF N
  <2>15. QueriedSo(t)'
    BY <1>2, <1>3, <2>8, <2>11, <2>12, <2>13, <2>14 DEF QueriedSo, w
  <2> QED
    BY <1>1, <2>8, <2>15 DEF ReadSo
<1> QED
  BY <1>5, <1>6, <1>7

LEMMA StepTargetsRead == IInv /\ TargetsRead /\ [Next]_vars => TargetsRead'
<1> SUFFICES ASSUME IInv, TargetsRead, [Next]_vars, NEW t \in Targets, received' \in WrittenTarget(t)
             PROVE  ReadSo(t)'
  BY DEF TargetsRead
<1>1. URITypeOK /\ ConfinedPath
  BY DEF IInv, TypeOK
<1>2. received' = received
  BY DEF Next, vars, uriVars, ParseURI, parse, ProcessRequest, AddCORSHeaders, BuildBuffer, Ended,
         DecodeEscape, DecodeCharacter, CheckDecoded, AddItem, Accept, Reject, Append1
<1>3. ReadSo(t)
  BY <1>2 DEF TargetsRead
<1>4. CASE UNCHANGED uriVars
  BY <1>3, <1>4 DEF uriVars, ReadSo, DecodedSo, QueriedSo
<1>5. CASE DecodeEscape \/ DecodeCharacter
  <2>1. TargetText(t) \in Seq(Marked) /\ DecodedSo(TargetText(t))
    BY <1>3, <1>5, TargetTextIs DEF ReadSo, DecodeEscape, DecodeCharacter
  <2>2. DecodedSo(TargetText(t))' /\ parsing' = "decode"
    BY <1>1, <1>5, <2>1, CharacterRead
  <2> QED
    BY <2>2 DEF ReadSo
<1>6. CASE CheckDecoded
  BY <1>1, <1>3, <1>6, CheckedSo
<1>7. CASE AddItem \/ Accept
  BY <1>1, <1>3, <1>7, MatchedSo
<1> QED
  BY <1>4, <1>5, <1>6, <1>7 DEF Next, vars, ParseURI, parse, ProcessRequest, AddCORSHeaders,
     BuildBuffer, Ended

LEMMA TargetsReadBack == IInv /\ TargetsRead => TargetReadBack
<1> SUFFICES ASSUME IInv, TargetsRead, parsing \in {"accepted", "rejected"},
                    NEW p \in WrittenAs, received \in p[2]
             PROVE  parsing = "accepted" /\ uri = p[1].path /\ query = p[1].query
  BY DEF TargetReadBack
<1>1. PICK t \in Targets : p = <<t, WrittenTarget(t)>>
  BY DEF WrittenAs
<1>2. p[1] = t /\ p[2] = WrittenTarget(t)
  BY <1>1
<1>3. ReadSo(t)
  BY <1>2 DEF TargetsRead
<1>4. parsing = "accepted" /\ QueriedSo(t) /\ Len(query) = Len(t.query)
  BY <1>3 DEF ReadSo
<1>5. uri = t.path /\ \A n \in 1 .. Len(query) : query[n] = t.query[n]
  BY <1>4 DEF QueriedSo
<1>6. query = t.query
  <2> DEFINE items == t.query
  <2>1. query \in Seq(Seq(Byte) \X Seq(Byte)) /\ items \in Seq(Item)
    BY TargetIs DEF IInv, TypeOK, URITypeOK
  <2> HIDE DEF items
  <2>2. items \in Seq(Seq(Byte) \X Seq(Byte))
    <3>1. ASSUME NEW item \in Item PROVE item \in Seq(Byte) \X Seq(Byte)
      <4>1. item[1] \in Seq(Byte) /\ item[2] \in Seq(Byte)
        BY ItemIs
      <4> QED
        BY <4>1 DEF Item
    <3>2. Item \subseteq Seq(Byte) \X Seq(Byte)
      BY <3>1
    <3> QED
      BY <2>1, <3>2, SeqMonotonic
  <2>3. Len(query) = Len(items) /\ \A n \in 1 .. Len(query) : query[n] = items[n]
    BY <1>4, <1>5 DEF items
  <2>4. query = items
    BY <2>1, <2>2, <2>3, SeqEqual
  <2> QED
    BY <2>4 DEF items
<1> QED
  BY <1>2, <1>4, <1>5, <1>6

\* For all targets, in whatever way their characters are escaped: the URI is accepted, and its
\* path and its items are read back.
THEOREM TargetsAreReadBack == Spec => []TargetReadBack
<1>1. Spec => []TargetsRead
  BY InitTargetsRead, StepTargetsRead, Invariance, PTL DEF Spec
<1> QED
  BY <1>1, Invariance, TargetsReadBack, PTL
-----------------------------------------------------------------------------
(* The items of a query, of whatever URI. *)

\* The codes that the regular expression tells apart.
LEMMA SignsAreNoWordChars ==
  Equals \notin WordChars /\ Ampersand \notin WordChars /\ Equals # Ampersand
BY DEF Equals, Ampersand, WordChars, Digits, Uppercase, Lowercase, Plus, Percent

\* A part of what is behind p is a part of the whole.
LEMMA PartBehind ==
  ASSUME NEW s \in Seq(Byte), NEW p \in 0 .. Len(s),
         NEW m \in 1 .. Len(s) - p + 1, NEW n \in 0 .. Len(s) - p, m <= n + 1
  PROVE  SubSeq(Behind(s, p), m, n) = SubSeq(s, p + m, p + n)
<1> DEFINE r == Behind(s, p)
           x == SubSeq(r, m, n)
           from == p + m
           to == p + n
           y == SubSeq(s, from, to)
<1>1. Len(s) \in Nat /\ p \in Nat /\ m \in Nat /\ n \in Nat
  BY LenProperties
<1>2. r \in Seq(Byte) /\ Len(r) = Len(s) - p /\ \A k \in 1 .. Len(s) - p : r[k] = s[p + k]
  BY BehindIs
<1>3. from \in 1 .. Len(s) + 1 /\ to \in 0 .. Len(s) /\ m \in 1 .. Len(r) + 1 /\ n \in 0 .. Len(r)
  BY <1>1, <1>2
<1> HIDE DEF r
<1>4. /\ x \in Seq(Byte) /\ Len(x) = IF m <= n THEN n - m + 1 ELSE 0
      /\ \A k \in 1 .. Len(x) : x[k] = r[m + k - 1]
  BY <1>2, <1>3, PartOf
<1> HIDE DEF x
<1>5. /\ SubSeq(s, from, to) \in Seq(Byte)
      /\ Len(SubSeq(s, from, to)) = IF from <= to THEN to - from + 1 ELSE 0
      /\ \A k \in 1 .. Len(SubSeq(s, from, to)) : SubSeq(s, from, to)[k] = s[from + k - 1]
  <2> HIDE DEF from, to
  <2> QED
    BY <1>3, PartOf
<1>6. y \in Seq(Byte) /\ Len(y) = Len(x) /\ \A k \in 1 .. Len(y) : y[k] = s[from + k - 1]
  <2>1. (IF from <= to THEN to - from + 1 ELSE 0) = (IF m <= n THEN n - m + 1 ELSE 0)
    BY <1>1
  <2> HIDE DEF from, to
  <2> QED
    BY <1>4, <1>5, <2>1
<1> HIDE DEF y
<1>7. ASSUME NEW k \in 1 .. Len(x) PROVE x[k] = y[k]
  <2>1. k \in 1 .. n - m + 1
    BY <1>1, <1>4
  <2>2. m + k - 1 \in 1 .. Len(s) - p /\ p + (m + k - 1) = from + k - 1
    BY <1>1, <1>3, <2>1
  <2>3. r[m + k - 1] = s[p + (m + k - 1)]
    BY <1>2, <2>2
  <2> QED
    BY <1>4, <1>6, <2>2, <2>3
<1>8. x = y
  BY <1>4, <1>6, <1>7, SeqEqual
<1> QED
  BY <1>8 DEF x, y, r, from, to

\* The search of q has come to p: to its beginning, to its end, or to the end of a field.
FieldBegins(q, p) == 0 < p /\ p < Len(q) => q[p + 1] = Ampersand

\* A sign that ends a name behind p does so in what is left there, too.
LEMMA NameEndBehind ==
  ASSUME NEW q \in Seq(Byte), NEW p \in 0 .. Len(q), FieldBegins(q, p),
         NEW f \in NameEnds(q), f > p
  PROVE  /\ f - p \in 2 .. Len(q) - p
         /\ Behind(q, p)[f - p] = Equals /\ Behind(q, p)[f - p - 1] \in WordChars
<1>1. Len(q) \in Nat /\ p \in Nat /\ f \in 2 .. Len(q) /\ q[f] = Equals /\ q[f - 1] \in WordChars
  BY DEF NameEnds
<1>2. f # p + 1
  <2>1. CASE p = 0
    BY <1>1, <2>1
  <2>2. CASE p > 0
    BY <1>1, <2>2, SignsAreNoWordChars DEF FieldBegins
  <2> QED
    BY <1>1, <2>1, <2>2
<1>3. f - p \in 2 .. Len(q) - p /\ f - p - 1 \in 1 .. Len(q) - p
      /\ p + (f - p) = f /\ p + (f - p - 1) = f - 1
  BY <1>1, <1>2
<1>4. Behind(q, p)[f - p] = q[f] /\ Behind(q, p)[f - p - 1] = q[f - 1]
  <2> DEFINE r == Behind(q, p)
             m == f - p
             n == f - p - 1
  <2>1. \A k \in 1 .. Len(q) - p : r[k] = q[p + k]
    BY BehindIs
  <2>2. m \in 1 .. Len(q) - p /\ n \in 1 .. Len(q) - p /\ p + m = f /\ p + n = f - 1
    BY <1>1, <1>3
  <2> HIDE DEF r, m, n
  <2>3. r[m] = q[f] /\ r[n] = q[f - 1]
    BY <2>1, <2>2
  <2> QED
    BY <2>3 DEF r, m, n
<1> QED
  BY <1>1, <1>3, <1>4

\* What the next match finds is the next item of the whole query.
LEMMA MatchIsItem ==
  ASSUME NEW q \in Seq(Byte), NEW p \in 0 .. Len(q), FieldBegins(q, p),
         NEW b \in 1 .. Len(q) - p, NEW e \in 1 .. Len(q) - p, NEW v \in 1 .. Len(q) - p,
         Match(Behind(q, p), b, e, v)
  PROVE  LET r == Behind(q, p)
         IN  /\ p + e \in ItemSigns(q)
             /\ FieldBegins(q, p + v)
             /\ \A x \in ItemSigns(q) : x <= p + v <=> x <= p \/ x = p + e
             /\ IsItem(q, p + e, <<SubSeq(r, b, e - 1), SubSeq(r, e + 1, v)>>)
<1> DEFINE r == Behind(q, p)
           L == Len(q)
<1>1. /\ L \in Nat /\ p \in 0 .. L
      /\ b \in 1 .. L - p /\ e \in 1 .. L - p /\ v \in 1 .. L - p
  BY LenProperties
<1>2. r \in Seq(Byte) /\ Len(r) = L - p /\ \A k \in 1 .. L - p : r[k] = q[p + k]
  BY BehindIs
<1>3. /\ b < e /\ e <= v /\ r[e] = Equals /\ \A k \in b .. e - 1 : r[k] \in WordChars
      /\ \A f \in 1 .. b - 1, t \in 1 .. Len(r) :
           f < t => ~(r[t] = Equals /\ \A k \in f .. t - 1 : r[k] \in WordChars)
      /\ \A k \in e + 1 .. v : r[k] # Ampersand
      /\ v < Len(r) => r[v + 1] = Ampersand
  BY DEF Match
<1>4. \A f \in NameEnds(q) : f > p => /\ f - p \in 2 .. L - p
                                      /\ r[f - p] = Equals /\ r[f - p - 1] \in WordChars
  BY NameEndBehind
<1> HIDE DEF r, L
<1>5. p + e \in NameEnds(q)
  <2>1. e - 1 \in b .. e - 1 /\ e - 1 \in 1 .. L - p /\ p + (e - 1) = p + e - 1
        /\ p + e \in 2 .. L
    BY <1>1, <1>3
  <2> QED
    <3>1. r[e] = q[p + e] /\ r[e - 1] = q[p + (e - 1)] /\ r[e - 1] \in WordChars
      BY <1>1, <1>2, <1>3, <2>1
    <3> QED
      BY <1>3, <2>1, <3>1 DEF NameEnds, L
<1>6. ASSUME NEW f \in NameEnds(q), f > p, f < p + e PROVE FALSE
  <2>1. f \in Nat
    BY DEF NameEnds
  <2> DEFINE t == f - p
  <2>2. t \in 2 .. L - p /\ r[t] = Equals /\ r[t - 1] \in WordChars /\ t < e
    BY <1>1, <1>4, <1>6, <2>1
  <2> HIDE DEF t
  <2>3. CASE t > b
    BY <1>3, <2>2, <2>3, SignsAreNoWordChars
  <2>4. CASE t <= b
    <3>1. t - 1 \in 1 .. b - 1 /\ t \in 1 .. Len(r) /\ t - 1 < t
      BY <1>2, <2>2, <2>4
    <3>2. \A k \in t - 1 .. t - 1 : r[k] \in WordChars
      BY <2>2
    <3> QED
      BY <1>3, <2>2, <3>1, <3>2
  <2> QED
    BY <2>2, <2>3, <2>4
<1>7. p + e \in ItemSigns(q)
  <2> SUFFICES ASSUME NEW f \in NameEnds(q), f < p + e
               PROVE  \E k \in f + 1 .. p + e - 1 : q[k] = Ampersand
    BY <1>5 DEF ItemSigns
  <2>1. f \in 2 .. L /\ f <= p
    BY <1>1, <1>6 DEF NameEnds, L
  <2>2. 0 < p /\ p < L /\ p + 1 \in f + 1 .. p + e - 1
    BY <1>1, <1>3, <2>1
  <2> QED
    BY <2>2 DEF FieldBegins, L
<1>8. FieldBegins(q, p + v)
  <2> SUFFICES ASSUME p + v < L PROVE q[p + v + 1] = Ampersand
    BY DEF FieldBegins, L
  <2>1. v + 1 \in 1 .. L - p /\ v < L - p /\ p + (v + 1) = p + v + 1
    BY <1>1
  <2> QED
    BY <1>2, <1>3, <2>1
<1>9. ASSUME NEW x \in ItemSigns(q) PROVE x <= p + v <=> x <= p \/ x = p + e
  <2>1. x \in NameEnds(q) /\ x \in Nat
    BY DEF ItemSigns, NameEnds
  <2>2. ASSUME x > p + e, x <= p + v PROVE FALSE
    <3>1. PICK k \in p + e + 1 .. x - 1 : q[k] = Ampersand
      BY <1>5, <2>2 DEF ItemSigns
    <3>2. k - p \in e + 1 .. v /\ k - p \in 1 .. L - p /\ p + (k - p) = k
      BY <1>1, <2>1, <2>2, <3>1
    <3> QED
      BY <1>2, <1>3, <3>1, <3>2
  <2> QED
    BY <1>1, <1>3, <1>6, <2>1, <2>2
<1>10. IsItem(q, p + e, <<SubSeq(r, b, e - 1), SubSeq(r, e + 1, v)>>)
  <2> DEFINE B == p + b
             E == p + e
             V == p + v
  <2>1. B \in 1 .. E - 1 /\ V \in E .. L /\ B - 1 = p + b - 1
    BY <1>1, <1>3
  <2>2. SubSeq(r, b, e - 1) = SubSeq(q, B, E - 1) /\ SubSeq(r, e + 1, v) = SubSeq(q, E + 1, V)
    <3>1. /\ b \in 1 .. Len(q) - p + 1 /\ e - 1 \in 0 .. Len(q) - p /\ b <= e - 1 + 1
          /\ e + 1 \in 1 .. Len(q) - p + 1 /\ v \in 0 .. Len(q) - p /\ e + 1 <= v + 1
          /\ p + (e - 1) = E - 1 /\ p + (e + 1) = E + 1
      BY <1>1, <1>3 DEF L
    <3>2. SubSeq(r, b, e - 1) = SubSeq(q, p + b, p + (e - 1))
      BY <3>1, PartBehind DEF r
    <3>3. SubSeq(r, e + 1, v) = SubSeq(q, p + (e + 1), p + v)
      BY <3>1, PartBehind DEF r
    <3> QED
      BY <3>1, <3>2, <3>3
  <2>3. ASSUME NEW k \in B .. E - 1 PROVE q[k] \in WordChars
    <3>1. k - p \in b .. e - 1 /\ k - p \in 1 .. L - p /\ p + (k - p) = k
      BY <1>1, <2>3
    <3> QED
      BY <1>2, <1>3, <3>1
  <2>4. ASSUME B > 1 PROVE q[B - 1] \notin WordChars
    <3>1. CASE b > 1
      <4> SUFFICES ASSUME q[B - 1] \in WordChars PROVE FALSE
        OBVIOUS
      <4>1. b - 1 \in 1 .. L - p /\ p + (b - 1) = B - 1
        BY <1>1, <1>3, <3>1
      <4>2. r[b - 1] \in WordChars
        BY <1>2, <4>1
      <4>3. \A k \in b - 1 .. e - 1 : r[k] \in WordChars
        BY <1>3, <4>2
      <4>4. b - 1 \in 1 .. b - 1 /\ e \in 1 .. Len(r) /\ b - 1 < e
        BY <1>1, <1>2, <1>3, <3>1
      <4> QED
        BY <1>3, <4>3, <4>4
    <3>2. CASE b = 1
      <4>1. p > 0 /\ p < L /\ p + b = p + 1 /\ b \in b .. e - 1 /\ b \in 1 .. L - p
        BY <1>1, <1>3, <2>4, <3>2
      <4>2. q[p + b] \in WordChars
        BY <1>2, <1>3, <4>1
      <4> QED
        BY <4>1, <4>2, SignsAreNoWordChars DEF FieldBegins, L
    <3> QED
      BY <3>1, <3>2
  <2>5. ASSUME NEW k \in E + 1 .. V PROVE q[k] # Ampersand
    <3>1. k - p \in e + 1 .. v /\ k - p \in 1 .. L - p /\ p + (k - p) = k
      BY <1>1, <2>5
    <3> QED
      BY <1>2, <1>3, <3>1
  <2>6. V < L => q[V + 1] = Ampersand
    BY <1>1, <1>3, <1>8 DEF FieldBegins, L
  <2> HIDE DEF B, E, V
  <2>7. IsItem(q, E, <<SubSeq(q, B, E - 1), SubSeq(q, E + 1, V)>>)
    BY <2>1, <2>3, <2>4, <2>5, <2>6 DEF IsItem, L
  <2> QED
    BY <2>2, <2>7 DEF E
<1> QED
  BY <1>7, <1>8, <1>9, <1>10 DEF r

\* When the search finds nothing more, the query holds no item behind p.
LEMMA NoneLeft ==
  ASSUME NEW q \in Seq(Byte), NEW p \in 0 .. Len(q), FieldBegins(q, p),
         ~\E b, e, v \in 1 .. Len(Behind(q, p)) : Match(Behind(q, p), b, e, v)
  PROVE  \A x \in ItemSigns(q) : x <= p
<1> DEFINE r == Behind(q, p)
           M == Len(r)
<1> SUFFICES ASSUME NEW x \in ItemSigns(q), x > p PROVE \E b, e, v \in 1 .. M : Match(r, b, e, v)
  BY DEF ItemSigns, NameEnds
<1>1. M \in Nat /\ M = Len(q) - p
  BY BehindIs
<1>2. x - p \in 2 .. M /\ r[x - p] = Equals /\ r[x - p - 1] \in WordChars
  <2>1. x \in NameEnds(q)
    BY DEF ItemSigns
  <2> HIDE DEF r, M
  <2>2. x - p \in 2 .. Len(q) - p /\ r[x - p] = Equals /\ r[x - p - 1] \in WordChars
    BY <2>1, NameEndBehind DEF r
  <2> QED
    BY <1>1, <2>2
<1> HIDE DEF r
<1> HIDE DEF M
<1> DEFINE named(f, t) == r[t] = Equals /\ \A k \in f .. t - 1 : r[k] \in WordChars
           Begin == {f \in 1 .. M : \E t \in 1 .. M : f < t /\ named(f, t)}
<1>3. x - p - 1 \in Begin
  <2> DEFINE t == x - p
  <2>1. t \in 2 .. M /\ r[t] = Equals /\ r[t - 1] \in WordChars
    BY <1>2
  <2> HIDE DEF t
  <2>2. t - 1 \in 1 .. M /\ t \in 1 .. M /\ t - 1 < t /\ \A k \in t - 1 .. t - 1 : k = t - 1
    BY <1>1, <2>1
  <2>3. t - 1 \in Begin
    BY <2>1, <2>2
  <2> QED
    BY <2>3 DEF t
<1>4. PICK b \in Begin : \A f \in Begin : b <= f
  <2>1. Begin \subseteq Nat /\ Begin # {}
    BY <1>1, <1>3
  <2> HIDE DEF Begin
  <2> QED
    BY <2>1, LeastElement
<1>5. PICK e \in 1 .. M : b < e /\ named(b, e)
  BY <1>4
<1>6. b \in 1 .. M /\ \A f \in 1 .. b - 1, t \in 1 .. M : f < t => ~named(f, t)
  <2>1. b \in 1 .. M
    BY <1>4
  <2>2. ASSUME NEW f \in 1 .. b - 1, NEW t \in 1 .. M, f < t, named(f, t) PROVE FALSE
    <3>1. f \in Begin
      BY <1>1, <2>1, <2>2
    <3> QED
      BY <1>4, <2>1, <2>2, <3>1
  <2> QED
    BY <2>1, <2>2
<1> HIDE DEF Begin
<1> DEFINE End == {v \in e .. M : v = M \/ r[v + 1] = Ampersand}
<1>7. PICK v \in End : \A k \in End : v <= k
  <2>1. End \subseteq Nat /\ M \in End
    BY <1>1, <1>5
  <2> HIDE DEF End
  <2> QED
    BY <2>1, LeastElement
<1>8. v \in e .. M /\ (v < M => r[v + 1] = Ampersand)
  BY <1>1, <1>5, <1>7
<1>9. ASSUME NEW k \in e + 1 .. v, r[k] = Ampersand PROVE FALSE
  <2>1. k - 1 \in e .. M /\ k - 1 < v /\ (k - 1) + 1 = k
    BY <1>1, <1>5, <1>8
  <2>2. k - 1 \in End
    BY <1>9, <2>1
  <2> QED
    BY <1>5, <1>7, <1>8, <2>1, <2>2
<1>10. Match(r, b, e, v)
  BY <1>1, <1>5, <1>6, <1>8, <1>9 DEF Match, M
<1>11. v \in 1 .. M
  BY <1>1, <1>5, <1>8
<1> QED
  BY <1>5, <1>6, <1>10, <1>11

\* That the items are those of q whose signs are not behind p, at the places "at".
Placed(q, p, items, at) ==
  /\ at \in [1 .. Len(items) -> 1 .. Len(q)]
  /\ \A m, n \in 1 .. Len(items) : m < n => at[m] < at[n]
  /\ {at[n] : n \in 1 .. Len(items)} = {x \in ItemSigns(q) : x <= p}
  /\ \A n \in 1 .. Len(items) : IsItem(q, at[n], items[n])

\* One item more has its place behind the others.
LEMMA PlacedOn ==
  ASSUME NEW q \in Seq(Byte), NEW p \in 0 .. Len(q), NEW v \in 0 .. Len(q), NEW S,
         NEW items \in Seq(S), NEW item \in S, NEW at, Placed(q, p, items, at),
         NEW y \in ItemSigns(q), y > p, IsItem(q, y, item),
         \A x \in ItemSigns(q) : x <= v <=> x <= p \/ x = y
  PROVE  \E on : Placed(q, v, Append(items, item), on)
<1> DEFINE N == Len(items)
           new == Append(items, item)
           on == [n \in 1 .. N + 1 |-> IF n <= N THEN at[n] ELSE y]
<1>1. /\ N \in Nat /\ Len(new) = N + 1 /\ new[N + 1] = item
      /\ \A n \in 1 .. N : new[n] = items[n]
  OBVIOUS
<1>2. /\ at \in [1 .. N -> 1 .. Len(q)]
      /\ \A m, n \in 1 .. N : m < n => at[m] < at[n]
      /\ {at[n] : n \in 1 .. N} = {x \in ItemSigns(q) : x <= p}
      /\ \A n \in 1 .. N : IsItem(q, at[n], items[n])
  BY DEF Placed
<1> HIDE DEF new, N
<1>3. y \in 1 .. Len(q) /\ Len(q) \in Nat
  BY DEF ItemSigns, NameEnds
<1>4. on \in [1 .. N + 1 -> 1 .. Len(q)]
  BY <1>1, <1>2, <1>3
<1>5. on[N + 1] = y /\ \A n \in 1 .. N : on[n] = at[n]
  BY <1>1
<1>6. \A n \in 1 .. N + 1 : n \in 1 .. N \/ n = N + 1
  BY <1>1
<1>7. N + 1 \in 1 .. N + 1 /\ \A n \in 1 .. N : n \in 1 .. N + 1
  BY <1>1
<1> HIDE DEF on
<1>8. \A n \in 1 .. N : at[n] \in ItemSigns(q) /\ at[n] <= p /\ at[n] \in Nat
  BY <1>2
<1>9. ASSUME NEW m \in 1 .. N + 1, NEW n \in 1 .. N + 1, m < n PROVE on[m] < on[n]
  <2>1. m \in 1 .. N
    BY <1>1, <1>9
  <2>2. CASE n \in 1 .. N
    BY <1>2, <1>5, <1>9, <2>1, <2>2
  <2>3. CASE n = N + 1
    <3>1. on[m] = at[m] /\ on[n] = y /\ at[m] <= p /\ at[m] \in Nat
      BY <1>5, <1>8, <2>1, <2>3
    <3> QED
      BY <1>3, <3>1
  <2> QED
    BY <1>6, <2>2, <2>3
<1>10. {on[n] : n \in 1 .. N + 1} = {x \in ItemSigns(q) : x <= v}
  <2>1. ASSUME NEW n \in 1 .. N + 1 PROVE on[n] \in ItemSigns(q) /\ on[n] <= v
    BY <1>5, <1>6, <1>8
  <2>2. ASSUME NEW x \in ItemSigns(q), x <= v PROVE \E n \in 1 .. N + 1 : x = on[n]
    <3>1. CASE x = y
      BY <1>5, <1>7, <3>1
    <3>2. CASE x # y
      <4>1. x \in {at[n] : n \in 1 .. N}
        BY <1>2, <2>2, <3>2
      <4> QED
        BY <1>5, <1>7, <4>1
    <3> QED
      BY <3>1, <3>2
  <2> QED
    BY <2>1, <2>2
<1>11. \A n \in 1 .. N + 1 : IsItem(q, on[n], new[n])
  BY <1>1, <1>2, <1>5, <1>6
<1>12. Placed(q, v, new, on)
  BY <1>1, <1>4, <1>9, <1>10, <1>11 DEF Placed
<1> QED
  BY <1>12 DEF new

\* The items that the loop has found, and what it has left of the query.
SearchedTo(p) ==
  /\ rest = Behind(DecodedQuery, p) /\ FieldBegins(DecodedQuery, p)
  /\ \E at : Placed(DecodedQuery, p, query, at)

\* The invariant of the search.
Searched ==
  /\ parsing = "query" =>
       /\ DecodedQuery \in Seq(Byte)
       /\ \E p \in 0 .. Len(DecodedQuery) : SearchedTo(p)
  /\ ItemsOfFields

LEMMA InitSearched == Init => Searched
  BY DEF Init, URIInit, Searched, ItemsOfFields

\* The search begins with the whole of the query, and no item.
LEMMA SearchBegins ==
  ASSUME IInv, CheckDecoded PROVE Searched'
<1>1. CASE parsing' # "query"
  <2>1. parsing' = "rejected"
    BY <1>1 DEF CheckDecoded, Reject
  <2> QED
    BY <2>1 DEF Searched, ItemsOfFields
<1>2. CASE parsing' = "query"
  <2>1. PICK n \in 0 .. Len(out) : /\ uri' = SubSeq(out, 1, n)
                                   /\ rest' = SubSeq(out, n + 1, Len(out))
                                   /\ UNCHANGED <<out, query>>
    BY <1>2 DEF CheckDecoded, Reject
  <2>2. query' = <<>> /\ out \in Seq(Byte) /\ Len(out) \in Nat /\ query \in Seq(Seq(Byte) \X Seq(Byte))
    BY <2>1 DEF CheckDecoded, IInv, TypeOK, URITypeOK, ConfinedPath
  <2>3. Len(uri') = n
    <3>1. 1 \in 1 .. Len(out) + 1 /\ n \in 0 .. Len(out)
      BY <2>2
    <3>2. Len(SubSeq(out, 1, n)) = IF 1 <= n THEN n - 1 + 1 ELSE 0
      BY <2>2, <3>1, PartOf
    <3> QED
      BY <2>1, <2>2, <3>2
  <2>4. DecodedQuery' = rest' /\ rest' \in Seq(Byte)
    <3>1. n + 1 \in 1 .. Len(out) + 1 /\ Len(out) \in 0 .. Len(out)
      BY <2>2
    <3>2. SubSeq(out, n + 1, Len(out)) \in Seq(Byte)
      BY <2>2, <3>1, PartOf
    <3> QED
      BY <2>1, <2>3, <3>2 DEF DecodedQuery
  <2> DEFINE q == DecodedQuery'
  <2>5. q \in Seq(Byte) /\ Len(q) \in Nat /\ 0 \in 0 .. Len(q)
    BY <2>4, LenProperties
  <2>6. Behind(q, 0) = q
    <3> HIDE DEF q
    <3>1. /\ Behind(q, 0) \in Seq(Byte) /\ Len(Behind(q, 0)) = Len(q) - 0
          /\ \A k \in 1 .. Len(q) - 0 : Behind(q, 0)[k] = q[0 + k]
      BY <2>5, BehindIs
    <3>2. Len(Behind(q, 0)) = Len(q) /\ \A k \in 1 .. Len(q) : Behind(q, 0)[k] = q[k]
      BY <2>5, <3>1
    <3> QED
      BY <2>5, <3>1, <3>2, SeqEqual
  <2>7. FieldBegins(q, 0)
    BY DEF FieldBegins
  <2>8. Placed(q, 0, query', [m \in 1 .. 0 |-> 0])
    <3> DEFINE at == [m \in 1 .. 0 |-> 0]
               items == query'
    <3> HIDE DEF q
    <3>1. Len(items) = 0 /\ 1 .. 0 = {} /\ at \in [1 .. 0 -> 1 .. Len(q)]
      BY <2>2
    <3>2. \A x \in ItemSigns(q) : ~(x <= 0)
      BY <2>5 DEF ItemSigns, NameEnds
    <3> HIDE DEF at, items
    <3>3. Placed(q, 0, items, at)
      BY <3>1, <3>2 DEF Placed
    <3> QED
      BY <3>3 DEF at, items
  <2>9. SearchedTo(0)'
    BY <2>4, <2>6, <2>7, <2>8 DEF SearchedTo
  <2> QED
    BY <1>2, <2>5, <2>9 DEF Searched, ItemsOfFields
<1> QED
  BY <1>1, <1>2

\* A match adds the next item, and leaves what is behind it.
LEMMA SearchGoesOn ==
  ASSUME IInv, Searched, AddItem PROVE Searched'
<1> DEFINE q == DecodedQuery
<1>1. /\ parsing = "query" /\ UNCHANGED <<out, uri, parsing>>
      /\ q \in Seq(Byte) /\ Len(q) \in Nat /\ query \in Seq(Seq(Byte) \X Seq(Byte))
  BY LenProperties DEF AddItem, Searched, IInv, TypeOK, URITypeOK
<1>2. DecodedQuery' = q
  BY <1>1 DEF DecodedQuery
<1>3. PICK p \in 0 .. Len(q) : SearchedTo(p)
  BY <1>1 DEF Searched
<1> HIDE DEF q
<1>4. rest = Behind(q, p) /\ FieldBegins(q, p) /\ \E at : Placed(q, p, query, at)
  BY <1>3 DEF SearchedTo, q
<1>5. Len(rest) = Len(q) - p /\ rest \in Seq(Byte)
  BY <1>1, <1>4, BehindIs
<1>6. PICK b \in 1 .. Len(q) - p, e \in 1 .. Len(q) - p, v \in 1 .. Len(q) - p :
        /\ Match(rest, b, e, v)
        /\ query' = Append(query, <<SubSeq(rest, b, e - 1), SubSeq(rest, e + 1, v)>>)
        /\ rest' = SubSeq(rest, v + 1, Len(rest))
  BY <1>5 DEF AddItem
<1> DEFINE item == <<SubSeq(rest, b, e - 1), SubSeq(rest, e + 1, v)>>
<1>7. /\ p + e \in ItemSigns(q) /\ FieldBegins(q, p + v)
      /\ \A x \in ItemSigns(q) : x <= p + v <=> x <= p \/ x = p + e
      /\ IsItem(q, p + e, item)
  BY <1>1, <1>4, <1>6, MatchIsItem
<1>8. item \in Seq(Byte) \X Seq(Byte)
  <2>1. /\ b \in 1 .. Len(rest) + 1 /\ e - 1 \in 0 .. Len(rest)
        /\ e + 1 \in 1 .. Len(rest) + 1 /\ v \in 0 .. Len(rest)
    BY <1>1, <1>5
  <2>2. SubSeq(rest, b, e - 1) \in Seq(Byte) /\ SubSeq(rest, e + 1, v) \in Seq(Byte)
    BY <1>5, <2>1, PartOf
  <2> QED
    BY <2>2
<1> HIDE DEF item
<1>9. p + v \in 0 .. Len(q) /\ p + e > p
  BY <1>1
<1>10. \E at : Placed(q, p + v, query', at)
  <2>1. PICK at : Placed(q, p, query, at)
    BY <1>4
  <2>2. query' = Append(query, item)
    BY <1>6 DEF item
  <2> DEFINE y == p + e
             to == p + v
  <2>3. y \in ItemSigns(q) /\ y > p /\ IsItem(q, y, item) /\ to \in 0 .. Len(q)
        /\ \A x \in ItemSigns(q) : x <= to <=> x <= p \/ x = y
    BY <1>7, <1>9
  <2> HIDE DEF y, to
  <2>4. \E on : Placed(q, to, Append(query, item), on)
    BY <1>1, <1>8, <2>1, <2>3, PlacedOn
  <2> QED
    BY <2>2, <2>4 DEF to
<1>11. rest' = Behind(q, p + v)
  <2>1. v \in 0 .. Len(q) - p
    BY <1>1
  <2>2. Behind(Behind(q, p), v) = Behind(q, p + v)
    BY <1>1, <2>1, BehindBehind
  <2> QED
    BY <1>4, <1>6, <2>2 DEF Behind
<1>12. SearchedTo(p + v)'
  BY <1>2, <1>7, <1>10, <1>11 DEF SearchedTo
<1> QED
  BY <1>1, <1>2, <1>9, <1>12 DEF Searched, ItemsOfFields

\* When no match is left, the items are those of all fields.
LEMMA SearchEnds ==
  ASSUME IInv, Searched, Accept PROVE Searched'
<1> DEFINE q == DecodedQuery
<1>1. parsing = "query" /\ parsing' = "accepted" /\ UNCHANGED <<out, uri, query>>
      /\ q \in Seq(Byte) /\ ~\E b, e, v \in 1 .. Len(rest) : Match(rest, b, e, v)
  BY DEF Accept, Searched
<1>2. DecodedQuery' = q
  BY <1>1 DEF DecodedQuery
<1>3. PICK p \in 0 .. Len(q) : SearchedTo(p)
  BY <1>1 DEF Searched
<1> HIDE DEF q
<1>4. rest = Behind(q, p) /\ FieldBegins(q, p) /\ \E at : Placed(q, p, query, at)
  BY <1>3 DEF SearchedTo, q
<1>5. PICK at : Placed(q, p, query, at)
  BY <1>4
<1>6. {x \in ItemSigns(q) : x <= p} = ItemSigns(q)
  BY <1>1, <1>4, NoneLeft
<1>7. /\ at \in [1 .. Len(query) -> 1 .. Len(q)]
      /\ \A m, n \in 1 .. Len(query) : m < n => at[m] < at[n]
      /\ {at[n] : n \in 1 .. Len(query)} = ItemSigns(q)
      /\ \A n \in 1 .. Len(query) : IsItem(q, at[n], query[n])
  BY <1>5, <1>6 DEF Placed
<1>8. ItemsOfFields'
  BY <1>1, <1>2, <1>7 DEF ItemsOfFields
<1> QED
  BY <1>1, <1>8 DEF Searched

LEMMA StepSearched == IInv /\ Searched /\ [Next]_vars => Searched'
<1> SUFFICES ASSUME IInv, Searched, [Next]_vars PROVE Searched'
  OBVIOUS
<1>1. CASE UNCHANGED uriVars
  BY <1>1 DEF uriVars, Searched, SearchedTo, ItemsOfFields, DecodedQuery
<1>2. CASE DecodeEscape \/ DecodeCharacter
  <2>1. parsing' \in {"decode", "rejected"}
    BY <1>2 DEF DecodeEscape, DecodeCharacter, Append1, Reject
  <2> QED
    BY <2>1 DEF Searched, ItemsOfFields
<1>3. UNCHANGED uriVars \/ parse
  BY DEF Next, ParseURI, ProcessRequest, AddCORSHeaders, BuildBuffer, Ended, vars
<1> QED
  BY <1>1, <1>2, <1>3, SearchBegins, SearchGoesOn, SearchEnds DEF parse

\* Whatever a request has as URI: the items of an accepted one are those of the fields of its
\* decoded query, in their order and none left out.
THEOREM ItemsAreThoseOfFields == Spec => []ItemsOfFields
<1>1. Searched => ItemsOfFields
  BY DEF Searched
<1> QED
  BY <1>1, InitSearched, StepSearched, Invariance, PTL DEF Spec
===============================================================================

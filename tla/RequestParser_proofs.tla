------------------------- MODULE RequestParser_proofs -------------------------
(***************************************************************************)
(* What is proved about RequestParser.                                     *)
(***************************************************************************)
EXTENDS RequestParser, Accumulation_proofs

-----------------------------------------------------------------------------
(* The recursive functions that the model is written with. *)

\* A version number, after no digit and after one more.
LEMMA NumberTyped ==
  ASSUME NEW ds \in Seq(Digits) PROVE Number(ds) \in Nat
<1>1. Operation(NextNumeral, Nat, Digits)
  BY DEF Operation, NextNumeral, Numeral
<1> QED
  BY <1>1, AccumulatedType DEF Number

LEMMA NumberEmpty == Number(<<>>) = 0
<1>1. Operation(NextNumeral, Nat, Digits)
  BY DEF Operation, NextNumeral, Numeral
<1> QED
  BY <1>1, AccumulatedEmpty DEF Number

LEMMA NumberAppend ==
  ASSUME NEW ds \in Seq(Digits), NEW d \in Digits
  PROVE  Number(Append(ds, d)) = 10 * Number(ds) + Numeral(d)
<1>1. Operation(NextNumeral, Nat, Digits)
  BY DEF Operation, NextNumeral, Numeral
<1>2. Number(Append(ds, d)) = NextNumeral[<<Number(ds), d>>]
  BY <1>1, AccumulatedAppend DEF Number, Applied
<1> QED
  BY <1>2, NumberTyped DEF NextNumeral

\* The lines of the headers, after no header and after one more.
LEMMA HeaderLineTyped ==
  ASSUME NEW h \in Header PROVE HeaderLine(h) \in Seq(Bytes)
  BY DEF Header, HeaderLine, CRLF, Bytes, Controls, Tspecials

LEMMA LinesOperation == Operation(NextLine, Seq(Bytes), Header)
  BY HeaderLineTyped DEF Operation, NextLine

LEMMA HeaderLinesTyped ==
  ASSUME NEW headers \in Seq(Header) PROVE HeaderLines(headers) \in Seq(Bytes)
<1>1. <<>> \in Seq(Bytes)
  BY EmptySeq
<1> QED
  BY <1>1, LinesOperation, AccumulatedType DEF HeaderLines

LEMMA HeaderLinesEmpty == HeaderLines(<<>>) = <<>>
<1>1. <<>> \in Seq(Bytes)
  BY EmptySeq
<1> QED
  BY <1>1, LinesOperation, AccumulatedEmpty DEF HeaderLines

LEMMA HeaderLinesAppend ==
  ASSUME NEW headers \in Seq(Header), NEW h \in Header
  PROVE  HeaderLines(Append(headers, h)) = HeaderLines(headers) \o HeaderLine(h)
<1> DEFINE none == <<>>
<1>1. none \in Seq(Bytes)
  BY EmptySeq
<1>2. \A hs : HeaderLines(hs) = Accumulated(NextLine, none, hs)
  BY DEF HeaderLines
<1> HIDE DEF none
<1>3. HeaderLines(Append(headers, h)) = NextLine[<<HeaderLines(headers), h>>]
  BY <1>1, <1>2, LinesOperation, AccumulatedAppend DEF Applied
<1> QED
  BY <1>3, HeaderLinesTyped DEF NextLine

\* The lines of all headers: those of the first k, the one of the next, and the rest.
Splits(headers, k) ==
  \E rest \in Seq(Bytes) :
    HeaderLines(headers) = HeaderLines(SubSeq(headers, 1, k)) \o HeaderLine(headers[k + 1]) \o rest

LEMMA HeaderLinesSplit ==
  ASSUME NEW headers \in Seq(Header), NEW k \in 0 .. Len(headers) - 1
  PROVE  Splits(headers, k)
<1> DEFINE P == {hs \in Seq(Header) : \A n \in Nat : n < Len(hs) => Splits(hs, n)}
<1>1. <<>> \in P
  BY EmptySeq
<1>2. ASSUME NEW hs \in Seq(Header), NEW h \in Header, hs \in P PROVE Append(hs, h) \in P
  <2>1. Append(hs, h) \in Seq(Header) /\ Len(Append(hs, h)) = Len(hs) + 1 /\ Len(hs) \in Nat
    OBVIOUS
  <2>2. HeaderLines(Append(hs, h)) = HeaderLines(hs) \o HeaderLine(h)
    BY HeaderLinesAppend
  <2>3. HeaderLines(hs) \in Seq(Bytes) /\ HeaderLine(h) \in Seq(Bytes)
    BY HeaderLinesTyped, HeaderLineTyped
  <2>4. Splits(Append(hs, h), Len(hs))
    <3>1. SubSeq(Append(hs, h), 1, Len(hs)) = hs /\ Append(hs, h)[Len(hs) + 1] = h
      OBVIOUS
    <3>2. HeaderLines(hs) \o HeaderLine(h) = HeaderLines(hs) \o HeaderLine(h) \o <<>>
      BY <2>3
    <3> QED
      BY <2>2, <3>1, <3>2, EmptySeq DEF Splits
  <2>5. ASSUME NEW n \in Nat, n < Len(hs) PROVE Splits(Append(hs, h), n)
    <3>1. /\ SubSeq(Append(hs, h), 1, n) = SubSeq(hs, 1, n)
          /\ Append(hs, h)[n + 1] = hs[n + 1]
          /\ SubSeq(hs, 1, n) \in Seq(Header) /\ hs[n + 1] \in Header
      BY <2>5
    <3>2. Splits(hs, n)
      BY <1>2, <2>5
    <3>3. PICK rest \in Seq(Bytes) :
            HeaderLines(hs) = HeaderLines(SubSeq(hs, 1, n)) \o HeaderLine(hs[n + 1]) \o rest
      BY <3>2 DEF Splits
    <3>4. HeaderLines(SubSeq(hs, 1, n)) \in Seq(Bytes) /\ HeaderLine(hs[n + 1]) \in Seq(Bytes)
      BY <3>1, HeaderLinesTyped, HeaderLineTyped
    <3> DEFINE first == HeaderLines(SubSeq(hs, 1, n)) \o HeaderLine(hs[n + 1])
    <3>5. first \in Seq(Bytes)
      BY <3>4
    <3>6. HeaderLines(hs) \o HeaderLine(h) = first \o (rest \o HeaderLine(h))
      <4> HIDE DEF first
      <4>1. (first \o rest) \o HeaderLine(h) = first \o (rest \o HeaderLine(h))
        BY <2>3, <3>5
      <4> QED
        BY <3>3, <4>1 DEF first
    <3>7. rest \o HeaderLine(h) \in Seq(Bytes)
      BY <2>3
    <3> QED
      BY <2>2, <3>1, <3>6, <3>7 DEF Splits
  <2>6. \A n \in Nat : n < Len(Append(hs, h)) => Splits(Append(hs, h), n)
    BY <2>1, <2>4, <2>5
  <2> QED
    BY <2>1, <2>6
<1>3. Seq(Header) \subseteq P
  <2> HIDE DEF P
  <2> QED
    BY <1>1, <1>2, SequenceInduction
<1> QED
  BY <1>3

\* A Content-Length header replaces what was declared, and no other header does.
LEMMA ContentLengthTyped ==
  ASSUME NEW value \in Seq(Bytes) PROVE ContentLength(value) \in 0 .. UnsignedValues - 1
<1>1. lexicalCast(value) \in Int
  BY SizesAssumption DEF lexicalCast
<1> QED
  BY <1>1, SizesAssumption DEF ContentLength

Declaring(headers) == {i \in DOMAIN headers : headers[i][1] = <<"content-length">>}

LEMMA DeclaredLengthEmpty == DeclaredLength(<<>>) = 0
  BY EmptySeq DEF DeclaredLength

LEMMA DeclaredLengthAppend ==
  ASSUME NEW headers \in Seq(Header), NEW h \in Header
  PROVE  DeclaredLength(Append(headers, h))
           = IF h[1] = <<"content-length">> THEN ContentLength(h[2]) ELSE DeclaredLength(headers)
<1> DEFINE more == Append(headers, h)
           n == Len(headers) + 1
<1>1. /\ DOMAIN more = 1 .. n /\ DOMAIN headers = 1 .. n - 1 /\ n \in Nat \ {0} /\ more[n] = h
      /\ \A i \in 1 .. n - 1 : more[i] = headers[i]
  OBVIOUS
<1> HIDE DEF more, n
<1>2. CASE h[1] = <<"content-length">>
  <2>1. n \in Declaring(more)
    <3>1. n \in DOMAIN more
      BY <1>1
    <3>2. more[n][1] = <<"content-length">>
      BY <1>1, <1>2
    <3> QED
      BY <3>1, <3>2 DEF Declaring
  <2>2. Declaring(more) \subseteq 1 .. n
    BY <1>1 DEF Declaring
  <2>3. Max(Declaring(more)) = n
    <3> HIDE DEF Declaring
    <3> DEFINE Greatest(m) == \A i \in Declaring(more) : m >= i
    <3>1. Greatest(n)
      BY <1>1, <2>2
    <3>2. ASSUME NEW m \in Declaring(more), Greatest(m) PROVE m = n
      BY <1>1, <2>1, <2>2, <3>2
    <3>3. Max(Declaring(more)) = CHOOSE m \in Declaring(more) : Greatest(m)
      BY DEF Max
    <3> HIDE DEF Greatest
    <3> QED
      BY <2>1, <3>1, <3>2, <3>3
  <2> QED
    BY <1>1, <1>2, <2>1, <2>3 DEF DeclaredLength, Declaring, more
<1>3. CASE h[1] # <<"content-length">>
  <2>1. Declaring(more) = Declaring(headers)
    BY <1>1, <1>3 DEF Declaring
  <2>2. CASE Declaring(headers) = {}
    BY <1>3, <2>1, <2>2 DEF DeclaredLength, Declaring, more
  <2>3. CASE Declaring(headers) # {}
    <3>1. Max(Declaring(headers)) \in 1 .. n - 1
      <4>1. Declaring(headers) \subseteq 1 .. n - 1
        BY <1>1 DEF Declaring
      <4>2. PICK m \in Declaring(headers) : \A i \in Declaring(headers) : m >= i
        <5> DEFINE T == {n - i : i \in Declaring(headers)}
        <5>1. T \subseteq Nat /\ T # {}
          BY <1>1, <2>3, <4>1
        <5>2. PICK t \in T : \A u \in T : t <= u
          <6> HIDE DEF T
          <6> QED
            BY <5>1, LeastElement
        <5>3. PICK m \in Declaring(headers) : t = n - m
          OBVIOUS
        <5>4. ASSUME NEW i \in Declaring(headers) PROVE m >= i
          <6>1. n - m <= n - i
            BY <5>2, <5>3
          <6> QED
            BY <1>1, <4>1, <6>1
        <5> QED
          BY <5>4
      <4>3. Max(Declaring(headers)) \in Declaring(headers)
        BY <4>2 DEF Max
      <4> QED
        BY <4>1, <4>3
    <3>2. more[Max(Declaring(headers))] = headers[Max(Declaring(headers))]
      BY <1>1, <3>1
    <3> QED
      BY <1>3, <2>1, <2>3, <3>2 DEF DeclaredLength, Declaring, more
  <2> QED
    BY <2>2, <2>3
<1> QED
  BY <1>2, <1>3

-----------------------------------------------------------------------------
(* The invariant, of an agent a, the digits v of its version, and the bytes s that it       *)
(* consumed.                                                                                *)

InContent(a) == \A k \in DOMAIN ContentStates : a.state = ContentStates[k] => PartOfContent(a, k)

Numbers(r, v) == r.major = Number(v.major) /\ r.minor = Number(v.minor)

Typed(a, v, s) == a \in Agent /\ v \in Version /\ s \in Seq(Bytes)

Known(a, v, s) ==
  /\ Typed(a, v, s)
  /\ a.contentLength = DeclaredLength(a.req.headers)
  /\ Numbers(a.req, v)
  /\ a.verdict = "none" => FieldsInOrder(a, v) /\ ReadSoFar(a, v, s) /\ InContent(a)
  /\ a.verdict = "true" => /\ s = Encode(a.req, v)
                           /\ WholeContent(a.req.content, DeclaredLength(a.req.headers))

\* A rejecting agent keeps what it has.
LEMMA RejectKnown ==
  ASSUME NEW a, NEW v, NEW s, NEW c \in Bytes, Known(a, v, s)
  PROVE  Known(Reject(a), v, Append(s, c))
<1>1. Reject(a) \in Agent /\ Reject(a).verdict = "false"
  BY DEF Known, Typed, Agent, Reject
<1>2. Reject(a).req = a.req /\ Reject(a).contentLength = a.contentLength
  BY DEF Known, Typed, Agent, Reject
<1>3. Append(s, c) \in Seq(Bytes)
  BY DEF Known, Typed
<1> QED
  BY <1>1, <1>2, <1>3 DEF Known, Typed

\* The states of the content.
ContentNames == {"expecting_content_char1", "expecting_content_char2", "expecting_content_char3",
                 "expecting_content_char4"}

LEMMA ContentStatesNamed ==
  /\ DOMAIN ContentStates = 1 .. 4 /\ ToSet(ContentStates) = ContentNames
  /\ \A k \in 1 .. 4 : ContentStates[k] \in ContentNames
  BY DEF ContentStates, ContentNames, ToSet

\* In another state than those, the agent has no content.
LEMMA NotInContent ==
  ASSUME NEW a, a.state \notin ContentNames PROVE InContent(a)
  BY ContentStatesNamed DEF InContent

LEMMA NoContent ==
  ASSUME NEW a, NEW v, NEW s, Known(a, v, s), a.verdict = "none", a.state \notin ContentNames
  PROVE  a.req.content = <<>>
  BY ContentStatesNamed DEF Known, Typed, Agent, FieldsInOrder, BeforeContent

LEMMA StatesNamed ==
  {"method_start", "method", "uri", "http_version_h", "http_version_t_1", "http_version_t_2",
   "http_version_p", "http_version_slash", "http_version_major_start", "http_version_major",
   "http_version_minor_start", "http_version_minor", "expecting_newline_1", "header_line_start",
   "header_name", "space_before_header_value", "header_value", "expecting_newline_2",
   "expecting_newline_3"} \subseteq States \ ContentNames
  BY ContentStatesNamed DEF States, ContentNames, MethodStates, ProtocolStates, MajorStates,
     MinorStates, HeaderStates

LEMMA NamedStates ==
  /\ "method" \in States /\ "uri" \in States /\ "http_version_h" \in States
  /\ "http_version_major" \in States /\ "http_version_minor_start" \in States
  /\ "http_version_minor" \in States /\ "expecting_newline_1" \in States
  /\ "header_line_start" \in States /\ "header_name" \in States
  /\ "space_before_header_value" \in States /\ "header_value" \in States
  /\ "expecting_newline_2" \in States /\ "expecting_newline_3" \in States
  BY StatesNamed

\* A byte more after two sequences.
LEMMA AppendToBoth ==
  ASSUME NEW p \in Seq(Bytes), NEW q \in Seq(Bytes), NEW c \in Bytes
  PROVE  /\ Append(p \o q, c) = p \o Append(q, c)
         /\ Append(p, c) = p \o <<c>> /\ Append(p, c) = p \o <<c>> \o <<>>
<1>1. Append(p \o q, c) = p \o Append(q, c)
  OBVIOUS
<1>2. Append(p, c) = p \o <<c>>
  OBVIOUS
<1>3. p \o <<c>> = p \o <<c>> \o <<>>
  OBVIOUS
<1> QED
  BY <1>1, <1>2, <1>3

LEMMA Regrouped ==
  ASSUME NEW p \in Seq(Bytes), NEW q \in Seq(Bytes), NEW x \in Seq(Bytes)
  PROVE  (p \o q) \o x = p \o (q \o x) /\ q \o x \in Seq(Bytes)
  OBVIOUS

LEMMA Associative ==
  \A p, q, x \in Seq(Bytes) : p \o (q \o x) = (p \o q) \o x
  BY Regrouped

LEMMA LineEnded ==
  ASSUME NEW s \in Seq(Bytes)
  PROVE  Append(s, "CR") \o <<"LF">> = s \o CRLF /\ CRLF \in Seq(Bytes)
<1>1. s \o <<"CR">> \o <<"LF">> = s \o <<"CR", "LF">>
  OBVIOUS
<1>2. "CR" \in Bytes /\ "LF" \in Bytes
  BY DEF Bytes, Controls
<1> QED
  BY <1>1, <1>2, AppendToBoth DEF CRLF

\* The agent in another state, with another request.
To(a, state, r) == [a EXCEPT !.state = state, !.req = r]

LEMMA ToFields ==
  ASSUME NEW a \in Agent, NEW state \in States, NEW r \in Request
  PROVE  /\ To(a, state, r) \in Agent
         /\ To(a, state, r).state = state /\ To(a, state, r).req = r
         /\ To(a, state, r).verdict = a.verdict /\ To(a, state, r).charSize = a.charSize
         /\ To(a, state, r).name = a.name /\ To(a, state, r).value = a.value
         /\ To(a, state, r).contentLength = a.contentLength
  BY DEF Agent, To

LEMMA GoIsTo ==
  ASSUME NEW a \in Agent, NEW state PROVE Go(a, state) = To(a, state, a.req)
  BY DEF Agent, Go, To

LEMMA AgentFields ==
  ASSUME NEW a, NEW v, NEW s, Typed(a, v, s)
  PROVE  /\ a \in Agent /\ a.name \in Seq(Bytes) /\ a.value \in Seq(Bytes)
         /\ a.req \in Request /\ a.req.method \in Seq(Bytes) /\ a.req.uri \in Seq(Bytes)
         /\ a.req.headers \in Seq(Header) /\ a.req.content \in Seq(Bytes)
         /\ v \in Version /\ v.major \in Seq(Digits) /\ v.minor \in Seq(Digits) /\ s \in Seq(Bytes)
  BY DEF Typed, Agent, Request, Version

\* What is written of a request is bytes.
LEMMA WrittenTyped ==
  ASSUME NEW r \in Request, NEW v \in Version
  PROVE  /\ Target(r) \in Seq(Bytes) /\ UpToMajor(r, v) \in Seq(Bytes)
         /\ UpToMinor(r, v) \in Seq(Bytes) /\ UpToHeaders(r, v) \in Seq(Bytes)
         /\ Encode(r, v) \in Seq(Bytes)
<1> USE DEF Bytes, Tspecials, Controls, TokenChars, Digits
<1>1. /\ r.method \in Seq(Bytes) /\ r.uri \in Seq(Bytes) /\ r.content \in Seq(Bytes)
      /\ v.major \in Seq(Bytes) /\ v.minor \in Seq(Bytes)
  BY DEF Request, Version
<1>2. HeaderLines(r.headers) \in Seq(Bytes)
  BY HeaderLinesTyped DEF Request
<1>3. Target(r) \in Seq(Bytes)
  BY <1>1 DEF Target
<1>4. UpToMajor(r, v) \in Seq(Bytes)
  BY <1>1, <1>3 DEF UpToMajor
<1>5. UpToMinor(r, v) \in Seq(Bytes)
  BY <1>1, <1>4 DEF UpToMinor
<1>6. UpToHeaders(r, v) \in Seq(Bytes)
  BY <1>2, <1>5 DEF UpToHeaders, CRLF
<1>7. Encode(r, v) \in Seq(Bytes)
  BY <1>1, <1>6 DEF Encode, CRLF
<1> QED
  BY <1>3, <1>4, <1>5, <1>6, <1>7

\* What is to be shown of an agent that has no content, after a byte more.
LEMMA Moves ==
  ASSUME NEW a, NEW v, NEW s, NEW c \in Bytes, Known(a, v, s), a.verdict = "none",
         NEW state \in States \ ContentNames, NEW r \in Request, NEW w \in Version,
         r.headers = a.req.headers, Numbers(r, w), FieldsInOrder(To(a, state, r), w),
         ReadSoFar(To(a, state, r), w, Append(s, c))
  PROVE  Known(To(a, state, r), w, Append(s, c))
<1> DEFINE b == To(a, state, r)
<1>1. Typed(b, w, Append(s, c)) /\ b.state = state /\ b.req = r /\ b.verdict = "none"
  BY ToFields DEF Known, Typed
<1>2. b.contentLength = DeclaredLength(b.req.headers)
  BY ToFields DEF Known, Typed
<1> HIDE DEF b
<1>3. InContent(b)
  BY <1>1, NotInContent
<1> QED
  BY <1>1, <1>2, <1>3 DEF Known, b

\* A byte of the method.
LEMMA MethodOutcomes ==
  ASSUME NEW a \in Agent, NEW c \in Bytes, a.state \in MethodStates
  PROVE  \/ /\ ~isToken(c) /\ ~(a.state = "method" /\ c = "SP")
            /\ consume(a, c) = Reject(a)
         \/ a.state = "method" /\ c = "SP" /\ consume(a, c) = To(a, "uri", a.req)
         \/ /\ isToken(c)
            /\ consume(a, c) = To(a, "method", [a.req EXCEPT !.method = Append(@, c)])
<1>1. Go([a EXCEPT !.req.method = Append(@, c)], "method")
        = To(a, "method", [a.req EXCEPT !.method = Append(@, c)])
  BY DEF Agent, Request, Go, To
<1> QED
  BY <1>1, GoIsTo DEF consume, consumeMethod, MethodStates, Expected

LEMMA MethodConsumed ==
  ASSUME NEW a, NEW v, NEW s, NEW c \in Bytes, Known(a, v, s), a.verdict = "none",
         a.state \in MethodStates
  PROVE  Known(consume(a, c), v, Append(s, c))
<1> USE DEF MethodStates, ContentNames
<1>1. Typed(a, v, s) /\ Numbers(a.req, v)
  BY DEF Known
<1>2. FieldsInOrder(a, v) /\ s = a.req.method
  BY DEF Known, ReadSoFar
<1>3. /\ a.req.uri = <<>> /\ v.major = <<>> /\ v.minor = <<>> /\ a.req.headers = <<>>
      /\ a.req.content = <<>>
  BY <1>2, NoContent DEF FieldsInOrder, BeforeProtocol, BeforeMajor, BeforeDot, BeforeMinor, BeforeHeaders
<1>4. CASE consume(a, c) = Reject(a)
  BY <1>4, RejectKnown
<1>5. CASE c = "SP" /\ consume(a, c) = To(a, "uri", a.req)
  <2> DEFINE b == To(a, "uri", a.req)
  <2>1. b.state = "uri" /\ b.req = a.req
    BY <1>1, AgentFields, ToFields DEF States
  <2>2. Append(s, c) = Target(b.req)
    <3>1. Append(s, c) = s \o <<"SP">> \o <<>>
      BY <1>1, <1>5, AgentFields
    <3> QED
      BY <3>1, <2>1, <1>2, <1>3 DEF Target
  <2> HIDE DEF b
  <2>3. FieldsInOrder(b, v)
    BY <2>1, <1>3 DEF FieldsInOrder
  <2>4. ReadSoFar(b, v, Append(s, c))
    BY <2>1, <2>2, ContentStatesNamed DEF ReadSoFar, MajorStates, MinorStates
  <2> QED
    BY <2>3, <2>4, <1>1, <1>5, AgentFields, Moves DEF b, States
<1>6. CASE consume(a, c) = To(a, "method", [a.req EXCEPT !.method = Append(@, c)])
  <2> DEFINE r == [a.req EXCEPT !.method = Append(@, c)]
             b == To(a, "method", r)
  <2>1. r.method = Append(s, c) /\ r.uri = <<>> /\ r.headers = a.req.headers /\ r.content = <<>>
    BY <1>1, <1>2, <1>3, AgentFields DEF Request
  <2>2. r \in Request /\ Numbers(r, v)
    <3>1. Append(a.req.method, c) \in Seq(Bytes)
      BY <1>1, AgentFields
    <3> QED
      BY <3>1, <1>1, AgentFields DEF Request, Numbers
  <2> HIDE DEF r
  <2>3. b.state = "method" /\ b.req = r
    BY <1>1, <2>2, AgentFields, ToFields DEF States
  <2> HIDE DEF b
  <2>4. FieldsInOrder(b, v)
    BY <2>1, <2>3, <1>3 DEF FieldsInOrder
  <2>5. ReadSoFar(b, v, Append(s, c))
    BY <2>1, <2>3, ContentStatesNamed DEF ReadSoFar, MajorStates, MinorStates
  <2>6. Known(b, v, Append(s, c))
    BY <2>1, <2>2, <2>4, <2>5, <1>1, AgentFields, Moves DEF b, States
  <2> QED
    BY <2>6, <1>6 DEF b, r
<1> QED
  BY <1>1, <1>4, <1>5, <1>6, AgentFields, MethodOutcomes

\* A byte of the URI.
LEMMA URIOutcomes ==
  ASSUME NEW a \in Agent, NEW c \in Bytes, a.state = "uri"
  PROVE  \/ c = "SP" /\ consume(a, c) = To(a, "http_version_h", a.req)
         \/ isCtl(c) /\ consume(a, c) = Reject(a)
         \/ /\ c # "SP" /\ ~isCtl(c)
            /\ consume(a, c) = To(a, "uri", [a.req EXCEPT !.uri = Append(@, c)])
<1>1. [a EXCEPT !.req.uri = Append(@, c)] = To(a, "uri", [a.req EXCEPT !.uri = Append(@, c)])
  BY DEF Agent, Request, To
<1> QED
  BY <1>1, GoIsTo DEF consume, consumeURI, Expected

LEMMA URIConsumed ==
  ASSUME NEW a, NEW v, NEW s, NEW c \in Bytes, Known(a, v, s), a.verdict = "none", a.state = "uri"
  PROVE  Known(consume(a, c), v, Append(s, c))
<1> USE DEF ContentNames
<1>1. Typed(a, v, s) /\ Numbers(a.req, v)
  BY DEF Known
<1>2. FieldsInOrder(a, v) /\ s = Target(a.req)
  BY DEF Known, ReadSoFar
<1>3. v.major = <<>> /\ v.minor = <<>> /\ a.req.headers = <<>> /\ a.req.content = <<>>
  BY <1>2, NoContent DEF FieldsInOrder, BeforeProtocol, BeforeMajor, BeforeDot, BeforeMinor, BeforeHeaders
<1>4. CASE consume(a, c) = Reject(a)
  BY <1>4, RejectKnown
<1>5. CASE c = "SP" /\ consume(a, c) = To(a, "http_version_h", a.req)
  <2> DEFINE b == To(a, "http_version_h", a.req)
  <2>0. "http_version_h" \in States \ ContentNames
    BY StatesNamed
  <2>1. b.state = "http_version_h" /\ b.req = a.req
    BY <1>1, <2>0, AgentFields, ToFields
  <2>2. Append(s, c) = Target(b.req) \o <<"SP">>
    BY <1>1, <1>2, <1>5, <2>1, AgentFields, AppendToBoth
  <2> HIDE DEF b
  <2>3. FieldsInOrder(b, v)
    BY <2>1, <1>3 DEF FieldsInOrder, MethodStates
  <2>4. ReadSoFar(b, v, Append(s, c))
    BY <2>1, <2>2, ContentStatesNamed DEF ReadSoFar, MethodStates, MajorStates, MinorStates
  <2> QED
    BY <2>0, <2>3, <2>4, <1>1, <1>5, AgentFields, Moves DEF b
<1>6. CASE consume(a, c) = To(a, "uri", [a.req EXCEPT !.uri = Append(@, c)])
  <2> DEFINE r == [a.req EXCEPT !.uri = Append(@, c)]
             b == To(a, "uri", r)
  <2>1. /\ r.uri = Append(a.req.uri, c) /\ r.method = a.req.method /\ r.headers = a.req.headers
        /\ r.content = <<>>
    BY <1>1, <1>3, AgentFields DEF Request
  <2>2. r \in Request /\ Numbers(r, v)
    <3>1. Append(a.req.uri, c) \in Seq(Bytes)
      BY <1>1, AgentFields
    <3> QED
      BY <3>1, <1>1, AgentFields DEF Request, Numbers
  <2> HIDE DEF r
  <2>3. b.state = "uri" /\ b.req = r
    BY <1>1, <2>2, AgentFields, ToFields, ZenonT(60) DEF States
  <2> HIDE DEF b
  <2>4. FieldsInOrder(b, v)
    BY <2>1, <2>3, <1>3 DEF FieldsInOrder, MethodStates
  <2>5. Append(s, c) = Target(r)
    <3>1. a.req.method \o <<"SP">> \in Seq(Bytes)
      BY <1>1, AgentFields DEF Bytes, Tspecials
    <3>2. Append((a.req.method \o <<"SP">>) \o a.req.uri, c)
            = (a.req.method \o <<"SP">>) \o Append(a.req.uri, c)
      BY <1>1, <3>1, AgentFields, AppendToBoth
    <3> QED
      BY <1>2, <2>1, <3>2 DEF Target
  <2>6. ReadSoFar(b, v, Append(s, c))
    BY <2>3, <2>5, ContentStatesNamed DEF ReadSoFar, MethodStates, MajorStates, MinorStates
  <2>7. Known(b, v, Append(s, c))
    BY <2>1, <2>2, <2>4, <2>6, <1>1, AgentFields, Moves DEF b, States
  <2> QED
    BY <2>7, <1>6 DEF b, r
<1> QED
  BY <1>1, <1>4, <1>5, <1>6, AgentFields, URIOutcomes

\* The one byte that a state expects.
LEMMA ExpectedStates ==
  DOMAIN Expected = ProtocolStates \cup
    {"expecting_newline_1", "space_before_header_value", "expecting_newline_2"}
  BY DEF Expected, ProtocolStates

LEMMA ExpectedBytes ==
  /\ Expected["http_version_h"] = <<"H", "http_version_t_1">>
  /\ Expected["http_version_t_1"] = <<"T", "http_version_t_2">>
  /\ Expected["http_version_t_2"] = <<"T", "http_version_p">>
  /\ Expected["http_version_p"] = <<"P", "http_version_slash">>
  /\ Expected["http_version_slash"] = <<"slash", "http_version_major_start">>
  /\ Expected["expecting_newline_1"] = <<"LF", "header_line_start">>
  /\ Expected["space_before_header_value"] = <<"SP", "header_value">>
  /\ Expected["expecting_newline_2"] = <<"LF", "header_line_start">>
  BY DEF Expected

LEMMA ExpectedOutcomes ==
  ASSUME NEW a \in Agent, NEW c \in Bytes, a.state \in DOMAIN Expected
  PROVE  \/ c # Expected[a.state][1] /\ consume(a, c) = Reject(a)
         \/ c = Expected[a.state][1] /\ consume(a, c) = To(a, Expected[a.state][2], a.req)
<1>1. consume(a, c) = consumeExpected(a, c)
  BY ExpectedStates DEF consume, ProtocolStates
<1> QED
  BY <1>1, GoIsTo DEF consumeExpected

\* A byte of the name of the protocol.
LEMMA ProtocolRead ==
  ASSUME NEW r \in Request, NEW v \in Version, v.major = <<>>
  PROVE  /\ Append(Target(r) \o <<"SP">>, "H") = Target(r) \o <<"SP", "H">>
         /\ Append(Target(r) \o <<"SP", "H">>, "T") = Target(r) \o <<"SP", "H", "T">>
         /\ Append(Target(r) \o <<"SP", "H", "T">>, "T") = Target(r) \o <<"SP", "H", "T", "T">>
         /\ Append(Target(r) \o <<"SP", "H", "T", "T">>, "P")
              = Target(r) \o <<"SP", "H", "T", "T", "P">>
         /\ Append(Target(r) \o <<"SP", "H", "T", "T", "P">>, "slash") = UpToMajor(r, v)
<1> DEFINE t == Target(r)
<1>1. t \in Seq(Bytes)
  BY WrittenTyped
<1> HIDE DEF t
<1>2. Append(t \o <<"SP">>, "H") = t \o <<"SP", "H">>
  BY <1>1
<1>3. Append(t \o <<"SP", "H">>, "T") = t \o <<"SP", "H", "T">>
  BY <1>1
<1>4. Append(t \o <<"SP", "H", "T">>, "T") = t \o <<"SP", "H", "T", "T">>
  BY <1>1
<1>5. Append(t \o <<"SP", "H", "T", "T">>, "P") = t \o <<"SP", "H", "T", "T", "P">>
  BY <1>1
<1>6. Append(t \o <<"SP", "H", "T", "T", "P">>, "slash")
        = t \o <<"SP", "H", "T", "T", "P", "slash">> \o <<>>
  BY <1>1
<1> QED
  BY <1>2, <1>3, <1>4, <1>5, <1>6 DEF t, UpToMajor

LEMMA ProtocolConsumed ==
  ASSUME NEW a, NEW v, NEW s, NEW c \in Bytes, Known(a, v, s), a.verdict = "none",
         a.state \in ProtocolStates
  PROVE  Known(consume(a, c), v, Append(s, c))
<1> USE DEF ContentNames
<1>1. Typed(a, v, s) /\ Numbers(a.req, v)
  BY DEF Known
<1>2. FieldsInOrder(a, v) /\ ReadSoFar(a, v, s) /\ a.state \notin ContentNames
  BY DEF Known, ProtocolStates
<1>3. v.major = <<>> /\ v.minor = <<>> /\ a.req.headers = <<>> /\ a.req.content = <<>>
  BY <1>2, NoContent DEF FieldsInOrder, BeforeProtocol, BeforeMajor, BeforeDot, BeforeMinor, BeforeHeaders
<1>4. CASE consume(a, c) = Reject(a)
  BY <1>4, RejectKnown
<1>5. CASE c = Expected[a.state][1] /\ consume(a, c) = To(a, Expected[a.state][2], a.req)
  <2> DEFINE next == Expected[a.state][2]
             b == To(a, next, a.req)
  <2>1. next \in ProtocolStates \cup {"http_version_major_start"}
    BY ExpectedBytes DEF ProtocolStates
  <2>2. next \in States \ ContentNames
    BY <2>1 DEF States, ProtocolStates, MajorStates
  <2> HIDE DEF next
  <2>3. b.state = next /\ b.req = a.req
    BY <1>1, <2>2, AgentFields, ToFields
  <2> HIDE DEF b
  <2>4. FieldsInOrder(b, v)
    BY <2>1, <2>3, <1>3 DEF FieldsInOrder, MethodStates, ProtocolStates
  <2>5. ReadSoFar(b, v, Append(s, c))
    <3>1. a.req \in Request /\ v \in Version
      BY <1>1, AgentFields
    <3>2. CASE a.state = "http_version_h"
      <4>1. Append(s, c) = Target(a.req) \o <<"SP", "H">> /\ next = "http_version_t_1"
        BY <3>1, <3>2, <1>2, <1>3, <1>5, ExpectedBytes, ProtocolRead DEF ReadSoFar, next
      <4> QED
        BY <4>1, <2>3, ContentStatesNamed DEF ReadSoFar, MethodStates, MajorStates, MinorStates
    <3>3. CASE a.state = "http_version_t_1"
      <4>1. Append(s, c) = Target(a.req) \o <<"SP", "H", "T">> /\ next = "http_version_t_2"
        BY <3>1, <3>3, <1>2, <1>3, <1>5, ExpectedBytes, ProtocolRead DEF ReadSoFar, next
      <4> QED
        BY <4>1, <2>3, ContentStatesNamed DEF ReadSoFar, MethodStates, MajorStates, MinorStates
    <3>4. CASE a.state = "http_version_t_2"
      <4>1. Append(s, c) = Target(a.req) \o <<"SP", "H", "T", "T">> /\ next = "http_version_p"
        BY <3>1, <3>4, <1>2, <1>3, <1>5, ExpectedBytes, ProtocolRead, SMTT(40) DEF ReadSoFar, next
      <4> QED
        BY <4>1, <2>3, ContentStatesNamed DEF ReadSoFar, MethodStates, MajorStates, MinorStates
    <3>5. CASE a.state = "http_version_p"
      <4>1. Append(s, c) = Target(a.req) \o <<"SP", "H", "T", "T", "P">> /\ next = "http_version_slash"
        BY <3>1, <3>5, <1>2, <1>3, <1>5, ExpectedBytes, ProtocolRead, SMTT(40) DEF ReadSoFar, next
      <4> QED
        BY <4>1, <2>3, ContentStatesNamed DEF ReadSoFar, MethodStates, MajorStates, MinorStates
    <3>6. CASE a.state = "http_version_slash"
      <4>1. s = Target(a.req) \o <<"SP", "H", "T", "T", "P">> /\ c = "slash"
            /\ next = "http_version_major_start"
        BY <3>6, <1>2, <1>5, ExpectedBytes DEF ReadSoFar, next
      <4>2. Append(s, c) = UpToMajor(a.req, v)
        BY <4>1, <3>1, <1>3, ProtocolRead
      <4> QED
        BY <4>1, <4>2, <2>3, ContentStatesNamed DEF ReadSoFar, MethodStates, MajorStates, MinorStates
    <3> QED
      BY <3>2, <3>3, <3>4, <3>5, <3>6 DEF ProtocolStates
  <2>6. Known(b, v, Append(s, c))
    BY <2>2, <2>4, <2>5, <1>1, AgentFields, Moves DEF b
  <2> QED
    BY <2>6, <1>5 DEF b, next
<1> QED
  BY <1>1, <1>4, <1>5, AgentFields, ExpectedOutcomes, ExpectedStates

\* The LF of a line, and the space before the value of a header.
LEMMA LineConsumed ==
  ASSUME NEW a, NEW v, NEW s, NEW c \in Bytes, Known(a, v, s), a.verdict = "none",
         a.state \in {"expecting_newline_1", "space_before_header_value", "expecting_newline_2"}
  PROVE  Known(consume(a, c), v, Append(s, c))
<1>1. Typed(a, v, s) /\ Numbers(a.req, v) /\ FieldsInOrder(a, v) /\ ReadSoFar(a, v, s)
  BY DEF Known
<1>2. a.req.content = <<>>
  BY NoContent DEF ContentNames
<1>3. UpToMinor(a.req, v) \in Seq(Bytes) /\ UpToHeaders(a.req, v) \in Seq(Bytes)
  BY <1>1, AgentFields, WrittenTyped
<1>4. CASE consume(a, c) = Reject(a)
  BY <1>4, RejectKnown
<1>5. CASE c = Expected[a.state][1] /\ consume(a, c) = To(a, Expected[a.state][2], a.req)
  <2> DEFINE next == Expected[a.state][2]
             b == To(a, next, a.req)
  <2>1. next \in {"header_line_start", "header_value"}
    BY ExpectedBytes
  <2>2. next \in States \ ContentNames
    BY <2>1, StatesNamed
  <2> HIDE DEF next
  <2>3. b.state = next /\ b.req = a.req /\ b.name = a.name /\ b.value = a.value
    BY <1>1, <2>2, AgentFields, ToFields
  <2> HIDE DEF b
  <2>4. FieldsInOrder(b, v)
    BY <2>1, <2>3, <1>2 DEF FieldsInOrder, MethodStates, ProtocolStates, BeforeProtocol, BeforeMajor,
       BeforeDot, BeforeMinor, BeforeHeaders
  <2>5. ReadSoFar(b, v, Append(s, c))
    <3>1. CASE a.state = "expecting_newline_1"
      <4>1. s = UpToMinor(a.req, v) \o <<"CR">> /\ c = "LF" /\ next = "header_line_start"
        BY <3>1, <1>1, <1>5, ExpectedBytes DEF ReadSoFar, next
      <4>2. a.req.headers = <<>>
        BY <3>1, <1>1 DEF FieldsInOrder, BeforeHeaders
      <4>3. Append(s, c) = UpToMinor(a.req, v) \o CRLF \o <<>>
        BY <4>1, <1>3 DEF CRLF
      <4>4. Append(s, c) = UpToHeaders(b.req, v)
        BY <4>2, <4>3, <2>3, HeaderLinesEmpty DEF UpToHeaders
      <4> QED
        BY <4>1, <4>4, <2>3, ContentStatesNamed DEF ReadSoFar, MethodStates, MajorStates, MinorStates,
           ContentNames
    <3>2. CASE a.state = "space_before_header_value"
      <4> DEFINE q == UpToHeaders(a.req, v) \o a.name
      <4>1. c = "SP" /\ next = "header_value"
        BY <3>2, <1>5, ExpectedBytes DEF next
      <4>2. q \in Seq(Bytes)
        BY <1>1, <1>3, AgentFields
      <4>3. s = q \o <<"colon">>
        BY <3>2, <1>1 DEF ReadSoFar
      <4>4. a.value = <<>>
        BY <3>2, <1>1 DEF FieldsInOrder
      <4> HIDE DEF q
      <4>5. Append(s, c) = q \o <<"colon", "SP">> \o <<>>
        BY <4>1, <4>2, <4>3
      <4>6. Append(s, c) = UpToHeaders(b.req, v) \o b.name \o <<"colon", "SP">> \o b.value
        BY <4>4, <4>5, <2>3 DEF q
      <4> QED
        BY <4>1, <4>6, <2>3, ContentStatesNamed DEF ReadSoFar, MethodStates, MajorStates, MinorStates,
           ContentNames
    <3>3. CASE a.state = "expecting_newline_2"
      <4>1. s \o <<"LF">> = UpToHeaders(a.req, v) /\ c = "LF" /\ next = "header_line_start"
        BY <3>3, <1>1, <1>5, ExpectedBytes DEF ReadSoFar, next
      <4>2. Append(s, c) = UpToHeaders(b.req, v)
        BY <4>1, <1>1, <2>3, AgentFields
      <4> QED
        BY <4>1, <4>2, <2>3, ContentStatesNamed DEF ReadSoFar, MethodStates, MajorStates, MinorStates,
           ContentNames
    <3> QED
      BY <3>1, <3>2, <3>3
  <2>6. Known(b, v, Append(s, c))
    BY <2>2, <2>4, <2>5, <1>1, AgentFields, Moves DEF b
  <2> QED
    BY <2>6, <1>5 DEF b, next
<1> QED
  BY <1>1, <1>4, <1>5, AgentFields, ExpectedOutcomes, ExpectedStates

\* A digit of the version, recorded.
LEMMA RecordedIs ==
  ASSUME NEW a \in Agent, NEW v \in Version, NEW c \in Bytes
  PROVE  /\ a.state \notin MajorStates \cup MinorStates \/ ~isDigit(c) => Recorded(a, v, c) = v
         /\ a.state \in MajorStates /\ isDigit(c) =>
              Recorded(a, v, c) = [v EXCEPT !.major = Append(@, c)]
         /\ a.state \in MinorStates /\ isDigit(c) =>
              Recorded(a, v, c) = [v EXCEPT !.minor = Append(@, c)]
  BY DEF Recorded, MajorStates, MinorStates

LEMMA MajorOutcomes ==
  ASSUME NEW a \in Agent, NEW c \in Bytes, a.state \in MajorStates
  PROVE  \/ /\ isDigit(c)
            /\ consume(a, c) = To(a, "http_version_major",
                                  [a.req EXCEPT !.major = 10 * a.req.major + Numeral(c)])
         \/ /\ a.state = "http_version_major" /\ c = "dot"
            /\ consume(a, c) = To(a, "http_version_minor_start", a.req)
         \/ /\ ~isDigit(c) /\ ~(a.state = "http_version_major" /\ c = "dot")
            /\ consume(a, c) = Reject(a)
<1>1. Go([a EXCEPT !.req.major = 10 * @ + Numeral(c)], "http_version_major")
        = To(a, "http_version_major", [a.req EXCEPT !.major = 10 * a.req.major + Numeral(c)])
  BY DEF Agent, Request, Go, To
<1>2. consume(a, c) = consumeMajor(a, c)
  BY ExpectedStates DEF consume, MajorStates, ProtocolStates
<1> QED
  BY <1>1, <1>2, GoIsTo DEF consumeMajor, MajorStates, isDigit, Digits

LEMMA MajorConsumed ==
  ASSUME NEW a, NEW v, NEW s, NEW c \in Bytes, Known(a, v, s), a.verdict = "none",
         a.state \in MajorStates
  PROVE  Known(consume(a, c), Recorded(a, v, c), Append(s, c))
<1>1. Typed(a, v, s) /\ Numbers(a.req, v) /\ FieldsInOrder(a, v) /\ s = UpToMajor(a.req, v)
  BY DEF Known, ReadSoFar
<1>2. a.req.content = <<>> /\ v.minor = <<>> /\ a.req.headers = <<>>
  BY <1>1, NoContent DEF FieldsInOrder, BeforeProtocol, BeforeMajor, BeforeDot, BeforeMinor,
     BeforeHeaders, MajorStates, ContentNames
<1>3. CASE isDigit(c) /\ consume(a, c) = To(a, "http_version_major",
                              [a.req EXCEPT !.major = 10 * a.req.major + Numeral(c)])
  <2> DEFINE r == [a.req EXCEPT !.major = 10 * a.req.major + Numeral(c)]
             w == [v EXCEPT !.major = Append(@, c)]
             b == To(a, "http_version_major", r)
  <2>1. /\ r.method = a.req.method /\ r.uri = a.req.uri /\ r.headers = <<>> /\ r.content = <<>>
        /\ r.major = 10 * a.req.major + Numeral(c) /\ r.minor = a.req.minor /\ r \in Request
    <3>1. 10 * a.req.major + Numeral(c) \in Nat
      BY <1>1, AgentFields, SMTT(40) DEF Request, Numeral
    <3> QED
      BY <3>1, <1>1, <1>2, AgentFields DEF Request
  <2>2. w.major = Append(v.major, c) /\ w.minor = <<>> /\ w \in Version
    <3>1. Append(v.major, c) \in Seq(Digits)
      BY <1>1, <1>3, AgentFields DEF isDigit
    <3> QED
      BY <3>1, <1>1, <1>2, AgentFields DEF Version
  <2>3. Numbers(r, w)
    BY <2>1, <2>2, <1>1, <1>2, <1>3, AgentFields, NumberAppend DEF Numbers, isDigit
  <2> HIDE DEF r, w
  <2>4. b.state = "http_version_major" /\ b.req = r
    BY <1>1, <2>1, AgentFields, ToFields, StatesNamed
  <2> HIDE DEF b
  <2>5. FieldsInOrder(b, w)
    BY <2>1, <2>2, <2>4 DEF FieldsInOrder, MethodStates, ProtocolStates, BeforeProtocol, BeforeMajor,
       BeforeDot, BeforeMinor, BeforeHeaders
  <2>6. Append(s, c) = UpToMajor(r, w)
    <3> DEFINE p == Target(a.req) \o <<"SP", "H", "T", "T", "P", "slash">>
    <3>1. p \in Seq(Bytes) /\ v.major \in Seq(Bytes)
      BY <1>1, AgentFields, WrittenTyped DEF Bytes, Tspecials, TokenChars, Digits
    <3>2. Target(r) = Target(a.req) /\ s = p \o v.major
      BY <1>1, <2>1 DEF Target, UpToMajor
    <3> HIDE DEF p
    <3>3. Append(s, c) = p \o Append(v.major, c)
      BY <3>1, <3>2, AppendToBoth
    <3> QED
      BY <3>2, <3>3, <2>2 DEF UpToMajor, p
  <2>7. ReadSoFar(b, w, Append(s, c))
    BY <2>4, <2>6, ContentStatesNamed DEF ReadSoFar, MethodStates, MajorStates, MinorStates, ContentNames
  <2>8. Known(b, w, Append(s, c))
    BY <2>1, <2>2, <2>3, <2>5, <2>7, <1>1, <1>2, AgentFields, Moves, StatesNamed DEF b
  <2> QED
    <3>1. Recorded(a, v, c) = w
      BY <1>1, <1>3, AgentFields, RecordedIs DEF w
    <3> QED
      BY <2>8, <3>1, <1>3 DEF b, r
<1>4. CASE /\ a.state = "http_version_major" /\ c = "dot"
           /\ consume(a, c) = To(a, "http_version_minor_start", a.req)
  <2> DEFINE b == To(a, "http_version_minor_start", a.req)
  <2>0. "http_version_minor_start" \in States \ ContentNames
    BY StatesNamed
  <2>1. b.state = "http_version_minor_start" /\ b.req = a.req
    BY <2>0, <1>1, AgentFields, ToFields
  <2> HIDE DEF b
  <2>2. FieldsInOrder(b, v)
    BY <2>1, <1>2 DEF FieldsInOrder, MethodStates, ProtocolStates, BeforeProtocol, BeforeMajor,
       BeforeDot, BeforeMinor, BeforeHeaders
  <2>3. Append(s, c) = UpToMinor(a.req, v)
    <3>1. Append(s, c) = s \o <<"dot">> \o <<>>
      BY <1>1, <1>4, AgentFields, AppendToBoth
    <3> QED
      BY <3>1, <1>1, <1>2 DEF UpToMinor
  <2>4. ReadSoFar(b, v, Append(s, c))
    BY <2>1, <2>3, ContentStatesNamed DEF ReadSoFar, MethodStates, MajorStates, MinorStates, ContentNames
  <2>5. Known(b, v, Append(s, c))
    BY <2>2, <2>4, <1>1, <1>2, AgentFields, Moves, StatesNamed DEF b
  <2> QED
    BY <2>5, <1>1, <1>4, AgentFields, RecordedIs DEF b, isDigit, Digits
<1>5. CASE ~isDigit(c) /\ consume(a, c) = Reject(a)
  BY <1>1, <1>5, RejectKnown, AgentFields, RecordedIs
<1> QED
  BY <1>1, <1>3, <1>4, <1>5, AgentFields, MajorOutcomes

LEMMA MinorOutcomes ==
  ASSUME NEW a \in Agent, NEW c \in Bytes, a.state \in MinorStates
  PROVE  \/ /\ isDigit(c)
            /\ consume(a, c) = To(a, "http_version_minor",
                                  [a.req EXCEPT !.minor = 10 * a.req.minor + Numeral(c)])
         \/ /\ a.state = "http_version_minor" /\ c = "CR"
            /\ consume(a, c) = To(a, "expecting_newline_1", a.req)
         \/ /\ ~isDigit(c) /\ ~(a.state = "http_version_minor" /\ c = "CR")
            /\ consume(a, c) = Reject(a)
<1>1. Go([a EXCEPT !.req.minor = 10 * @ + Numeral(c)], "http_version_minor")
        = To(a, "http_version_minor", [a.req EXCEPT !.minor = 10 * a.req.minor + Numeral(c)])
  BY DEF Agent, Request, Go, To
<1>2. consume(a, c) = consumeMinor(a, c)
  BY ExpectedStates DEF consume, MinorStates, ProtocolStates
<1> QED
  BY <1>1, <1>2, GoIsTo DEF consumeMinor, MinorStates, isDigit, Digits

LEMMA MinorConsumed ==
  ASSUME NEW a, NEW v, NEW s, NEW c \in Bytes, Known(a, v, s), a.verdict = "none",
         a.state \in MinorStates
  PROVE  Known(consume(a, c), Recorded(a, v, c), Append(s, c))
<1>1. Typed(a, v, s) /\ Numbers(a.req, v) /\ FieldsInOrder(a, v) /\ s = UpToMinor(a.req, v)
  BY DEF Known, ReadSoFar
<1>2. a.req.content = <<>> /\ a.req.headers = <<>>
  BY <1>1, NoContent DEF FieldsInOrder, BeforeMinor, BeforeHeaders, MinorStates, ContentNames
<1>3. CASE isDigit(c) /\ consume(a, c) = To(a, "http_version_minor",
                              [a.req EXCEPT !.minor = 10 * a.req.minor + Numeral(c)])
  <2> DEFINE r == [a.req EXCEPT !.minor = 10 * a.req.minor + Numeral(c)]
             w == [v EXCEPT !.minor = Append(@, c)]
             b == To(a, "http_version_minor", r)
  <2>1. /\ r.method = a.req.method /\ r.uri = a.req.uri /\ r.headers = <<>> /\ r.content = <<>>
        /\ r.minor = 10 * a.req.minor + Numeral(c) /\ r.major = a.req.major /\ r \in Request
    <3>1. 10 * a.req.minor + Numeral(c) \in Nat
      BY <1>1, AgentFields DEF Request, Numeral
    <3> QED
      BY <3>1, <1>1, <1>2, AgentFields DEF Request
  <2>2. w.minor = Append(v.minor, c) /\ w.major = v.major /\ w \in Version
    <3>1. Append(v.minor, c) \in Seq(Digits)
      BY <1>1, <1>3, AgentFields DEF isDigit
    <3> QED
      BY <3>1, <1>1, <1>2, AgentFields DEF Version
  <2>3. Numbers(r, w)
    BY <2>1, <2>2, <1>1, <1>2, <1>3, AgentFields, NumberAppend DEF Numbers, isDigit
  <2> HIDE DEF r, w
  <2>4. b.state = "http_version_minor" /\ b.req = r
    BY <1>1, <2>1, AgentFields, ToFields, StatesNamed
  <2> HIDE DEF b
  <2>5. FieldsInOrder(b, w)
    BY <2>1, <2>2, <2>4 DEF FieldsInOrder, MethodStates, ProtocolStates, BeforeProtocol, BeforeMajor,
       BeforeDot, BeforeMinor, BeforeHeaders
  <2>6. Append(s, c) = UpToMinor(r, w)
    <3> DEFINE p == UpToMajor(a.req, v) \o <<"dot">>
    <3>1. p \in Seq(Bytes) /\ v.minor \in Seq(Bytes)
      BY <1>1, AgentFields, WrittenTyped DEF Bytes, TokenChars, Digits
    <3>2. UpToMajor(r, w) = UpToMajor(a.req, v) /\ s = p \o v.minor
      BY <1>1, <2>1, <2>2 DEF Target, UpToMajor, UpToMinor
    <3> HIDE DEF p
    <3>3. Append(s, c) = p \o Append(v.minor, c)
      BY <3>1, <3>2, AppendToBoth
    <3> QED
      BY <3>2, <3>3, <2>2 DEF UpToMinor, p
  <2>7. ReadSoFar(b, w, Append(s, c))
    BY <2>4, <2>6, ContentStatesNamed DEF ReadSoFar, MethodStates, MajorStates, MinorStates, ContentNames
  <2>8. Known(b, w, Append(s, c))
    BY <2>1, <2>2, <2>3, <2>5, <2>7, <1>1, <1>2, AgentFields, Moves, StatesNamed DEF b
  <2> QED
    <3>1. Recorded(a, v, c) = w
      BY <1>1, <1>3, AgentFields, RecordedIs DEF w
    <3> QED
      BY <2>8, <3>1, <1>3 DEF b, r
<1>4. CASE /\ a.state = "http_version_minor" /\ c = "CR"
           /\ consume(a, c) = To(a, "expecting_newline_1", a.req)
  <2> DEFINE b == To(a, "expecting_newline_1", a.req)
  <2>0. "expecting_newline_1" \in States \ ContentNames
    BY StatesNamed
  <2>1. b.state = "expecting_newline_1" /\ b.req = a.req
    BY <2>0, <1>1, AgentFields, ToFields
  <2> HIDE DEF b
  <2>2. FieldsInOrder(b, v)
    BY <2>1, <1>2 DEF FieldsInOrder, MethodStates, ProtocolStates, BeforeProtocol, BeforeMajor,
       BeforeDot, BeforeMinor, BeforeHeaders
  <2>3. Append(s, c) = UpToMinor(a.req, v) \o <<"CR">>
    BY <1>1, <1>4, AgentFields, AppendToBoth
  <2>4. ReadSoFar(b, v, Append(s, c))
    BY <2>1, <2>3, ContentStatesNamed DEF ReadSoFar, MethodStates, MajorStates, MinorStates, ContentNames
  <2>5. Known(b, v, Append(s, c))
    BY <2>2, <2>4, <1>1, <1>2, AgentFields, Moves, StatesNamed DEF b
  <2> QED
    BY <2>5, <1>1, <1>4, AgentFields, RecordedIs DEF b, isDigit, Digits
<1>5. CASE ~isDigit(c) /\ consume(a, c) = Reject(a)
  BY <1>1, <1>5, RejectKnown, AgentFields, RecordedIs
<1> QED
  BY <1>1, <1>3, <1>4, <1>5, AgentFields, MinorOutcomes

\* The agent in another state, with another name and value of the header.
InLine(a, state, name, value) == [a EXCEPT !.state = state, !.name = name, !.value = value]

LEMMA InLineFields ==
  ASSUME NEW a \in Agent, NEW state \in States, NEW name \in Seq(Bytes), NEW value \in Seq(Bytes)
  PROVE  /\ InLine(a, state, name, value) \in Agent
         /\ InLine(a, state, name, value).state = state
         /\ InLine(a, state, name, value).name = name
         /\ InLine(a, state, name, value).value = value
         /\ InLine(a, state, name, value).req = a.req
         /\ InLine(a, state, name, value).verdict = a.verdict
         /\ InLine(a, state, name, value).contentLength = a.contentLength
  BY DEF Agent, InLine

LEMMA InLineKnown ==
  ASSUME NEW a, NEW v, NEW s, NEW c \in Bytes, Known(a, v, s), a.verdict = "none",
         NEW state \in {"header_name", "header_value"}, a.state \notin ContentNames,
         NEW name \in Seq(Bytes), NEW value \in Seq(Bytes), state = "header_name" => value = <<>>,
         ReadSoFar(InLine(a, state, name, value), v, Append(s, c))
  PROVE  Known(InLine(a, state, name, value), v, Append(s, c))
<1> DEFINE b == InLine(a, state, name, value)
<1>1. state \in States \ ContentNames
  BY StatesNamed
<1>2. /\ b \in Agent /\ b.state = state /\ b.value = value /\ b.req = a.req /\ b.verdict = "none"
      /\ b.contentLength = a.contentLength
  BY <1>1, InLineFields DEF Known, Typed
<1>3. a.req.content = <<>>
  BY NoContent
<1>4. Append(s, c) \in Seq(Bytes) /\ v \in Version
  BY DEF Known, Typed
<1>5. a.contentLength = DeclaredLength(a.req.headers) /\ Numbers(a.req, v)
  BY DEF Known
<1> HIDE DEF b
<1>6. FieldsInOrder(b, v)
  BY <1>2, <1>3 DEF FieldsInOrder, MethodStates, ProtocolStates, BeforeProtocol, BeforeMajor,
     BeforeDot, BeforeMinor, BeforeHeaders
<1>7. InContent(b)
  BY <1>1, <1>2, NotInContent
<1>8. ReadSoFar(b, v, Append(s, c))
  BY DEF b
<1>9. Known(b, v, Append(s, c))
  BY <1>2, <1>4, <1>5, <1>6, <1>7, <1>8 DEF Known, Typed
<1> QED
  BY <1>9 DEF b

\* A byte of the name of a header, or of the line that ends the headers.
LEMMA HeaderNameOutcomes ==
  ASSUME NEW a \in Agent, NEW c \in Bytes, a.state \in {"header_line_start", "header_name"}
  PROVE  \/ /\ a.state = "header_line_start" /\ c = "CR"
            /\ consume(a, c) = To(a, "expecting_newline_3", a.req)
         \/ /\ a.state = "header_line_start" /\ isToken(c)
            /\ consume(a, c) = InLine(a, "header_name", <<c>>, <<>>)
         \/ /\ a.state = "header_name" /\ c = "colon"
            /\ consume(a, c) = To(a, "space_before_header_value", a.req)
         \/ /\ a.state = "header_name" /\ isToken(c)
            /\ consume(a, c) = InLine(a, "header_name", Append(a.name, c), a.value)
         \/ /\ ~isToken(c) /\ ~(a.state = "header_line_start" /\ c = "CR")
            /\ ~(a.state = "header_name" /\ c = "colon")
            /\ consume(a, c) = Reject(a)
<1>1. consume(a, c) = consumeHeaderName(a, c)
  BY ExpectedStates DEF consume, ProtocolStates
<1>2. ~isToken("CR") /\ ~isToken("colon")
  BY DEF isToken, isCtl, isTspecial, Controls, Tspecials
<1>3. Go([a EXCEPT !.name = <<c>>, !.value = <<>>], "header_name")
        = InLine(a, "header_name", <<c>>, <<>>)
  BY DEF Agent, Go, InLine
<1>4. a.state = "header_name" => [a EXCEPT !.name = Append(@, c)]
                                    = InLine(a, "header_name", Append(a.name, c), a.value)
  BY DEF Agent, InLine
<1>5. CASE a.state = "header_line_start"
  BY <1>1, <1>2, <1>3, <1>5, GoIsTo DEF consumeHeaderName
<1>6. CASE a.state = "header_name"
  BY <1>1, <1>2, <1>4, <1>6, GoIsTo DEF consumeHeaderName
<1> QED
  BY <1>5, <1>6

LEMMA HeaderNameConsumed ==
  ASSUME NEW a, NEW v, NEW s, NEW c \in Bytes, Known(a, v, s), a.verdict = "none",
         a.state \in {"header_line_start", "header_name"}
  PROVE  Known(consume(a, c), v, Append(s, c))
<1> DEFINE h == UpToHeaders(a.req, v)
<1>1. Typed(a, v, s) /\ Numbers(a.req, v) /\ FieldsInOrder(a, v) /\ ReadSoFar(a, v, s)
  BY DEF Known
<1>2. a.req.content = <<>> /\ a.state \notin ContentNames
  BY NoContent DEF ContentNames
<1>3. h \in Seq(Bytes)
  BY <1>1, AgentFields, WrittenTyped
<1>4. CASE a.state = "header_line_start" /\ c = "CR"
           /\ consume(a, c) = To(a, "expecting_newline_3", a.req)
  <2> DEFINE b == To(a, "expecting_newline_3", a.req)
  <2>0. "expecting_newline_3" \in States \ ContentNames
    BY StatesNamed
  <2>1. b.state = "expecting_newline_3" /\ b.req = a.req
    BY <2>0, <1>1, AgentFields, ToFields
  <2> HIDE DEF b
  <2>2. FieldsInOrder(b, v)
    BY <2>1, <1>2 DEF FieldsInOrder, MethodStates, ProtocolStates, BeforeProtocol, BeforeMajor,
       BeforeDot, BeforeMinor, BeforeHeaders
  <2>3. Append(s, c) = h \o <<"CR">>
    BY <1>1, <1>3, <1>4, AppendToBoth DEF ReadSoFar
  <2>4. ReadSoFar(b, v, Append(s, c))
    BY <2>1, <2>3, ContentStatesNamed DEF ReadSoFar, MethodStates, MajorStates, MinorStates, ContentNames
  <2> QED
    BY <2>0, <2>2, <2>4, <1>1, <1>4, AgentFields, Moves DEF b
<1>5. CASE a.state = "header_line_start" /\ consume(a, c) = InLine(a, "header_name", <<c>>, <<>>)
  <2> DEFINE name == <<c>>
             value == <<>>
             b == InLine(a, "header_name", name, value)
  <2>0. "header_name" \in States /\ name \in Seq(Bytes) /\ value \in Seq(Bytes)
    BY StatesNamed
  <2>5. value = <<>>
    OBVIOUS
  <2> HIDE DEF name, value
  <2>1. b.state = "header_name" /\ b.req = a.req /\ b.name = name
    BY <2>0, <1>1, AgentFields, InLineFields
  <2> HIDE DEF b
  <2>2. Append(s, c) = h \o b.name
    BY <2>1, <1>1, <1>3, <1>5, AppendToBoth DEF ReadSoFar, name
  <2>3. ReadSoFar(b, v, Append(s, c))
    BY <2>1, <2>2, ContentStatesNamed DEF ReadSoFar, MethodStates, MajorStates, MinorStates, ContentNames
  <2>4. Known(b, v, Append(s, c))
    BY <2>0, <2>3, <2>5, <1>2, InLineKnown DEF b
  <2> QED
    BY <2>4, <1>5 DEF b, name, value
<1>6. CASE a.state = "header_name" /\ c = "colon"
           /\ consume(a, c) = To(a, "space_before_header_value", a.req)
  <2> DEFINE b == To(a, "space_before_header_value", a.req)
  <2>0. "space_before_header_value" \in States \ ContentNames
    BY StatesNamed
  <2>1. /\ b.state = "space_before_header_value" /\ b.req = a.req /\ b.name = a.name
        /\ b.value = a.value
    BY <2>0, <1>1, AgentFields, ToFields
  <2> HIDE DEF b
  <2>2. FieldsInOrder(b, v)
    BY <2>1, <1>1, <1>2, <1>6 DEF FieldsInOrder, MethodStates, ProtocolStates, BeforeProtocol, BeforeMajor,
       BeforeDot, BeforeMinor, BeforeHeaders
  <2>3. Append(s, c) = h \o a.name \o <<"colon">>
    <3> DEFINE q == h \o a.name
    <3>1. q \in Seq(Bytes)
      BY <1>1, <1>3, AgentFields
    <3>2. s = q
      BY <1>1, <1>6 DEF ReadSoFar
    <3> HIDE DEF q
    <3>3. Append(s, c) = q \o <<"colon">>
      BY <3>1, <3>2, <1>6, AppendToBoth
    <3> QED
      BY <3>3 DEF q
  <2>4. ReadSoFar(b, v, Append(s, c))
    BY <2>1, <2>3, ContentStatesNamed DEF ReadSoFar, MethodStates, MajorStates, MinorStates, ContentNames
  <2> QED
    BY <2>0, <2>2, <2>4, <1>1, <1>6, AgentFields, Moves DEF b
<1>7. CASE a.state = "header_name"
           /\ consume(a, c) = InLine(a, "header_name", Append(a.name, c), a.value)
  <2> DEFINE name == Append(a.name, c)
             b == InLine(a, "header_name", name, a.value)
  <2>0. "header_name" \in States /\ name \in Seq(Bytes) /\ a.value = <<>> /\ a.value \in Seq(Bytes)
    BY <1>1, <1>7, StatesNamed, AgentFields DEF FieldsInOrder
  <2>1. s = h \o a.name
    BY <1>1, <1>7 DEF ReadSoFar
  <2>2. Append(s, c) = h \o name
    BY <2>1, <1>1, <1>3, AgentFields, AppendToBoth
  <2> HIDE DEF name
  <2>3. b.state = "header_name" /\ b.req = a.req /\ b.name = name
    BY <2>0, <1>1, AgentFields, InLineFields
  <2> HIDE DEF b
  <2>4. ReadSoFar(b, v, Append(s, c))
    BY <2>2, <2>3, ContentStatesNamed DEF ReadSoFar, MethodStates, MajorStates, MinorStates, ContentNames
  <2>5. Known(b, v, Append(s, c))
    BY <2>0, <2>4, <1>2, InLineKnown DEF b
  <2> QED
    BY <2>5, <1>7 DEF b, name
<1>8. CASE consume(a, c) = Reject(a)
  BY <1>8, RejectKnown
<1> QED
  BY <1>1, <1>4, <1>5, <1>6, <1>7, <1>8, AgentFields, HeaderNameOutcomes

\* A byte of the value of a header, and the header that the CR ends.
Ended(a) ==
  [a EXCEPT !.state = "expecting_newline_2",
            !.contentLength = IF a.name = <<"content-length">> THEN ContentLength(a.value) ELSE @,
            !.req = [a.req EXCEPT !.headers = Append(@, <<a.name, a.value>>)],
            !.name = <<>>, !.value = <<>>]

LEMMA HeaderValueOutcomes ==
  ASSUME NEW a \in Agent, NEW c \in Bytes, a.state = "header_value"
  PROVE  \/ c = "CR" /\ consume(a, c) = Ended(a)
         \/ ~isCtl(c) /\ consume(a, c) = InLine(a, "header_value", a.name, Append(a.value, c))
         \/ c # "CR" /\ isCtl(c) /\ consume(a, c) = Reject(a)
<1>1. consume(a, c) = consumeHeaderValue(a, c)
  BY ExpectedStates DEF consume, ProtocolStates
<1>2. isCtl("CR")
  BY DEF isCtl, Controls
<1>3. [a EXCEPT !.value = Append(@, c)] = InLine(a, "header_value", a.name, Append(a.value, c))
  BY DEF Agent, InLine
<1>4. CASE c = "CR"
  <2>1. consume(a, c)
          = Go([a EXCEPT !.contentLength = IF a.name = <<"content-length">> THEN ContentLength(a.value) ELSE @,
                         !.req.headers = Append(@, <<a.name, a.value>>),
                         !.name = <<>>,
                         !.value = <<>>], "expecting_newline_2")
    BY <1>1, <1>2, <1>4 DEF consumeHeaderValue
  <2> QED
    BY <2>1, <1>4 DEF Agent, Request, Go, Ended
<1>5. CASE c # "CR"
  BY <1>1, <1>3, <1>5 DEF consumeHeaderValue
<1> QED
  BY <1>4, <1>5

AfterLine(a, state, l, r, none) ==
  [a EXCEPT !.state = state, !.contentLength = l, !.req = r, !.name = none, !.value = none]

LEMMA AfterLineFields ==
  ASSUME NEW a \in Agent, NEW state \in States, NEW l \in 0 .. UnsignedValues - 1,
         NEW r \in Request, NEW none \in Seq(Bytes)
  PROVE  /\ AfterLine(a, state, l, r, none) \in Agent
         /\ AfterLine(a, state, l, r, none).state = state
         /\ AfterLine(a, state, l, r, none).verdict = a.verdict
         /\ AfterLine(a, state, l, r, none).req = r
         /\ AfterLine(a, state, l, r, none).contentLength = l
  BY DEF Agent, AfterLine

LEMMA EndedKnown ==
  ASSUME NEW a, NEW v, NEW s, Known(a, v, s), a.verdict = "none", a.state = "header_value"
  PROVE  Known(Ended(a), v, Append(s, "CR"))
<1> DEFINE b == Ended(a)
           header == <<a.name, a.value>>
           r == [a.req EXCEPT !.headers = Append(@, header)]
           l == IF a.name = <<"content-length">> THEN ContentLength(a.value) ELSE a.contentLength
           h == UpToHeaders(a.req, v)
<1>1. Typed(a, v, s) /\ Numbers(a.req, v) /\ FieldsInOrder(a, v) /\ ReadSoFar(a, v, s)
  BY DEF Known
<1>2. a.req.content = <<>> /\ a.contentLength = DeclaredLength(a.req.headers)
  BY NoContent DEF Known, ContentNames
<1>3. header \in Header /\ header[1] = a.name /\ header[2] = a.value
  BY <1>1, AgentFields DEF Header
<1>4. h \in Seq(Bytes)
  BY <1>1, AgentFields, WrittenTyped
<1>5. s = h \o a.name \o <<"colon", "SP">> \o a.value
  BY <1>1 DEF ReadSoFar
<1>6. l \in 0 .. UnsignedValues - 1 /\ l = DeclaredLength(Append(a.req.headers, header))
  <2>1. a.contentLength \in 0 .. UnsignedValues - 1
    BY <1>1 DEF Typed, Agent
  <2>2. DeclaredLength(Append(a.req.headers, header))
          = IF header[1] = <<"content-length">> THEN ContentLength(header[2])
            ELSE DeclaredLength(a.req.headers)
    <3> HIDE DEF header
    <3> QED
      BY <1>1, <1>3, AgentFields, DeclaredLengthAppend
  <2> QED
    BY <2>1, <2>2, <1>1, <1>2, <1>3, AgentFields, ContentLengthTyped
<1> HIDE DEF header, l
<1>7. /\ r \in Request /\ r.headers = Append(a.req.headers, header) /\ r.content = <<>>
      /\ r.method = a.req.method /\ r.uri = a.req.uri /\ Numbers(r, v)
  <2>1. Append(a.req.headers, header) \in Seq(Header)
    BY <1>1, <1>3, AgentFields
  <2> QED
    BY <2>1, <1>1, <1>2, AgentFields DEF Request, Numbers
<1> HIDE DEF r
<1>8. /\ b \in Agent /\ b.state = "expecting_newline_2" /\ b.verdict = "none" /\ b.req = r
      /\ b.contentLength = l
  <2> DEFINE none == <<>>
  <2>1. b = AfterLine(a, "expecting_newline_2", l, r, none)
    BY <1>1, AgentFields DEF Ended, AfterLine, l, r, header, Agent
  <2>2. "expecting_newline_2" \in States /\ none \in Seq(Bytes)
    BY StatesNamed
  <2> HIDE DEF b, none
  <2> QED
    BY <2>1, <2>2, <1>1, <1>6, <1>7, AgentFields, AfterLineFields
<1>9. Append(s, "CR") \in Seq(Bytes) /\ v \in Version
  BY <1>1, AgentFields DEF Bytes, Controls
<1> HIDE DEF b
<1>10. FieldsInOrder(b, v)
  BY <1>7, <1>8 DEF FieldsInOrder, MethodStates, ProtocolStates, BeforeProtocol, BeforeMajor,
       BeforeDot, BeforeMinor, BeforeHeaders
<1>11. Append(s, "CR") \o <<"LF">> = UpToHeaders(r, v)
  <2> DEFINE m == UpToMinor(a.req, v) \o CRLF
             old == HeaderLines(a.req.headers)
             line == a.name \o <<"colon", "SP">> \o a.value
  <2>1. m \in Seq(Bytes) /\ old \in Seq(Bytes) /\ line \in Seq(Bytes)
    BY <1>1, AgentFields, WrittenTyped, HeaderLinesTyped DEF CRLF, Bytes, Controls, Tspecials
  <2>2. HeaderLine(header) = line \o CRLF
    BY <1>3 DEF HeaderLine
  <2>3. h = m \o old
    BY DEF UpToHeaders
  <2>4. UpToMinor(r, v) = UpToMinor(a.req, v)
    BY <1>7 DEF UpToMinor, UpToMajor, Target
  <2>5. UpToHeaders(r, v) = m \o (old \o HeaderLine(header))
    BY <2>4, <1>1, <1>3, <1>7, AgentFields, HeaderLinesAppend DEF UpToHeaders
  <2>6. s = h \o line
    <3> DEFINE sep == <<"colon", "SP">>
    <3>1. a.name \in Seq(Bytes) /\ a.value \in Seq(Bytes) /\ sep \in Seq(Bytes)
      BY <1>1, AgentFields DEF Bytes, Tspecials
    <3>2. s = h \o a.name \o sep \o a.value /\ line = a.name \o sep \o a.value
      BY <1>5
    <3> HIDE DEF h, sep, line
    <3>3. h \o a.name \o sep = h \o (a.name \o sep) /\ a.name \o sep \in Seq(Bytes)
      BY <1>4, <3>1, Regrouped
    <3>4. h \o (a.name \o sep) \o a.value = h \o ((a.name \o sep) \o a.value)
      BY <1>4, <3>1, <3>3, Regrouped, ZenonT(60)
    <3> QED
      BY <3>2, <3>3, <3>4
  <2> HIDE DEF m, old, line, h
  <2>7. Append(s, "CR") \o <<"LF">> = s \o CRLF /\ CRLF \in Seq(Bytes)
    BY <1>1, AgentFields, LineEnded
  <2>8. (m \o old \o line) \o CRLF = m \o (old \o (line \o CRLF))
    <3> DEFINE lines == m \o old
    <3>1. lines \in Seq(Bytes) /\ line \o CRLF \in Seq(Bytes)
      BY <2>1, <2>7, Regrouped
    <3>2. lines \o (line \o CRLF) = m \o (old \o (line \o CRLF))
      BY <2>1, <3>1, Regrouped, SMTT(40)
    <3> HIDE DEF lines
    <3>3. (lines \o line) \o CRLF = lines \o (line \o CRLF)
      BY <2>1, <2>7, <3>1, Regrouped, SMTT(40)
    <3> QED
      BY <3>2, <3>3 DEF lines
  <2> QED
    BY <2>2, <2>3, <2>5, <2>6, <2>7, <2>8
<1>12. ReadSoFar(b, v, Append(s, "CR"))
  BY <1>8, <1>11, ContentStatesNamed DEF ReadSoFar, MethodStates, MajorStates, MinorStates, ContentNames
<1>13. InContent(b)
  BY <1>8, NotInContent DEF ContentNames
<1>14. Known(b, v, Append(s, "CR"))
  BY <1>6, <1>7, <1>8, <1>9, <1>10, <1>12, <1>13 DEF Known, Typed
<1> QED
  BY <1>14 DEF b

LEMMA HeaderValueConsumed ==
  ASSUME NEW a, NEW v, NEW s, NEW c \in Bytes, Known(a, v, s), a.verdict = "none",
         a.state = "header_value"
  PROVE  Known(consume(a, c), v, Append(s, c))
<1>1. Typed(a, v, s) /\ ReadSoFar(a, v, s)
  BY DEF Known
<1>2. CASE c = "CR" /\ consume(a, c) = Ended(a)
  BY <1>2, EndedKnown
<1>3. CASE consume(a, c) = InLine(a, "header_value", a.name, Append(a.value, c))
  <2> DEFINE value == Append(a.value, c)
             q == UpToHeaders(a.req, v) \o a.name \o <<"colon", "SP">>
             b == InLine(a, "header_value", a.name, value)
  <2>1. "header_value" \in States /\ a.name \in Seq(Bytes) /\ value \in Seq(Bytes)
    BY <1>1, AgentFields, StatesNamed
  <2>2. q \in Seq(Bytes)
    BY <1>1, AgentFields, WrittenTyped DEF Bytes, Tspecials
  <2>3. s = q \o a.value
    BY <1>1 DEF ReadSoFar
  <2> HIDE DEF q
  <2>4. Append(s, c) = q \o value
    BY <2>2, <2>3, <1>1, AgentFields, AppendToBoth
  <2> HIDE DEF value
  <2>5. b.state = "header_value" /\ b.req = a.req /\ b.name = a.name /\ b.value = value
    BY <2>1, <1>1, AgentFields, InLineFields
  <2> HIDE DEF b
  <2>6. ReadSoFar(b, v, Append(s, c))
    BY <2>4, <2>5, ContentStatesNamed DEF ReadSoFar, MethodStates, MajorStates, MinorStates, ContentNames, q
  <2>7. Known(b, v, Append(s, c))
    BY <2>1, <2>6, InLineKnown DEF b, ContentNames
  <2> QED
    BY <2>7, <1>3 DEF b, value
<1>4. CASE consume(a, c) = Reject(a)
  BY <1>4, RejectKnown
<1> QED
  BY <1>1, <1>2, <1>3, <1>4, AgentFields, HeaderValueOutcomes

LEMMA AcceptFields ==
  ASSUME NEW a \in Agent
  PROVE  /\ Accept(a) \in Agent /\ Accept(a).verdict = "true" /\ Accept(a).req = a.req
         /\ Accept(a).contentLength = a.contentLength
  BY DEF Accept, Agent

\* The LF that ends the headers, and the request if it has no content.
LEMMA EndOfHeadersOutcomes ==
  ASSUME NEW a \in Agent, NEW c \in Bytes, a.state = "expecting_newline_3"
  PROVE  \/ c = "LF" /\ a.contentLength > 0 /\ consume(a, c) = Go(a, "expecting_content_char1")
         \/ c = "LF" /\ a.contentLength = 0 /\ consume(a, c) = Accept(a)
         \/ c # "LF" /\ consume(a, c) = Reject(a)
<1>1. consume(a, c) = consumeEndOfHeaders(a, c)
  BY ExpectedStates DEF consume, ProtocolStates
<1>2. a.contentLength \in Nat
  BY SizesAssumption DEF Agent
<1> QED
  BY <1>1, <1>2 DEF consumeEndOfHeaders

LEMMA EndOfHeadersConsumed ==
  ASSUME NEW a, NEW v, NEW s, NEW c \in Bytes, Known(a, v, s), a.verdict = "none",
         a.state = "expecting_newline_3"
  PROVE  Known(consume(a, c), v, Append(s, c))
<1>1. /\ Typed(a, v, s) /\ Numbers(a.req, v) /\ FieldsInOrder(a, v) /\ ReadSoFar(a, v, s)
      /\ a.contentLength = DeclaredLength(a.req.headers)
  BY DEF Known
<1>2. a.req.content = <<>>
  BY NoContent DEF ContentNames
<1>3. Append(s, c) \in Seq(Bytes)
  BY <1>1, AgentFields
<1>4. c = "LF" => Append(s, c) = Encode(a.req, v)
  <2> DEFINE h == UpToHeaders(a.req, v)
  <2>1. h \in Seq(Bytes)
    BY <1>1, AgentFields, WrittenTyped
  <2>2. s = h \o <<"CR">>
    BY <1>1 DEF ReadSoFar
  <2> HIDE DEF h
  <2>3. c = "LF" => Append(s, c) = h \o CRLF
    BY <2>1, <2>2 DEF CRLF
  <2>4. h \o CRLF = h \o CRLF \o <<>> 
    BY <2>1, LineEnded
  <2> QED
    BY <2>3, <2>4, <1>2 DEF Encode, h
<1>5. CASE c = "LF" /\ a.contentLength > 0 /\ consume(a, c) = Go(a, "expecting_content_char1")
  <2> DEFINE b == Go(a, "expecting_content_char1")
  <2>1. "expecting_content_char1" \in States /\ "expecting_content_char1" \in ContentNames
    BY ContentStatesNamed DEF States, ContentNames
  <2>2. /\ b \in Agent /\ b.state = "expecting_content_char1" /\ b.req = a.req /\ b.verdict = "none"
        /\ b.contentLength = a.contentLength
    BY <2>1, <1>1, AgentFields, GoIsTo, ToFields
  <2> HIDE DEF b
  <2>3. FieldsInOrder(b, v)
    BY <2>2, <1>2, ContentStatesNamed DEF FieldsInOrder, MethodStates, ProtocolStates, BeforeProtocol,
       BeforeMajor, BeforeDot, BeforeMinor, BeforeHeaders, BeforeContent, ContentNames
  <2>4. ReadSoFar(b, v, Append(s, c))
    BY <2>2, <1>4, <1>5 DEF ReadSoFar, MethodStates, MajorStates, MinorStates
  <2>5. InContent(b)
    <3>1. ASSUME NEW k \in DOMAIN ContentStates, b.state = ContentStates[k] PROVE PartOfContent(b, k)
      <4>1. k = 1
        BY <2>2, <3>1 DEF ContentStates
      <4>2. Len(b.req.content) = 0
        BY <2>2, <1>2, EmptySeq
      <4> QED
        BY <4>1, <4>2, <2>2, <1>2, <1>5 DEF PartOfContent
    <3> QED
      BY <3>1 DEF InContent
  <2>6. Known(b, v, Append(s, c))
    BY <2>2, <2>3, <2>4, <2>5, <1>1, <1>3 DEF Known, Typed
  <2> QED
    BY <2>6, <1>5 DEF b
<1>6. CASE c = "LF" /\ a.contentLength = 0 /\ consume(a, c) = Accept(a)
  <2> DEFINE b == Accept(a)
  <2>1. /\ b \in Agent /\ b.req = a.req /\ b.verdict = "true" /\ b.contentLength = a.contentLength
    BY <1>1, AgentFields, AcceptFields
  <2>2. WholeContent(a.req.content, DeclaredLength(a.req.headers))
    BY <1>1, <1>2, <1>6, EmptySeq DEF WholeContent
  <2> HIDE DEF b
  <2>3. Known(b, v, Append(s, c))
    BY <2>1, <2>2, <1>1, <1>3, <1>4, <1>6 DEF Known, Typed
  <2> QED
    BY <2>3, <1>6 DEF b
<1>7. CASE consume(a, c) = Reject(a)
  BY <1>7, RejectKnown
<1> QED
  BY <1>1, <1>5, <1>6, <1>7, AgentFields, EndOfHeadersOutcomes

-----------------------------------------------------------------------------
(* The characters of the content. *)

LEMMA UTF8LengthIs ==
  \A c : getUTF8Length(c) \in 0 .. 4 /\ (getUTF8Length(c) > 0 => c # "cont")
  BY DEF getUTF8Length

\* A character begins where there is none, or where the one before is complete.
LEMMA CharacterBegun ==
  ASSUME NEW s \in Seq(Bytes), NEW c \in Bytes, NEW size, NEW length \in Nat, Len(s) < length,
         s # <<>> => LastCharacter(s, Len(s) + 1 - size, size, length), getUTF8Length(c) > 0
  PROVE  LastCharacter(Append(s, c), Len(s) + 1, getUTF8Length(c), length)
<1> DEFINE t == Append(s, c)
           n == Len(s)
<1>1. n \in Nat /\ Len(t) = n + 1 /\ t[n + 1] = c /\ \A i \in 1 .. n : t[i] = s[i]
  OBVIOUS
<1>2. n = 0 <=> s = <<>>
  BY EmptySeq
<1>3. c # "cont"
  BY UTF8LengthIs
<1> HIDE DEF t, n
<1>4. ASSUME NEW i \in 1 .. n + 1, t[i] # "cont"
      PROVE  i <= length /\ (i < n + 1 => CharacterAt(t, i))
  <2>1. CASE i = n + 1
    BY <2>1, <1>1 DEF n
  <2>2. CASE i < n + 1
    <3> DEFINE j == n + 1 - size
               end == i + getUTF8Length(s[i])
    <3>1. LastCharacter(s, j, size, length) /\ s[i] = t[i] /\ i \in 1 .. n
      BY <2>2, <1>1, <1>2 DEF n
    <3>2. j \in 1 .. n /\ size = getUTF8Length(s[j]) /\ \A k \in j + 1 .. n : s[k] = "cont"
      BY <3>1 DEF LastCharacter, n
    <3>3. i <= j
      BY <1>4, <3>1, <3>2, <1>1
    <3>4. /\ i <= length /\ i < end /\ end <= n + 1
          /\ \A k \in i + 1 .. end - 1 : s[k] = "cont"
          /\ end <= n => s[end] # "cont"
      <4>1. i <= length /\ (i < j => CharacterAt(s, i))
        BY <1>4, <3>1, <1>1 DEF LastCharacter, n
      <4>2. CASE i < j
        BY <4>1, <4>2 DEF CharacterAt, n
      <4>3. CASE i = j
        <5>1. end = n + 1 /\ i < end
          BY <4>3, <3>2, <1>1, UTF8LengthIs
        <5> QED
          BY <4>1, <4>3, <5>1, <3>2, <1>1
      <4> QED
        BY <4>2, <4>3, <3>2, <3>3, <1>1
    <3>5. end = i + getUTF8Length(t[i]) /\ end \in Int
      BY <3>1, UTF8LengthIs
    <3> HIDE DEF end
    <3>6. \A k \in i + 1 .. end - 1 : t[k] = "cont"
      BY <3>4, <3>5, <1>1, SMTT(40)
    <3>7. end <= n + 1 => t[end] # "cont"
      BY <3>4, <3>5, <1>1, <1>3
    <3> QED
      BY <3>4, <3>5, <3>6, <3>7, <1>1 DEF CharacterAt
  <2> QED
    BY <2>1, <2>2, <1>1
<1>5. t[1] # "cont"
  BY <1>1, <1>2, <1>3 DEF LastCharacter, n
<1> QED
  BY <1>1, <1>3, <1>4, <1>5 DEF LastCharacter, t, n

\* A character goes on.
LEMMA CharacterContinued ==
  ASSUME NEW s \in Seq(Bytes), NEW j, NEW size, NEW length \in Nat,
         LastCharacter(s, j, size, length)
  PROVE  LastCharacter(Append(s, "cont"), j, size, length)
<1> DEFINE t == Append(s, "cont")
           n == Len(s)
<1>1. n \in Nat /\ Len(t) = n + 1 /\ t[n + 1] = "cont" /\ \A i \in 1 .. n : t[i] = s[i]
  OBVIOUS
<1>2. /\ j \in 1 .. n /\ s[1] # "cont" /\ s[j] # "cont" /\ size = getUTF8Length(s[j])
      /\ \A i \in j + 1 .. n : s[i] = "cont"
  BY DEF LastCharacter
<1> HIDE DEF t, n
<1>3. ASSUME NEW i \in 1 .. n + 1, t[i] # "cont"
      PROVE  i <= length /\ (i < j => CharacterAt(t, i))
  <2> DEFINE end == i + getUTF8Length(s[i])
  <2>1. i \in 1 .. n /\ s[i] = t[i] /\ s[i] # "cont"
    BY <1>1, <1>3
  <2>2. i <= length /\ (i < j => CharacterAt(s, i))
    BY <2>1 DEF LastCharacter, n
  <2>3. ASSUME i < j PROVE CharacterAt(t, i)
    <3>1. /\ i < end /\ end <= n + 1
          /\ \A k \in i + 1 .. end - 1 : s[k] = "cont"
          /\ end <= n => s[end] # "cont"
      BY <2>2, <2>3 DEF CharacterAt, n
    <3>2. end = i + getUTF8Length(t[i]) /\ end \in Int
      BY <2>1, UTF8LengthIs
    <3> HIDE DEF end
    <3>3. end <= j
      BY <2>1, <2>3, <3>1, <3>2, <1>1, <1>2
    <3>4. /\ \A k \in i + 1 .. end - 1 : t[k] = "cont"
          /\ t[end] # "cont"
      BY <2>1, <3>1, <3>2, <3>3, <1>1, <1>2
    <3> QED
      BY <3>1, <3>2, <3>3, <3>4, <1>1, <1>2 DEF CharacterAt
  <2> QED
    BY <2>2, <2>3
<1>4. t[1] # "cont" /\ t[j] # "cont" /\ size = getUTF8Length(t[j])
  BY <1>1, <1>2
<1>5. \A i \in j + 1 .. n + 1 : t[i] = "cont"
  BY <1>1, <1>2
<1> QED
  BY <1>1, <1>2, <1>3, <1>4, <1>5 DEF LastCharacter, t

\* With the end of a character that reaches the length, the content is whole.
LEMMA CharacterEnded ==
  ASSUME NEW s \in Seq(Bytes), NEW j, NEW size, NEW length \in Nat,
         LastCharacter(s, j, size, length), j + size = Len(s) + 1, Len(s) >= length
  PROVE  WholeContent(s, length)
<1>1. /\ j \in 1 .. Len(s) /\ s[1] # "cont" /\ size = getUTF8Length(s[j]) /\ Len(s) \in Nat
      /\ \A i \in j + 1 .. Len(s) : s[i] = "cont"
  BY DEF LastCharacter
<1>2. ASSUME NEW i \in 1 .. Len(s), s[i] # "cont" PROVE CharacterAt(s, i) /\ i <= length
  <2>1. i <= length /\ (i < j => CharacterAt(s, i))
    BY <1>2 DEF LastCharacter
  <2>2. i <= j
    BY <1>1, <1>2
  <2>3. CASE i = j
    BY <2>1, <2>3, <1>1 DEF CharacterAt
  <2> QED
    BY <2>1, <2>2, <2>3, <1>1
<1> QED
  BY <1>1, <1>2 DEF WholeContent

\* Byte k of a character, and what becomes of the agent.
Taken(a, k, c) == IF k = 1 THEN getUTF8Length(c) > 0 ELSE c = "cont"

CharSize(a, k, c) == IF k = 1 THEN getUTF8Length(c) ELSE a.charSize

WithMore(r, c) == [r EXCEPT !.content = Append(@, c)]

More(a, state, size, c) ==
  [a EXCEPT !.state = state, !.charSize = size, !.req = WithMore(a.req, c)]

LEMMA ContentOutcomes ==
  ASSUME NEW a \in Agent, NEW c \in Bytes, NEW k \in 1 .. 4, a.state = ContentStates[k]
  PROVE  LET size == CharSize(a, k, c)
             length == Len(a.req.content) + 1
             complete == Taken(a, k, c) /\ k >= size
         IN  \/ /\ ~Taken(a, k, c)
                /\ consume(a, c) = Reject([a EXCEPT !.charSize = size])
             \/ /\ Taken(a, k, c) /\ k < size
                /\ consume(a, c) = More(a, ContentStates[k + 1], size, c)
             \/ /\ complete /\ length < a.contentLength
                /\ consume(a, c) = More(a, ContentStates[1], size, c)
             \/ /\ complete /\ length >= a.contentLength
                /\ \E state \in {a.state, "method_start"} :
                     consume(a, c) = Accept(More(a, state, size, c))
<1> DEFINE size == CharSize(a, k, c)
           more == [a EXCEPT !.charSize = size, !.req.content = Append(@, c)]
<1>1. a.state \in ContentNames
  BY ContentStatesNamed
<1>2. consume(a, c) = consumeContent(a, c)
  BY <1>1, ExpectedStates DEF consume, ProtocolStates, ContentNames
<1>3. (CHOOSE i \in DOMAIN ContentStates : ContentStates[i] = a.state) = k
  BY DEF ContentStates
<1>4. size \in 0 .. 4 /\ a.contentLength \in Nat
  BY UTF8LengthIs, SizesAssumption DEF CharSize, Agent
<1>5. /\ \A state : Go(more, state) = More(a, state, size, c)
      /\ more = More(a, a.state, size, c)
      /\ Len(more.req.content) = Len(a.req.content) + 1 /\ Len(a.req.content) \in Nat
  <2> HIDE DEF size
  <2>1. more = [a EXCEPT !.charSize = size, !.req = WithMore(a.req, c)]
    BY DEF Agent, Request, WithMore
  <2>2. more.req.content = Append(a.req.content, c)
    BY DEF Agent, Request
  <2>3. a.req.content \in Seq(Bytes)
    BY DEF Agent, Request
  <2> HIDE DEF more
  <2>4. more = More(a, a.state, size, c)
    BY <2>1 DEF More, Agent
  <2>5. ASSUME NEW state PROVE Go(more, state) = More(a, state, size, c)
    BY <2>1 DEF More, Go, Agent
  <2> QED
    BY <2>2, <2>3, <2>4, <2>5
<1>6. consume(a, c)
        = CASE ~Taken(a, k, c) -> Reject([a EXCEPT !.charSize = size])
            [] Taken(a, k, c) /\ k < size -> Go(more, ContentStates[k + 1])
            [] Taken(a, k, c) /\ k >= size /\ Len(more.req.content) < a.contentLength ->
                 Go(more, ContentStates[1])
            [] OTHER -> Accept(IF k = 4 THEN Go(more, "method_start") ELSE more)
  <2>1. consume(a, c) = consumeCharByte(a, k, c)
    BY <1>2, <1>3 DEF consumeContent
  <2> QED
    BY <2>1 DEF consumeCharByte, Taken, CharSize
<1> HIDE DEF size, more
<1>7. CASE ~Taken(a, k, c)
  BY <1>4, <1>6, <1>7 DEF size
<1>8. CASE Taken(a, k, c) /\ k < size
  BY <1>4, <1>5, <1>6, <1>8 DEF size
<1>9. CASE Taken(a, k, c) /\ k >= size /\ Len(more.req.content) < a.contentLength
  BY <1>4, <1>5, <1>6, <1>9 DEF size
<1>10. CASE Taken(a, k, c) /\ k >= size /\ ~(Len(more.req.content) < a.contentLength)
  <2>1. consume(a, c) = Accept(IF k = 4 THEN Go(more, "method_start") ELSE more)
    BY <1>4, <1>6, <1>10
  <2> QED
    BY <2>1, <1>4, <1>5, <1>10 DEF size
<1> QED
  BY <1>4, <1>7, <1>8, <1>9, <1>10

LEMMA MoreFields ==
  ASSUME NEW a \in Agent, NEW state \in States, NEW size \in 0 .. 4, NEW c \in Bytes
  PROVE  /\ More(a, state, size, c) \in Agent
         /\ More(a, state, size, c).state = state /\ More(a, state, size, c).charSize = size
         /\ More(a, state, size, c).req = WithMore(a.req, c)
         /\ More(a, state, size, c).contentLength = a.contentLength
         /\ More(a, state, size, c).verdict = a.verdict
<1>1. WithMore(a.req, c) \in Request
  <2>1. a.req \in Request /\ Append(a.req.content, c) \in Seq(Bytes)
    BY DEF Agent, Request
  <2> QED
    BY <2>1 DEF Request, WithMore
<1> QED
  BY <1>1 DEF Agent, More

\* After byte k is taken, the last character starts k - 1 bytes before it.
LEMMA CharacterRead ==
  ASSUME NEW a \in Agent, NEW c \in Bytes, NEW k \in 1 .. 4, PartOfContent(a, k), Taken(a, k, c)
  PROVE  /\ LastCharacter(Append(a.req.content, c), Len(a.req.content) + 2 - k,
                          CharSize(a, k, c), a.contentLength)
         /\ k <= CharSize(a, k, c)
<1> DEFINE s == a.req.content
<1>1. s \in Seq(Bytes) /\ a.contentLength \in Nat /\ Len(s) \in Nat
  BY SizesAssumption DEF Agent, Request
<1>2. CASE k = 1
  <2>1. /\ Len(s) < a.contentLength /\ getUTF8Length(c) > 0
        /\ s # <<>> => LastCharacter(s, Len(s) + 1 - a.charSize, a.charSize, a.contentLength)
    BY <1>2 DEF PartOfContent, Taken
  <2> HIDE DEF s
  <2>2. LastCharacter(Append(s, c), Len(s) + 1, getUTF8Length(c), a.contentLength)
    BY <1>1, <2>1, CharacterBegun
  <2>3. Len(s) + 2 - k = Len(s) + 1
    BY <1>1, <1>2
  <2> QED
    BY <2>1, <2>2, <2>3, <1>2, UTF8LengthIs DEF CharSize, s
<1>3. CASE k # 1
  <2>1. /\ k <= a.charSize /\ c = "cont"
        /\ LastCharacter(s, Len(s) + 2 - k, a.charSize, a.contentLength)
    BY <1>3 DEF PartOfContent, Taken
  <2> HIDE DEF s
  <2>2. LastCharacter(Append(s, c), Len(s) + 2 - k, a.charSize, a.contentLength)
    BY <1>1, <2>1, CharacterContinued
  <2> QED
    BY <2>1, <2>2, <1>3 DEF CharSize, s
<1> QED
  BY <1>2, <1>3

LEMMA ContentConsumed ==
  ASSUME NEW a, NEW v, NEW s, NEW c \in Bytes, Known(a, v, s), a.verdict = "none",
         NEW k \in 1 .. 4, a.state = ContentStates[k]
  PROVE  Known(consume(a, c), v, Append(s, c))
<1> DEFINE size == CharSize(a, k, c)
           t == Append(a.req.content, c)
           l == a.contentLength
           r == WithMore(a.req, c)
<1>1. /\ Typed(a, v, s) /\ Numbers(a.req, v) /\ FieldsInOrder(a, v) /\ ReadSoFar(a, v, s)
      /\ InContent(a) /\ l = DeclaredLength(a.req.headers)
  BY DEF Known
<1>2. a \in Agent /\ v \in Version /\ s \in Seq(Bytes) /\ Append(s, c) \in Seq(Bytes)
  BY <1>1, AgentFields
<1>3. PartOfContent(a, k) /\ a.state \in ContentNames /\ a.state \in States
  BY <1>1, ContentStatesNamed DEF InContent, Typed, Agent
<1>4. size \in 0 .. 4 /\ l \in Nat
  BY <1>2, UTF8LengthIs, SizesAssumption DEF CharSize, Agent
<1>5. /\ t \in Seq(Bytes) /\ Len(t) = Len(a.req.content) + 1 /\ Len(t) \in Nat
      /\ Len(a.req.content) \in Nat
  BY <1>1, AgentFields
<1>6. /\ r \in Request /\ r.content = t /\ r.headers = a.req.headers /\ Numbers(r, v)
      /\ UpToHeaders(r, v) = UpToHeaders(a.req, v)
  <2>1. r = [a.req EXCEPT !.content = t] /\ a.req \in Request
    BY <1>1, AgentFields DEF WithMore
  <2> HIDE DEF t, r
  <2>2. /\ r \in Request /\ r.content = t /\ r.headers = a.req.headers /\ r.major = a.req.major
        /\ r.minor = a.req.minor /\ r.method = a.req.method /\ r.uri = a.req.uri
    BY <2>1, <1>5 DEF Request
  <2> QED
    BY <2>2, <1>1 DEF Numbers, UpToHeaders, UpToMinor, UpToMajor, Target
<1>7. Append(s, c) = Encode(r, v)
  <2> DEFINE h == UpToHeaders(a.req, v) \o CRLF
  <2>1. h \in Seq(Bytes) /\ a.req.content \in Seq(Bytes)
    BY <1>1, AgentFields, WrittenTyped, LineEnded, Regrouped
  <2>2. s = h \o a.req.content
    BY <1>1, <1>3, ContentStatesNamed DEF ReadSoFar, Encode
  <2> HIDE DEF h, r
  <2>3. Append(s, c) = h \o t
    BY <2>1, <2>2, AppendToBoth
  <2> QED
    BY <2>3, <1>6 DEF Encode, h
<1>8. Taken(a, k, c) => LastCharacter(t, Len(t) + 1 - k, size, l) /\ k <= size
  <2>1. /\ Taken(a, k, c) => LastCharacter(t, Len(a.req.content) + 2 - k, size, l)
        /\ Taken(a, k, c) => k <= size
    BY <1>2, <1>3, CharacterRead
  <2> HIDE DEF t, size
  <2>2. Len(a.req.content) + 2 - k = Len(t) + 1 - k
    BY <1>5
  <2> QED
    BY <2>1, <2>2
<1> HIDE DEF t, r, size
<1>9. ASSUME NEW m \in 1 .. 4, Taken(a, k, c), m = 1 => k = size /\ Len(t) < l,
             m # 1 => m = k + 1 /\ m <= size
      PROVE  Known(More(a, ContentStates[m], size, c), v, Append(s, c))
  <2> DEFINE state == ContentStates[m]
             b == More(a, state, size, c)
  <2>1. state \in ContentNames /\ state \in States
    BY ContentStatesNamed DEF States
  <2> HIDE DEF state
  <2>2. /\ b \in Agent /\ b.state = state /\ b.charSize = size /\ b.req = r
        /\ b.contentLength = l /\ b.verdict = "none"
    <3>1. /\ b \in Agent /\ b.state = state /\ b.charSize = size
          /\ b.contentLength = l /\ b.verdict = "none"
      <4>1. a \in Agent /\ state \in States /\ size \in 0 .. 4
        BY <2>1, <1>2, <1>4
      <4>2. /\ More(a, state, size, c) \in Agent
            /\ More(a, state, size, c).state = state /\ More(a, state, size, c).charSize = size
            /\ More(a, state, size, c).contentLength = a.contentLength
            /\ More(a, state, size, c).verdict = a.verdict
        BY <4>1, MoreFields, SMTT(40)
      <4> QED
        BY <4>2
    <3>2. b.req = r
      <4>1. a \in Agent /\ state \in States /\ size \in 0 .. 4
        BY <2>1, <1>2, <1>4
      <4>2. b.req = WithMore(a.req, c)
        BY <4>1, MoreFields
      <4> QED
        BY <4>2 DEF r
    <3> QED
      BY <3>1, <3>2
  <2> HIDE DEF b
  <2>3. FieldsInOrder(b, v)
    BY <2>1, <2>2, ContentStatesNamed DEF FieldsInOrder, MethodStates, ProtocolStates, BeforeProtocol,
       BeforeMajor, BeforeDot, BeforeMinor, BeforeHeaders, BeforeContent, ContentNames
  <2>4. ReadSoFar(b, v, Append(s, c))
    BY <2>1, <2>2, <1>7 DEF ReadSoFar, MethodStates, MajorStates, MinorStates, ContentNames
  <2>5. PartOfContent(b, m)
    <3>1. CASE m = 1
      BY <3>1, <2>2, <1>6, <1>8, <1>9 DEF PartOfContent
    <3>2. CASE m # 1
      <4>1. Len(t) + 2 - m = Len(t) + 1 - k
        BY <3>2, <1>5, <1>9
      <4> QED
        BY <4>1, <3>2, <2>2, <1>6, <1>8, <1>9 DEF PartOfContent
    <3> QED
      BY <3>1, <3>2
  <2>6. InContent(b)
    BY <2>2, <2>5 DEF InContent, ContentStates, state
  <2>7. Known(b, v, Append(s, c))
    BY <2>2, <2>3, <2>4, <2>6, <1>1, <1>2, <1>6 DEF Known, Typed
  <2> QED
    BY <2>7 DEF b, state
<1>10. CASE consume(a, c) = Reject([a EXCEPT !.charSize = size])
  <2> DEFINE b == [a EXCEPT !.charSize = size]
  <2>1. /\ b \in Agent /\ b.req = a.req /\ b.verdict = "none" /\ b.contentLength = l
    BY <1>2, <1>4 DEF Agent
  <2> HIDE DEF b
  <2>2. Reject(b) \in Agent /\ Reject(b).verdict = "false" /\ Reject(b).req = a.req
    BY <2>1 DEF Reject, Agent
  <2>3. Reject(b).contentLength = l
    BY <2>1 DEF Reject, Agent
  <2>4. Known(Reject(b), v, Append(s, c))
    BY <2>2, <2>3, <1>1, <1>2 DEF Known, Typed
  <2> QED
    BY <2>4, <1>10 DEF b
<1>11. CASE /\ Taken(a, k, c) /\ k < size
            /\ consume(a, c) = More(a, ContentStates[k + 1], size, c)
  <2>1. k + 1 \in 1 .. 4 /\ k + 1 # 1 /\ k + 1 <= size
    BY <1>4, <1>11
  <2> QED
    BY <2>1, <1>9, <1>11
<1>12. CASE /\ Taken(a, k, c) /\ k >= size /\ Len(t) < l
            /\ consume(a, c) = More(a, ContentStates[1], size, c)
  BY <1>4, <1>8, <1>9, <1>12
<1>13. CASE /\ Taken(a, k, c) /\ k >= size /\ Len(t) >= l
            /\ \E state \in {a.state, "method_start"} :
                 consume(a, c) = Accept(More(a, state, size, c))
  <2>1. PICK state \in {a.state, "method_start"} : consume(a, c) = Accept(More(a, state, size, c))
    BY <1>13
  <2> DEFINE b == More(a, state, size, c)
  <2>2. state \in States
    BY <1>3, StatesNamed
  <2>3. b \in Agent /\ b.req = r /\ b.contentLength = l
    <3>1. b \in Agent /\ b.contentLength = l
      BY <2>2, <1>2, <1>4, MoreFields, SMTT(40)
    <3>2. b.req = r
      BY <2>2, <1>2, <1>4, MoreFields DEF r
    <3> QED
      BY <3>1, <3>2
  <2> HIDE DEF b
  <2>4. WholeContent(t, l)
    <3>1. Len(t) + 1 - k + size = Len(t) + 1
      BY <1>4, <1>5, <1>8, <1>13
    <3> QED
      BY <3>1, <1>4, <1>5, <1>8, <1>13, CharacterEnded
  <2>5. Known(Accept(b), v, Append(s, c))
    BY <2>3, <2>4, <1>1, <1>2, <1>6, <1>7, AcceptFields DEF Known, Typed
  <2> QED
    BY <2>1, <2>5 DEF b
<1> QED
  BY <1>2, <1>5, <1>10, <1>11, <1>12, <1>13, ContentOutcomes DEF size

\* Whatever byte the agent consumes.
LEMMA ByteConsumed ==
  ASSUME NEW a, NEW v, NEW s, NEW c \in Bytes, Known(a, v, s), a.verdict = "none"
  PROVE  Known(consume(a, c), Recorded(a, v, c), Append(s, c))
<1>1. a \in Agent /\ v \in Version
  BY DEF Known, Typed
<1>2. CASE a.state \in MajorStates \cup MinorStates
  BY <1>2, MajorConsumed, MinorConsumed
<1>3. CASE a.state \notin MajorStates \cup MinorStates
  <2>1. Recorded(a, v, c) = v
    BY <1>1, <1>3, RecordedIs
  <2>2. CASE a.state \in ContentNames
    <3>1. PICK k \in 1 .. 4 : a.state = ContentStates[k]
      BY <2>2 DEF ContentNames, ContentStates
    <3> QED
      BY <2>1, <3>1, ContentConsumed
  <2>3. CASE a.state \in MethodStates \cup {"uri"} \cup ProtocolStates
    BY <2>1, <2>3, MethodConsumed, URIConsumed, ProtocolConsumed
  <2>4. CASE a.state \in {"expecting_newline_1", "space_before_header_value", "expecting_newline_2"}
    BY <2>1, <2>4, LineConsumed
  <2>5. CASE a.state \in {"header_line_start", "header_name", "header_value", "expecting_newline_3"}
    BY <2>1, <2>5, HeaderNameConsumed, HeaderValueConsumed, EndOfHeadersConsumed
  <2> QED
    BY <1>1, <1>3, <2>2, <2>3, <2>4, <2>5, ContentStatesNamed DEF Agent, States, HeaderStates
<1> QED
  BY <1>2, <1>3

-----------------------------------------------------------------------------
(* The agent on its way through a request r that the grammar allows, whose version is       *)
(* written with the digits w.                                                               *)

\* What is a prefix, element by element.
LEMMA PrefixIs ==
  ASSUME NEW S, NEW p \in Seq(S), NEW f \in Seq(S)
  PROVE  IsPrefix(p, f) <=> Len(p) <= Len(f) /\ \A i \in 1 .. Len(p) : p[i] = f[i]
<1>1. SubSeq(p, 1, Len(p)) = p
  OBVIOUS
<1>2. ASSUME Len(p) <= Len(f)
      PROVE  SubSeq(f, 1, Len(p)) \in Seq(S) /\ Len(SubSeq(f, 1, Len(p))) = Len(p)
             /\ \A i \in 1 .. Len(p) : SubSeq(f, 1, Len(p))[i] = f[i]
  BY <1>2
<1>3. ASSUME Len(p) <= Len(f), \A i \in 1 .. Len(p) : p[i] = f[i]
      PROVE  SubSeq(f, 1, Len(p)) = p
  BY <1>2, <1>3, SeqEqual
<1> QED
  BY <1>1, <1>2, <1>3 DEF IsPrefix

\* A prefix is everything, or goes on.
LEMMA PrefixGrows ==
  ASSUME NEW S, NEW p \in Seq(S), NEW f \in Seq(S), IsPrefix(p, f), p # f
  PROVE  /\ Len(p) < Len(f) /\ f[Len(p) + 1] \in S
         /\ IsPrefix(Append(p, f[Len(p) + 1]), f)
<1>1. Len(p) <= Len(f) /\ \A i \in 1 .. Len(p) : p[i] = f[i]
  BY PrefixIs
<1>2. Len(p) # Len(f)
  BY <1>1, SeqEqual
<1>3. Len(p) < Len(f) /\ f[Len(p) + 1] \in S /\ Len(p) \in Nat
  BY <1>1, <1>2
<1> DEFINE more == Append(p, f[Len(p) + 1])
<1>4. more \in Seq(S) /\ Len(more) = Len(p) + 1 /\ \A i \in 1 .. Len(more) : more[i] = f[i]
  BY <1>1, <1>3
<1>5. IsPrefix(more, f)
  <2> HIDE DEF more
  <2> QED
    BY <1>3, <1>4, PrefixIs
<1> QED
  BY <1>3, <1>5

LEMMA PrefixEmpty ==
  ASSUME NEW S, NEW f \in Seq(S) PROVE IsPrefix(<<>>, f) /\ IsPrefix(f, f)
<1> DEFINE none == <<>>
<1>1. none \in Seq(S) /\ Len(none) = 0 /\ Len(f) \in Nat
  BY EmptySeq
<1> HIDE DEF none
<1>2. IsPrefix(none, f)
  <2>1. Len(none) <= Len(f) /\ \A i \in 1 .. Len(none) : none[i] = f[i]
    BY <1>1
  <2> QED
    BY <1>1, <2>1, PrefixIs
<1>3. IsPrefix(f, f)
  BY <1>1, PrefixIs
<1> QED
  BY <1>2, <1>3 DEF none

Starts(x, y) == \E rest \in Seq(Bytes) : y = x \o rest

LEMMA StartsTogether ==
  ASSUME NEW x \in Seq(Bytes), NEW y \in Seq(Bytes), NEW u, u = x \o y, NEW z, Starts(u, z)
  PROVE  Starts(x, z)
<1>1. PICK rest \in Seq(Bytes) : z = u \o rest
  BY DEF Starts
<1>2. (x \o y) \o rest = x \o (y \o rest) /\ y \o rest \in Seq(Bytes)
  BY Regrouped
<1> QED
  BY <1>1, <1>2 DEF Starts

\* The byte after n bytes of f, which follows pre.
LEMMA Inside ==
  ASSUME NEW pre \in Seq(Bytes), NEW f \in Seq(Bytes), NEW sent, Starts(pre \o f, sent),
         NEW n \in Nat, n < Len(f)
  PROVE  Len(pre) + n < Len(sent) /\ sent[Len(pre) + n + 1] = f[n + 1]
<1>1. PICK rest \in Seq(Bytes) : sent = (pre \o f) \o rest
  BY DEF Starts
<1> DEFINE x == pre \o f
<1>2. x \in Seq(Bytes) /\ Len(x) = Len(pre) + Len(f) /\ Len(pre) \in Nat /\ Len(f) \in Nat
  OBVIOUS
<1>3. x[Len(pre) + n + 1] = f[n + 1]
  OBVIOUS
<1> HIDE DEF x
<1>4. Len(sent) = Len(x) + Len(rest) /\ Len(rest) \in Nat
  BY <1>1, <1>2 DEF x
<1>5. sent[Len(pre) + n + 1] = x[Len(pre) + n + 1]
  <2>1. Len(pre) + n + 1 \in 1 .. Len(x)
    BY <1>2
  <2>2. sent = x \o rest
    BY <1>1 DEF x
  <2> QED
    BY <1>2, <2>1, <2>2
<1> QED
  BY <1>2, <1>3, <1>4, <1>5

\* The field f, after pre, of which p was read and is not all.
LEMMA InField ==
  ASSUME NEW pre \in Seq(Bytes), NEW f \in Seq(Bytes), NEW p \in Seq(Bytes), NEW sent,
         Starts(pre \o f, sent), IsPrefix(p, f), p # f, NEW s, s = pre \o p
  PROVE  /\ Len(s) < Len(sent) /\ Len(p) < Len(f) /\ sent[Len(s) + 1] = f[Len(p) + 1]
         /\ IsPrefix(Append(p, sent[Len(s) + 1]), f)
<1>1. Len(p) < Len(f) /\ IsPrefix(Append(p, f[Len(p) + 1]), f) /\ Len(p) \in Nat
  BY PrefixGrows
<1>2. Len(s) = Len(pre) + Len(p)
  OBVIOUS
<1>3. Len(pre) + Len(p) < Len(sent) /\ sent[Len(pre) + Len(p) + 1] = f[Len(p) + 1]
  BY <1>1, Inside
<1> QED
  BY <1>1, <1>2, <1>3

\* The separator that follows s.
LEMMA AtEnd ==
  ASSUME NEW s \in Seq(Bytes), NEW sep \in Seq(Bytes), sep # <<>>, NEW sent, Starts(s \o sep, sent)
  PROVE  Len(s) < Len(sent) /\ sent[Len(s) + 1] = sep[1]
<1> DEFINE zero == 0
<1>1. zero \in Nat /\ zero < Len(sep) /\ Len(s) \in Nat /\ zero = 0
  BY EmptySeq
<1> HIDE DEF zero
<1>2. Len(s) + zero < Len(sent) /\ sent[Len(s) + zero + 1] = sep[zero + 1]
  BY <1>1, Inside
<1> QED
  BY <1>1, <1>2

Protocol == <<"SP", "H", "T", "T", "P", "slash">>

\* The parts of a request, each with what follows it.
LEMMA EncodedParts ==
  ASSUME NEW r \in Request, NEW w \in Version
  PROVE  LET sent == Encode(r, w)
         IN  /\ Starts(r.method \o <<"SP">>, sent)
             /\ Starts(Target(r) \o Protocol, sent)
             /\ Starts(UpToMajor(r, w) \o <<"dot">>, sent)
             /\ Starts(UpToMinor(r, w) \o CRLF, sent)
             /\ Starts(UpToHeaders(r, w) \o CRLF, sent)
             /\ Starts(UpToHeaders(r, w) \o CRLF \o r.content, sent)
             /\ sent \in Seq(Bytes)
<1> DEFINE sent == Encode(r, w)
           dot == <<"dot">>
           space == <<"SP">>
<1>1. /\ Target(r) \in Seq(Bytes) /\ UpToMajor(r, w) \in Seq(Bytes)
      /\ UpToMinor(r, w) \in Seq(Bytes) /\ UpToHeaders(r, w) \in Seq(Bytes) /\ sent \in Seq(Bytes)
  BY WrittenTyped
<1>2. /\ r.method \in Seq(Bytes) /\ r.uri \in Seq(Bytes) /\ r.content \in Seq(Bytes)
      /\ w.major \in Seq(Bytes) /\ w.minor \in Seq(Bytes) /\ HeaderLines(r.headers) \in Seq(Bytes)
      /\ dot \in Seq(Bytes) /\ space \in Seq(Bytes) /\ CRLF \in Seq(Bytes) /\ Protocol \in Seq(Bytes)
  BY HeaderLinesTyped DEF Request, Version, Bytes, Tspecials, TokenChars, Digits, Controls, CRLF, Protocol
<1> DEFINE u1 == r.method \o space
           u2 == Target(r) \o Protocol
           u3 == UpToMajor(r, w) \o dot
           u4 == UpToMinor(r, w) \o CRLF
           u5 == UpToHeaders(r, w) \o CRLF
<1>3. /\ Target(r) = u1 \o r.uri /\ UpToMajor(r, w) = u2 \o w.major
      /\ UpToMinor(r, w) = u3 \o w.minor /\ UpToHeaders(r, w) = u4 \o HeaderLines(r.headers)
      /\ sent = u5 \o r.content
  BY DEF Target, UpToMajor, UpToMinor, UpToHeaders, Encode, Protocol
<1>4. u1 \in Seq(Bytes) /\ u2 \in Seq(Bytes) /\ u3 \in Seq(Bytes) /\ u4 \in Seq(Bytes) /\ u5 \in Seq(Bytes)
  BY <1>1, <1>2, Regrouped
<1>5. /\ u2 = Target(r) \o Protocol /\ u3 = UpToMajor(r, w) \o dot /\ u4 = UpToMinor(r, w) \o CRLF
      /\ u5 = UpToHeaders(r, w) \o CRLF
  OBVIOUS
<1> HIDE DEF sent, dot, space, u1, u2, u3, u4, u5
<1>6. Starts(u5 \o r.content, sent)
  <2> DEFINE none == <<>>
  <2>1. none \in Seq(Bytes) /\ sent = sent \o none
    BY <1>1, EmptySeq
  <2> HIDE DEF none
  <2> QED
    BY <1>3, <2>1 DEF Starts
<1>7. Starts(u5, sent)
  BY <1>2, <1>4, <1>6, StartsTogether
<1>8. Starts(u4, sent)
  <2>1. Starts(UpToHeaders(r, w), sent)
    BY <1>1, <1>2, <1>5, <1>7, StartsTogether
  <2> QED
    BY <2>1, <1>2, <1>3, <1>4, StartsTogether
<1>9. Starts(u3, sent)
  <2>1. Starts(UpToMinor(r, w), sent)
    BY <1>1, <1>2, <1>5, <1>8, StartsTogether
  <2> QED
    BY <2>1, <1>2, <1>3, <1>4, StartsTogether
<1>10. Starts(u2, sent)
  <2>1. Starts(UpToMajor(r, w), sent)
    BY <1>1, <1>2, <1>5, <1>9, StartsTogether
  <2> QED
    BY <2>1, <1>2, <1>3, <1>4, StartsTogether
<1>11. Starts(u1, sent)
  <2>1. Starts(Target(r), sent)
    BY <1>1, <1>2, <1>5, <1>10, StartsTogether
  <2> QED
    BY <2>1, <1>2, <1>3, <1>4, StartsTogether
<1> QED
  BY <1>1, <1>6, <1>7, <1>8, <1>9, <1>10, <1>11 DEF sent, dot, space, u1, u2, u3, u4, u5

OnWay(a, v, s, r, w) ==
  Known(a, v, s) /\ a.verdict = "none" /\ WellFormed(r, w) /\ PartOf(a, v, r, w)

Arrives(a, v, r, w) ==
  /\ a.verdict # "false"
  /\ a.verdict = "none" => PartOf(a, v, r, w)
  /\ a.verdict = "true" => a.req = r /\ v = w

\* The bytes s are not all of the request, and the byte that follows them is taken.
GoesOn(a, v, s, c, r, w) ==
  LET sent == Encode(r, w)
  IN  /\ Len(s) < Len(sent)
      /\ c = sent[Len(s) + 1] => Arrives(consume(a, c), Recorded(a, v, c), r, w)

LEMMA OnWayFields ==
  ASSUME NEW a, NEW v, NEW s, NEW r, NEW w, OnWay(a, v, s, r, w)
  PROVE  /\ Typed(a, v, s) /\ Numbers(a.req, v) /\ FieldsInOrder(a, v) /\ ReadSoFar(a, v, s)
         /\ InContent(a) /\ a.contentLength = DeclaredLength(a.req.headers)
         /\ r \in Request /\ w \in Version
         /\ r.method \in Seq(Bytes) /\ r.uri \in Seq(Bytes) /\ r.content \in Seq(Bytes)
         /\ r.headers \in Seq(Header) /\ w.major \in Seq(Digits) /\ w.minor \in Seq(Digits)
  BY DEF OnWay, Known, WellFormed, Request, Version

\* Through the method.
LEMMA MethodGoesOn ==
  ASSUME NEW a, NEW v, NEW s, NEW c \in Bytes, NEW r, NEW w, OnWay(a, v, s, r, w),
         a.state \in MethodStates
  PROVE  GoesOn(a, v, s, c, r, w)
<1> DEFINE sent == Encode(r, w)
           p == a.req.method
           f == r.method
<1>1. /\ Typed(a, v, s) /\ r \in Request /\ w \in Version /\ s = p /\ p \in Seq(Bytes)
      /\ f \in Seq(Bytes) /\ IsPrefix(p, f) /\ a.req.uri = <<>> /\ a.verdict = "none"
      /\ a.state = "method_start" => p = <<>>
      /\ f # <<>> /\ \A i \in 1 .. Len(f) : isToken(f[i])
  <2>1. /\ Typed(a, v, s) /\ r \in Request /\ w \in Version /\ p \in Seq(Bytes) /\ f \in Seq(Bytes)
    BY OnWayFields, AgentFields
  <2>2. s = p /\ a.req.uri = <<>> /\ (a.state = "method_start" => p = <<>>)
    BY OnWayFields DEF ReadSoFar, FieldsInOrder
  <2>3. IsPrefix(p, f) /\ a.verdict = "none"
    BY DEF OnWay, PartOf
  <2>4. f # <<>> /\ \A i \in 1 .. Len(f) : isToken(f[i])
    BY DEF OnWay, WellFormed
  <2> QED
    BY <2>1, <2>2, <2>3, <2>4
<1>2. a.state \notin MajorStates \cup MinorStates /\ a \in Agent /\ v \in Version
  BY <1>1, AgentFields DEF MethodStates, MajorStates, MinorStates
<1>3. Recorded(a, v, c) = v
  BY <1>2, RecordedIs
<1>4. Starts(f \o <<"SP">>, sent)
  BY <1>1, EncodedParts
<1> HIDE DEF sent, p, f
<1>5. CASE p = f
  <2>1. Len(s) < Len(sent) /\ sent[Len(s) + 1] = "SP"
    <3> DEFINE sep == <<"SP">>
    <3>1. sep \in Seq(Bytes) /\ sep # <<>> /\ sep[1] = "SP"
      BY DEF Bytes, Tspecials
    <3>2. Starts(f \o sep, sent)
      BY <1>4
    <3> HIDE DEF sep
    <3> QED
      BY <3>1, <3>2, <1>1, <1>5, AtEnd
  <2>2. ASSUME c = "SP" PROVE Arrives(consume(a, c), v, r, w)
    <3>1. consume(a, c) = To(a, "uri", a.req)
      <4>1. a.state = "method" /\ ~isToken("SP")
        BY <1>1, <1>5 DEF MethodStates, isToken, isTspecial, Tspecials
      <4> QED
        BY <4>1, <2>2, <1>2, MethodOutcomes
    <3> DEFINE b == To(a, "uri", a.req)
    <3>2. b.state = "uri" /\ b.req = a.req /\ b.verdict = "none"
      <4>1. a.req \in Request
        BY <1>1, AgentFields
      <4>2. "uri" \in States
        BY NamedStates
      <4> QED
        BY <4>1, <4>2, <1>1, <1>2, ToFields
    <3> HIDE DEF b
    <3>3. IsPrefix(<<>>, r.uri)
      BY OnWayFields, PrefixEmpty
    <3>4. PartOf(b, v, r, w)
      BY <3>2, <3>3, <1>1, <1>5, ContentStatesNamed DEF PartOf, MethodStates, MajorStates, MinorStates,
         BeforeProtocol, BeforeDot, BeforeMajor, BeforeMinor, HeaderStates, ContentNames, p, f
    <3> QED
      BY <3>1, <3>2, <3>4 DEF Arrives, b
  <2> QED
    BY <2>1, <2>2, <1>3 DEF GoesOn, sent
<1>6. CASE p # f
  <2>1. /\ Len(s) < Len(sent) /\ Len(p) < Len(f) /\ sent[Len(s) + 1] = f[Len(p) + 1]
        /\ IsPrefix(Append(p, sent[Len(s) + 1]), f)
    <3> DEFINE none == <<>>
    <3>1. none \in Seq(Bytes) /\ none \o f = f /\ s = none \o p
      BY <1>1
    <3>2. Starts(none \o f, sent)
      <4>1. f = f /\ <<"SP">> \in Seq(Bytes)
        BY DEF Bytes, Tspecials
      <4> QED
        BY <4>1, <3>1, <1>1, <1>4, StartsTogether
    <3> HIDE DEF none
    <3> QED
      BY <3>1, <3>2, <1>1, <1>6, InField
  <2>2. ASSUME c = sent[Len(s) + 1] PROVE Arrives(consume(a, c), v, r, w)
    <3> DEFINE q == [a.req EXCEPT !.method = Append(@, c)]
               b == To(a, "method", q)
    <3>1. consume(a, c) = b
      <4>1. isToken(c) /\ ~isToken("SP")
        <5>1. Len(p) + 1 \in 1 .. Len(f)
          BY <2>1, <1>1
        <5> QED
          BY <5>1, <2>1, <2>2, <1>1 DEF isToken, isTspecial, Tspecials
      <4> QED
        BY <4>1, <1>2, MethodOutcomes
    <3>2. q \in Request /\ q.method = Append(p, c)
      <4>1. a.req \in Request /\ Append(p, c) \in Seq(Bytes)
        BY <1>1, AgentFields
      <4> QED
        BY <4>1 DEF Request, p
    <3> HIDE DEF q
    <3>3. b.state = "method" /\ b.req = q /\ b.verdict = "none"
      <4>1. "method" \in States
        BY NamedStates
      <4> QED
        BY <4>1, <3>2, <1>1, <1>2, ToFields
    <3> HIDE DEF b
    <3>4. PartOf(b, v, r, w)
      BY <3>2, <3>3, <2>1, <2>2, ContentStatesNamed DEF PartOf, MethodStates, MajorStates, MinorStates,
         BeforeProtocol, BeforeDot, BeforeMajor, BeforeMinor, HeaderStates, ContentNames, f
    <3> QED
      BY <3>1, <3>3, <3>4 DEF Arrives
  <2> QED
    BY <2>1, <2>2, <1>3 DEF GoesOn, sent
<1> QED
  BY <1>5, <1>6
\* After the bytes s comes c.
Follows(s, sent, c) == Len(s) < Len(sent) /\ sent[Len(s) + 1] = c

LEMMA Within ==
  ASSUME NEW pre \in Seq(Bytes), NEW f \in Seq(Bytes), NEW sent, Starts(pre \o f, sent),
         NEW n \in Nat, n < Len(f), NEW s, Len(s) = Len(pre) + n
  PROVE  Follows(s, sent, f[n + 1])
<1>1. Len(pre) + n < Len(sent) /\ sent[Len(pre) + n + 1] = f[n + 1]
  BY Inside
<1> QED
  BY <1>1 DEF Follows

\* The bytes sent start with pre, the field f and the separator sep.
Lies(pre, f, sep, sent) == Starts((pre \o f) \o sep, sent)

\* The byte that follows the part p of the field.
Following(p, f, sep) == IF p = f THEN sep[1] ELSE f[Len(p) + 1]

LEMMA Through ==
  ASSUME NEW pre \in Seq(Bytes), NEW f \in Seq(Bytes), NEW sep \in Seq(Bytes), sep # <<>>,
         NEW sent, Lies(pre, f, sep, sent), NEW p \in Seq(Bytes), IsPrefix(p, f),
         NEW s, s = pre \o p
  PROVE  Follows(s, sent, Following(p, f, sep))
<1>1. CASE p = f
  <2>1. s \in Seq(Bytes) /\ Starts(s \o sep, sent)
    BY <1>1 DEF Lies
  <2> QED
    BY <1>1, <2>1, AtEnd DEF Following, Follows
<1>2. CASE p # f
  <2> DEFINE u == pre \o f
  <2>1. u \in Seq(Bytes) /\ Starts(u \o sep, sent) /\ u = pre \o f
    BY DEF Lies
  <2> HIDE DEF u
  <2>2. Starts(u, sent)
    BY <2>1, StartsTogether
  <2>3. Starts(pre \o f, sent)
    BY <2>1, <2>2
  <2>4. Len(p) < Len(f) /\ IsPrefix(Append(p, f[Len(p) + 1]), f) /\ Len(p) \in Nat
    BY <1>2, PrefixGrows
  <2>5. Len(pre) + Len(p) < Len(sent) /\ sent[Len(pre) + Len(p) + 1] = f[Len(p) + 1]
    BY <2>3, <2>4, Inside
  <2>6. Len(s) = Len(pre) + Len(p)
    OBVIOUS
  <2> QED
    BY <1>2, <2>5, <2>6 DEF Following, Follows
<1> QED
  BY <1>1, <1>2

\* The part with one more byte of the field.
LEMMA PartGrows ==
  ASSUME NEW f \in Seq(Bytes), NEW p \in Seq(Bytes), IsPrefix(p, f), p # f
  PROVE  /\ Len(p) + 1 \in 1 .. Len(f) /\ f[Len(p) + 1] \in Bytes
         /\ IsPrefix(Append(p, f[Len(p) + 1]), f)
  BY PrefixGrows

LEMMA Separators ==
  /\ <<"SP">> \in Seq(Bytes) /\ <<"SP">> # <<>> /\ <<"SP">>[1] = "SP"
  /\ <<"dot">> \in Seq(Bytes) /\ <<"dot">> # <<>> /\ <<"dot">>[1] = "dot"
  /\ CRLF \in Seq(Bytes) /\ CRLF # <<>> /\ CRLF[1] = "CR" /\ Len(CRLF) = 2 /\ CRLF[2] = "LF"
  /\ Protocol \in Seq(Bytes) /\ Protocol # <<>> /\ Protocol[1] = "SP" /\ Len(Protocol) = 6
  BY DEF Bytes, Tspecials, TokenChars, Controls, CRLF, Protocol

\* Through the URI.
LEMMA URIGoesOn ==
  ASSUME NEW a, NEW v, NEW s, NEW c \in Bytes, NEW r, NEW w, OnWay(a, v, s, r, w),
         a.state = "uri"
  PROVE  GoesOn(a, v, s, c, r, w)
<1> DEFINE sent == Encode(r, w)
           p == a.req.uri
           f == r.uri
           pre == r.method \o <<"SP">>
<1>1. /\ Typed(a, v, s) /\ a \in Agent /\ v \in Version /\ a.req \in Request /\ r \in Request
      /\ w \in Version /\ p \in Seq(Bytes) /\ f \in Seq(Bytes) /\ r.method \in Seq(Bytes)
  BY OnWayFields, AgentFields
<1>2. IsPrefix(p, f) /\ a.req.method = r.method /\ a.verdict = "none"
  BY DEF OnWay, PartOf, MethodStates
<1>3. \A i \in 1 .. Len(f) : ~isCtl(f[i]) /\ f[i] # "SP"
  BY DEF OnWay, WellFormed
<1>4. pre \in Seq(Bytes) /\ s = pre \o p
  <2>1. s = Target(a.req)
    BY OnWayFields DEF ReadSoFar
  <2>2. <<"SP">> \in Seq(Bytes)
    BY Separators
  <2> QED
    BY <2>1, <2>2, <1>1, <1>2 DEF Target
<1>5. Lies(pre, f, Protocol, sent)
  BY <1>1, EncodedParts DEF Target, Lies
<1>6. Recorded(a, v, c) = v
  BY <1>1, RecordedIs DEF MajorStates, MinorStates
<1> HIDE DEF sent, p, f, pre
<1>7. Follows(s, sent, Following(p, f, Protocol))
  <2>1. Protocol \in Seq(Bytes) /\ Protocol # <<>>
    BY Separators
  <2> QED
    BY <2>1, <1>1, <1>2, <1>4, <1>5, Through
<1>8. CASE p = f /\ c = Following(p, f, Protocol)
  <2> DEFINE b == To(a, "http_version_h", a.req)
  <2>1. consume(a, c) = b
    <3>1. c = "SP"
      BY <1>8, Separators DEF Following
    <3> QED
      BY <3>1, <1>1, URIOutcomes DEF isCtl, Controls
  <2>2. b.state = "http_version_h" /\ b.req = a.req /\ b.verdict = "none"
    <3>1. "http_version_h" \in States
      BY NamedStates
    <3> QED
      BY <3>1, <1>1, <1>2, ToFields
  <2> HIDE DEF b
  <2>3. PartOf(b, v, r, w)
    BY <2>2, <1>2, <1>8, ContentStatesNamed DEF PartOf, MethodStates, ProtocolStates, MajorStates,
       MinorStates, BeforeProtocol, BeforeDot, BeforeMajor, BeforeMinor, HeaderStates, ContentNames,
       p, f
  <2> QED
    BY <2>1, <2>2, <2>3, <1>6, <1>7 DEF Arrives, GoesOn, Follows, sent
<1>9. CASE p # f /\ c = Following(p, f, Protocol)
  <2> DEFINE q == [a.req EXCEPT !.uri = Append(@, c)]
             b == To(a, "uri", q)
  <2>1. consume(a, c) = b
    <3>1. c # "SP" /\ ~isCtl(c)
      BY <1>1, <1>2, <1>3, <1>9, PartGrows DEF Following
    <3> QED
      BY <3>1, <1>1, URIOutcomes
  <2>2. q \in Request /\ q.uri = Append(p, c) /\ q.method = r.method
    <3>1. Append(p, c) \in Seq(Bytes)
      BY <1>1
    <3> QED
      BY <3>1, <1>1, <1>2 DEF Request, p
  <2> HIDE DEF q
  <2>3. b.state = "uri" /\ b.req = q /\ b.verdict = "none"
    <3>1. "uri" \in States
      BY NamedStates
    <3> QED
      BY <3>1, <2>2, <1>1, <1>2, ToFields
  <2> HIDE DEF b
  <2>4. IsPrefix(Append(p, c), f)
    BY <1>1, <1>2, <1>9, PartGrows DEF Following
  <2>5. PartOf(b, v, r, w)
    BY <2>2, <2>3, <2>4, ContentStatesNamed DEF PartOf, MethodStates, MajorStates,
       MinorStates, BeforeProtocol, BeforeDot, BeforeMajor, BeforeMinor, HeaderStates, ContentNames,
       f
  <2> QED
    BY <2>1, <2>3, <2>5, <1>6, <1>7 DEF Arrives, GoesOn, Follows, sent
<1> QED
  BY <1>7, <1>8, <1>9 DEF GoesOn, Follows, sent
\* Through the protocol.
LEMMA ProtocolGoesOn ==
  ASSUME NEW a, NEW v, NEW s, NEW c \in Bytes, NEW r, NEW w, OnWay(a, v, s, r, w),
         a.state \in ProtocolStates
  PROVE  GoesOn(a, v, s, c, r, w)
<1> DEFINE sent == Encode(r, w)
           pre == Target(r)
           x == Expected[a.state][1]
           state == Expected[a.state][2]
<1>1. /\ a \in Agent /\ v \in Version /\ a.req \in Request /\ r \in Request /\ w \in Version
      /\ w.major \in Seq(Digits)
  BY OnWayFields, AgentFields
<1>2. /\ a.req.method = r.method /\ a.req.uri = r.uri /\ a.verdict = "none"
      /\ v.major = <<>>
  <2>1. v.major = <<>>
    BY OnWayFields DEF FieldsInOrder, BeforeMajor
  <2> QED
    BY <2>1 DEF OnWay, PartOf, MethodStates, ProtocolStates, BeforeProtocol
<1>3. pre \in Seq(Bytes) /\ Target(a.req) = pre /\ Len(pre) \in Nat
  <2>1. Target(a.req) = pre
    BY <1>2 DEF Target
  <2>2. Target(r) \in Seq(Bytes)
    BY <1>1, WrittenTyped
  <2> QED
    BY <2>1, <2>2
<1>4. PICK n \in 1 .. 5 : Len(s) = Len(pre) + n /\ Protocol[n + 1] = x
  <2> HIDE DEF pre
  <2>1. CASE a.state = "http_version_h"
    <3>1. s = pre \o <<"SP">>
      BY <2>1, <1>3, OnWayFields DEF ReadSoFar
    <3>2. Len(s) = Len(pre) + 1 /\ Protocol[2] = "H"
      BY <3>1, <1>3 DEF Protocol
    <3> QED
      BY <3>2, <2>1, ExpectedBytes
  <2>2. CASE a.state = "http_version_t_1"
    <3>1. s = pre \o <<"SP", "H">>
      BY <2>2, <1>3, OnWayFields DEF ReadSoFar
    <3>2. Len(s) = Len(pre) + 2 /\ Protocol[3] = "T"
      BY <3>1, <1>3 DEF Protocol
    <3> QED
      BY <3>2, <2>2, ExpectedBytes
  <2>3. CASE a.state = "http_version_t_2"
    <3>1. s = pre \o <<"SP", "H", "T">>
      BY <2>3, <1>3, OnWayFields DEF ReadSoFar
    <3>2. Len(s) = Len(pre) + 3 /\ Protocol[4] = "T"
      BY <3>1, <1>3 DEF Protocol
    <3> QED
      BY <3>2, <2>3, ExpectedBytes
  <2>4. CASE a.state = "http_version_p"
    <3>1. s = pre \o <<"SP", "H", "T", "T">>
      BY <2>4, <1>3, OnWayFields DEF ReadSoFar
    <3>2. Len(s) = Len(pre) + 4 /\ Protocol[5] = "P"
      BY <3>1, <1>3 DEF Protocol
    <3> QED
      BY <3>2, <2>4, ExpectedBytes
  <2>5. CASE a.state = "http_version_slash"
    <3>1. s = pre \o <<"SP", "H", "T", "T", "P">>
      BY <2>5, <1>3, OnWayFields DEF ReadSoFar
    <3>2. Len(s) = Len(pre) + 5 /\ Protocol[6] = "slash"
      BY <3>1, <1>3 DEF Protocol
    <3> QED
      BY <3>2, <2>5, ExpectedBytes
  <2> QED
    BY <2>1, <2>2, <2>3, <2>4, <2>5 DEF ProtocolStates
<1>5. Starts(pre \o Protocol, sent)
  BY <1>1, EncodedParts
<1>6. Recorded(a, v, c) = v
  BY <1>1, RecordedIs DEF MajorStates, MinorStates, ProtocolStates
<1>7. state \in ProtocolStates \cup {"http_version_major_start"} /\ a.state \in DOMAIN Expected
  BY ExpectedBytes, ExpectedStates DEF ProtocolStates
<1> HIDE DEF sent, pre, x, state
<1>8. Follows(s, sent, x)
  <2>1. Protocol \in Seq(Bytes) /\ Len(Protocol) = 6
    BY Separators
  <2>2. n \in Nat /\ n < Len(Protocol)
    BY <2>1
  <2>3. Follows(s, sent, Protocol[n + 1])
    BY <1>3, <1>4, <1>5, <2>1, <2>2, Within
  <2> QED
    BY <2>3, <1>4
<1>9. CASE c = x
  <2> DEFINE b == To(a, state, a.req)
  <2>1. consume(a, c) = b
    BY <1>1, <1>7, <1>9, ExpectedOutcomes DEF x, state
  <2>2. b.state = state /\ b.req = a.req /\ b.verdict = "none"
    <3>1. state \in States
      BY <1>7 DEF States, MajorStates
    <3> QED
      BY <3>1, <1>1, <1>2, ToFields
  <2> HIDE DEF b
  <2>3. IsPrefix(v.major, w.major)
    BY <1>1, <1>2, PrefixEmpty
  <2>4. PartOf(b, v, r, w)
    BY <2>2, <2>3, <1>2, <1>7, ContentStatesNamed DEF PartOf, MethodStates, ProtocolStates, MajorStates,
       MinorStates, BeforeProtocol, BeforeDot, BeforeMajor, BeforeMinor, HeaderStates, ContentNames
  <2> QED
    BY <2>1, <2>2, <2>4, <1>6, <1>8 DEF Arrives, GoesOn, Follows, sent
<1> QED
  BY <1>8, <1>9 DEF GoesOn, Follows, sent

LEMMA DigitsAreBytes ==
  \A ds \in Seq(Digits) : ds \in Seq(Bytes)
  BY DEF Bytes, TokenChars

\* Through the number before the dot.
LEMMA MajorGoesOn ==
  ASSUME NEW a, NEW v, NEW s, NEW c \in Bytes, NEW r, NEW w, OnWay(a, v, s, r, w),
         a.state \in MajorStates
  PROVE  GoesOn(a, v, s, c, r, w)
<1> DEFINE sent == Encode(r, w)
           dot == <<"dot">>
           p == v.major
           f == w.major
           pre == Target(r) \o Protocol
<1>1. /\ a \in Agent /\ v \in Version /\ a.req \in Request /\ r \in Request
      /\ w \in Version /\ p \in Seq(Digits) /\ f \in Seq(Digits) /\ p \in Seq(Bytes) /\ f \in Seq(Bytes)
  BY OnWayFields, AgentFields, DigitsAreBytes
<1>2. /\ IsPrefix(p, f) /\ a.req.method = r.method /\ a.req.uri = r.uri /\ a.verdict = "none"
  BY DEF OnWay, PartOf, MethodStates, MajorStates, BeforeProtocol
<1>3. f # <<>>
  BY DEF OnWay, WellFormed
<1>4. a.state = "http_version_major_start" => p = <<>>
  BY OnWayFields DEF FieldsInOrder, BeforeMajor
<1>5. pre \in Seq(Bytes) /\ s = pre \o p
  <2>1. s = UpToMajor(a.req, v)
    BY OnWayFields DEF ReadSoFar
  <2>2. Target(a.req) = Target(r) /\ Target(r) \in Seq(Bytes) /\ Protocol \in Seq(Bytes)
    BY <1>1, <1>2, WrittenTyped, Separators DEF Target
  <2> QED
    BY <2>1, <2>2, <1>1 DEF UpToMajor, Protocol
<1>6. Lies(pre, f, dot, sent)
  <2>1. Starts(UpToMajor(r, w) \o dot, sent)
    BY <1>1, EncodedParts
  <2>2. UpToMajor(r, w) = pre \o f
    BY DEF UpToMajor, Protocol
  <2> QED
    BY <2>1, <2>2 DEF Lies
<1>7. dot \in Seq(Bytes) /\ dot # <<>> /\ dot[1] = "dot"
  BY Separators
<1> HIDE DEF sent, p, f, pre, dot
<1>8. Follows(s, sent, Following(p, f, dot))
  BY <1>1, <1>2, <1>5, <1>6, <1>7, Through
<1>9. CASE p = f /\ c = Following(p, f, dot)
  <2> DEFINE b == To(a, "http_version_minor_start", a.req)
  <2>1. c = "dot" /\ ~isDigit(c) /\ a.state = "http_version_major"
    BY <1>3, <1>4, <1>7, <1>9 DEF Following, isDigit, Digits, MajorStates
  <2>2. consume(a, c) = b /\ Recorded(a, v, c) = v
    BY <2>1, <1>1, MajorOutcomes, RecordedIs, ZenonT(60)
  <2>3. b.state = "http_version_minor_start" /\ b.req = a.req /\ b.verdict = "none"
    <3>1. "http_version_minor_start" \in States
      BY NamedStates
    <3> QED
      BY <3>1, <1>1, <1>2, ToFields
  <2> HIDE DEF b
  <2>4. IsPrefix(v.minor, w.minor)
    <3>1. v.minor = <<>>
      BY <2>1, OnWayFields DEF FieldsInOrder, BeforeMinor, BeforeDot
    <3> QED
      BY <3>1, OnWayFields, PrefixEmpty
  <2>5. PartOf(b, v, r, w)
    BY <2>3, <2>4, <1>2, <1>9, ContentStatesNamed DEF PartOf, MethodStates, ProtocolStates, MajorStates,
       MinorStates, BeforeProtocol, BeforeDot, BeforeMajor, BeforeMinor, HeaderStates, ContentNames,
       p, f
  <2> QED
    BY <2>2, <2>3, <2>5, <1>8, <1>9 DEF Arrives, GoesOn, Follows, sent
<1>10. CASE p # f /\ c = Following(p, f, dot)
  <2> DEFINE q == [a.req EXCEPT !.major = 10 * a.req.major + Numeral(c)]
             b == To(a, "http_version_major", q)
             u == [v EXCEPT !.major = Append(@, c)]
  <2>1. isDigit(c) /\ IsPrefix(Append(p, c), f)
    BY <1>1, <1>2, <1>10, PartGrows DEF Following, isDigit
  <2>2. consume(a, c) = b
    BY <2>1, <1>1, MajorOutcomes DEF isDigit, Digits
  <2>3. Recorded(a, v, c) = u /\ u.major = Append(p, c) /\ u.minor = v.minor
    <3>1. u.major = Append(p, c) /\ u.minor = v.minor
      BY <1>1 DEF Version, p
    <3> QED
      BY <3>1, <2>1, <1>1, RecordedIs
  <2>4. q \in Request /\ q.uri = r.uri /\ q.method = r.method
    <3>1. 10 * a.req.major + Numeral(c) \in Nat
      <4>1. a.req.major \in Nat
        BY <1>1 DEF Request
      <4>2. Numeral(c) \in Nat
        BY DEF Numeral
      <4> QED
        BY <4>1, <4>2
    <3> QED
      BY <3>1, <1>1, <1>2 DEF Request
  <2> HIDE DEF q, u
  <2>5. b.state = "http_version_major" /\ b.req = q /\ b.verdict = "none"
    <3>1. "http_version_major" \in States
      BY NamedStates
    <3> QED
      BY <3>1, <2>4, <1>1, <1>2, ToFields
  <2> HIDE DEF b
  <2>6. PartOf(b, u, r, w)
    BY <2>1, <2>3, <2>4, <2>5, ContentStatesNamed DEF PartOf, MethodStates, MajorStates,
       MinorStates, BeforeProtocol, BeforeDot, BeforeMajor, BeforeMinor, HeaderStates, ContentNames,
       f
  <2> QED
    BY <2>2, <2>3, <2>5, <2>6, <1>8, <1>10 DEF Arrives, GoesOn, Follows, sent
<1> QED
  BY <1>8, <1>9, <1>10 DEF GoesOn, Follows, sent
\* Through the number after the dot.
LEMMA MinorGoesOn ==
  ASSUME NEW a, NEW v, NEW s, NEW c \in Bytes, NEW r, NEW w, OnWay(a, v, s, r, w),
         a.state \in MinorStates
  PROVE  GoesOn(a, v, s, c, r, w)
<1> DEFINE sent == Encode(r, w)
           p == v.minor
           f == w.minor
           pre == UpToMajor(r, w) \o <<"dot">>
<1>1. /\ a \in Agent /\ v \in Version /\ a.req \in Request /\ r \in Request
      /\ w \in Version /\ p \in Seq(Digits) /\ f \in Seq(Digits) /\ p \in Seq(Bytes) /\ f \in Seq(Bytes)
  BY OnWayFields, AgentFields, DigitsAreBytes
<1>2. /\ IsPrefix(p, f) /\ a.req.method = r.method /\ a.req.uri = r.uri /\ a.verdict = "none"
      /\ v.major = w.major
  BY DEF OnWay, PartOf, MethodStates, ProtocolStates, MajorStates, MinorStates, BeforeProtocol,
     BeforeMajor, BeforeDot
<1>3. f # <<>>
  BY DEF OnWay, WellFormed
<1>4. a.state = "http_version_minor_start" => p = <<>>
  BY OnWayFields DEF FieldsInOrder, BeforeMinor
<1>5. pre \in Seq(Bytes) /\ s = pre \o p
  <2>1. s = UpToMinor(a.req, v)
    BY OnWayFields DEF ReadSoFar
  <2>2. UpToMajor(a.req, v) = UpToMajor(r, w)
    BY <1>2 DEF UpToMajor, Target
  <2>3. UpToMajor(r, w) \in Seq(Bytes)
    BY <1>1, WrittenTyped
  <2>4. <<"dot">> \in Seq(Bytes)
    BY Separators
  <2> QED
    BY <2>1, <2>2, <2>3, <2>4 DEF UpToMinor
<1>6. Lies(pre, f, CRLF, sent)
  <2>1. Starts(UpToMinor(r, w) \o CRLF, sent)
    BY <1>1, EncodedParts
  <2>2. UpToMinor(r, w) = pre \o f
    BY DEF UpToMinor
  <2> QED
    BY <2>1, <2>2 DEF Lies
<1>7. CRLF \in Seq(Bytes) /\ CRLF # <<>> /\ CRLF[1] = "CR"
  BY Separators
<1> HIDE DEF sent, p, f, pre
<1>8. Follows(s, sent, Following(p, f, CRLF))
  BY <1>1, <1>2, <1>5, <1>6, <1>7, Through
<1>9. CASE p = f /\ c = Following(p, f, CRLF)
  <2> DEFINE b == To(a, "expecting_newline_1", a.req)
  <2>1. c = "CR" /\ ~isDigit(c) /\ a.state = "http_version_minor"
    BY <1>3, <1>4, <1>7, <1>9 DEF Following, isDigit, Digits, MinorStates
  <2>2. consume(a, c) = b /\ Recorded(a, v, c) = v
    BY <2>1, <1>1, MinorOutcomes, RecordedIs, ZenonT(60)
  <2>3. b.state = "expecting_newline_1" /\ b.req = a.req /\ b.verdict = "none"
    <3>1. "expecting_newline_1" \in States
      BY NamedStates
    <3> QED
      BY <3>1, <1>1, <1>2, ToFields
  <2> HIDE DEF b
  <2>4. PartOf(b, v, r, w)
    BY <2>3, <1>2, <1>9, ContentStatesNamed DEF PartOf, MethodStates, ProtocolStates, MajorStates,
       MinorStates, BeforeProtocol, BeforeDot, BeforeMajor, BeforeMinor, HeaderStates, ContentNames,
       p, f
  <2> QED
    BY <2>2, <2>3, <2>4, <1>8, <1>9 DEF Arrives, GoesOn, Follows, sent
<1>10. CASE p # f /\ c = Following(p, f, CRLF)
  <2> DEFINE q == [a.req EXCEPT !.minor = 10 * a.req.minor + Numeral(c)]
             b == To(a, "http_version_minor", q)
             u == [v EXCEPT !.minor = Append(@, c)]
  <2>1. isDigit(c) /\ IsPrefix(Append(p, c), f)
    BY <1>1, <1>2, <1>10, PartGrows DEF Following, isDigit
  <2>2. consume(a, c) = b
    BY <2>1, <1>1, MinorOutcomes DEF isDigit, Digits
  <2>3. Recorded(a, v, c) = u /\ u.minor = Append(p, c) /\ u.major = v.major
    <3>1. u.minor = Append(p, c) /\ u.major = v.major
      BY <1>1 DEF Version, p
    <3> QED
      BY <3>1, <2>1, <1>1, RecordedIs
  <2>4. q \in Request /\ q.uri = r.uri /\ q.method = r.method
    <3>1. 10 * a.req.minor + Numeral(c) \in Nat
      <4>1. a.req.minor \in Nat
        BY <1>1 DEF Request
      <4>2. Numeral(c) \in Nat
        BY DEF Numeral
      <4> QED
        BY <4>1, <4>2
    <3> QED
      BY <3>1, <1>1, <1>2 DEF Request
  <2> HIDE DEF q, u
  <2>5. b.state = "http_version_minor" /\ b.req = q /\ b.verdict = "none"
    <3>1. "http_version_minor" \in States
      BY NamedStates
    <3> QED
      BY <3>1, <2>4, <1>1, <1>2, ToFields
  <2> HIDE DEF b
  <2>6. PartOf(b, u, r, w)
    BY <2>1, <2>3, <2>4, <2>5, <1>2, ContentStatesNamed DEF PartOf, MethodStates, MajorStates,
       MinorStates, BeforeProtocol, BeforeDot, BeforeMajor, BeforeMinor, HeaderStates, ContentNames,
       f
  <2> QED
    BY <2>2, <2>3, <2>5, <2>6, <1>8, <1>10 DEF Arrives, GoesOn, Follows, sent
<1> QED
  BY <1>8, <1>9, <1>10 DEF GoesOn, Follows, sent

\* After the version, what is read so far is what the request has so far.
LEMMA VersionRead ==
  ASSUME NEW a, NEW v, NEW s, NEW r, NEW w, OnWay(a, v, s, r, w), a.state \notin BeforeHeaders
  PROVE  /\ a.req.method = r.method /\ a.req.uri = r.uri /\ v.major = w.major /\ v.minor = w.minor
         /\ v = w /\ a.req.major = r.major /\ a.req.minor = r.minor
         /\ UpToMinor(a.req, v) = UpToMinor(r, w)
<1>1. /\ a.req.method = r.method /\ a.req.uri = r.uri /\ v.major = w.major /\ v.minor = w.minor
  BY DEF OnWay, PartOf, MethodStates, ProtocolStates, MajorStates, MinorStates, BeforeProtocol,
     BeforeMajor, BeforeDot, BeforeMinor, BeforeHeaders
<1>2. v = w
  <2>1. v \in Version /\ w \in Version
    BY OnWayFields, AgentFields
  <2> QED
    BY <1>1, <2>1 DEF Version
<1>3. a.req.major = r.major /\ a.req.minor = r.minor
  BY <1>2, OnWayFields DEF OnWay, WellFormed, Numbers
<1> QED
  BY <1>1, <1>2, <1>3 DEF UpToMinor, UpToMajor, Target

\* The end of the first line.
LEMMA NewlineGoesOn ==
  ASSUME NEW a, NEW v, NEW s, NEW c \in Bytes, NEW r, NEW w, OnWay(a, v, s, r, w),
         a.state = "expecting_newline_1"
  PROVE  GoesOn(a, v, s, c, r, w)
<1> DEFINE sent == Encode(r, w)
           pre == UpToMinor(r, w)
<1>1. /\ a \in Agent /\ v \in Version /\ a.req \in Request /\ r \in Request /\ w \in Version
  BY OnWayFields, AgentFields
<1>2. /\ a.req.method = r.method /\ a.req.uri = r.uri /\ v.major = w.major /\ v.minor = w.minor
      /\ UpToMinor(a.req, v) = pre /\ a.verdict = "none"
  <2>1. /\ a.req.method = r.method /\ a.req.uri = r.uri /\ v.major = w.major /\ v.minor = w.minor
        /\ a.verdict = "none"
    BY DEF OnWay, PartOf, MethodStates, ProtocolStates, MajorStates, MinorStates, BeforeProtocol,
       BeforeMajor, BeforeDot, BeforeMinor, BeforeHeaders
  <2> QED
    BY <2>1 DEF UpToMinor, UpToMajor, Target
<1>3. a.req.headers = <<>>
  BY OnWayFields DEF FieldsInOrder, BeforeHeaders
<1>4. pre \in Seq(Bytes) /\ s = pre \o <<"CR">>
  <2>1. pre \in Seq(Bytes)
    BY <1>1, WrittenTyped
  <2> QED
    BY <2>1, <1>2, OnWayFields DEF ReadSoFar
<1>5. Starts(pre \o CRLF, sent)
  BY <1>1, EncodedParts
<1>6. Recorded(a, v, c) = v
  BY <1>1, RecordedIs DEF MajorStates, MinorStates
<1> HIDE DEF sent, pre
<1>7. Follows(s, sent, "LF")
  <2>1. CRLF \in Seq(Bytes) /\ Len(CRLF) = 2 /\ CRLF[2] = "LF"
    BY Separators
  <2> DEFINE n == 1
  <2>2. n \in Nat /\ n < Len(CRLF) /\ n + 1 = 2 /\ Len(s) = Len(pre) + n
    BY <1>4, <2>1
  <2> HIDE DEF n
  <2>3. Follows(s, sent, CRLF[n + 1])
    BY <1>4, <1>5, <2>1, <2>2, Within
  <2> QED
    BY <2>1, <2>2, <2>3
<1>8. CASE c = "LF"
  <2> DEFINE b == To(a, "header_line_start", a.req)
  <2>1. consume(a, c) = b
    BY <1>1, <1>8, ExpectedOutcomes, ExpectedStates, ExpectedBytes
  <2>2. b.state = "header_line_start" /\ b.req = a.req /\ b.verdict = "none"
    <3>1. "header_line_start" \in States
      BY NamedStates
    <3> QED
      BY <3>1, <1>1, <1>2, ToFields
  <2> HIDE DEF b
  <2>3. IsPrefix(a.req.headers, r.headers)
    BY <1>3, OnWayFields, PrefixEmpty
  <2>4. PartOf(b, v, r, w)
    BY <2>2, <2>3, <1>2, ContentStatesNamed DEF PartOf, MethodStates, ProtocolStates, MajorStates,
       MinorStates, BeforeProtocol, BeforeDot, BeforeMajor, BeforeMinor, HeaderStates, ContentNames
  <2> QED
    BY <2>1, <2>2, <2>4, <1>6, <1>7 DEF Arrives, GoesOn, Follows, sent
<1> QED
  BY <1>7, <1>8 DEF GoesOn, Follows, sent
-----------------------------------------------------------------------------
(* Through the headers. *)

Colon == <<"colon">>
ColonSpace == <<"colon", "SP">>

\* The line of a header, after the bytes u.
LEMMA LineParts ==
  ASSUME NEW u \in Seq(Bytes), NEW h \in Header, NEW sent, Starts(u \o HeaderLine(h), sent)
  PROVE  /\ Lies(u, h[1], Colon, sent) /\ Starts((u \o h[1]) \o ColonSpace, sent)
         /\ Lies((u \o h[1]) \o ColonSpace, h[2], CRLF, sent)
         /\ u \o h[1] \in Seq(Bytes) /\ (u \o h[1]) \o ColonSpace \in Seq(Bytes)
<1> DEFINE n == h[1]
           l == h[2]
           sp == <<"SP">>
           un == u \o n
           unc == un \o ColonSpace
           uncl == unc \o l
<1>1. n \in Seq(Bytes) /\ l \in Seq(Bytes) /\ h = <<n, l>>
  BY DEF Header
<1>2. /\ Colon \in Seq(Bytes) /\ ColonSpace \in Seq(Bytes) /\ sp \in Seq(Bytes) /\ CRLF \in Seq(Bytes)
      /\ ColonSpace = Colon \o sp
  BY Separators DEF Colon, ColonSpace, Bytes, Tspecials
<1>3. HeaderLine(h) = ((n \o ColonSpace) \o l) \o CRLF
  BY DEF HeaderLine, ColonSpace
<1> HIDE DEF n, l, sp
<1>4. un \in Seq(Bytes) /\ unc \in Seq(Bytes) /\ uncl \in Seq(Bytes)
  BY <1>1, <1>2
<1>5. u \o HeaderLine(h) = uncl \o CRLF
  <2>1. u \o ((n \o ColonSpace) \o l) = uncl
    <3> DEFINE nc == n \o ColonSpace
    <3>1. u \o nc = unc
      BY <1>1, <1>2, Regrouped, ZenonT(60)
    <3>2. nc \in Seq(Bytes)
      BY <1>1, <1>2
    <3> HIDE DEF nc, unc
    <3>3. u \o (nc \o l) = (u \o nc) \o l
      BY <3>2, <1>1, Regrouped, ZenonT(60)
    <3> QED
      BY <3>1, <3>3 DEF nc
  <2> DEFINE ncl == (n \o ColonSpace) \o l
  <2>2. ncl \in Seq(Bytes)
    BY <1>1, <1>2
  <2> HIDE DEF ncl, uncl
  <2>3. u \o (ncl \o CRLF) = (u \o ncl) \o CRLF
    BY <2>2, <1>2, SMTT(40)
  <2> QED
    BY <2>1, <2>3, <1>3 DEF ncl
<1> HIDE DEF un, unc, uncl
<1>6. Starts(uncl \o CRLF, sent) /\ uncl = unc \o l /\ unc = un \o ColonSpace /\ un = u \o n
  BY <1>5 DEF un, unc, uncl
<1>7. Starts(unc, sent)
  <2>1. Starts(uncl, sent)
    BY <1>2, <1>4, <1>6, StartsTogether
  <2> QED
    BY <2>1, <1>1, <1>4, <1>6, StartsTogether
<1>8. Starts(un \o Colon, sent)
  <2>1. un \o Colon \in Seq(Bytes)
    BY <1>2, <1>4
  <2>2. unc = (un \o Colon) \o sp
    <3>1. un \o (Colon \o sp) = (un \o Colon) \o sp
      <4>1. un \in Seq(Bytes) /\ Colon \in Seq(Bytes) /\ sp \in Seq(Bytes)
        BY <1>2, <1>4
      <4> QED
        BY <4>1, Associative, ZenonT(60)
    <3> QED
      BY <3>1, <1>2, <1>6
  <2> DEFINE unk == un \o Colon
  <2> HIDE DEF unk
  <2>3. unk \in Seq(Bytes) /\ unc = unk \o sp
    BY <2>1, <2>2 DEF unk
  <2>4. Starts(unk, sent)
    BY <2>3, <1>2, <1>7, StartsTogether
  <2> QED
    BY <2>4 DEF unk
<1> QED
  BY <1>4, <1>6, <1>7, <1>8 DEF Lies, n, l, un, unc

\* Where the agent is among the headers of the request.
LEMMA AmongHeaders ==
  ASSUME NEW a, NEW v, NEW s, NEW r, NEW w, OnWay(a, v, s, r, w), a.state \in HeaderStates
  PROVE  LET k == Len(a.req.headers)
             u == UpToHeaders(a.req, v)
         IN  /\ k \in Nat /\ u \in Seq(Bytes) /\ IsPrefix(a.req.headers, r.headers)
             /\ k < Len(r.headers) =>
                  r.headers[k + 1] \in Header
                  /\ Starts(u \o HeaderLine(r.headers[k + 1]), Encode(r, w))
             /\ ~(k < Len(r.headers)) => a.req.headers = r.headers /\ u = UpToHeaders(r, w)
<1> DEFINE k == Len(a.req.headers)
           u == UpToHeaders(a.req, v)
           hs == r.headers
           m == UpToMinor(r, w) \o CRLF
<1>1. /\ a.req \in Request /\ r \in Request /\ w \in Version /\ v \in Version
      /\ a.req.headers \in Seq(Header) /\ hs \in Seq(Header)
  BY OnWayFields, AgentFields
<1>2. /\ IsPrefix(a.req.headers, hs) /\ UpToMinor(a.req, v) = UpToMinor(r, w)
  <2>1. a.state \notin BeforeHeaders
    BY DEF HeaderStates, BeforeHeaders, BeforeMinor, BeforeDot, BeforeMajor, BeforeProtocol,
       MethodStates, ProtocolStates
  <2> QED
    BY <2>1, VersionRead DEF OnWay, PartOf
<1>3. k \in Nat /\ k <= Len(hs) /\ a.req.headers = SubSeq(hs, 1, k)
  <2>1. k <= Len(hs) /\ \A i \in 1 .. k : a.req.headers[i] = hs[i]
    BY <1>1, <1>2, PrefixIs
  <2> DEFINE q == a.req.headers
  <2>2. q \in Seq(Header)
    BY <1>1
  <2> HIDE DEF q, hs
  <2>3. IsPrefix(q, hs)
    BY <1>2 DEF q
  <2>4. Len(q) \in Nat /\ q = SubSeq(hs, 1, Len(q))
    BY <2>2, <2>3 DEF IsPrefix
  <2> QED
    BY <2>1, <2>4 DEF q
<1>4. m \in Seq(Bytes) /\ u = m \o HeaderLines(a.req.headers) /\ u \in Seq(Bytes)
  <2>1. UpToMinor(r, w) \in Seq(Bytes) /\ CRLF \in Seq(Bytes)
    BY <1>1, WrittenTyped, Separators
  <2>2. u \in Seq(Bytes)
    BY <1>1, WrittenTyped
  <2> QED
    BY <2>1, <2>2, <1>2 DEF UpToHeaders
<1>5. ASSUME k < Len(hs)
      PROVE  hs[k + 1] \in Header /\ Starts(u \o HeaderLine(hs[k + 1]), Encode(r, w))
  <2>1. hs[k + 1] \in Header /\ k \in 0 .. Len(hs) - 1
    BY <1>1, <1>3, <1>5, SMTT(40)
  <2> DEFINE x == HeaderLines(a.req.headers)
             y == HeaderLine(hs[k + 1])
  <2>2. PICK rest \in Seq(Bytes) : HeaderLines(hs) = x \o y \o rest
    <3>1. Splits(hs, k)
      BY <2>1, <1>1, HeaderLinesSplit
    <3> QED
      BY <3>1, <1>3 DEF Splits
  <2>3. x \in Seq(Bytes) /\ y \in Seq(Bytes)
    BY <2>1, <1>1, HeaderLinesTyped, HeaderLineTyped
  <2>4. Starts(m \o HeaderLines(hs), Encode(r, w))
    <3>1. UpToHeaders(r, w) = m \o HeaderLines(hs)
      BY DEF UpToHeaders
    <3>2. Starts(UpToHeaders(r, w) \o CRLF, Encode(r, w))
      BY <1>1, EncodedParts
    <3>3. UpToHeaders(r, w) \in Seq(Bytes)
      BY <1>1, WrittenTyped
    <3>4. CRLF \in Seq(Bytes)
      BY Separators
    <3> DEFINE h == UpToHeaders(r, w)
               hc == h \o CRLF
    <3> HIDE DEF h
    <3>5. hc = h \o CRLF /\ h \in Seq(Bytes) /\ Starts(hc, Encode(r, w))
      BY <3>2, <3>3 DEF h
    <3> HIDE DEF hc
    <3>6. Starts(h, Encode(r, w))
      BY <3>4, <3>5, StartsTogether
    <3> QED
      BY <3>1, <3>6 DEF h
  <2> HIDE DEF m, x, y
  <2>5. m \o HeaderLines(hs) = ((m \o x) \o y) \o rest /\ (m \o x) \o y \in Seq(Bytes)
    <3> DEFINE xy == x \o y
    <3>1. m \o xy = (m \o x) \o y
      BY <2>3, <1>4, Associative, ZenonT(60)
    <3>2. (m \o x) \o y \in Seq(Bytes)
      BY <2>3, <1>4
    <3>3. xy \in Seq(Bytes) /\ HeaderLines(hs) = xy \o rest
      BY <2>2, <2>3
    <3> HIDE DEF xy
    <3>4. m \o (xy \o rest) = (m \o xy) \o rest
      BY <3>3, <1>4, Regrouped
    <3> QED
      BY <3>1, <3>2, <3>3, <3>4
  <2> DEFINE z == (m \o x) \o y
             all == m \o HeaderLines(hs)
  <2>6. z \in Seq(Bytes) /\ all = z \o rest /\ Starts(all, Encode(r, w))
    BY <2>4, <2>5
  <2>7. z = u \o HeaderLine(hs[k + 1])
    BY <1>4 DEF x, y
  <2> HIDE DEF z, all
  <2>8. Starts(z, Encode(r, w))
    BY <2>6, StartsTogether
  <2> QED
    BY <2>1, <2>7, <2>8
<1>6. ASSUME ~(k < Len(hs)) PROVE a.req.headers = hs /\ u = UpToHeaders(r, w)
  <2>1. SubSeq(hs, 1, Len(hs)) = hs /\ k = Len(hs)
    BY <1>1, <1>3, <1>6
  <2>2. a.req.headers = hs
    BY <2>1, <1>3
  <2> QED
    BY <2>2, <1>2 DEF UpToHeaders
<1> QED
  BY <1>2, <1>3, <1>4, <1>5, <1>6
\* The header that the agent is in, or before.
LEMMA NextHeader ==
  ASSUME NEW a, NEW v, NEW s, NEW r, NEW w, OnWay(a, v, s, r, w), a.state \in HeaderStates,
         Len(a.req.headers) < Len(r.headers)
  PROVE  LET h == r.headers[Len(a.req.headers) + 1]
             u == UpToHeaders(a.req, v)
         IN  /\ h \in Header /\ u \in Seq(Bytes) /\ h[1] \in Seq(Bytes) /\ h[2] \in Seq(Bytes)
             /\ h[1] # <<>> /\ \A i \in 1 .. Len(h[1]) : isToken(h[1][i])
             /\ \A i \in 1 .. Len(h[2]) : ~isCtl(h[2][i])
             /\ Starts(u \o HeaderLine(h), Encode(r, w))
<1> DEFINE k == Len(a.req.headers)
           h == r.headers[k + 1]
           u == UpToHeaders(a.req, v)
<1>1. u \in Seq(Bytes) /\ h \in Header /\ Starts(u \o HeaderLine(h), Encode(r, w)) /\ k \in Nat
  BY AmongHeaders
<1>2. k + 1 \in 1 .. Len(r.headers)
  <2>1. Len(r.headers) \in Nat
    BY OnWayFields
  <2> QED
    BY <2>1, <1>1
<1>3. h[1] # <<>> /\ (\A i \in 1 .. Len(h[1]) : isToken(h[1][i]))
      /\ \A i \in 1 .. Len(h[2]) : ~isCtl(h[2][i])
  BY <1>2 DEF OnWay, WellFormed
<1>4. h[1] \in Seq(Bytes) /\ h[2] \in Seq(Bytes)
  BY <1>1 DEF Header
<1> QED
  BY <1>1, <1>3, <1>4

\* Before and in the name of a header.
LEMMA HeaderNameGoesOn ==
  ASSUME NEW a, NEW v, NEW s, NEW c \in Bytes, NEW r, NEW w, OnWay(a, v, s, r, w),
         a.state \in {"header_line_start", "header_name"}, Len(a.req.headers) < Len(r.headers)
  PROVE  GoesOn(a, v, s, c, r, w)
<1> DEFINE sent == Encode(r, w)
           u == UpToHeaders(a.req, v)
           h == r.headers[Len(a.req.headers) + 1]
           f == h[1]
           none == <<>>
           p == IF a.state = "header_line_start" THEN none ELSE a.name
<1>1. /\ a \in Agent /\ v \in Version /\ a.req \in Request /\ p \in Seq(Bytes) /\ a.verdict = "none"
  <2>1. /\ a \in Agent /\ v \in Version /\ a.req \in Request /\ a.name \in Seq(Bytes)
    BY OnWayFields, AgentFields
  <2>2. none \in Seq(Bytes) /\ a.verdict = "none"
    BY EmptySeq DEF OnWay
  <2> HIDE DEF none
  <2> QED
    BY <2>1, <2>2
<1>2. /\ u \in Seq(Bytes) /\ h \in Header /\ f \in Seq(Bytes) /\ f # <<>>
      /\ \A i \in 1 .. Len(f) : isToken(f[i])
  BY NextHeader DEF HeaderStates
<1>3. Starts(u \o HeaderLine(h), sent)
  BY NextHeader DEF HeaderStates
<1>4. /\ a.req.method = r.method /\ a.req.uri = r.uri /\ v.major = w.major /\ v.minor = w.minor
  BY VersionRead DEF BeforeHeaders, BeforeMinor, BeforeDot, BeforeMajor, BeforeProtocol,
     MethodStates, ProtocolStates
<1>5. IsPrefix(a.req.headers, r.headers)
  BY DEF OnWay, PartOf, HeaderStates
<1>6. IsPrefix(p, f)
  <2>1. CASE a.state = "header_line_start"
    BY <2>1, <1>2, PrefixEmpty
  <2>2. CASE a.state = "header_name"
    BY <2>2 DEF OnWay, PartOf
  <2> QED
    BY <2>1, <2>2
<1>7. s = u \o p
  <2>1. CASE a.state = "header_line_start"
    <3>1. s = u
      BY <2>1, OnWayFields DEF ReadSoFar
    <3> HIDE DEF u
    <3>2. u \o <<>> = u
      BY <1>2
    <3> QED
      BY <3>1, <3>2, <2>1
  <2>2. CASE a.state = "header_name"
    BY <2>2, OnWayFields DEF ReadSoFar
  <2> QED
    BY <2>1, <2>2
<1>8. Recorded(a, v, c) = v
  BY <1>1, RecordedIs DEF MajorStates, MinorStates
<1>9. Colon \in Seq(Bytes) /\ Colon # <<>> /\ Colon[1] = "colon"
  BY DEF Colon, Bytes, Tspecials
<1>10. Lies(u, f, Colon, sent)
  <2> HIDE DEF u, h, sent
  <2> QED
    BY <1>2, <1>3, LineParts DEF f
<1> HIDE DEF sent, u, h, f, none, p
<1>11. Follows(s, sent, Following(p, f, Colon))
  BY <1>1, <1>2, <1>6, <1>7, <1>9, <1>10, Through
<1>12. CASE p = f /\ c = Following(p, f, Colon)
  <2> DEFINE b == To(a, "space_before_header_value", a.req)
  <2>1. c = "colon" /\ ~isToken(c) /\ a.state = "header_name" /\ a.name = f
    BY <1>2, <1>9, <1>12 DEF Following, isToken, isTspecial, Tspecials, p, none
  <2>2. consume(a, c) = b
    BY <2>1, <1>1, HeaderNameOutcomes
  <2>3. /\ b.state = "space_before_header_value" /\ b.req = a.req /\ b.verdict = "none"
        /\ b.name = a.name
    <3>1. "space_before_header_value" \in States
      BY NamedStates
    <3> QED
      BY <3>1, <1>1, ToFields
  <2> HIDE DEF b
  <2>4. PartOf(b, v, r, w)
    BY <2>1, <2>3, <1>4, <1>5, ContentStatesNamed DEF PartOf, MethodStates, ProtocolStates, MajorStates,
       MinorStates, BeforeProtocol, BeforeDot, BeforeMajor, BeforeMinor, HeaderStates, ContentNames,
       h, f
  <2> QED
    BY <2>2, <2>3, <2>4, <1>8, <1>11, <1>12 DEF Arrives, GoesOn, Follows, sent
<1>13. CASE p # f /\ c = Following(p, f, Colon)
  <2> DEFINE name == Append(p, c)
             value == IF a.state = "header_line_start" THEN none ELSE a.value
             b == InLine(a, "header_name", name, value)
  <2>1. isToken(c) /\ IsPrefix(name, f)
    BY <1>1, <1>2, <1>6, <1>13, PartGrows DEF Following
  <2>2. consume(a, c) = b
    <3>1. c # "CR" /\ c # "colon"
      BY <2>1 DEF isToken, isCtl, isTspecial, Controls, Tspecials
    <3>2. CASE a.state = "header_line_start"
      <4>1. name = <<c>>
        BY <3>2 DEF p, none
      <4> QED
        BY <4>1, <3>1, <3>2, <2>1, <1>1, HeaderNameOutcomes DEF none
    <3>3. CASE a.state = "header_name"
      BY <3>1, <3>3, <2>1, <1>1, HeaderNameOutcomes DEF p
    <3> QED
      BY <3>2, <3>3
  <2>3. b.state = "header_name" /\ b.req = a.req /\ b.verdict = "none" /\ b.name = name
    <3>1. "header_name" \in States
      BY NamedStates
    <3>2. name \in Seq(Bytes)
      BY <1>1
    <3>3. value \in Seq(Bytes)
      BY AgentFields, OnWayFields, EmptySeq DEF none
    <3> HIDE DEF name, value
    <3> QED
      BY <3>1, <3>2, <3>3, <1>1, InLineFields
  <2> HIDE DEF b, name
  <2>4. PartOf(b, v, r, w)
    BY <2>1, <2>3, <1>4, <1>5, ContentStatesNamed DEF PartOf, MethodStates, ProtocolStates, MajorStates,
       MinorStates, BeforeProtocol, BeforeDot, BeforeMajor, BeforeMinor, HeaderStates, ContentNames,
       h, f
  <2> QED
    BY <2>2, <2>3, <2>4, <1>8, <1>11, <1>13 DEF Arrives, GoesOn, Follows, sent
<1> QED
  BY <1>11, <1>12, <1>13 DEF GoesOn, Follows, sent
\* The space before the value of a header.
LEMMA SpaceGoesOn ==
  ASSUME NEW a, NEW v, NEW s, NEW c \in Bytes, NEW r, NEW w, OnWay(a, v, s, r, w),
         a.state = "space_before_header_value"
  PROVE  GoesOn(a, v, s, c, r, w)
<1> DEFINE sent == Encode(r, w)
           u == UpToHeaders(a.req, v)
           h == r.headers[Len(a.req.headers) + 1]
           pre == u \o h[1]
           n == 1
<1>1. /\ a \in Agent /\ v \in Version /\ a.req \in Request /\ a.verdict = "none"
      /\ a.value = <<>>
  BY OnWayFields, AgentFields DEF OnWay, FieldsInOrder
<1>2. Len(a.req.headers) < Len(r.headers) /\ a.name = h[1] /\ IsPrefix(a.req.headers, r.headers)
  BY DEF OnWay, PartOf, HeaderStates
<1>3. u \in Seq(Bytes) /\ h \in Header /\ h[2] \in Seq(Bytes)
  BY <1>2, NextHeader DEF HeaderStates
<1>4. Starts(u \o HeaderLine(h), sent)
  BY <1>2, NextHeader DEF HeaderStates
<1>5. /\ a.req.method = r.method /\ a.req.uri = r.uri /\ v.major = w.major /\ v.minor = w.minor
  BY VersionRead, SMTT(40) DEF BeforeHeaders, BeforeMinor, BeforeDot, BeforeMajor, BeforeProtocol,
     MethodStates, ProtocolStates
<1>6. s = pre \o <<"colon">>
  BY <1>2, OnWayFields DEF ReadSoFar
<1>7. Recorded(a, v, c) = v
  BY <1>1, RecordedIs DEF MajorStates, MinorStates
<1>8. Starts(pre \o ColonSpace, sent) /\ pre \in Seq(Bytes)
  <2> HIDE DEF u, h, sent
  <2> QED
    BY <1>3, <1>4, LineParts
<1>9. ColonSpace \in Seq(Bytes) /\ Len(ColonSpace) = 2 /\ ColonSpace[2] = "SP"
  BY DEF ColonSpace, Bytes, Tspecials
<1> HIDE DEF sent, u, h, pre
<1>10. n \in Nat /\ n < Len(ColonSpace) /\ n + 1 = 2 /\ Len(s) = Len(pre) + n
  BY <1>6, <1>8, <1>9
<1> HIDE DEF n
<1>11. Follows(s, sent, ColonSpace[n + 1])
  BY <1>8, <1>9, <1>10, Within
<1>12. CASE c = "SP"
  <2> DEFINE b == To(a, "header_value", a.req)
  <2>1. consume(a, c) = b
    BY <1>1, <1>12, ExpectedOutcomes, ExpectedStates, ExpectedBytes
  <2>2. /\ b.state = "header_value" /\ b.req = a.req /\ b.verdict = "none" /\ b.name = a.name
        /\ b.value = <<>>
    <3>1. "header_value" \in States
      BY NamedStates
    <3> QED
      BY <3>1, <1>1, ToFields
  <2> HIDE DEF b
  <2>3. IsPrefix(b.value, h[2])
    BY <2>2, <1>3, PrefixEmpty
  <2>4. PartOf(b, v, r, w)
    BY <2>2, <2>3, <1>2, <1>5, ContentStatesNamed DEF PartOf, MethodStates, ProtocolStates, MajorStates,
       MinorStates, BeforeProtocol, BeforeDot, BeforeMajor, BeforeMinor, HeaderStates, ContentNames, h
  <2> QED
    BY <2>1, <2>2, <2>4, <1>7, <1>9, <1>10, <1>11 DEF Arrives, GoesOn, Follows, sent
<1> QED
  BY <1>9, <1>10, <1>11, <1>12 DEF GoesOn, Follows, sent

LEMMA EndedFields ==
  ASSUME NEW a \in Agent
  PROVE  /\ Ended(a).state = "expecting_newline_2" /\ Ended(a).verdict = a.verdict
         /\ Ended(a).req.method = a.req.method /\ Ended(a).req.uri = a.req.uri
         /\ Ended(a).req.headers = Append(a.req.headers, <<a.name, a.value>>)
  BY DEF Ended, Agent, Request

\* Through the value of a header.
LEMMA HeaderValueGoesOn ==
  ASSUME NEW a, NEW v, NEW s, NEW c \in Bytes, NEW r, NEW w, OnWay(a, v, s, r, w),
         a.state = "header_value"
  PROVE  GoesOn(a, v, s, c, r, w)
<1> DEFINE sent == Encode(r, w)
           u == UpToHeaders(a.req, v)
           h == r.headers[Len(a.req.headers) + 1]
           pre == (u \o h[1]) \o ColonSpace
           f == h[2]
           p == a.value
<1>1. /\ a \in Agent /\ v \in Version /\ a.req \in Request /\ a.verdict = "none"
      /\ p \in Seq(Bytes) /\ a.name \in Seq(Bytes)
      /\ a.req.headers \in Seq(Header) /\ r.headers \in Seq(Header)
  BY OnWayFields, AgentFields DEF OnWay
<1>2. /\ Len(a.req.headers) < Len(r.headers) /\ a.name = h[1] /\ IsPrefix(a.req.headers, r.headers)
      /\ IsPrefix(p, f)
  BY DEF OnWay, PartOf, HeaderStates
<1>3. /\ u \in Seq(Bytes) /\ h \in Header /\ f \in Seq(Bytes)
      /\ \A i \in 1 .. Len(f) : ~isCtl(f[i])
  BY <1>2, NextHeader DEF HeaderStates
<1>4. Starts(u \o HeaderLine(h), sent)
  BY <1>2, NextHeader DEF HeaderStates
<1>5. /\ a.req.method = r.method /\ a.req.uri = r.uri /\ v.major = w.major /\ v.minor = w.minor
  BY VersionRead, SMTT(40) DEF BeforeHeaders, BeforeMinor, BeforeDot, BeforeMajor, BeforeProtocol,
     MethodStates, ProtocolStates
<1>6. s = pre \o p
  BY <1>2, OnWayFields, ZenonT(60) DEF ReadSoFar, ColonSpace
<1>7. Recorded(a, v, c) = v
  BY <1>1, RecordedIs DEF MajorStates, MinorStates
<1>8. Lies(pre, f, CRLF, sent) /\ pre \in Seq(Bytes)
  <2> HIDE DEF u, h, sent
  <2> QED
    BY <1>3, <1>4, LineParts
<1>9. CRLF \in Seq(Bytes) /\ CRLF # <<>> /\ CRLF[1] = "CR"
  BY Separators
<1> HIDE DEF sent, u, h, pre, f, p
<1>10. Follows(s, sent, Following(p, f, CRLF))
  BY <1>1, <1>2, <1>3, <1>6, <1>8, <1>9, Through
<1>11. CASE p = f /\ c = Following(p, f, CRLF)
  <2> DEFINE b == Ended(a)
  <2>1. consume(a, c) = b
    <3>1. c = "CR"
      BY <1>9, <1>11 DEF Following
    <3> QED
      BY <3>1, <1>1, HeaderValueOutcomes DEF isCtl, Controls
  <2>2. /\ b.state = "expecting_newline_2" /\ b.verdict = "none"
        /\ b.req.method = a.req.method /\ b.req.uri = a.req.uri
    BY <1>1, EndedFields
  <2>3. b.req.headers = Append(a.req.headers, h)
    <3>1. h = <<a.name, a.value>>
      BY <1>2, <1>3, <1>11 DEF Header, f, p
    <3> QED
      BY <3>1, <1>1, EndedFields
  <2> HIDE DEF b
  <2>4. IsPrefix(b.req.headers, r.headers)
    <3> DEFINE q == a.req.headers
               hs == r.headers
    <3>1. q \in Seq(Header) /\ hs \in Seq(Header) /\ IsPrefix(q, hs) /\ Len(q) < Len(hs)
      BY <1>1, <1>2
    <3> HIDE DEF q, hs
    <3>2. IsPrefix(Append(q, hs[Len(q) + 1]), hs)
      BY <3>1, PrefixGrows
    <3> QED
      BY <3>2, <2>3 DEF q, hs, h
  <2>5. PartOf(b, v, r, w)
    BY <2>2, <2>4, <1>5, ContentStatesNamed DEF PartOf, MethodStates, ProtocolStates, MajorStates,
       MinorStates, BeforeProtocol, BeforeDot, BeforeMajor, BeforeMinor, HeaderStates, ContentNames
  <2> QED
    BY <2>1, <2>2, <2>5, <1>7, <1>10, <1>11 DEF Arrives, GoesOn, Follows, sent
<1>12. CASE p # f /\ c = Following(p, f, CRLF)
  <2> DEFINE value == Append(p, c)
             b == InLine(a, "header_value", a.name, value)
  <2>1. ~isCtl(c) /\ IsPrefix(value, f)
    BY <1>1, <1>2, <1>3, <1>12, PartGrows DEF Following
  <2>2. consume(a, c) = b
    <3>1. c # "CR"
      BY <2>1 DEF isCtl, Controls
    <3> QED
      BY <3>1, <2>1, <1>1, HeaderValueOutcomes DEF p
  <2>3. /\ b.state = "header_value" /\ b.req = a.req /\ b.verdict = "none" /\ b.name = a.name
        /\ b.value = value
    <3>1. "header_value" \in States
      BY NamedStates
    <3>2. value \in Seq(Bytes)
      BY <1>1
    <3> HIDE DEF value
    <3> QED
      BY <3>1, <3>2, <1>1, InLineFields
  <2> HIDE DEF b, value
  <2>4. PartOf(b, v, r, w)
    BY <2>1, <2>3, <1>2, <1>5, ContentStatesNamed DEF PartOf, MethodStates, ProtocolStates, MajorStates,
       MinorStates, BeforeProtocol, BeforeDot, BeforeMajor, BeforeMinor, HeaderStates, ContentNames,
       h, f
  <2> QED
    BY <2>2, <2>3, <2>4, <1>7, <1>10, <1>12 DEF Arrives, GoesOn, Follows, sent
<1> QED
  BY <1>10, <1>11, <1>12 DEF GoesOn, Follows, sent
\* Once it has all headers, what was read is what the request has.
LEMMA HeadersRead ==
  ASSUME NEW a, NEW v, NEW s, NEW r, NEW w, OnWay(a, v, s, r, w), a.state \notin BeforeHeaders,
         a.req.headers = r.headers
  PROVE  /\ UpToHeaders(a.req, v) = UpToHeaders(r, w) /\ UpToHeaders(r, w) \in Seq(Bytes)
         /\ Starts(UpToHeaders(r, w) \o CRLF, Encode(r, w))
<1>1. UpToMinor(a.req, v) = UpToMinor(r, w)
  BY VersionRead
<1>2. r \in Request /\ w \in Version
  BY OnWayFields
<1>3. UpToHeaders(a.req, v) = UpToHeaders(r, w)
  BY <1>1 DEF UpToHeaders
<1> QED
  BY <1>2, <1>3, WrittenTyped, EncodedParts

\* The empty line, after the last header.
LEMMA EmptyLineGoesOn ==
  ASSUME NEW a, NEW v, NEW s, NEW c \in Bytes, NEW r, NEW w, OnWay(a, v, s, r, w),
         a.state = "header_line_start", ~(Len(a.req.headers) < Len(r.headers))
  PROVE  GoesOn(a, v, s, c, r, w)
<1> DEFINE sent == Encode(r, w)
           u == UpToHeaders(r, w)
           n == 0
<1>1. /\ a \in Agent /\ v \in Version /\ a.req \in Request /\ a.verdict = "none"
  BY OnWayFields, AgentFields DEF OnWay
<1>2. a.req.headers = r.headers
  BY AmongHeaders DEF HeaderStates
<1>3. a.state \notin BeforeHeaders
  BY DEF BeforeHeaders, BeforeMinor, BeforeDot, BeforeMajor, BeforeProtocol,
     MethodStates, ProtocolStates
<1>4. /\ a.req.method = r.method /\ a.req.uri = r.uri /\ v.major = w.major /\ v.minor = w.minor
  BY <1>3, VersionRead
<1>5. u \in Seq(Bytes) /\ Starts(u \o CRLF, sent) /\ s = u
  <2>1. u \in Seq(Bytes) /\ Starts(u \o CRLF, sent) /\ UpToHeaders(a.req, v) = u
    BY <1>2, <1>3, HeadersRead
  <2>2. s = UpToHeaders(a.req, v)
    BY OnWayFields DEF ReadSoFar
  <2> QED
    BY <2>1, <2>2
<1>6. Recorded(a, v, c) = v
  BY <1>1, RecordedIs DEF MajorStates, MinorStates
<1>7. CRLF \in Seq(Bytes) /\ Len(CRLF) = 2 /\ CRLF[1] = "CR"
  BY Separators
<1> HIDE DEF sent, u
<1>8. n \in Nat /\ n < Len(CRLF) /\ n + 1 = 1 /\ Len(s) = Len(u) + n
  BY <1>5, <1>7
<1> HIDE DEF n
<1>9. Follows(s, sent, CRLF[n + 1])
  BY <1>5, <1>7, <1>8, Within
<1>10. CASE c = "CR"
  <2> DEFINE b == To(a, "expecting_newline_3", a.req)
  <2>1. consume(a, c) = b
    <3>1. ~isToken(c)
      BY <1>10 DEF isToken, isCtl, Controls
    <3> QED
      BY <3>1, <1>1, <1>10, HeaderNameOutcomes
  <2>2. b.state = "expecting_newline_3" /\ b.req = a.req /\ b.verdict = "none"
    <3>1. "expecting_newline_3" \in States
      BY NamedStates
    <3> QED
      BY <3>1, <1>1, ToFields
  <2> HIDE DEF b
  <2>3. IsPrefix(a.req.headers, r.headers)
    BY DEF OnWay, PartOf, HeaderStates
  <2>4. PartOf(b, v, r, w)
    BY <2>2, <2>3, <1>2, <1>4, ContentStatesNamed DEF PartOf, MethodStates, ProtocolStates, MajorStates,
       MinorStates, BeforeProtocol, BeforeDot, BeforeMajor, BeforeMinor, HeaderStates, ContentNames
  <2> QED
    BY <2>1, <2>2, <2>4, <1>6, <1>7, <1>8, <1>9 DEF Arrives, GoesOn, Follows, sent
<1> QED
  BY <1>7, <1>8, <1>9, <1>10 DEF GoesOn, Follows, sent

\* The end of a header line.
LEMMA HeaderLineGoesOn ==
  ASSUME NEW a, NEW v, NEW s, NEW c \in Bytes, NEW r, NEW w, OnWay(a, v, s, r, w),
         a.state = "expecting_newline_2"
  PROVE  GoesOn(a, v, s, c, r, w)
<1> DEFINE sent == Encode(r, w)
           u == UpToHeaders(a.req, v)
           feed == <<"LF">>
<1>1. /\ a \in Agent /\ v \in Version /\ a.req \in Request /\ a.verdict = "none"
      /\ s \in Seq(Bytes)
  BY OnWayFields, AgentFields DEF OnWay
<1>2. a.state \in HeaderStates
  BY DEF HeaderStates
<1>3. /\ a.req.method = r.method /\ a.req.uri = r.uri /\ v.major = w.major /\ v.minor = w.minor
  BY VersionRead DEF BeforeHeaders, BeforeMinor, BeforeDot, BeforeMajor, BeforeProtocol,
     MethodStates, ProtocolStates
<1>4. s \o feed = u /\ u \in Seq(Bytes)
  BY <1>2, AmongHeaders, OnWayFields DEF ReadSoFar
<1>5. Starts(u, sent)
  <2>1. CASE Len(a.req.headers) < Len(r.headers)
    <3> DEFINE h == r.headers[Len(a.req.headers) + 1]
               x == HeaderLine(h)
               z == u \o x
    <3>1. h \in Header /\ Starts(u \o HeaderLine(h), sent)
      BY <2>1, <1>2, NextHeader
    <3>2. x \in Seq(Bytes) /\ z = u \o x /\ Starts(z, sent)
      BY <3>1, HeaderLineTyped
    <3> HIDE DEF u, x, z, sent
    <3> QED
      BY <3>2, <1>4, StartsTogether
  <2>2. CASE ~(Len(a.req.headers) < Len(r.headers))
    <3> DEFINE z == u \o CRLF
    <3>1. u = UpToHeaders(r, w)
      BY <2>2, <1>2, AmongHeaders
    <3>2. Starts(UpToHeaders(r, w) \o CRLF, sent)
      BY OnWayFields, EncodedParts
    <3>3. z = u \o CRLF /\ Starts(z, sent) /\ CRLF \in Seq(Bytes)
      BY <3>1, <3>2, Separators
    <3> HIDE DEF u, z, sent
    <3> QED
      BY <3>3, <1>4, StartsTogether
  <2> QED
    BY <2>1, <2>2
<1>6. Recorded(a, v, c) = v
  BY <1>1, RecordedIs DEF MajorStates, MinorStates
<1>7. feed \in Seq(Bytes) /\ feed # <<>> /\ feed[1] = "LF"
  BY DEF Bytes, Controls
<1> HIDE DEF sent, u, feed
<1>8. Starts(s \o feed, sent)
  BY <1>4, <1>5
<1>9. Len(s) < Len(sent) /\ sent[Len(s) + 1] = feed[1]
  BY <1>1, <1>7, <1>8, AtEnd
<1>10. CASE c = "LF"
  <2> DEFINE b == To(a, "header_line_start", a.req)
  <2>1. consume(a, c) = b
    BY <1>1, <1>10, ExpectedOutcomes, ExpectedStates, ExpectedBytes
  <2>2. b.state = "header_line_start" /\ b.req = a.req /\ b.verdict = "none"
    <3>1. "header_line_start" \in States
      BY NamedStates
    <3> QED
      BY <3>1, <1>1, ToFields
  <2> HIDE DEF b
  <2>3. IsPrefix(a.req.headers, r.headers)
    BY <1>2 DEF OnWay, PartOf
  <2>4. PartOf(b, v, r, w)
    BY <2>2, <2>3, <1>3, ContentStatesNamed DEF PartOf, MethodStates, ProtocolStates, MajorStates,
       MinorStates, BeforeProtocol, BeforeDot, BeforeMajor, BeforeMinor, HeaderStates, ContentNames
  <2> QED
    BY <2>1, <2>2, <2>4, <1>6, <1>9 DEF Arrives, GoesOn, sent
<1> QED
  BY <1>7, <1>9, <1>10 DEF GoesOn, sent
\* Where the content is whole, the part of it that was read goes on, and with a byte that the
\* agent takes; and where the agent accepts, it is all of the content.
LEMMA ContentGoesOn ==
  ASSUME NEW p \in Seq(Bytes), NEW f \in Seq(Bytes), NEW l \in Nat, NEW k \in 1 .. 4,
         NEW size \in 0 .. 4, IsPrefix(p, f), WholeContent(f, l),
         k = 1 => /\ Len(p) < l
                  /\ p # <<>> => LastCharacter(p, Len(p) + 1 - size, size, l),
         k # 1 => k <= size /\ LastCharacter(p, Len(p) + 2 - k, size, l)
  PROVE  LET c == f[Len(p) + 1]
             next == IF k = 1 THEN getUTF8Length(c) ELSE size
         IN  /\ p # f /\ Len(p) + 1 \in 1 .. Len(f)
             /\ IF k = 1 THEN getUTF8Length(c) > 0 ELSE c = "cont"
             /\ k >= next /\ Len(p) + 1 >= l => Len(f) = Len(p) + 1
<1> DEFINE c == f[Len(p) + 1]
<1>1. /\ Len(p) \in Nat /\ Len(f) \in Nat /\ Len(p) <= Len(f)
      /\ \A i \in 1 .. Len(p) : p[i] = f[i]
  BY PrefixIs
<1>2. /\ Len(f) >= l /\ (f # <<>> => f[1] # "cont")
      /\ \A i \in 1 .. Len(f) : f[i] # "cont" => CharacterAt(f, i) /\ i <= l
  BY DEF WholeContent
<1>3. CASE k = 1
  <2>1. Len(p) < Len(f) /\ Len(p) + 1 \in 1 .. Len(f) /\ p # f
    BY <1>1, <1>2, <1>3
  <2>2. c # "cont"
    <3>1. CASE p = <<>>
      BY <3>1, <2>1, <1>1, <1>2
    <3>2. CASE p # <<>>
      <4> DEFINE j == Len(p) + 1 - size
      <4>1. j \in 1 .. Len(p) /\ p[j] # "cont" /\ size = getUTF8Length(p[j])
        BY <3>2, <1>3 DEF LastCharacter
      <4>2. f[j] = p[j] /\ j \in 1 .. Len(f)
        BY <4>1, <1>1
      <4>3. CharacterAt(f, j)
        BY <4>1, <4>2, <1>2
      <4>4. j + size = Len(p) + 1
        BY <1>1
      <4> HIDE DEF j
      <4> QED
        BY <4>1, <4>2, <4>3, <4>4, <2>1 DEF CharacterAt
    <3> QED
      BY <3>1, <3>2
  <2>3. CharacterAt(f, Len(p) + 1)
    BY <2>1, <2>2, <1>2
  <2> DEFINE i == Len(p) + 1
  <2>4. getUTF8Length(c) > 0
    BY <2>1, <2>3, UTF8LengthIs DEF CharacterAt
  <2>5. ASSUME 1 >= getUTF8Length(c), Len(p) + 1 >= l PROVE Len(f) = Len(p) + 1
    <3>1. getUTF8Length(f[i]) = 1
      BY <2>4, <2>5, UTF8LengthIs
    <3>2. Len(p) + 2 <= Len(f) => f[Len(p) + 2] # "cont"
      BY <3>1, <2>1, <2>3, <1>1 DEF CharacterAt
    <3>3. ~(Len(p) + 2 <= Len(f))
      BY <3>2, <1>1, <1>2, <2>5
    <3> QED
      BY <3>3, <2>1, <1>1
  <2> QED
    BY <1>3, <2>1, <2>4, <2>5
<1>4. CASE k # 1
  <2> DEFINE j == Len(p) + 2 - k
  <2>1. /\ j \in 1 .. Len(p) /\ p[j] # "cont" /\ size = getUTF8Length(p[j]) /\ k <= size
        /\ k \in 2 .. 4
    BY <1>4 DEF LastCharacter
  <2>2. f[j] = p[j] /\ j \in 1 .. Len(f)
    BY <2>1, <1>1
  <2>3. CharacterAt(f, j)
    BY <2>1, <2>2, <1>2
  <2>4. j + k = Len(p) + 2
    BY <1>1
  <2> HIDE DEF j
  <2>5. /\ j + size <= Len(f) + 1 /\ (\A i \in j + 1 .. j + size - 1 : f[i] = "cont")
        /\ (j + size <= Len(f) => f[j + size] # "cont")
    BY <2>1, <2>2, <2>3 DEF CharacterAt
  <2>6. Len(p) + 1 \in 1 .. Len(f) /\ Len(p) + 1 \in j + 1 .. j + size - 1
    BY <2>1, <2>4, <2>5, <1>1
  <2>7. c = "cont" /\ p # f
    BY <2>5, <2>6, <1>1
  <2>8. ASSUME k >= size, Len(p) + 1 >= l PROVE Len(f) = Len(p) + 1
    <3>1. j + size = Len(p) + 2
      BY <2>1, <2>4, <2>8
    <3>2. ~(Len(p) + 2 <= Len(f))
      BY <3>1, <2>5, <2>8, <1>1, <1>2
    <3> QED
      BY <3>2, <2>6, <1>1
  <2> QED
    BY <1>4, <2>6, <2>7, <2>8
<1> QED
  BY <1>3, <1>4
LEMMA SameRequest ==
  ASSUME NEW q \in Request, NEW r \in Request, q.method = r.method, q.uri = r.uri,
         q.major = r.major, q.minor = r.minor, q.headers = r.headers, q.content = r.content
  PROVE  q = r
<1> DEFINE Of(x) == [method |-> x.method, uri |-> x.uri, major |-> x.major, minor |-> x.minor,
                     headers |-> x.headers, content |-> x.content]
<1>1. ASSUME NEW x \in Request PROVE x = Of(x)
  BY DEF Request
<1>2. q = Of(q) /\ r = Of(r)
  BY <1>1
<1>3. Of(q) = Of(r)
  OBVIOUS
<1> HIDE DEF Of
<1> QED
  BY <1>2, <1>3

\* All of a request was read.
LEMMA AllRead ==
  ASSUME NEW a, NEW v, NEW s, NEW r, NEW w, OnWay(a, v, s, r, w), a.state \notin BeforeHeaders,
         NEW q \in Request, q.method = a.req.method, q.uri = a.req.uri, q.major = a.req.major,
         q.minor = a.req.minor, q.headers = r.headers, q.content = r.content
  PROVE  q = r
<1>1. /\ q.method = r.method /\ q.uri = r.uri /\ q.major = r.major /\ q.minor = r.minor
  BY VersionRead
<1>2. r \in Request
  BY OnWayFields
<1> QED
  BY <1>1, <1>2, SameRequest

\* The end of the headers.
LEMMA EndOfHeadersGoesOn ==
  ASSUME NEW a, NEW v, NEW s, NEW c \in Bytes, NEW r, NEW w, OnWay(a, v, s, r, w),
         a.state = "expecting_newline_3"
  PROVE  GoesOn(a, v, s, c, r, w)
<1> DEFINE sent == Encode(r, w)
           u == UpToHeaders(r, w)
           n == 1
<1>1. /\ a \in Agent /\ v \in Version /\ a.req \in Request /\ a.verdict = "none"
  BY OnWayFields, AgentFields DEF OnWay
<1>2. a.req.headers = r.headers /\ IsPrefix(a.req.headers, r.headers)
  BY DEF OnWay, PartOf, HeaderStates
<1>3. a.state \notin BeforeHeaders
  BY DEF BeforeHeaders, BeforeMinor, BeforeDot, BeforeMajor, BeforeProtocol,
     MethodStates, ProtocolStates
<1>4. /\ a.req.method = r.method /\ a.req.uri = r.uri /\ v.major = w.major /\ v.minor = w.minor
      /\ v = w
  BY <1>3, VersionRead
<1>5. u \in Seq(Bytes) /\ Starts(u \o CRLF, sent) /\ s = u \o <<"CR">>
  <2>1. u \in Seq(Bytes) /\ Starts(u \o CRLF, sent) /\ UpToHeaders(a.req, v) = u
    BY <1>2, <1>3, HeadersRead
  <2>2. s = UpToHeaders(a.req, v) \o <<"CR">>
    BY OnWayFields DEF ReadSoFar
  <2> QED
    BY <2>1, <2>2
<1>6. Recorded(a, v, c) = v
  BY <1>1, RecordedIs DEF MajorStates, MinorStates
<1>7. CRLF \in Seq(Bytes) /\ Len(CRLF) = 2 /\ CRLF[2] = "LF"
  BY Separators
<1>8. a.req.content = <<>> /\ r.content \in Seq(Bytes)
  <2>1. a.state \notin ContentNames
    BY DEF ContentNames
  <2> QED
    BY <2>1, <1>1, NoContent, OnWayFields DEF OnWay
<1>9. WholeContent(r.content, a.contentLength) /\ a.contentLength \in Nat
  <2>1. a.contentLength = DeclaredLength(r.headers)
    BY <1>2, OnWayFields
  <2>2. WholeContent(r.content, DeclaredLength(r.headers))
    BY DEF OnWay, WellFormed
  <2>3. a.contentLength \in Nat
    BY <1>1, SizesAssumption DEF Agent
  <2> QED
    BY <2>1, <2>2, <2>3
<1> HIDE DEF sent, u
<1>10. n \in Nat /\ n < Len(CRLF) /\ n + 1 = 2 /\ Len(s) = Len(u) + n
  BY <1>5, <1>7
<1> HIDE DEF n
<1>11. Follows(s, sent, CRLF[n + 1])
  BY <1>5, <1>7, <1>10, Within
<1>12. CASE c = "LF" /\ a.contentLength > 0
  <2> DEFINE b == To(a, "expecting_content_char1", a.req)
  <2>1. consume(a, c) = b
    BY <1>1, <1>12, EndOfHeadersOutcomes, GoIsTo
  <2>2. b.state = "expecting_content_char1" /\ b.req = a.req /\ b.verdict = "none"
    <3>1. "expecting_content_char1" \in States
      BY ContentStatesNamed DEF States, ContentNames
    <3> QED
      BY <3>1, <1>1, ToFields
  <2> HIDE DEF b
  <2>3. IsPrefix(a.req.content, r.content)
    BY <1>8, PrefixEmpty
  <2>4. PartOf(b, v, r, w)
    BY <2>2, <2>3, <1>2, <1>4, ContentStatesNamed DEF PartOf, MethodStates, ProtocolStates, MajorStates,
       MinorStates, BeforeProtocol, BeforeDot, BeforeMajor, BeforeMinor, HeaderStates, ContentNames
  <2> QED
    BY <2>1, <2>2, <2>4, <1>6, <1>7, <1>10, <1>11 DEF Arrives, GoesOn, Follows, sent
<1>13. CASE c = "LF" /\ a.contentLength = 0
  <2>1. consume(a, c) = Accept(a)
    BY <1>1, <1>13, EndOfHeadersOutcomes
  <2>2. Accept(a).verdict = "true" /\ Accept(a).req = a.req
    BY <1>1, AcceptFields
  <2>3. r.content = <<>>
    BY <1>8, <1>9, <1>13 DEF WholeContent
  <2>4. a.req = r
    BY <2>3, <1>1, <1>2, <1>3, <1>8, AllRead
  <2> QED
    BY <2>1, <2>2, <2>4, <1>4, <1>6, <1>7, <1>10, <1>11 DEF Arrives, GoesOn, Follows, sent
<1> QED
  BY <1>7, <1>9, <1>10, <1>11, <1>12, <1>13 DEF GoesOn, Follows, sent

\* Through the content.
LEMMA CharacterGoesOn ==
  ASSUME NEW a, NEW v, NEW s, NEW c \in Bytes, NEW r, NEW w, OnWay(a, v, s, r, w),
         NEW k \in 1 .. 4, a.state = ContentStates[k]
  PROVE  GoesOn(a, v, s, c, r, w)
<1> DEFINE sent == Encode(r, w)
           u == UpToHeaders(r, w) \o CRLF
           p == a.req.content
           f == r.content
           l == a.contentLength
           size == CharSize(a, k, c)
           q == WithMore(a.req, c)
<1>1. /\ a \in Agent /\ v \in Version /\ a.req \in Request /\ a.verdict = "none"
      /\ p \in Seq(Bytes) /\ f \in Seq(Bytes)
  BY OnWayFields, AgentFields DEF OnWay
<1>2. a.state \in ContentNames
  BY ContentStatesNamed
<1>3. a.req.headers = r.headers /\ IsPrefix(p, f)
  BY <1>2, ContentStatesNamed DEF OnWay, PartOf
<1>4. a.state \notin BeforeHeaders
  BY <1>2 DEF BeforeHeaders, BeforeMinor, BeforeDot, BeforeMajor, BeforeProtocol,
     MethodStates, ProtocolStates, ContentNames
<1>5. /\ a.req.method = r.method /\ a.req.uri = r.uri /\ v.major = w.major /\ v.minor = w.minor
      /\ v = w
  BY <1>4, VersionRead
<1>6. WholeContent(f, l) /\ l \in Nat
  <2>1. a.contentLength = DeclaredLength(r.headers)
    BY <1>3, OnWayFields
  <2>2. WholeContent(r.content, DeclaredLength(r.headers))
    BY DEF OnWay, WellFormed
  <2>3. a.contentLength \in Nat
    BY <1>1, SizesAssumption DEF Agent
  <2> QED
    BY <2>1, <2>2, <2>3
<1>7. PartOfContent(a, k)
  BY OnWayFields, ContentStatesNamed DEF InContent
<1>8. Recorded(a, v, c) = v
  BY <1>1, <1>2, RecordedIs DEF MajorStates, MinorStates, ContentNames
<1>9. u \in Seq(Bytes) /\ s = u \o p /\ Starts(u \o f, sent)
  <2>1. UpToHeaders(a.req, v) = UpToHeaders(r, w) /\ UpToHeaders(r, w) \in Seq(Bytes)
    BY <1>3, <1>4, HeadersRead
  <2>2. s = u \o p
    BY <2>1, <1>2, OnWayFields, ContentStatesNamed, ZenonT(60) DEF ReadSoFar, Encode
  <2>3. u \in Seq(Bytes)
    BY <2>1, LineEnded, Regrouped
  <2>4. Starts(u \o f, sent)
    BY OnWayFields, EncodedParts
  <2> QED
    BY <2>2, <2>3, <2>4
<1>10. /\ q \in Request /\ q.content = Append(p, c) /\ q.headers = a.req.headers
       /\ q.major = a.req.major /\ q.minor = a.req.minor /\ q.method = a.req.method
       /\ q.uri = a.req.uri
  <2> DEFINE t == Append(p, c)
  <2>1. q = [a.req EXCEPT !.content = t] /\ t \in Seq(Bytes)
    BY <1>1 DEF WithMore
  <2> HIDE DEF t, q
  <2>2. /\ q \in Request /\ q.content = t /\ q.headers = a.req.headers /\ q.major = a.req.major
        /\ q.minor = a.req.minor /\ q.method = a.req.method /\ q.uri = a.req.uri
    BY <2>1, <1>1 DEF Request
  <2> QED
    BY <2>2 DEF t
<1>11. size \in 0 .. 4 /\ a.charSize \in 0 .. 4
  BY <1>1, UTF8LengthIs DEF CharSize, Agent
<1>12. LET d == f[Len(p) + 1]
       IN  /\ p # f /\ Len(p) + 1 \in 1 .. Len(f)
           /\ Taken(a, k, d)
           /\ k >= CharSize(a, k, d) /\ Len(p) + 1 >= l => Len(f) = Len(p) + 1
  <2> DEFINE z == a.charSize
  <2>1. /\ k = 1 => /\ Len(p) < l
                    /\ p # <<>> => LastCharacter(p, Len(p) + 1 - z, z, l)
        /\ k # 1 => k <= z /\ LastCharacter(p, Len(p) + 2 - k, z, l)
    BY <1>7 DEF PartOfContent
  <2>2. z \in 0 .. 4
    BY <1>11
  <2> HIDE DEF p, f, l, z
  <2>3. LET d == f[Len(p) + 1]
            next == IF k = 1 THEN getUTF8Length(d) ELSE z
        IN  /\ p # f /\ Len(p) + 1 \in 1 .. Len(f)
            /\ IF k = 1 THEN getUTF8Length(d) > 0 ELSE d = "cont"
            /\ k >= next /\ Len(p) + 1 >= l => Len(f) = Len(p) + 1
    BY <2>1, <2>2, <1>1, <1>3, <1>6, ContentGoesOn
  <2> QED
    BY <2>3 DEF Taken, CharSize, z
<1> HIDE DEF sent, u, p, f, l, q
<1>13. Len(s) < Len(sent) /\ sent[Len(s) + 1] = f[Len(p) + 1] /\ IsPrefix(Append(p, f[Len(p) + 1]), f)
  <2> DEFINE n == Len(p)
  <2>1. n \in Nat /\ n < Len(f) /\ Len(s) = Len(u) + n
    BY <1>1, <1>9, <1>12
  <2> HIDE DEF n
  <2>2. Follows(s, sent, f[n + 1])
    BY <2>1, <1>1, <1>9, Within
  <2>3. IsPrefix(Append(p, f[Len(p) + 1]), f)
    BY <1>1, <1>3, <1>12, PrefixGrows
  <2> QED
    BY <2>2, <2>3 DEF Follows, n
<1>14. CASE c = f[Len(p) + 1]
  <2>1. /\ Taken(a, k, c) /\ IsPrefix(Append(p, c), f)
        /\ k >= size /\ Len(p) + 1 >= l => Len(f) = Len(p) + 1
    BY <1>12, <1>13, <1>14
  <2> HIDE DEF size
  <2>2. ASSUME NEW state \in ContentNames
        PROVE  Arrives(More(a, state, size, c), v, r, w)
    <3> DEFINE b == More(a, state, size, c)
    <3>1. b.state = state /\ b.req = q /\ b.verdict = "none"
      <4>1. state \in States
        BY ContentStatesNamed DEF States
      <4> QED
        BY <4>1, <1>1, <1>11, MoreFields DEF q
    <3> HIDE DEF b
    <3>2. PartOf(b, v, r, w)
      BY <2>1, <3>1, <1>3, <1>5, <1>10, ContentStatesNamed DEF PartOf, MethodStates, ProtocolStates,
         MajorStates, MinorStates, BeforeProtocol, BeforeDot, BeforeMajor, BeforeMinor, HeaderStates,
         ContentNames, f
    <3> QED
      BY <3>1, <3>2 DEF Arrives, b
  <2>3. ASSUME NEW state \in {a.state, "method_start"}, k >= size, Len(p) + 1 >= l
        PROVE  Arrives(Accept(More(a, state, size, c)), v, r, w)
    <3> DEFINE b == More(a, state, size, c)
    <3>1. b \in Agent /\ b.req = q
      <4>1. state \in States
        BY <1>2, ContentStatesNamed, StatesNamed DEF States
      <4> QED
        BY <4>1, <1>1, <1>11, MoreFields, SMTT(40) DEF q
    <3> HIDE DEF b
    <3>2. Accept(b).verdict = "true" /\ Accept(b).req = q
      BY <3>1, AcceptFields
    <3>3. Append(p, c) = f
      <4> DEFINE t == Append(p, c)
      <4>1. t \in Seq(Bytes) /\ Len(t) = Len(f) /\ IsPrefix(t, f)
        BY <2>1, <2>3, <1>1
      <4> HIDE DEF t
      <4>2. \A i \in 1 .. Len(t) : t[i] = f[i]
        BY <4>1, <1>1, PrefixIs
      <4>3. t = f
        BY <4>1, <4>2, <1>1, SeqEqual
      <4> QED
        BY <4>3 DEF t
    <3>4. q = r
      BY <3>3, <1>3, <1>4, <1>10, AllRead DEF f
    <3> QED
      BY <3>2, <3>4, <1>5 DEF Arrives, b
  <2>4. Arrives(consume(a, c), v, r, w)
    <3>1. k < size => k + 1 \in 1 .. 4
      BY <1>11
    <3>2. /\ k < size => ContentStates[k + 1] \in ContentNames
          /\ ContentStates[1] \in ContentNames
      BY <3>1, ContentStatesNamed
    <3> QED
      BY <2>1, <2>2, <2>3, <3>2, <1>1, ContentOutcomes DEF size, p, l
  <2> QED
    BY <2>4, <1>8, <1>13 DEF GoesOn, sent
<1> QED
  BY <1>13, <1>14 DEF GoesOn, sent
\* Whatever byte comes, the request goes on with a byte that the agent takes.
LEMMA ByteGoesOn ==
  ASSUME NEW a, NEW v, NEW s, NEW c \in Bytes, NEW r, NEW w, OnWay(a, v, s, r, w)
  PROVE  GoesOn(a, v, s, c, r, w)
<1>1. a \in Agent
  BY OnWayFields, AgentFields
<1>2. CASE a.state \in ContentNames
  <2>1. PICK k \in 1 .. 4 : a.state = ContentStates[k]
    BY <1>2 DEF ContentNames, ContentStates
  <2> QED
    BY <2>1, CharacterGoesOn
<1>3. CASE a.state \in MethodStates \cup {"uri"} \cup ProtocolStates
  BY <1>3, MethodGoesOn, URIGoesOn, ProtocolGoesOn
<1>4. CASE a.state \in MajorStates \cup MinorStates \cup {"expecting_newline_1"}
  BY <1>4, MajorGoesOn, MinorGoesOn, NewlineGoesOn
<1>5. CASE a.state \in {"header_line_start", "header_name"}
  <2>1. CASE Len(a.req.headers) < Len(r.headers)
    BY <1>5, <2>1, HeaderNameGoesOn
  <2>2. CASE ~(Len(a.req.headers) < Len(r.headers))
    <3>1. a.state # "header_name"
      BY <2>2 DEF OnWay, PartOf
    <3> QED
      BY <1>5, <2>2, <3>1, EmptyLineGoesOn
  <2> QED
    BY <2>1, <2>2
<1>6. CASE a.state \in {"space_before_header_value", "header_value", "expecting_newline_2",
                        "expecting_newline_3"}
  BY <1>6, SpaceGoesOn, HeaderValueGoesOn, HeaderLineGoesOn, EndOfHeadersGoesOn
<1> QED
  BY <1>1, <1>2, <1>3, <1>4, <1>5, <1>6, ContentStatesNamed DEF Agent, States, HeaderStates
-----------------------------------------------------------------------------
(* The invariant of the specification. *)

Consumed == SubSeq(input, 1, position)

LEMMA ConsumedTyped ==
  ASSUME TypeOK
  PROVE  /\ Consumed \in Seq(Bytes) /\ Len(Consumed) = position
         /\ position < Len(input) =>
              /\ input[position + 1] \in Bytes
              /\ SubSeq(input, 1, position + 1) = Append(Consumed, input[position + 1])
<1>1. input \in Seq(Bytes) /\ position \in Nat /\ position <= Len(input) /\ Len(input) \in Nat
  BY DEF TypeOK
<1>2. Consumed \in Seq(Bytes) /\ Len(Consumed) = position
      /\ \A i \in 1 .. position : Consumed[i] = input[i]
  BY <1>1 DEF Consumed
<1>3. ASSUME position < Len(input)
      PROVE  /\ input[position + 1] \in Bytes
             /\ SubSeq(input, 1, position + 1) = Append(Consumed, input[position + 1])
  <2> DEFINE x == SubSeq(input, 1, position + 1)
             y == Append(Consumed, input[position + 1])
  <2>1. input[position + 1] \in Bytes
    BY <1>1, <1>3
  <2>2. x \in Seq(Bytes) /\ Len(x) = position + 1 /\ \A i \in 1 .. position + 1 : x[i] = input[i]
    BY <1>1, <1>3
  <2>3. y \in Seq(Bytes) /\ Len(y) = position + 1 /\ \A i \in 1 .. position + 1 : y[i] = input[i]
    BY <1>1, <1>2, <2>1
  <2> HIDE DEF x, y
  <2>4. x = y
    BY <2>2, <2>3, <1>1, SeqEqual
  <2> QED
    BY <2>1, <2>4 DEF x, y
<1> QED
  BY <1>2, <1>3

\* What the invariant says of the agent.
AgentKnown == Known(agent, version, Consumed)

LEMMA IInvKnown == TypeOK => (IInv <=> AgentKnown /\ OnItsWay)
<1> SUFFICES ASSUME TypeOK PROVE IInv <=> AgentKnown /\ OnItsWay
  OBVIOUS
<1>1. Typed(agent, version, Consumed)
  BY ConsumedTyped DEF TypeOK, Typed
<1>2. Parsing <=> (agent.verdict = "none" =>
                     /\ FieldsInOrder(agent, version) /\ ReadSoFar(agent, version, Consumed)
                     /\ InContent(agent))
  BY DEF Parsing, InContent, Consumed
<1>3. ASSUME Numbers(agent.req, version)
      PROVE  NothingInvented /\ ContentWhole <=>
               (agent.verdict = "true" =>
                 /\ Consumed = Encode(agent.req, version)
                 /\ WholeContent(agent.req.content, DeclaredLength(agent.req.headers)))
  BY <1>3 DEF NothingInvented, ContentWhole, Consumed, Numbers
<1> QED
  BY <1>1, <1>2, <1>3 DEF IInv, AgentKnown, Known, Numbers

\* No byte was read: the agent is before the method.
LEMMA NewAgentKnown ==
  ASSUME NEW v, v = [major |-> <<>>, minor |-> <<>>], NEW s, s = <<>>
  PROVE  /\ Known(NewAgent, v, s)
         /\ \A r, w : r.method \in Seq(Bytes) => PartOf(NewAgent, v, r, w)
<1> DEFINE none == <<>>
<1>1. /\ none \in Seq(Bytes) /\ none \in Seq(Digits) /\ none \in Seq(Header)
      /\ Number(none) = 0 /\ DeclaredLength(none) = 0 /\ none = <<>>
  BY EmptySeq, NumberEmpty, DeclaredLengthEmpty
<1>2. /\ NewAgent.state = "method_start" /\ NewAgent.verdict = "none"
      /\ NewAgent.contentLength = 0 /\ NewAgent.charSize = 0 /\ NewAgent.name = none
      /\ NewAgent.value = none /\ NewAgent.req = NoRequest
  BY DEF NewAgent
<1>3. /\ NoRequest.method = none /\ NoRequest.uri = none /\ NoRequest.major = 0
      /\ NoRequest.minor = 0 /\ NoRequest.headers = none /\ NoRequest.content = none
  BY DEF NoRequest
<1>4. v.major = none /\ v.minor = none /\ v = [major |-> none, minor |-> none] /\ s = none
  OBVIOUS
<1>5. /\ NewAgent = [state |-> "method_start", name |-> none, value |-> none, contentLength |-> 0,
                     charSize |-> 0, req |-> NoRequest, verdict |-> "none"]
      /\ NoRequest = [method |-> none, uri |-> none, major |-> 0, minor |-> 0, headers |-> none,
                      content |-> none]
  BY DEF NewAgent, NoRequest
<1> HIDE DEF none
<1>6. NoRequest \in Request /\ v \in Version
  BY <1>1, <1>4, <1>5 DEF Request, Version
<1>7. NewAgent \in Agent
  <2>1. "method_start" \in States /\ 0 \in 0 .. UnsignedValues - 1
    BY StatesNamed, SizesAssumption
  <2> QED
    BY <2>1, <1>1, <1>5, <1>6 DEF Agent
<1>8. FieldsInOrder(NewAgent, v)
  BY <1>1, <1>2, <1>3, <1>4 DEF FieldsInOrder
<1>9. ReadSoFar(NewAgent, v, s)
  BY <1>2, <1>3, <1>4, ContentStatesNamed DEF ReadSoFar, MajorStates, MinorStates, MethodStates,
     ContentNames
<1>10. InContent(NewAgent)
  BY <1>2, NotInContent DEF ContentNames
<1>11. Known(NewAgent, v, s)
  BY <1>1, <1>2, <1>3, <1>4, <1>6, <1>7, <1>8, <1>9, <1>10 DEF Known, Typed, Numbers
<1>12. ASSUME NEW r, NEW w, r.method \in Seq(Bytes) PROVE PartOf(NewAgent, v, r, w)
  <2>1. IsPrefix(none, r.method)
    BY <1>1, <1>12, PrefixEmpty
  <2> QED
    BY <2>1, <1>2, <1>3, ContentStatesNamed DEF PartOf, MethodStates, MajorStates, MinorStates,
       BeforeProtocol, BeforeDot, BeforeMajor, BeforeMinor, HeaderStates, ContentNames
<1> QED
  BY <1>11, <1>12

LEMMA InitIInv == Init => IInv
<1> SUFFICES ASSUME Init PROVE IInv
  OBVIOUS
<1>1. /\ WellFormed(message.request, message.version) /\ input \in Seq(Bytes)
      /\ transferred = 0 /\ position = 0 /\ agent = NewAgent
      /\ version = [major |-> <<>>, minor |-> <<>>]
  BY TransmissionsAssumption DEF Init
<1>2. Consumed = <<>>
  BY <1>1 DEF Consumed
<1>3. Known(agent, version, Consumed)
  BY <1>1, <1>2, NewAgentKnown
<1>4. TypeOK
  <2>1. agent \in Agent /\ version \in Version
    BY <1>3 DEF Known, Typed
  <2>2. Len(input) \in Nat
    BY <1>1
  <2> QED
    BY <2>1, <2>2, <1>1 DEF TypeOK
<1>5. OnItsWay
  <2>1. message.request.method \in Seq(Bytes)
    BY <1>1 DEF WellFormed, Request
  <2>2. PartOf(agent, version, message.request, message.version)
    BY <2>1, <1>1, NewAgentKnown
  <2>3. agent.verdict = "none"
    BY <1>1 DEF NewAgent
  <2> QED
    BY <2>2, <2>3 DEF OnItsWay
<1> QED
  BY <1>3, <1>4, <1>5, IInvKnown DEF AgentKnown

\* On its way, the agent has not read all of the request, and takes its next byte.
LEMMA MessageGoesOn ==
  ASSUME IInv, agent.verdict = "none", NEW c \in Bytes,
         IsPrefix(Encode(message.request, message.version), input)
  PROVE  GoesOn(agent, version, Consumed, c, message.request, message.version)
<1>1. OnWay(agent, version, Consumed, message.request, message.version)
  BY IInvKnown DEF IInv, AgentKnown, TypeOK, OnItsWay, OnWay
<1> QED
  BY <1>1, ByteGoesOn

LEMMA StepIInv == IInv /\ [Next]_vars => IInv'
<1> SUFFICES ASSUME IInv, [Next]_vars PROVE IInv'
  OBVIOUS
<1>1. TypeOK /\ Known(agent, version, Consumed) /\ OnItsWay
  BY IInvKnown DEF IInv, AgentKnown
<1>2. /\ WellFormed(message.request, message.version) /\ input \in Seq(Bytes) /\ Len(input) \in Nat
      /\ transferred \in Nat /\ position \in Nat /\ position <= transferred
      /\ transferred <= Len(input) /\ agent \in Agent /\ version \in Version
  BY <1>1 DEF TypeOK
<1>3. CASE UNCHANGED vars
  BY <1>3, <1>1 DEF vars, IInv, TypeOK, Parsing, NothingInvented, ContentWhole, OnItsWay
<1>4. CASE ReadBuffer
  <2>1. /\ UNCHANGED <<message, input, position, agent, version>>
        /\ transferred' \in Nat /\ transferred <= transferred' /\ transferred' <= Len(input)
    BY <1>2, <1>4, SizesAssumption DEF ReadBuffer
  <2>2. TypeOK'
    BY <2>1, <1>2 DEF TypeOK
  <2> QED
    BY <2>1, <2>2, <1>1 DEF IInv, Parsing, NothingInvented, ContentWhole, OnItsWay
<1>5. CASE ConsumeByte
  <2> DEFINE c == input[position + 1]
  <2>1. /\ agent.verdict = "none" /\ position < transferred /\ position < Len(input)
        /\ agent' = consume(agent, c) /\ version' = Recorded(agent, version, c)
        /\ position' = position + 1 /\ UNCHANGED <<message, input, transferred>>
    BY <1>2, <1>5 DEF ConsumeByte
  <2>2. c \in Bytes /\ Consumed' = Append(Consumed, c)
    <3>1. Consumed' = SubSeq(input, 1, position + 1)
      BY <2>1 DEF Consumed
    <3> QED
      BY <3>1, <2>1, <1>1, ConsumedTyped
  <2> HIDE DEF c
  <2>3. Known(agent', version', Consumed')
    BY <2>1, <2>2, <1>1, ByteConsumed
  <2>4. TypeOK'
    <3>1. agent' \in Agent /\ version' \in Version
      BY <2>3 DEF Known, Typed
    <3> QED
      BY <3>1, <2>1, <1>2 DEF TypeOK
  <2>5. OnItsWay'
    <3> DEFINE sent == Encode(message.request, message.version)
    <3> SUFFICES ASSUME IsPrefix(sent, input)
                 PROVE  Arrives(agent', version', message.request, message.version)
      BY <2>1 DEF OnItsWay, Arrives
    <3>1. GoesOn(agent, version, Consumed, c, message.request, message.version)
      BY <2>1, <2>2, MessageGoesOn
    <3>2. Len(Consumed) = position /\ position < Len(sent)
      BY <3>1, <1>1, ConsumedTyped DEF GoesOn
    <3>3. sent \in Seq(Bytes)
      BY <1>2, WrittenTyped DEF WellFormed
    <3>4. c = sent[position + 1]
      <4> HIDE DEF sent
      <4>1. \A i \in 1 .. Len(sent) : sent[i] = input[i]
        BY <3>3, <1>2, PrefixIs
      <4>2. position + 1 \in 1 .. Len(sent)
        BY <3>2, <3>3, <1>2
      <4> QED
        BY <4>1, <4>2 DEF c
    <3> QED
      BY <3>1, <3>2, <3>4, <2>1 DEF GoesOn
  <2>6. AgentKnown'
    BY <2>3 DEF AgentKnown
  <2> QED
    BY <2>4, <2>5, <2>6, IInvKnown, PTL
<1> QED
  BY <1>3, <1>4, <1>5 DEF Next, Finished

-----------------------------------------------------------------------------
(* The theorems. *)

\* The inductive invariant: at each byte the agent holds the part of the grammar that it has
\* read, and no more.
THEOREM Invariance == Spec => []IInv
<1> QED
  BY InitIInv, StepIInv, PTL DEF Spec

\* Every variable keeps its type, and the loop never looks beyond what was transferred.
THEOREM TypeCorrect == Spec => []TypeOK
<1>1. IInv => TypeOK
  BY DEF IInv
<1> QED
  BY <1>1, Invariance, PTL

\* Whatever bytes arrive, in whatever buffers: an accepted request, written down again, is what
\* was consumed.
THEOREM NothingIsInvented == Spec => []NothingInvented
<1>1. IInv => NothingInvented
  BY DEF IInv
<1> QED
  BY <1>1, Invariance, PTL

\* Whatever bytes arrive, the content of an accepted request ends with the first whole
\* character that reaches the declared length.
THEOREM ContentIsWhole == Spec => []ContentWhole
<1>1. IInv => ContentWhole
  BY DEF IInv
<1> QED
  BY <1>1, Invariance, PTL

\* Every request that the grammar allows, of whatever length and in whatever buffers, is
\* accepted at its last byte, with the fields that were meant.
THEOREM WellFormedRequestsAccepted == Spec => []WellFormedAccepted
<1>1. ASSUME IInv PROVE WellFormedAccepted
  <2> DEFINE sent == Encode(message.request, message.version)
  <2> SUFFICES ASSUME IsPrefix(sent, input)
               PROVE  IF position < Len(sent) THEN agent.verdict = "none"
                      ELSE agent.verdict = "true" /\ agent.req = message.request
    BY DEF WellFormedAccepted
  <2>1. TypeOK /\ Known(agent, version, Consumed) /\ OnItsWay
    BY <1>1, IInvKnown DEF IInv, AgentKnown
  <2>2. Len(Consumed) = position /\ agent.verdict \in {"none", "false", "true"}
    BY <2>1, ConsumedTyped DEF TypeOK, Agent
  <2>3. CASE agent.verdict = "none"
    <3>1. "SP" \in Bytes
      BY DEF Bytes, Tspecials
    <3>2. position < Len(sent)
      BY <3>1, <2>2, <2>3, <1>1, MessageGoesOn DEF GoesOn
    <3> QED
      BY <3>2, <2>3
  <2>4. CASE agent.verdict = "true"
    <3>1. agent.req = message.request /\ version = message.version
      BY <2>1, <2>4 DEF OnItsWay
    <3>2. Consumed = sent
      BY <3>1, <2>1, <2>4 DEF Known
    <3> QED
      BY <3>1, <3>2, <2>2, <2>1, <2>4 DEF TypeOK
  <2> QED
    BY <2>1, <2>2, <2>3, <2>4 DEF OnItsWay
<1> QED
  BY <1>1, Invariance, PTL
===============================================================================

---------------------------- MODULE RequestParser ----------------------------
(***************************************************************************)
(* RequestParserAgent: the state machine that parses an HTTP request byte  *)
(* by byte, across the buffers that the reads of a connection deliver.     *)
(*                                                                         *)
(* A byte is represented by what the parser tells apart.  The header name  *)
(* content-length, in whatever case, is one symbol: the parser compares it *)
(* only when the line of the header ends.                                  *)
(***************************************************************************)
EXTENDS Integers, SequencesExt, Accumulation

CONSTANTS
  Transmissions,   \* what clients mean to send, with the bytes that arrive: <<message, bytes>>
  BufferSizes,     \* the sizes of the buffers that the reads deliver
  UnsignedValues   \* how many values m_contentLength has; a signed int has as many

ASSUME SizesAssumption ==
  BufferSizes \subseteq Nat \ {0} /\ UnsignedValues \in Nat \ {0} /\ UnsignedValues % 2 = 0

Digits == {"0", "1", "2", "3", "4"}
Controls == {"CR", "LF", "tab", "ctl"}
Tspecials == {"SP", "tab", "colon", "slash", "special"}
TokenChars == Digits \cup {"H", "T", "P", "dot", "minus", "plus", "letter", "content-length"}
HighBytes == {"cont", "lead2", "lead3", "lead4", "bad"}   \* 10xxxxxx, 110xxxxx, ..., 11111xxx
Bytes == Controls \cup Tspecials \cup TokenChars \cup HighBytes

isChar(c) == c \notin HighBytes
isCtl(c) == c \in Controls
isTspecial(c) == c \in Tspecials
isDigit(c) == c \in Digits
isToken(c) == isChar(c) /\ ~isCtl(c) /\ ~isTspecial(c)

getUTF8Length(c) ==
  CASE c = "lead2" -> 2
    [] c = "lead3" -> 3
    [] c = "lead4" -> 4
    [] c \in {"cont", "bad"} -> 0
    [] OTHER -> 1

Numeral(d) ==
  CASE d = "1" -> 1 [] d = "2" -> 2 [] d = "3" -> 3 [] d = "4" -> 4 [] OTHER -> 0

NextNumeral == [x \in Nat \X Digits |-> 10 * x[1] + Numeral(x[2])]
Number(ds) == Accumulated(NextNumeral, 0, ds)

\* boost::lexical_cast<int>, or 0 when it throws.
lexicalCast(value) ==
  LET signed == value # <<>> /\ value[1] \in {"minus", "plus"}
      digits == IF signed THEN Tail(value) ELSE value
      int == IF signed /\ value[1] = "minus" THEN -Number(digits) ELSE Number(digits)
  IN  IF /\ digits # <<>>
         /\ \A i \in DOMAIN digits : isDigit(digits[i])
         /\ int \in -(UnsignedValues \div 2) .. (UnsignedValues \div 2) - 1
        THEN int
        ELSE 0

\* The int is assigned to an unsigned int.
ContentLength(value) == lexicalCast(value) % UnsignedValues

-----------------------------------------------------------------------------
(* The agent, the request it fills in, and its verdict: an optional Boolean. *)

NoRequest == [method |-> <<>>, uri |-> <<>>, major |-> 0, minor |-> 0, headers |-> <<>>, content |-> <<>>]

NewAgent == [state |-> "method_start", name |-> <<>>, value |-> <<>>, contentLength |-> 0,
             charSize |-> 0, req |-> NoRequest, verdict |-> "none"]

Go(a, state) == [a EXCEPT !.state = state]
Accept(a) == [a EXCEPT !.verdict = "true"]
Reject(a) == [a EXCEPT !.verdict = "false"]

\* The states that expect one byte, with the byte and the state that follows.
Expected == [
  http_version_h |-> <<"H", "http_version_t_1">>,
  http_version_t_1 |-> <<"T", "http_version_t_2">>,
  http_version_t_2 |-> <<"T", "http_version_p">>,
  http_version_p |-> <<"P", "http_version_slash">>,
  http_version_slash |-> <<"slash", "http_version_major_start">>,
  expecting_newline_1 |-> <<"LF", "header_line_start">>,
  space_before_header_value |-> <<"SP", "header_value">>,
  expecting_newline_2 |-> <<"LF", "header_line_start">>]

\* A defect: the byte is not compared.
consumeExpectedLenient(a, c) == Go(a, Expected[a.state][2])

consumeExpected(a, c) ==
  IF c = Expected[a.state][1] THEN Go(a, Expected[a.state][2]) ELSE Reject(a)

consumeMethod(a, c) ==
  CASE a.state = "method" /\ c = "SP" -> Go(a, "uri")
    [] isToken(c) -> Go([a EXCEPT !.req.method = Append(@, c)], "method")
    [] OTHER -> Reject(a)

consumeURI(a, c) ==
  CASE c = "SP" -> Go(a, "http_version_h")
    [] isCtl(c) -> Reject(a)
    [] OTHER -> [a EXCEPT !.req.uri = Append(@, c)]

consumeMajor(a, c) ==
  CASE isDigit(c) -> Go([a EXCEPT !.req.major = 10 * @ + Numeral(c)], "http_version_major")
    [] a.state = "http_version_major" /\ c = "dot" -> Go(a, "http_version_minor_start")
    [] OTHER -> Reject(a)

consumeMinor(a, c) ==
  CASE isDigit(c) -> Go([a EXCEPT !.req.minor = 10 * @ + Numeral(c)], "http_version_minor")
    [] a.state = "http_version_minor" /\ c = "CR" -> Go(a, "expecting_newline_1")
    [] OTHER -> Reject(a)

consumeHeaderName(a, c) ==
  CASE a.state = "header_line_start" /\ c = "CR" -> Go(a, "expecting_newline_3")
    [] a.state = "header_line_start" /\ isToken(c) ->
         Go([a EXCEPT !.name = <<c>>, !.value = <<>>], "header_name")
    [] a.state = "header_name" /\ c = "colon" -> Go(a, "space_before_header_value")
    [] a.state = "header_name" /\ isToken(c) -> [a EXCEPT !.name = Append(@, c)]
    [] OTHER -> Reject(a)

\* "headers" is the sequence of the calls of addHeader, in their order and with every repeated
\* name: what RequestHeaders makes of them is a library's.
consumeHeaderValue(a, c) ==
  CASE c = "CR" ->
         Go([a EXCEPT !.contentLength = IF a.name = <<"content-length">> THEN ContentLength(a.value) ELSE @,
                      !.req.headers = Append(@, <<a.name, a.value>>),
                      !.name = <<>>,
                      !.value = <<>>], "expecting_newline_2")
    [] ~isCtl(c) -> [a EXCEPT !.value = Append(@, c)]
    [] OTHER -> Reject(a)

consumeEndOfHeaders(a, c) ==
  CASE c = "LF" /\ a.contentLength > 0 -> Go(a, "expecting_content_char1")
    [] c = "LF" /\ a.contentLength = 0 -> Accept(a)
    [] OTHER -> Reject(a)

ContentStates == <<"expecting_content_char1", "expecting_content_char2", "expecting_content_char3",
                   "expecting_content_char4">>

\* A defect: the content ends at its length, also in the middle of a character.
consumeContentBytes(a, c) ==
  LET more == [a EXCEPT !.req.content = Append(@, c)]
  IN  IF Len(more.req.content) >= a.contentLength THEN Accept(more)
      ELSE Go(more, "expecting_content_char1")

\* Byte k of a character.  The content ends only where a character does.  After an accepted
\* character of four bytes, and only there, the state is reset.
consumeCharByte(a, k, c) ==
  LET size == IF k = 1 THEN getUTF8Length(c) ELSE a.charSize
      taken == IF k = 1 THEN size > 0 ELSE c = "cont"
      more == [a EXCEPT !.charSize = size, !.req.content = Append(@, c)]
  IN  CASE ~taken -> Reject([a EXCEPT !.charSize = size])
        [] taken /\ k < size -> Go(more, ContentStates[k + 1])
        [] taken /\ k >= size /\ Len(more.req.content) < a.contentLength -> Go(more, ContentStates[1])
        [] OTHER -> Accept(IF k = 4 THEN Go(more, "method_start") ELSE more)

consumeContent(a, c) ==
  consumeCharByte(a, CHOOSE k \in DOMAIN ContentStates : ContentStates[k] = a.state, c)

consume(a, c) ==
  CASE a.state \in DOMAIN Expected -> consumeExpected(a, c)
    [] a.state \in {"method_start", "method"} -> consumeMethod(a, c)
    [] a.state = "uri" -> consumeURI(a, c)
    [] a.state \in {"http_version_major_start", "http_version_major"} -> consumeMajor(a, c)
    [] a.state \in {"http_version_minor_start", "http_version_minor"} -> consumeMinor(a, c)
    [] a.state \in {"header_line_start", "header_name"} -> consumeHeaderName(a, c)
    [] a.state = "header_value" -> consumeHeaderValue(a, c)
    [] a.state = "expecting_newline_3" -> consumeEndOfHeaders(a, c)
    [] OTHER -> consumeContent(a, c)

-----------------------------------------------------------------------------
(* The bytes of a request.  Its version is two numbers, written with the digits of v. *)

CRLF == <<"CR", "LF">>
HeaderLine(h) == h[1] \o <<"colon", "SP">> \o h[2] \o CRLF

Header == Seq(Bytes) \X Seq(Bytes)
NextLine == [x \in Seq(Bytes) \X Header |-> x[1] \o HeaderLine(x[2])]
HeaderLines(headers) == Accumulated(NextLine, <<>>, headers)

Target(r) == r.method \o <<"SP">> \o r.uri
UpToMajor(r, v) == Target(r) \o <<"SP", "H", "T", "T", "P", "slash">> \o v.major
UpToMinor(r, v) == UpToMajor(r, v) \o <<"dot">> \o v.minor
UpToHeaders(r, v) == UpToMinor(r, v) \o CRLF \o HeaderLines(r.headers)
Encode(r, v) == UpToHeaders(r, v) \o CRLF \o r.content

Request == [method : Seq(Bytes), uri : Seq(Bytes), major : Nat, minor : Nat,
            headers : Seq(Header), content : Seq(Bytes)]

Version == [major : Seq(Digits), minor : Seq(Digits)]

\* The length that the last Content-Length header of a request declares.
DeclaredLength(headers) ==
  LET declaring == {i \in DOMAIN headers : headers[i][1] = <<"content-length">>}
  IN  IF declaring = {} THEN 0 ELSE ContentLength(headers[Max(declaring)][2])

\* A UTF-8 character starts at byte i of s.
CharacterAt(s, i) ==
  LET end == i + getUTF8Length(s[i])
  IN  /\ i < end /\ end <= Len(s) + 1
      /\ \A k \in i + 1 .. end - 1 : s[k] = "cont"
      /\ end <= Len(s) => s[end] # "cont"

\* The content consists of whole characters, and ends with the first one that reaches the
\* length.
WholeContent(s, length) ==
  /\ s # <<>> => s[1] # "cont"
  /\ \A i \in 1 .. Len(s) : s[i] # "cont" => CharacterAt(s, i) /\ i <= length
  /\ Len(s) >= length

\* The requests that the parser lets pass, with a version v.
WellFormed(r, v) ==
  /\ r \in Request /\ v \in Version
  /\ r.method # <<>> /\ \A i \in 1 .. Len(r.method) : isToken(r.method[i])
  /\ \A i \in 1 .. Len(r.uri) : ~isCtl(r.uri[i]) /\ r.uri[i] # "SP"
  /\ v.major # <<>> /\ r.major = Number(v.major)
  /\ v.minor # <<>> /\ r.minor = Number(v.minor)
  /\ \A n \in 1 .. Len(r.headers) :
       LET name == r.headers[n][1] IN LET value == r.headers[n][2]
       IN  /\ name # <<>> /\ \A i \in 1 .. Len(name) : isToken(name[i])
           /\ \A i \in 1 .. Len(value) : ~isCtl(value[i])
  /\ WholeContent(r.content, DeclaredLength(r.headers))

ASSUME TransmissionsAssumption ==
  \A t \in Transmissions : WellFormed(t[1].request, t[1].version) /\ t[2] \in Seq(Bytes)

-----------------------------------------------------------------------------
(* The reads of a connection, and the loop of parseBuffer() over what they deliver. *)

VARIABLES
  message,      \* what the client means to send: a request, and how its version is written
  input,        \* the bytes that arrive
  transferred,  \* how many of them the reads have delivered
  position,     \* how many of these were consumed
  agent,
  version       \* the digits of the version that were consumed: a history variable, the agent
                \* keeps the numbers only

vars == <<message, input, transferred, position, agent, version>>

Init ==
  /\ \E t \in Transmissions : message = t[1] /\ input = t[2]
  /\ transferred = 0 /\ position = 0
  /\ agent = NewAgent
  /\ version = [major |-> <<>>, minor |-> <<>>]

Waiting == agent.verdict = "none" /\ position = transferred

\* A defect: the agent is reset at the start of each buffer.
ReadBufferAfresh ==
  /\ Waiting
  /\ transferred < Len(input)
  /\ \E size \in BufferSizes : transferred' = Min({transferred + size, Len(input)})
  /\ agent' = [NewAgent EXCEPT !.req = agent.req]
  /\ UNCHANGED <<message, input, position, version>>

\* A defect: the whole buffer is parsed, not the bytes that were transferred.
ReadWholeBuffer ==
  /\ Waiting
  /\ transferred < Len(input)
  /\ \E size \in BufferSizes : transferred' = transferred + size
  /\ UNCHANGED <<message, input, position, agent, version>>

\* parseBuffer() is called with what a read delivers.
ReadBuffer ==
  /\ Waiting
  /\ transferred < Len(input)
  /\ \E size \in BufferSizes :
       transferred' = IF transferred + size < Len(input) THEN transferred + size ELSE Len(input)
  /\ UNCHANGED <<message, input, position, agent, version>>

\* The digits with one more, if the agent takes c as a digit.
Recorded(a, v, c) ==
  CASE isDigit(c) /\ a.state \in {"http_version_major_start", "http_version_major"} ->
         [v EXCEPT !.major = Append(@, c)]
    [] isDigit(c) /\ a.state \in {"http_version_minor_start", "http_version_minor"} ->
         [v EXCEPT !.minor = Append(@, c)]
    [] OTHER -> v

\* An iteration of the loop: it ends with a verdict, and the rest of the buffer is not looked at.
ConsumeByte ==
  /\ agent.verdict = "none"
  /\ position < transferred
  /\ agent' = consume(agent, input[position + 1])
  /\ version' = Recorded(agent, version, input[position + 1])
  /\ position' = position + 1
  /\ UNCHANGED <<message, input, transferred>>

\* The connection asks nothing more of the parser once it has a verdict, or waits for bytes
\* that do not come.
Finished ==
  /\ agent.verdict # "none" \/ (Waiting /\ transferred = Len(input))
  /\ UNCHANGED vars

Next == ReadBuffer \/ ConsumeByte \/ Finished

Spec == Init /\ [][Next]_vars

-----------------------------------------------------------------------------
(* Properties *)

MethodStates == {"method_start", "method"}
ProtocolStates == {"http_version_h", "http_version_t_1", "http_version_t_2", "http_version_p",
                   "http_version_slash"}
MajorStates == {"http_version_major_start", "http_version_major"}
MinorStates == {"http_version_minor_start", "http_version_minor"}
HeaderStates == {"header_line_start", "header_name", "space_before_header_value", "header_value",
                 "expecting_newline_2", "expecting_newline_3"}
States == MethodStates \cup {"uri"} \cup ProtocolStates \cup MajorStates \cup MinorStates
          \cup {"expecting_newline_1"} \cup HeaderStates \cup ToSet(ContentStates)

Agent == [state : States, name : Seq(Bytes), value : Seq(Bytes),
          contentLength : 0 .. UnsignedValues - 1, charSize : 0 .. 4, req : Request,
          verdict : {"none", "false", "true"}]

TypeOK ==
  /\ WellFormed(message.request, message.version)
  /\ input \in Seq(Bytes)
  /\ transferred \in 0 .. Len(input)
  /\ position \in 0 .. transferred
  /\ agent \in Agent
  /\ version \in Version

\* A request that the grammar allows is parsed to the fields that were meant, at its last
\* byte and not before, in whatever buffers it arrives, and whatever follows it.
WellFormedAccepted ==
  LET sent == Encode(message.request, message.version)
  IN  IsPrefix(sent, input) =>
        IF position < Len(sent) THEN agent.verdict = "none"
        ELSE agent.verdict = "true" /\ agent.req = message.request

\* Of an accepted request no byte is lost, doubled or invented: what was parsed, written down
\* again, is what was consumed.
NothingInvented ==
  agent.verdict = "true" =>
    /\ SubSeq(input, 1, position) = Encode(agent.req, version)
    /\ agent.req.major = Number(version.major) /\ agent.req.minor = Number(version.minor)

\* The content of an accepted request consists of whole UTF-8 characters, and ends with the
\* first one that reaches the declared length.
ContentWhole ==
  agent.verdict = "true" =>
    WholeContent(agent.req.content, DeclaredLength(agent.req.headers))

(* The inductive invariant behind them *)

\* The states before a field is begun, or is complete.
BeforeProtocol == MethodStates \cup {"uri"}
BeforeMajor == BeforeProtocol \cup ProtocolStates \cup {"http_version_major_start"}
BeforeDot == BeforeMajor \cup {"http_version_major"}
BeforeMinor == BeforeDot \cup {"http_version_minor_start"}
BeforeHeaders == BeforeMinor \cup {"http_version_minor", "expecting_newline_1"}
BeforeContent == States \ ToSet(ContentStates)

\* No field is begun before its state.
FieldsInOrder(a, v) ==
  /\ a.state = "method_start" => a.req.method = <<>>
  /\ a.state \in MethodStates => a.req.uri = <<>>
  /\ a.state \in BeforeMajor => v.major = <<>>
  /\ a.state \in BeforeMinor => v.minor = <<>>
  /\ a.state \in BeforeHeaders => a.req.headers = <<>>
  /\ a.state \in {"header_name", "space_before_header_value"} => a.value = <<>>
  /\ a.state \in BeforeContent => a.req.content = <<>>

\* The bytes s bring the agent where it is: of a header also the LF that it still expects.
ReadSoFar(a, v, s) ==
  LET r == a.req IN
  /\ a.state \in MethodStates => s = r.method
  /\ a.state = "uri" => s = Target(r)
  /\ a.state = "http_version_h" => s = Target(r) \o <<"SP">>
  /\ a.state = "http_version_t_1" => s = Target(r) \o <<"SP", "H">>
  /\ a.state = "http_version_t_2" => s = Target(r) \o <<"SP", "H", "T">>
  /\ a.state = "http_version_p" => s = Target(r) \o <<"SP", "H", "T", "T">>
  /\ a.state = "http_version_slash" => s = Target(r) \o <<"SP", "H", "T", "T", "P">>
  /\ a.state \in MajorStates => s = UpToMajor(r, v)
  /\ a.state \in MinorStates => s = UpToMinor(r, v)
  /\ a.state = "expecting_newline_1" => s = UpToMinor(r, v) \o <<"CR">>
  /\ a.state = "header_line_start" => s = UpToHeaders(r, v)
  /\ a.state = "header_name" => s = UpToHeaders(r, v) \o a.name
  /\ a.state = "space_before_header_value" => s = UpToHeaders(r, v) \o a.name \o <<"colon">>
  /\ a.state = "header_value" => s = UpToHeaders(r, v) \o a.name \o <<"colon", "SP">> \o a.value
  /\ a.state = "expecting_newline_2" => s \o <<"LF">> = UpToHeaders(r, v)
  /\ a.state = "expecting_newline_3" => s = UpToHeaders(r, v) \o <<"CR">>
  /\ a.state \in ToSet(ContentStates) => s = Encode(r, v)

\* Of a content s, the last character starts at j and is to have size bytes.
LastCharacter(s, j, size, length) ==
  /\ j \in 1 .. Len(s) /\ s[1] # "cont" /\ s[j] # "cont" /\ size = getUTF8Length(s[j])
  /\ \A i \in j + 1 .. Len(s) : s[i] = "cont"
  /\ \A i \in 1 .. Len(s) : s[i] # "cont" => i <= length /\ (i < j => CharacterAt(s, i))

\* Byte k of a character is to come: k - 1 bytes of it were read, or all of the one before.
PartOfContent(a, k) ==
  LET s == a.req.content
  IN  IF k = 1
        THEN /\ Len(s) < a.contentLength
             /\ s # <<>> => LastCharacter(s, Len(s) + 1 - a.charSize, a.charSize, a.contentLength)
        ELSE /\ k <= a.charSize
             /\ LastCharacter(s, Len(s) + 2 - k, a.charSize, a.contentLength)

\* What the agent has is part of the request r, and of the digits w of its version.
PartOf(a, v, r, w) ==
  LET q == a.req
      header == r.headers[Len(q.headers) + 1]
  IN  /\ IF a.state \in MethodStates THEN IsPrefix(q.method, r.method) ELSE q.method = r.method
      /\ a.state = "uri" => IsPrefix(q.uri, r.uri)
      /\ a.state \notin BeforeProtocol => q.uri = r.uri
      /\ a.state \in MajorStates => IsPrefix(v.major, w.major)
      /\ a.state \notin BeforeDot => v.major = w.major
      /\ a.state \in MinorStates => IsPrefix(v.minor, w.minor)
      /\ a.state \notin BeforeMinor \cup {"http_version_minor"} => v.minor = w.minor
      /\ a.state \in HeaderStates => IsPrefix(q.headers, r.headers)
      /\ a.state \in {"header_name", "space_before_header_value", "header_value"} =>
           Len(q.headers) < Len(r.headers)
      /\ a.state = "header_name" => IsPrefix(a.name, header[1])
      /\ a.state \in {"space_before_header_value", "header_value"} => a.name = header[1]
      /\ a.state = "header_value" => IsPrefix(a.value, header[2])
      /\ a.state \in ToSet(ContentStates) \cup {"expecting_newline_3"} => q.headers = r.headers
      /\ a.state \in ToSet(ContentStates) => IsPrefix(q.content, r.content)

Parsing ==
  agent.verdict = "none" =>
    /\ FieldsInOrder(agent, version)
    /\ ReadSoFar(agent, version, SubSeq(input, 1, position))
    /\ \A k \in DOMAIN ContentStates :
         agent.state = ContentStates[k] => PartOfContent(agent, k)

\* An agent that is given a request that the grammar allows is on its way through it.
OnItsWay ==
  IsPrefix(Encode(message.request, message.version), input) =>
    /\ agent.verdict # "false"
    /\ agent.verdict = "none" => PartOf(agent, version, message.request, message.version)
    /\ agent.verdict = "true" => agent.req = message.request /\ version = message.version

IInv ==
  /\ TypeOK
  /\ agent.contentLength = DeclaredLength(agent.req.headers)
  /\ agent.req.major = Number(version.major) /\ agent.req.minor = Number(version.minor)
  /\ Parsing
  /\ NothingInvented
  /\ ContentWhole
  /\ OnItsWay

(* What the repository says, and the code does not do *)

\* "/content/is/trunkated/to/header/length": the content is as long as the header says.
ContentTruncated ==
  agent.verdict = "true" => Len(agent.req.content) <= DeclaredLength(agent.req.headers)
==============================================================================

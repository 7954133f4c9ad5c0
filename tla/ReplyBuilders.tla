------------------------------ MODULE ReplyBuilders ------------------------------
(***************************************************************************)
(* ReplyCORSHeadersBuilderService::addCORSHeaders, which adds headers to a *)
(* reply, and ReplyBufferBuilderService::buildBuffer, which writes it.     *)
(*                                                                         *)
(* Text is a sequence of words: what separates them is a word too, names   *)
(* and the items of lists are one word, and values may be several.  The    *)
(* headers of a reply are a function from names to values.                 *)
(***************************************************************************)
EXTENDS Accumulation, SequencesExt

CONSTANTS
  Words,      \* of which texts are made
  Order,      \* the names and items, in the order of std::map and std::set
  NoOrigin    \* in the place of an origin: the request has no such header

AllowOrigin == "Access-Control-Allow-Origin"
ExposeHeaders == "Access-Control-Expose-Headers"
AllowHeaders == "Access-Control-Allow-Headers"
AllowMethods == "Access-Control-Allow-Methods"
AllowCredentials == "Access-Control-Allow-Credentials"
MaxAge == "Access-Control-Max-Age"
CORSNames ==
  {AllowOrigin, ExposeHeaders, AllowHeaders, AllowMethods, AllowCredentials, MaxAge}

CRLF == "\r\n"
Comma == ","
NameValueSeparator == ": "

\* translateStatusToString(): the statuses that it knows.  It throws on any other.
StatusLine == [
  OK |-> "HTTP/1.0 200 OK", CREATED |-> "HTTP/1.0 201 Created",
  ACCEPTED |-> "HTTP/1.0 202 Accepted", NO_CONTENT |-> "HTTP/1.0 204 No Content",
  MULTI_STATUS |-> "HTTP/1.0 207 Multi-Status",
  MULTIPLE_CHOICES |-> "HTTP/1.0 300 Multiple Choices",
  MOVED_PERMANENTLY |-> "HTTP/1.0 301 Moved Permanently",
  MOVED_TEMPORARILY |-> "HTTP/1.0 302 Moved Temporarily",
  NOT_MODIFIED |-> "HTTP/1.0 304 Not Modified", BAD_REQUEST |-> "HTTP/1.0 400 Bad Request",
  UNAUTHORIZED |-> "HTTP/1.0 401 Unauthorized", FORBIDDEN |-> "HTTP/1.0 403 Forbidden",
  NOT_FOUND |-> "HTTP/1.0 404 Not Found", REQUEST_TIMEOUT |-> "HTTP/1.0 408 Request Timeout",
  INTERNAL_SERVER_ERROR |-> "HTTP/1.0 500 Internal Server Error",
  NOT_IMPLEMENTED |-> "HTTP/1.0 501 Not Implemented",
  BAD_GATEWAY |-> "HTTP/1.0 502 Bad Gateway",
  SERVICE_UNAVAILABLE |-> "HTTP/1.0 503 Service Unavailable"]

ASSUME WordsAssumption ==
  /\ {CRLF, Comma, NameValueSeparator, "true", "false"} \subseteq Words
  /\ {StatusLine[status] : status \in DOMAIN StatusLine} \subseteq Words
  /\ Order \in Seq(Words \ {CRLF, Comma})

Strings == ToSet(Order)

\* A defect: the separator is forgotten.
NextUnseparated(items) ==
  [p \in Seq(Words) \X Strings |-> IF p[2] \in items THEN Append(p[1], p[2]) ELSE p[1]]

\* The iteration of the loop over std::set, for an item that may be in it.
NextItem(items) ==
  [p \in Seq(Words) \X Strings |->
     IF p[2] \notin items THEN p[1]
     ELSE IF p[1] = <<>> THEN <<p[2]>> ELSE p[1] \o <<Comma, p[2]>>]

getCommaSeparatedList(items) == Accumulated(NextItem(items), <<>>, Order)

isAllowedOrigin(cors, origin) == {origin, "*"} \cap cors.allowedOrigins # {}

\* Reply::addHeader, for a name that the headers have not.
addHeader(headers, name, value) ==
  [n \in DOMAIN headers \cup {name} |-> IF n = name THEN value ELSE headers[n]]

addCORSHeaders(cors, origin, headers) ==
  IF ~cors.enabled \/ origin = NoOrigin THEN headers
  ELSE LET h1 == IF isAllowedOrigin(cors, origin)
                 THEN addHeader(headers, AllowOrigin, <<origin>>) ELSE headers
           h2 == addHeader(h1, ExposeHeaders, getCommaSeparatedList(cors.exposedHeaders))
           h3 == addHeader(h2, AllowHeaders, getCommaSeparatedList(cors.allowedHeaders))
           h4 == addHeader(h3, AllowMethods, getCommaSeparatedList(cors.allowedMethods))
           h5 == addHeader(h4, AllowCredentials,
                           <<IF cors.allowedCredentials THEN "true" ELSE "false">>)
       IN  addHeader(h5, MaxAge, <<cors.maxAge>>)

\* The iteration of the loop over std::map, for a name that may be in it.
NextLine(headers) ==
  [p \in Seq(Words) \X Strings |->
     IF p[2] \in DOMAIN headers
     THEN p[1] \o <<p[2], NameValueSeparator>> \o headers[p[2]] \o <<CRLF>> ELSE p[1]]

Lines(headers) == Accumulated(NextLine(headers), <<>>, Order)

\* A defect: the empty line is there only behind headers.
buildBufferCompact(status, headers, content) ==
  <<StatusLine[status], CRLF>> \o Lines(headers)
    \o (IF Lines(headers) = <<>> THEN <<>> ELSE <<CRLF>>) \o content

buildBuffer(status, headers, content) ==
  <<StatusLine[status], CRLF>> \o Lines(headers) \o <<CRLF>> \o content

-----------------------------------------------------------------------------
(* How a client reads a reply *)

\* Whether s holds a part between separators at m .. n.
IsPiece(s, separator, m, n) ==
  /\ m <= n
  /\ m = 1 \/ s[m - 1] = separator
  /\ n = Len(s) \/ s[n + 1] = separator
  /\ \A k \in m .. n : s[k] # separator

\* The parts of s between separators that are not empty.
Pieces(s, separator) ==
  {SubSeq(s, p[1], p[2]) :
     p \in {q \in (1 .. Len(s)) \X (1 .. Len(s)) : IsPiece(s, separator, q[1], q[2])}}

\* The empty line that ends the head of a reply.
EmptyLine(buffer) ==
  CHOOSE k \in 2 .. Len(buffer) :
    /\ buffer[k - 1] = CRLF /\ buffer[k] = CRLF
    /\ \A j \in 2 .. k - 1 : ~(buffer[j - 1] = CRLF /\ buffer[j] = CRLF)

HasEmptyLine(buffer) ==
  \E k \in 2 .. Len(buffer) : buffer[k - 1] = CRLF /\ buffer[k] = CRLF

StatusRead(buffer) == {status \in DOMAIN StatusLine : StatusLine[status] = buffer[1]}

\* The pairs of a name and a value.
HeadersRead(buffer) ==
  {<<line[1], SubSeq(line, 3, Len(line))>> :
     line \in {l \in Pieces(SubSeq(buffer, 3, EmptyLine(buffer) - 1), CRLF) : l[2] = NameValueSeparator}}

ContentRead(buffer) == SubSeq(buffer, EmptyLine(buffer) + 1, Len(buffer))

ItemsRead(value) == {item[1] : item \in {p \in Pieces(value, Comma) : Len(p) = 1}}
===============================================================================

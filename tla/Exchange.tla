-------------------------------- MODULE Exchange --------------------------------
(***************************************************************************)
(* What handleRead of a connection does once it has a whole request: its   *)
(* URI is parsed, the web services reply, the CORS headers are added, and  *)
(* the reply is written to the buffer.  It is one handler of one thread,   *)
(* and a step here is a call, or an iteration of a loop in one.            *)
(***************************************************************************)
EXTENDS RequestURIParser, ReplyBuilders

CONSTANTS
  Settings,   \* what an exchange is made of besides the URI, see Setting
  Cases       \* the pairs of a URI and a setting that are run

\* The configuration of CORS, the Origin of the request, and the reply of the web services.
Setting(s) ==
  /\ DOMAIN s.headers \subseteq Strings \ CORSNames
  /\ \A name \in DOMAIN s.headers : s.headers[name] \in Seq(Words \ {CRLF})
  /\ s.content \in Seq(Words)
  /\ s.origin = NoOrigin \/ s.origin \in Words \ {CRLF}
  /\ s.cors.maxAge \in Words \ {CRLF}
  /\ s.cors.exposedHeaders \cup s.cors.allowedHeaders \cup s.cors.allowedMethods \subseteq Strings

ASSUME CasesAssumption ==
  /\ Cases \subseteq URIs \X Settings
  /\ \A s \in Settings : Setting(s)
  /\ CORSNames \subseteq Strings

VARIABLES
  setting,
  headers,    \* those of the reply
  buffer,     \* m_replyBuffer
  stage       \* the call that is next; "write" is async_write, "threw" an exception

vars == <<uriVars, setting, headers, buffer, stage>>

Init ==
  /\ \E case \in Cases : received = case[1] /\ setting = case[2]
  /\ URIInit
  /\ headers = <<>> /\ buffer = <<>>
  /\ stage = "parse"

ParseURI ==
  /\ stage = "parse"
  /\ parse
  /\ UNCHANGED <<setting, headers, buffer, stage>>

\* `if (result)`, which is true of a rejected URI too: the web services reply.
ProcessRequest ==
  /\ stage = "parse"
  /\ parsing \in {"accepted", "rejected"}
  /\ headers' = setting.headers
  /\ stage' = "headers"
  /\ UNCHANGED <<uriVars, setting, buffer>>

AddCORSHeaders ==
  /\ stage = "headers"
  /\ headers' = addCORSHeaders(setting.cors, setting.origin, headers)
  /\ stage' = "buffer"
  /\ UNCHANGED <<uriVars, setting, buffer>>

BuildBuffer ==
  /\ stage = "buffer"
  /\ IF setting.status \in DOMAIN StatusLine
     THEN buffer' = buildBuffer(setting.status, headers, setting.content) /\ stage' = "write"
     ELSE stage' = "threw" /\ UNCHANGED buffer
  /\ UNCHANGED <<uriVars, setting, headers>>

\* The handler returns, or the exception ends the process.
Ended == stage \in {"write", "threw"} /\ UNCHANGED vars

Next == ParseURI \/ ProcessRequest \/ AddCORSHeaders \/ BuildBuffer \/ Ended

Spec == Init /\ [][Next]_vars

-----------------------------------------------------------------------------
(* Properties *)

TypeOK ==
  /\ URITypeOK
  /\ setting \in Settings
  /\ stage \in {"parse", "headers", "buffer", "write", "threw"}
  /\ stage # "parse" => parsing \in {"accepted", "rejected"}

\* A client that reads the buffer finds the status, the headers and the content that the web
\* service replied, also when the content holds empty lines and lines that look like headers.
\* The headers that it finds besides are those of CORS.
ReplyReadBack ==
  stage = "write" =>
    LET replied == {<<name, setting.headers[name]>> : name \in DOMAIN setting.headers}
    IN  /\ HasEmptyLine(buffer)
        /\ StatusRead(buffer) = {setting.status}
        /\ ContentRead(buffer) = setting.content
        /\ {h \in HeadersRead(buffer) : h[1] \notin CORSNames} = replied

\* The client finds headers of CORS only when they are enabled and it sent an Origin; it finds
\* its origin allowed exactly when the configuration allows it, never another one nor "*"; and
\* the lists that it reads are the sets of the configuration.
CORSReadBack ==
  stage = "write" =>
    LET cors == setting.cors
        found(name) == {h[2] : h \in {r \in HeadersRead(buffer) : r[1] = name}}
        list(name) == {ItemsRead(value) : value \in found(name)}
    IN  IF cors.enabled /\ setting.origin # NoOrigin
        THEN /\ found(AllowOrigin) = {<<o>> : o \in {setting.origin} \cap
                  (IF "*" \in cors.allowedOrigins THEN {setting.origin} ELSE cors.allowedOrigins)}
             /\ list(ExposeHeaders) = {cors.exposedHeaders}
             /\ list(AllowHeaders) = {cors.allowedHeaders}
             /\ list(AllowMethods) = {cors.allowedMethods}
             /\ found(AllowCredentials) = {<<IF cors.allowedCredentials THEN "true" ELSE "false">>}
             /\ found(MaxAge) = {<<cors.maxAge>>}
        ELSE \A name \in CORSNames : found(name) = {}
===============================================================================

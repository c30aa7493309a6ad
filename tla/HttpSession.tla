----------------------------- MODULE HttpSession -----------------------------
(***************************************************************************)
(* One connection: HttpServer::handleClient(), HttpSession::recvRequest()  *)
(* and the callbacks of HttpRequestParser, on top of the generated parser. *)
(*                                                                         *)
(* The client sends any bytes, in reads that end anywhere.  A step of the  *)
(* parser is one byte.  The parser's offsets into the buffer are kept as   *)
(* distances back from the current byte; a distance or length of MaxLen    *)
(* means MaxLen or more.  Contents are not kept: whether a method is       *)
(* known, a header is Content-Length or asks for Connection: close is      *)
(* decided when it is reported.                                            *)
(*                                                                         *)
(* lex is not part of the code: it is where the tokens of the stream       *)
(* really begin, read off the delimiters alone.                            *)
(***************************************************************************)
EXTENDS Http11Parser, Integers, SequencesExt

CONSTANTS
    MaxLen,        \* lengths are counted up to here
    MaxReads,      \* in how many reads a head may arrive
    MaxBody,       \* the longest body
    MaxRequests,   \* requests on one connection
    m_isKeepalive  \* the server's flag

ASSUME SessionAssumption ==
    /\ MaxLen \in Nat /\ MaxLen > 8
    /\ MaxReads \in Nat \ {0} /\ MaxBody \in Nat /\ MaxRequests \in Nat \ {0}
    /\ m_isKeepalive \in BOOLEAN

VARIABLES
    pc,            \* "read", "parse", "body", "serve", "closed"
    reads,         \* reads used by the current head
    requests,      \* requests begun
    cs,            \* parser->cs
    uri_relaxed,   \* never initialized by the code
    at,            \* distances to mark, field_start and query_start; field_len
    m_error,       \* an error raised by a callback
    contentLength, \* what getContentLength() would return
    need,          \* bytes of the body that readFixSize() still waits for
    isClose,       \* HttpRequest::m_close
    calls,         \* the callbacks of this head, a run of fields as one
    reported,      \* the slices handed to callbacks by the last byte
    lex,           \* the tokens of the stream
    unread         \* bytes of the current request's body still on the stream

parserVars == <<cs, at, m_error, contentLength, calls, reported>>
vars == <<pc, reads, requests, cs, uri_relaxed, at, m_error, contentLength, need,
          isClose, calls, reported, lex, unread>>

Stale == -1     \* an offset into an earlier buffer
Far(n) == IF n = Stale THEN Stale ELSE IF n < MaxLen THEN n + 1 ELSE MaxLen

\* The offsets at the front of a new buffer.
BufferStart == [mark |-> 0, field_start |-> 0, field_len |-> 0, query_start |-> Stale]

-----------------------------------------------------------------------------
(* The tokens of a request, by their delimiters.                           *)

LexKinds == {"start", "method", "target", "path", "query", "fragment", "version",
             "eol", "line", "name", "blank", "value", "xml", "json", "data"}

\* What a callback is given: a length, and the token it is called in.
Slice == [what : {"request_method", "request_path", "query_string", "fragment",
                  "http_version", "write_field", "write_value"},
          len : -1 .. MaxLen, kind : LexKinds, true : 0 .. MaxLen]

Tok(k, n) == [kind |-> k, len |-> n, name |-> lex.name]
More == [lex EXCEPT !.len = Far(@)]
NewLine(c) == IF c = "LF" THEN Tok("line", 0) ELSE Tok("eol", 0)

LexTarget(c) ==
    CASE c = "SP" -> Tok("version", 0)
      [] c = "#" /\ lex.kind # "fragment" -> Tok("fragment", 0)
      [] c = "?" /\ lex.kind \in {"target", "path"} -> Tok("query", 0)
      [] c = "/" /\ lex.kind = "target" -> [More EXCEPT !.kind = "path"]
      [] c = ":" /\ lex.kind = "target" -> Tok("path", 0)
      [] OTHER -> More

LexField(c) ==
    CASE lex.kind = "line" -> IF c = "LF" THEN Tok("data", 0) ELSE Tok("name", 1)
      [] lex.kind = "name" ->
            IF c = ":" THEN [kind |-> "blank", len |-> 0, name |-> lex.len] ELSE More
      [] lex.kind = "blank" /\ c \in {"SP", "TAB"} -> lex
      [] lex.kind = "blank" /\ c \notin {"SP", "TAB", "CR", "LF"} -> Tok("value", 1)
      [] lex.kind = "value" /\ c \notin {"CR", "LF"} -> More
      [] OTHER -> NewLine(c)

Lex(c) ==
    CASE lex.kind = "start" ->
            Tok(IF c = "<" THEN "xml" ELSE IF c = "@" THEN "json" ELSE "method", 1)
      [] lex.kind = "method" -> IF c = "SP" THEN Tok("target", 0) ELSE More
      [] lex.kind \in {"target", "path", "query", "fragment"} -> LexTarget(c)
      [] lex.kind = "version" -> IF c \in {"CR", "LF"} THEN NewLine(c) ELSE More
      [] lex.kind = "eol" -> Tok("line", 0)
      [] lex.kind \in {"line", "name", "blank", "value"} -> LexField(c)
      [] lex.kind = "xml" ->
            IF c \in {"TAB", "LF", "VT", "CR", "SP", "/", ">"} THEN Tok("data", 0) ELSE More
      [] lex.kind = "json" -> IF c = "SP" THEN Tok("data", 0) ELSE More
      [] OTHER -> lex

-----------------------------------------------------------------------------
(* http_parser_execute(), one byte.                                        *)

\* What the actions of edge r leave in the offsets, seen from the current byte.
AtByte(r) ==
    LET acts == Range(r[4])
        fs == IF "start_field" \in acts THEN 0 ELSE at.field_start
    IN  [mark |-> IF acts \cap {"mark", "start_value"} # {} THEN 0 ELSE at.mark,
         field_start |-> fs,
         field_len |-> IF "write_field" \in acts THEN fs ELSE at.field_len,
         query_start |-> IF "start_query" \in acts THEN 0 ELSE at.query_start]

\* p moves on: every distance grows, field_len is a length and stays.
Advance(a) ==
    [a EXCEPT !.mark = Far(@), !.field_start = Far(@), !.query_start = Far(@)]

Report(what, n, true) ==
    [what |-> what, len |-> n, kind |-> lex.kind, true |-> true]

Reports(r) ==
    LET a == AtByte(r)
        acts == Range(r[4])
    IN  {Report(w, a.mark, lex.len) :
            w \in acts \cap {"request_method", "request_path", "fragment", "http_version"}}
          \cup {Report(w, a.query_start, lex.len) : w \in acts \cap {"query_string"}}
          \cup (IF "write_value" \in acts
                THEN {Report("write_value", a.mark, lex.len),
                      Report("write_field", a.field_len, lex.name)}
                ELSE {})

Callbacks == {"request_method", "request_path", "query_string", "request_uri",
              "fragment", "http_version", "write_value", "done"}

\* One action more: a callback is noted, unless it repeats the last field.
Call(s, act) ==
    IF act \notin Callbacks \/ (act = "write_value" /\ s # <<>> /\ Last(s) = act)
    THEN s
    ELSE Append(s, act)

\* The actions of edge r in their order: no edge has more than three.
CallsAfter(r) ==
    LET act(i) == IF i \in DOMAIN r[4] THEN r[4][i] ELSE "none"
    IN  Call(Call(Call(calls, act(1)), act(2)), act(3))

\* on_request_method: CharsToHttpMethod() may not know it.
on_request_method(r, e) == "request_method" \in Range(r[4]) /\ e

\* on_request_version: strncmp() over the length it is given.
on_request_version(r) ==
    "http_version" \in Range(r[4]) /\ AtByte(r).mark \notin {0, 8}

\* on_request_http_field: a name of length 0 is only logged.
on_request_http_field(r, n) ==
    IF "write_value" \in Range(r[4]) /\ AtByte(r).field_len # 0
    THEN n
    ELSE contentLength

\* The client's next byte.  Its headers say the body has n bytes if this one
\* ends a Content-Length field; known is whether the method is one.
ParseByte(c, n, known) ==
    /\ pc = "parse"
    /\ cs \notin {http_parser_error} /\ cs < http_parser_first_final
    /\ IF Taken(cs, c, uri_relaxed) = {}
       THEN /\ cs' = http_parser_error
            /\ reported' = {}
            /\ UNCHANGED <<at, m_error, contentLength, calls, lex, unread>>
       ELSE LET r == CHOOSE x \in Taken(cs, c, uri_relaxed) : TRUE
            IN  /\ n # 0 => "write_value" \in Range(r[4]) /\ unread = 0
                /\ ~known => "request_method" \in Range(r[4])
                /\ cs' = r[3]
                /\ at' = Advance(AtByte(r))
                /\ reported' = Reports(r)
                /\ calls' = CallsAfter(r)
                /\ m_error' = (m_error \/ on_request_method(r, ~known)
                                       \/ on_request_version(r))
                /\ contentLength' = IF n = 0 THEN contentLength
                                    ELSE on_request_http_field(r, n)
                /\ unread' = IF n = 0 THEN unread ELSE n
                /\ lex' = Lex(c)
    /\ UNCHANGED <<pc, reads, requests, uri_relaxed, need, isClose>>

-----------------------------------------------------------------------------
(* HttpSession::recvRequest().                                             *)

\* read() returned bytes: execute() starts at the front of the buffer and forgets
\* every offset but query_start.
Read ==
    /\ pc = "read"
    /\ reads < MaxReads
    /\ pc' = "parse"
    /\ reads' = reads + 1
    /\ at' = BufferStart
    /\ reported' = {}
    /\ UNCHANGED <<requests, cs, uri_relaxed, m_error, contentLength, need, isClose,
                   calls, lex, unread>>

\* read() failed or the peer closed: close() and nullptr.
ReadFails ==
    /\ pc \in {"read", "body"}
    /\ pc' = "closed"
    /\ reported' = {}
    /\ UNCHANGED <<reads, requests, cs, uri_relaxed, at, m_error, contentLength, need,
                   isClose, calls, lex, unread>>

\* The buffer is used up: hasError(), or the next read.
EndOfRead ==
    /\ pc = "parse"
    /\ cs < http_parser_first_final
    /\ pc' = IF m_error \/ cs = http_parser_error THEN "closed" ELSE "read"
    /\ m_error \/ cs = http_parser_error \/ reads < MaxReads
    /\ reported' = {}
    /\ UNCHANGED <<reads, requests, cs, uri_relaxed, at, m_error, contentLength, need,
                   isClose, calls, lex, unread>>

\* Mutant of Finished: the rest of the body is not waited for.
FinishedNoRest(offset, close) ==
    /\ pc = "parse"
    /\ cs >= http_parser_first_final
    /\ offset <= unread
    /\ pc' = IF m_error THEN "closed" ELSE "serve"
    /\ unread' = unread - offset
    /\ isClose' = close
    /\ reported' = {}
    /\ UNCHANGED <<reads, requests, cs, uri_relaxed, at, m_error, contentLength, need,
                   calls, lex>>

\* isFinished() with offset bytes of the body already in the buffer (the client
\* sends nothing after its body before it has the answer).
Finished(offset, close) ==
    /\ pc = "parse"
    /\ cs >= http_parser_first_final
    /\ offset <= unread
    /\ IF m_error
       THEN pc' = "closed" /\ UNCHANGED <<need, unread, isClose>>
       ELSE /\ pc' = IF contentLength > offset THEN "body" ELSE "serve"
            /\ need' = IF contentLength > offset THEN contentLength - offset ELSE 0
            /\ unread' = unread - offset
            /\ isClose' = close
    /\ reported' = {}
    /\ UNCHANGED <<reads, requests, cs, uri_relaxed, at, m_error, contentLength, calls,
                   lex>>

\* Mutant of ReadFixSize: left is lowered once too often.
ReadFixSizeOff(n) ==
    /\ pc = "body"
    /\ n <= need /\ n <= unread
    /\ need' = need - n - 1
    /\ unread' = unread - n
    /\ pc' = IF need' = 0 THEN "serve" ELSE "body"
    /\ reported' = {}
    /\ UNCHANGED <<reads, requests, cs, uri_relaxed, at, m_error, contentLength,
                   isClose, calls, lex>>

\* Stream::readFixSize(): one read of n bytes of what is left.
ReadFixSize(n) ==
    /\ pc = "body"
    /\ n <= need /\ n <= unread
    /\ need' = need - n
    /\ unread' = unread - n
    /\ pc' = IF need' = 0 THEN "serve" ELSE "body"
    /\ reported' = {}
    /\ UNCHANGED <<reads, requests, cs, uri_relaxed, at, m_error, contentLength,
                   isClose, calls, lex>>

-----------------------------------------------------------------------------
(* HttpServer::handleClient(): answer and go on, or close.                 *)

NewParser(c, e, len, cl) == c = http_parser_start /\ e = FALSE /\ len = 0 /\ cl = <<>>

handleClient ==
    /\ pc = "serve"
    /\ IF isClose \/ ~m_isKeepalive
       THEN /\ pc' = "closed"
            /\ UNCHANGED <<requests, cs, m_error, contentLength, calls, lex, at, reads,
                           uri_relaxed>>
       ELSE /\ requests < MaxRequests
            /\ requests' = requests + 1
            /\ pc' = "read"
            /\ reads' = 0
            /\ NewParser(cs', m_error', contentLength', calls')
            /\ uri_relaxed' \in BOOLEAN
            /\ at' = BufferStart
            /\ lex' = [kind |-> "start", len |-> 0, name |-> 0]
    /\ reported' = {}
    /\ UNCHANGED <<need, isClose, unread>>

Init ==
    /\ pc = "read" /\ reads = 0 /\ requests = 1
    /\ NewParser(cs, m_error, contentLength, calls)
    /\ uri_relaxed \in BOOLEAN
    /\ at = BufferStart
    /\ need = 0 /\ isClose = FALSE
    /\ reported = {}
    /\ lex = [kind |-> "start", len |-> 0, name |-> 0]
    /\ unread = 0

Next ==
    \/ Read \/ ReadFails \/ EndOfRead \/ handleClient
    \/ \E c \in Byte, n \in 0 .. MaxBody, known \in BOOLEAN : ParseByte(c, n, known)
    \/ \E k \in 0 .. MaxBody, close \in BOOLEAN : Finished(k, close)
    \/ \E k \in 1 .. MaxBody : ReadFixSize(k)

Spec == Init /\ [][Next]_vars

-----------------------------------------------------------------------------
(* Properties.                                                             *)

\* Types: the automaton stays in its states, offsets and lengths are counted to
\* MaxLen, and readFixSize() never waits for more than the longest body.
TypeOK ==
    /\ pc \in {"read", "parse", "body", "serve", "closed"}
    /\ reads \in 0 .. MaxReads /\ requests \in 1 .. MaxRequests
    /\ cs \in State /\ uri_relaxed \in BOOLEAN /\ m_error \in BOOLEAN
    /\ at \in [mark : 0 .. MaxLen, field_start : 0 .. MaxLen,
               field_len : 0 .. MaxLen, query_start : Stale .. MaxLen]
    /\ contentLength \in 0 .. MaxBody /\ need \in 0 .. MaxBody
    /\ unread \in 0 .. MaxBody /\ isClose \in BOOLEAN
    /\ calls \in Seq(Callbacks) /\ reported \subseteq Slice
    /\ lex \in [kind : LexKinds, len : 0 .. MaxLen, name : 0 .. MaxLen]

\* The tokens a callback may be about.
KindOf(what) ==
    CASE what = "request_method" -> {"method"}
      [] what = "request_path" -> {"target", "path", "xml", "json"}
      [] what = "query_string" -> {"query"}
      [] what = "fragment" -> {"fragment"}
      [] what = "http_version" -> {"version"}
      [] OTHER -> {"blank", "value"}

\* Every slice a callback of http_parser.cpp receives is the whole token it is
\* called for: it begins where the token begins in the stream, and ends at its end.
SlicesWhole == \A s \in reported : s.kind \in KindOf(s.what) /\ s.len = s.true

\* The place of a callback in the grammar of a head.
Rank(x) ==
    CASE x = "request_method" -> 1 [] x = "request_path" -> 2
      [] x = "query_string" -> 3 [] x = "request_uri" -> 4 [] x = "fragment" -> 5
      [] x = "http_version" -> 6 [] x = "write_value" -> 7 [] x = "done" -> 8

\* The callbacks of a head come in the order of the grammar, none twice but the
\* fields, and a finished head has reported all that a request line has.
CallbackOrder ==
    /\ \A i, j \in 1 .. Len(calls) : i < j => Rank(calls[i]) < Rank(calls[j])
    /\ cs = 348 => {"request_method", "request_path", "request_uri", "http_version",
                     "done"} \subseteq Range(calls)
    /\ cs = 349 => Range(calls) = {"request_path", "done"}

\* recvRequest() takes the whole body off the stream before the request is served,
\* so that the next request on a kept connection starts at its own first byte.
InSync == pc = "serve" => unread = 0 /\ need = 0
=============================================================================

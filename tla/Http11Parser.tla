---------------------------- MODULE Http11Parser ----------------------------
(***************************************************************************)
(* The request parser that Ragel generates from http11_parser.rl: a        *)
(* deterministic automaton over bytes whose edges carry the parser's       *)
(* actions.  It is written as a table of edges                             *)
(*                                                                         *)
(*     << state, set of bytes, next state, actions >>                      *)
(*                                                                         *)
(* with the state numbers of the generated code.  A byte without an edge   *)
(* goes to state 0, the error state.                                       *)
(*                                                                         *)
(* Bytes that no state tells apart are one symbol, named after one of      *)
(* them: "3" is 3,4,6-9; "A" is A-F, "G" the other capitals but H, P, T;   *)
(* "a" is a-f, "g" the other small letters but v; "!" is !$&'*_~;          *)
(* "(" is (),;=; "ctl" the control bytes without a name here, ` and |;     *)
(* "VT" is 11 and 12, "quote" is the double quote and \; "hi" 128-255.     *)
(* "more" is one of ^{} in a state where the code widens it and            *)
(* uri_relaxed is set.                                                     *)
(***************************************************************************)
EXTENDS Naturals, Sequences, FiniteSets

Digit == {"0", "1", "2", "3", "5"}
Upper == {"A", "G", "H", "P", "T"}
Lower == {"a", "g", "v"}
Alpha == Upper \cup Lower
Hex == Digit \cup {"A", "a"}
HexLetter == {"A", "a"}
SubDelims == {"!", "(", "+", "more"}
Control == {"ctl", "x02", "x03", "x04", "x05", "x06"}
Other == {"NUL", "TAB", "LF", "VT", "CR", "SP", "quote", "#", "%", "/", ":",
          "<", ">", "?", "@", "[", "]", "^", "lbrace", "rbrace", "DEL", "hi", "-", "."}
MoreDelims == {"^", "lbrace", "rbrace"}
Byte == Alpha \cup Digit \cup (SubDelims \ {"more"}) \cup Control \cup Other
Symbol == Byte \cup {"more"}

\* unreserved and sub_delims, what reg_name and userinfo are made of; pchar
RegChar == Alpha \cup Digit \cup SubDelims \cup {"-", "."}
PChar == RegChar \cup {":", "@", "hi"}

\* HTTP_CTL is written (0 - 31) | 127, which to Ragel is byte 0 or 127.
Token == Control \cup Alpha \cup Digit
            \cup {"VT", "!", "#", "%", "+", "-", ".", "^"}

-----------------------------------------------------------------------------
(* Edges.                                                                  *)

Edge(s, C, t) == {<<s, C, t, <<>>>>}
EdgeDo(s, C, t, acts) == {<<s, C, t, acts>>}

\* n hexadecimal digits, one state each, and then to t
Chain(s, t) == Edge(s, Hex, s + 1) \cup Edge(s + 1, Hex, t)

\* The method: up to 20 capitals and digits.
StartRows ==
    EdgeDo(1, Upper \cup Digit, 2, <<"mark">>)
      \cup EdgeDo(1, {"<"}, 194, <<"mark">>)
      \cup EdgeDo(1, {"@"}, 198, <<"mark">>)

MethodRows ==
    EdgeDo(2, {"SP"}, 3, <<"request_method">>)
      \cup Edge(2, Upper \cup Digit, 175)
      \cup (UNION {EdgeDo(s, {"SP"}, 3, <<"request_method">>) : s \in 175 .. 193})
      \cup (UNION {Edge(s, Upper \cup Digit, s + 1) : s \in 175 .. 192})

\* The first byte of the request target: a scheme, a path, or nothing.
TargetRows ==
    EdgeDo(3, {"SP"}, 4, <<"mark", "request_path", "request_uri">>)
      \cup EdgeDo(3, {"#"}, 20, <<"mark", "request_path", "request_uri">>)
      \cup EdgeDo(3, {"?"}, 29, <<"mark", "request_path">>)
      \cup EdgeDo(3, {"%"}, 24, <<"mark">>)
      \cup EdgeDo(3, {"/"}, 33, <<"mark">>)
      \cup EdgeDo(3, Alpha, 173, <<"mark">>)
      \cup EdgeDo(3, (RegChar \cup {"@"}) \ Alpha, 19, <<"mark">>)

\* The exits of a path: to the version, a fragment or a query.
PathEnd(s) ==
    EdgeDo(s, {"SP"}, 4, <<"request_path", "request_uri">>)
      \cup EdgeDo(s, {"#"}, 20, <<"request_path", "request_uri">>)
      \cup EdgeDo(s, {"?"}, 29, <<"request_path">>)

\* HTTP/1.0 or HTTP/1.1, then the end of the line
VersionRows ==
    EdgeDo(4, {"H"}, 5, <<"mark">>)
      \cup Edge(5, {"T"}, 6) \cup Edge(6, {"T"}, 7) \cup Edge(7, {"P"}, 8)
      \cup Edge(8, {"/"}, 9) \cup Edge(9, {"1"}, 10) \cup Edge(10, {"."}, 11)
      \cup Edge(11, {"0", "1"}, 12)
      \cup EdgeDo(12, {"LF"}, 13, <<"http_version">>)
      \cup EdgeDo(12, {"CR"}, 17, <<"http_version">>)
      \cup Edge(17, {"LF"}, 13)

\* The start of a header line, or the empty line that ends the head.  A CR that
\* no LF follows becomes part of a name.
LineRows ==
    EdgeDo(13, Token, 14, <<"start_field">>)
      \cup EdgeDo(13, {"CR"}, 18, <<"start_field">>)
      \cup EdgeDo(13, {"LF"}, 348, <<"start_field", "done">>)
      \cup Edge(18, Token \cup {"CR"}, 14)
      \cup EdgeDo(18, {":"}, 15, <<"write_field">>)
      \cup EdgeDo(18, {"LF"}, 348, <<"done">>)

\* A field name takes line ends too (see Token); blanks before a value move the mark.
FieldRows ==
    Edge(14, Token \cup {"CR", "LF"}, 14)
      \cup EdgeDo(14, {":"}, 15, <<"write_field">>)
      \cup EdgeDo(15, {"TAB", "SP"}, 15, <<"start_value">>)
      \cup EdgeDo(15, Byte \ {"NUL", "DEL", "LF", "CR", "TAB", "SP"}, 16,
                  <<"start_value">>)
      \cup EdgeDo(15, {"LF"}, 13, <<"start_value", "write_value">>)
      \cup EdgeDo(15, {"CR"}, 17, <<"start_value", "write_value">>)
      \cup Edge(16, Byte \ {"NUL", "DEL", "LF", "CR"}, 16)
      \cup EdgeDo(16, {"LF"}, 13, <<"write_value">>)
      \cup EdgeDo(16, {"CR"}, 17, <<"write_value">>)

\* done leaves the automaton in 348; resumed there, it would read on.
FinalRows ==
    Edge(348, Token \cup {"CR", "LF"}, 14) \cup EdgeDo(348, {":"}, 15, <<"write_field">>)

\* path_noscheme: the first segment, which takes no colon
FirstSegmentRows ==
    PathEnd(19) \cup Edge(19, RegChar \cup {"@"}, 19) \cup Edge(19, {"%"}, 24)
      \cup Edge(19, {"/"}, 26) \cup Chain(24, 19)

FragmentRows ==
    EdgeDo(20, {"SP"}, 4, <<"mark", "fragment">>)
      \cup EdgeDo(20, PChar \cup {"/", "?"}, 21, <<"mark">>)
      \cup EdgeDo(20, {"%"}, 22, <<"mark">>)
      \cup EdgeDo(21, {"SP"}, 4, <<"fragment">>)
      \cup Edge(21, PChar \cup {"/", "?"}, 21)
      \cup Edge(21, {"%"}, 22) \cup Chain(22, 21)

PathRows ==
    PathEnd(26) \cup Edge(26, PChar \cup {"/"}, 26) \cup Edge(26, {"%"}, 27)
      \cup Chain(27, 26)
      \cup PathEnd(33) \cup Edge(33, PChar, 26) \cup Edge(33, {"%"}, 27)
      \cup Edge(33, {"/"}, 34)

\* Mutant of QueryRows: the end of a query reports the path again.
QueryRowsPathAgain ==
    EdgeDo(29, PChar \cup {"/", "?"}, 30, <<"start_query">>)
      \cup EdgeDo(30, {"SP"}, 4, <<"query_string", "request_path", "request_uri">>)
      \cup Edge(30, PChar \cup {"/", "?"}, 30)

QueryRows ==
    EdgeDo(29, {"SP"}, 4, <<"start_query", "query_string", "request_uri">>)
      \cup EdgeDo(29, {"#"}, 20, <<"start_query", "query_string", "request_uri">>)
      \cup EdgeDo(29, PChar \cup {"/", "?"}, 30, <<"start_query">>)
      \cup EdgeDo(29, {"%"}, 31, <<"start_query">>)
      \cup EdgeDo(30, {"SP"}, 4, <<"query_string", "request_uri">>)
      \cup EdgeDo(30, {"#"}, 20, <<"query_string", "request_uri">>)
      \cup Edge(30, PChar \cup {"/", "?"}, 30)
      \cup Edge(30, {"%"}, 31) \cup Chain(31, 30)

\* Mutant of SchemeRows: the mark is not set again after the colon.
SchemeRowsOneMark ==
    PathEnd(173) \cup Edge(173, Alpha \cup Digit \cup {"+", "-", "."}, 173)
      \cup Edge(173, {"/"}, 26) \cup Edge(173, {":"}, 174)
      \cup PathEnd(174) \cup Edge(174, PChar, 26) \cup Edge(174, {"/"}, 33)

\* scheme ":" and what follows it, where the mark is set again
SchemeRows ==
    PathEnd(173) \cup Edge(173, Alpha \cup Digit \cup {"+", "-", "."}, 173)
      \cup Edge(173, {"!", "(", "more", "@"}, 19) \cup Edge(173, {"%"}, 24)
      \cup Edge(173, {"/"}, 26) \cup Edge(173, {":"}, 174)
      \cup EdgeDo(174, {"SP"}, 4, <<"mark", "request_path", "request_uri">>)
      \cup EdgeDo(174, {"#"}, 20, <<"mark", "request_path", "request_uri">>)
      \cup EdgeDo(174, {"?"}, 29, <<"mark", "request_path">>)
      \cup EdgeDo(174, PChar, 26, <<"mark">>)
      \cup EdgeDo(174, {"%"}, 27, <<"mark">>)
      \cup EdgeDo(174, {"/"}, 33, <<"mark">>)

-----------------------------------------------------------------------------
(* "//" authority.  The code holds it twice, for a request target and, 175 *)
(* states further, for the path of a socket request: o is 0 or 175, exit   *)
(* and path the exits of the copy and the state of its path.               *)

UserInfoRows(o, path) ==
    Edge(o + 34, {"/"}, path) \cup Edge(o + 34, RegChar, o + 35)
      \cup Edge(o + 34, {"%"}, o + 36) \cup Edge(o + 34, {":"}, o + 38)
      \cup Edge(o + 34, {"@"}, o + 42) \cup Edge(o + 34, {"["}, o + 47)
      \cup Edge(o + 35, {"/"}, path) \cup Edge(o + 35, RegChar, o + 35)
      \cup Edge(o + 35, {"%"}, o + 36) \cup Edge(o + 35, {":"}, o + 38)
      \cup Edge(o + 35, {"@"}, o + 42) \cup Chain(o + 36, o + 35)

\* After a colon: a port, or the rest of a userinfo.
PasswordRows(o, path) ==
    Edge(o + 38, {"/"}, path) \cup Edge(o + 38, Digit, o + 38)
      \cup Edge(o + 38, (RegChar \cup {":"}) \ Digit, o + 39)
      \cup Edge(o + 38, {"%"}, o + 40) \cup Edge(o + 38, {"@"}, o + 42)
      \cup Edge(o + 39, RegChar \cup {":"}, o + 39)
      \cup Edge(o + 39, {"%"}, o + 40) \cup Edge(o + 39, {"@"}, o + 42)
      \cup Chain(o + 40, o + 39)

HostRows(o, path) ==
    Edge(o + 42, {"/"}, path) \cup Edge(o + 42, RegChar, o + 43)
      \cup Edge(o + 42, {"%"}, o + 44) \cup Edge(o + 42, {":"}, o + 46)
      \cup Edge(o + 42, {"["}, o + 47)
      \cup Edge(o + 43, {"/"}, path) \cup Edge(o + 43, RegChar, o + 43)
      \cup Edge(o + 43, {"%"}, o + 44) \cup Edge(o + 43, {":"}, o + 46)
      \cup Chain(o + 44, o + 43)
      \cup Edge(o + 46, {"/"}, path) \cup Edge(o + 46, Digit, o + 46)

\* IP_literal.  Ragel reads 6( h16 ":" ) as byte 6 followed by one group.
LiteralRows(o) ==
    Edge(o + 47, {"x06"}, o + 48) \cup Edge(o + 47, Hex, o + 91)
      \cup Edge(o + 47, {":"}, o + 167) \cup Edge(o + 47, {"v"}, o + 169)
      \cup Edge(o + 48, Hex, o + 49)
      \cup (UNION {Edge(s, Hex, s + 1) : s \in o + 49 .. o + 51})
      \cup (UNION {Edge(s, {":"}, o + 53) : s \in o + 49 .. o + 52})

\* A byte after which dec_octet continues with 1, with 2, or not at all, and the
\* two states of "2": ("0"-"4") is the byte 0, and ("0"-"5") too.
OctetStart(s, short, one, two) ==
    Edge(s, {"0", "3", "5"}, short) \cup Edge(s, {"1"}, one) \cup Edge(s, {"2"}, two)

OctetRest(one, full, close, t) ==
    Edge(one, close, t) \cup Edge(one, Digit, one + 1)
      \cup Edge(one + 1, close, t) \cup Edge(one + 1, Digit, full)
      \cup Edge(one + 2, close, t) \cup Edge(one + 2, {"0"}, one + 3)
      \cup Edge(one + 2, {"5"}, one + 4)
      \cup Edge(one + 3, Digit, full) \cup Edge(one + 4, {"0"}, full)

\* The second to the fourth octet of an IPv4 address
OctetRows(o) ==
    OctetStart(o + 55, o + 56, o + 72, o + 74) \cup Edge(o + 56, {"."}, o + 57)
      \cup OctetStart(o + 57, o + 58, o + 67, o + 69) \cup Edge(o + 58, {"."}, o + 59)
      \cup OctetStart(o + 59, o + 60, o + 62, o + 64) \cup Edge(o + 60, {"]"}, o + 61)

OctetRestRows(o) ==
    OctetRest(o + 62, o + 60, {"]"}, o + 61)
      \cup OctetRest(o + 67, o + 58, {"."}, o + 59)
      \cup OctetRest(o + 72, o + 56, {"."}, o + 57)

\* After "]": a port or the path
AfterLiteralRows(o, path) ==
    Edge(o + 61, {"/"}, path) \cup Edge(o + 61, {":"}, o + 46)

\* The first octet of an IPv4 address may still be an h16: the states that have
\* read a short one (s), one in 1xx (one), one in 2xx (two) or a letter (let).
\* h is the state of an h16 with two digits, ends the bytes that end an h16 and
\* where they lead.
MixedGroup(s, one, two, let, h, dot, ends) ==
    LET Ends(t) == UNION {Edge(t, e[1], e[2]) : e \in ends}
    IN  OctetStart(s, s + 1, one, two) \cup Edge(s, HexLetter, let)
          \cup Edge(s + 1, {"."}, dot) \cup Edge(s + 1, Hex, h) \cup Ends(s + 1)
          \cup Edge(h, Hex, h + 1) \cup Ends(h)
          \cup Edge(h + 1, Hex, h + 2) \cup Ends(h + 1) \cup Ends(h + 2)
          \cup Edge(one, {"."}, dot) \cup Edge(one, HexLetter, h)
          \cup Edge(one, Digit, one + 1) \cup Ends(one)
          \cup Edge(one + 1, {"."}, dot) \cup Edge(one + 1, HexLetter, h + 1)
          \cup Edge(one + 1, Digit, one + 2) \cup Ends(one + 1)
          \cup Edge(one + 2, {"."}, dot) \cup Edge(one + 2, Hex, h + 2) \cup Ends(one + 2)
          \cup Edge(two, {"."}, dot) \cup Edge(two, {"0"}, two + 1)
          \cup Edge(two, {"5"}, two + 2) \cup Edge(two, Hex \ {"0", "5"}, h) \cup Ends(two)
          \cup Edge(two + 1, HexLetter, h + 1) \cup Edge(two + 1, Digit, one + 2)
          \cup Ends(two + 1)
          \cup Edge(two + 2, Hex \ {"0"}, h + 1) \cup Edge(two + 2, {"0"}, one + 2)
          \cup Ends(two + 2)
          \cup Edge(let, Hex, h) \cup Ends(let)

\* ls32 = h16 ":" h16 or an IPv4 address
Ls32Rows(o) ==
    MixedGroup(o + 53, o + 84, o + 87, o + 90, o + 77, o + 55, {<<{":"}, o + 80>>})

LastGroupRows(o) ==
    Edge(o + 80, Hex, o + 81)
      \cup (UNION {Edge(s, Hex, s + 1) \cup Edge(s, {"]"}, o + 61) : s \in o + 81 .. o + 82})
      \cup Edge(o + 83, Hex, o + 60) \cup Edge(o + 83, {"]"}, o + 61)

\* The groups before "::", four digits each; the k-th begins in state 86 + 5 * k
Group(s) ==
    (UNION {Edge(t, Hex, t + 1) : t \in s .. s + 2})
      \cup (UNION {Edge(t, {":"}, s + 4) : t \in s .. s + 3})

LeadingGroupRows(o) ==
    (UNION {Group(o + 86 + 5 * k) : k \in 1 .. 4})
      \cup (UNION {Edge(o + 90 + 5 * k, Hex, o + 91 + 5 * k) : k \in 1 .. 4})
      \cup Edge(o + 95, {":"}, o + 166) \cup Edge(o + 100, {":"}, o + 165)
      \cup Edge(o + 105, {":"}, o + 164) \cup Edge(o + 110, {":"}, o + 163)

\* {6,} takes any number of groups: the seventh repeats.
TrailingGroupRows(o) ==
    (UNION {Group(o + 86 + 5 * k) : k \in 5 .. 7})
      \cup Edge(o + 115, Hex, o + 116) \cup Edge(o + 120, Hex, o + 121)
      \cup Edge(o + 125, Hex, o + 121)
      \cup Edge(o + 115, {":"}, o + 151) \cup Edge(o + 120, {":"}, o + 150)
      \cup Edge(o + 125, {":"}, o + 126)

\* After "::", where the literal may end with each group
ShortRows(o) ==
    LET ends == {<<{"]"}, o + 61>>, <<{":"}, o + 131>>}
    IN  Edge(o + 126, {"x02", "x03"}, o + 48) \cup Edge(o + 126, {"]"}, o + 61)
          \cup MixedGroup(o + 126, o + 143, o + 146, o + 149, o + 128, o + 55, ends)
          \cup Edge(o + 150, {"x02", "x03"}, o + 48)
          \cup OctetStart(o + 150, o + 127, o + 143, o + 146)
          \cup Edge(o + 150, HexLetter, o + 149)

ShortLs32Rows(o) ==
    LET ends == {<<{"]"}, o + 61>>, <<{":"}, o + 80>>}
    IN  MixedGroup(o + 131, o + 136, o + 139, o + 142, o + 133, o + 55, ends)

MiddleRows(o) ==
    LET ends == {<<{":"}, o + 131>>}
    IN  Edge(o + 151, {"x02", "x03"}, o + 48)
          \cup MixedGroup(o + 151, o + 156, o + 159, o + 162, o + 153, o + 55, ends)

\* "::" after fewer groups wants a byte 2 to 5 where RFC 3986 repeats a group
CompressedRows(o) ==
    Edge(o + 163, {"x02", "x03"}, o + 48) \cup Edge(o + 163, Hex, o + 49)
      \cup Edge(o + 164, {"x02", "x03"}, o + 48) \cup Edge(o + 165, {"x03"}, o + 48)
      \cup Edge(o + 166, {"x04"}, o + 48) \cup Edge(o + 167, {":"}, o + 168)
      \cup Edge(o + 168, {"x02", "x03", "x04", "x05"}, o + 48)
      \cup Edge(o + 168, {"]"}, o + 61)
      \cup OctetStart(o + 168, o + 127, o + 143, o + 146)
      \cup Edge(o + 168, HexLetter, o + 149)

FutureRows(o) ==
    Edge(o + 169, Hex, o + 170) \cup Edge(o + 170, Hex, o + 170)
      \cup Edge(o + 170, {"."}, o + 171)
      \cup Edge(o + 171, RegChar \cup {":"}, o + 172)
      \cup Edge(o + 172, RegChar \cup {":"}, o + 172) \cup Edge(o + 172, {"]"}, o + 61)

RequestAuthorityRows ==
    UserInfoRows(0, 26) \cup PasswordRows(0, 26) \cup HostRows(0, 26)
      \cup AfterLiteralRows(0, 26) \cup LiteralRows(0) \cup OctetRows(0)
      \cup OctetRestRows(0) \cup Ls32Rows(0) \cup LastGroupRows(0)
      \cup LeadingGroupRows(0) \cup TrailingGroupRows(0) \cup ShortRows(0)
      \cup ShortLs32Rows(0) \cup MiddleRows(0) \cup CompressedRows(0) \cup FutureRows(0)
      \cup (UNION {PathEnd(s) : s \in {34, 35, 38, 42, 43, 46, 61}})

-----------------------------------------------------------------------------
(* Socket requests: <name ...> or @path {...}, each ended by a zero byte.  *)

XmlRows ==
    Edge(194, Alpha \cup Digit \cup {"-", "."}, 195)
      \cup Edge(195, Alpha \cup Digit \cup {"-", "."}, 195)
      \cup EdgeDo(195, {"TAB", "LF", "VT", "CR", "SP", "/", ">"}, 196, <<"request_path">>)
      \cup Edge(196, Byte \ {">"}, 196) \cup Edge(196, {">"}, 197)
      \cup Edge(197, Byte \ {">", "NUL"}, 196) \cup Edge(197, {">"}, 197)
      \cup EdgeDo(197, {"NUL"}, 349, <<"xml", "done">>)

JsonRows ==
    EdgeDo(199, {"lbrace"}, 200, <<"mark">>)
      \cup Edge(200, Byte \ {"rbrace"}, 200) \cup Edge(200, {"rbrace"}, 201)
      \cup Edge(201, Byte \ {"rbrace", "NUL"}, 200) \cup Edge(201, {"rbrace"}, 201)
      \cup EdgeDo(201, {"NUL"}, 349, <<"json", "done">>)

SocketPathRows ==
    (UNION {EdgeDo(s, {"SP"}, 199, <<"request_path">>) : s \in {198, 202, 205, 208}})
      \cup Edge(198, RegChar \cup {"@"}, 202) \cup Edge(198, {"%"}, 203)
      \cup Edge(198, {"/"}, 208)
      \cup Edge(202, RegChar \cup {"@"}, 202) \cup Edge(202, {"%"}, 203)
      \cup Edge(202, {"/"}, 205) \cup Chain(203, 202)
      \cup Edge(205, PChar \cup {"/"}, 205) \cup Edge(205, {"%"}, 206)
      \cup Chain(206, 205)
      \cup Edge(208, PChar, 205) \cup Edge(208, {"%"}, 206) \cup Edge(208, {"/"}, 209)

\* The second copy of the authority: states 209 to 347.
SocketEnd(S) == UNION {EdgeDo(s, {"SP"}, 199, <<"request_path">>) : s \in S}

SocketUserInfoRows ==
    UserInfoRows(175, 205) \cup PasswordRows(175, 205) \cup SocketEnd({209, 210, 213})

SocketHostRows ==
    HostRows(175, 205) \cup AfterLiteralRows(175, 205) \cup SocketEnd({217, 218, 221, 236})

SocketLiteralRows == LiteralRows(175) \cup OctetRows(175)
SocketOctetRestRows == OctetRestRows(175)
SocketLs32Rows == Ls32Rows(175) \cup LastGroupRows(175)
SocketLeadingGroupRows == LeadingGroupRows(175)
SocketTrailingGroupRows == TrailingGroupRows(175)
SocketShortLs32Rows == ShortLs32Rows(175)
SocketShortRows == ShortRows(175)
SocketMiddleRows == MiddleRows(175)
SocketFutureRows == CompressedRows(175) \cup FutureRows(175)

SocketAuthorityRows ==
    SocketUserInfoRows \cup SocketHostRows \cup SocketLiteralRows \cup SocketOctetRestRows
      \cup SocketLs32Rows \cup SocketLeadingGroupRows \cup SocketTrailingGroupRows
      \cup SocketShortLs32Rows \cup SocketShortRows \cup SocketMiddleRows
      \cup SocketFutureRows

Rows ==
    StartRows \cup MethodRows \cup TargetRows \cup VersionRows \cup LineRows
      \cup FieldRows \cup FinalRows \cup FirstSegmentRows \cup FragmentRows \cup PathRows
      \cup QueryRows \cup SchemeRows \cup RequestAuthorityRows
      \cup XmlRows \cup JsonRows \cup SocketPathRows \cup SocketAuthorityRows

http_parser_start == 1
http_parser_first_final == 348
http_parser_error == 0
State == 0 .. 349

Out == [s \in State |-> {r \in Rows : r[1] = s}]

\* The edges of state s that byte c takes; relaxed is uri_relaxed.
Taken(s, c, relaxed) ==
    {r \in Out[s] : c \in r[2] \/ (relaxed /\ c \in MoreDelims /\ "more" \in r[2])}

\* A table with two edges for one byte would not be the generated automaton.
ASSUME Deterministic ==
    \A s \in State : \A c \in Byte : \A b \in BOOLEAN : Cardinality(Taken(s, c, b)) <= 1
=============================================================================

-------------------------- MODULE HttpSessionProofs --------------------------
(***************************************************************************)
(* Proofs about HttpSession, for tokens and bodies of any length and any   *)
(* number of requests on a connection.                                     *)
(*                                                                         *)
(* The table of the generated automaton is used through one lemma, RowsOK: *)
(* by the token its state is in, an edge ends the token at one of its      *)
(* delimiters with the actions that report it, or stays in the token       *)
(* without any (EdgeOK).  OrderInv then says which callbacks each state    *)
(* has behind it, and LinkInv where the offsets stand in each state; both  *)
(* are kept byte by byte.                                                  *)
(***************************************************************************)
EXTENDS HttpSession, TLAPS

-----------------------------------------------------------------------------
(* The states of the automaton by the token they are in.                   *)

InMethod == {2} \cup 175 .. 193
InTarget == {19, 24, 25, 173}
InPath == {26, 27, 28} \cup 33 .. 172
InQuery == 30 .. 32
InFragment == 21 .. 23
InVersion == 5 .. 12
InName == {14, 18}
InXml == {194, 195}
InJson == {198} \cup 202 .. 347
InData == {196, 197, 199, 200, 201}

\* Edge r leads by a byte of C, or by none of D, to a state of T and does acts.
By(r, C, T, acts) == r[2] \subseteq C /\ r[3] \in T /\ r[4] = acts
ButBy(r, D, T, acts) == r[2] \cap D = {} /\ r[3] \in T /\ r[4] = acts

\* The ends of a path and of a query.
PathExit(r) ==
    \/ By(r, {"SP"}, {4}, <<"request_path", "request_uri">>)
    \/ By(r, {"#"}, {20}, <<"request_path", "request_uri">>)
    \/ By(r, {"?"}, {29}, <<"request_path">>)

EmptyPathExit(r) ==
    \/ By(r, {"SP"}, {4}, <<"mark", "request_path", "request_uri">>)
    \/ By(r, {"#"}, {20}, <<"mark", "request_path", "request_uri">>)
    \/ By(r, {"?"}, {29}, <<"mark", "request_path">>)

FromStart(r) ==
    \/ ButBy(r, {"<", "@"}, InMethod, <<"mark">>)
    \/ By(r, {"<"}, InXml, <<"mark">>)
    \/ By(r, {"@"}, InJson, <<"mark">>)

FromMethod(r) ==
    \/ By(r, {"SP"}, {3}, <<"request_method">>)
    \/ ButBy(r, {"SP"}, InMethod, <<>>)

FromNoTarget(r) ==
    \/ EmptyPathExit(r)
    \/ By(r, {"/"}, InPath, <<"mark">>)
    \/ ButBy(r, {"SP", "#", "?", "/", ":"}, InTarget, <<"mark">>)

FromTarget(r) ==
    \/ PathExit(r)
    \/ By(r, {"/"}, InPath, <<>>)
    \/ By(r, {":"}, {174}, <<>>)
    \/ ButBy(r, {"SP", "#", "?", "/", ":"}, InTarget, <<>>)

FromScheme(r) == EmptyPathExit(r) \/ ButBy(r, {"SP", "#", "?"}, InPath, <<"mark">>)

FromPath(r) == PathExit(r) \/ ButBy(r, {"SP", "#", "?"}, InPath, <<>>)

FromNoQuery(r) ==
    \/ By(r, {"SP"}, {4}, <<"start_query", "query_string", "request_uri">>)
    \/ By(r, {"#"}, {20}, <<"start_query", "query_string", "request_uri">>)
    \/ ButBy(r, {"SP", "#"}, InQuery, <<"start_query">>)

FromQuery(r) ==
    \/ By(r, {"SP"}, {4}, <<"query_string", "request_uri">>)
    \/ By(r, {"#"}, {20}, <<"query_string", "request_uri">>)
    \/ ButBy(r, {"SP", "#"}, InQuery, <<>>)

FromNoFragment(r) ==
    \/ By(r, {"SP"}, {4}, <<"mark", "fragment">>)
    \/ ButBy(r, {"SP"}, InFragment, <<"mark">>)

FromFragment(r) ==
    \/ By(r, {"SP"}, {4}, <<"fragment">>)
    \/ ButBy(r, {"SP"}, InFragment, <<>>)

FromNoVersion(r) == ButBy(r, {"CR", "LF"}, InVersion, <<"mark">>)

FromVersion(r) ==
    \/ By(r, {"LF"}, {13}, <<"http_version">>)
    \/ By(r, {"CR"}, {17}, <<"http_version">>)
    \/ ButBy(r, {"CR", "LF"}, InVersion, <<>>)

FromEol(r) == By(r, {"LF"}, {13}, <<>>)

FromLine(r) ==
    \/ By(r, {"LF"}, {348}, <<"start_field", "done">>)
    \/ ButBy(r, {"LF"}, InName, <<"start_field">>)

FromName(r) ==
    \/ By(r, {":"}, {15}, <<"write_field">>)
    \/ By(r, {"LF"}, {348}, <<"done">>)
    \/ ButBy(r, {":"}, InName, <<>>)

FromBlank(r) ==
    \/ By(r, {"TAB", "SP"}, {15}, <<"start_value">>)
    \/ By(r, {"LF"}, {13}, <<"start_value", "write_value">>)
    \/ By(r, {"CR"}, {17}, <<"start_value", "write_value">>)
    \/ ButBy(r, {"TAB", "SP", "CR", "LF"}, {16}, <<"start_value">>)

FromValue(r) ==
    \/ By(r, {"LF"}, {13}, <<"write_value">>)
    \/ By(r, {"CR"}, {17}, <<"write_value">>)
    \/ ButBy(r, {"CR", "LF"}, {16}, <<>>)

XmlEnds == {"TAB", "LF", "VT", "CR", "SP", "/", ">"}

FromXml(r) ==
    \/ By(r, XmlEnds, InData, <<"request_path">>)
    \/ ButBy(r, XmlEnds, InXml, <<>>)

FromJson(r) ==
    \/ By(r, {"SP"}, InData, <<"request_path">>)
    \/ ButBy(r, {"SP"}, InJson, <<>>)

FromData(r) ==
    \/ r[3] \in InData /\ r[4] \in {<<>>, <<"mark">>}
    \/ r[3] = 349 /\ r[4] \in {<<"xml", "done">>, <<"json", "done">>}

\* What every edge of the table is like, by the state it leaves.
EdgeOK(r) ==
    \/ r[1] = 1 /\ FromStart(r)
    \/ r[1] \in InMethod /\ FromMethod(r)
    \/ r[1] = 3 /\ FromNoTarget(r)
    \/ r[1] \in InTarget /\ FromTarget(r)
    \/ r[1] = 174 /\ FromScheme(r)
    \/ r[1] \in InPath /\ FromPath(r)
    \/ r[1] = 29 /\ FromNoQuery(r)
    \/ r[1] \in InQuery /\ FromQuery(r)
    \/ r[1] = 20 /\ FromNoFragment(r)
    \/ r[1] \in InFragment /\ FromFragment(r)
    \/ r[1] = 4 /\ FromNoVersion(r)
    \/ r[1] \in InVersion /\ FromVersion(r)
    \/ r[1] = 17 /\ FromEol(r)
    \/ r[1] = 13 /\ FromLine(r)
    \/ r[1] \in InName /\ FromName(r)
    \/ r[1] = 15 /\ FromBlank(r)
    \/ r[1] = 16 /\ FromValue(r)
    \/ r[1] \in InXml /\ FromXml(r)
    \/ r[1] \in InJson /\ FromJson(r)
    \/ r[1] \in InData /\ FromData(r)
    \/ r[1] = 348

-----------------------------------------------------------------------------
(* The callbacks made so far, by the state of the automaton.               *)

\* s is in the order of the grammar and goes no further than place k.
Upto(s, k) ==
    /\ \A i, j \in 1 .. Len(s) : i < j => Rank(s[i]) < Rank(s[j])
    /\ \A i \in 1 .. Len(s) : Rank(s[i]) <= k

Line1 == {"request_method", "request_path", "request_uri"}

OrderAt(s, cl) ==
    /\ Upto(cl, 8)
    /\ s \in {1} \cup InMethod \cup InXml \cup InJson => cl = <<>>
    /\ s \in {3, 174} \cup InTarget \cup InPath =>
            Upto(cl, 1) /\ "request_method" \in Range(cl)
    /\ s \in {29} \cup InQuery =>
            Upto(cl, 2) /\ {"request_method", "request_path"} \subseteq Range(cl)
    /\ s \in {20} \cup InFragment => Upto(cl, 4) /\ Line1 \subseteq Range(cl)
    /\ s \in {4} \cup InVersion => Upto(cl, 5) /\ Line1 \subseteq Range(cl)
    /\ s \in 13 .. 18 => Upto(cl, 7) /\ (Line1 \cup {"http_version"}) \subseteq Range(cl)
    /\ s = 348 => (Line1 \cup {"http_version", "done"}) \subseteq Range(cl)
    /\ s \in InData => Upto(cl, 2) /\ Range(cl) = {"request_path"}
    /\ s = 349 => Range(cl) = {"request_path", "done"}

OrderInv == OrderAt(cs, calls)

-----------------------------------------------------------------------------
(* Where the offsets stand, by the state of the automaton.                 *)

Marked(lx, a, kind) == lx.kind = kind /\ a.mark = lx.len
Fresh(lx, kind) == lx.kind = kind /\ lx.len = 0
Named(lx, a) == a.field_len = lx.name /\ lx.name >= 1

LinkAt(s, lx, a) ==
    /\ s = 1 => lx.kind = "start"
    /\ s \in InMethod => Marked(lx, a, "method")
    /\ s = 3 => Fresh(lx, "target")
    /\ s \in InTarget => Marked(lx, a, "target")
    /\ s = 174 => Fresh(lx, "path")
    /\ s \in InPath => Marked(lx, a, "path")
    /\ s = 29 => Fresh(lx, "query")
    /\ s \in InQuery => lx.kind = "query" /\ a.query_start = lx.len
    /\ s = 20 => Fresh(lx, "fragment")
    /\ s \in InFragment => Marked(lx, a, "fragment")
    /\ s = 4 => Fresh(lx, "version")
    /\ s \in InVersion => Marked(lx, a, "version")
    /\ s = 17 => lx.kind = "eol"
    /\ s = 13 => Fresh(lx, "line")
    /\ s \in InName => lx.kind = "name" /\ a.field_start = lx.len /\ lx.len >= 1
    /\ s = 15 => Fresh(lx, "blank") /\ Named(lx, a)
    /\ s = 16 => Marked(lx, a, "value") /\ Named(lx, a)
    /\ s \in InXml => Marked(lx, a, "xml")
    /\ s \in InJson => Marked(lx, a, "json")

\* For a head that arrives in one read.
LinkInv ==
    /\ pc = "read" => reads = 0 /\ cs = 1
    /\ pc = "parse" => reads = 1
    /\ pc \in {"read", "parse"} => LinkAt(cs, lex, at) /\ contentLength = unread
    /\ pc = "body" => need = unread
    /\ pc = "serve" => unread = 0 /\ need = 0

-----------------------------------------------------------------------------
(* The table.                                                              *)

\* Bytes that end a token of the request line or of a header.
Ends == {"SP", "#", "?", "/", ":", "CR", "LF", "TAB", "VT", ">", "<", "@"}

\* Letters, digits and the characters of a host end no token.
LEMMA PlainBytes ==
    /\ Alpha \cap Ends = {} /\ Digit \cap Ends = {} /\ Upper \cap Ends = {}
    /\ Hex \cap Ends = {} /\ HexLetter \cap Ends = {} /\ RegChar \cap Ends = {}
BY DEF Alpha, Digit, Upper, Lower, Hex, HexLetter, RegChar, SubDelims, Ends

\* A path, a query and a fragment hold neither blanks nor marks.
LEMMA PathBytes == PChar \cap {"SP", "#", "?", "/"} = {}
BY PlainBytes DEF PChar, Ends

\* The bytes of a field name.
LEMMA TokenBytes == Token \cap {":", "CR", "LF", "SP"} = {}
<1>1. (Alpha \cup Digit) \cap {":", "CR", "LF", "SP"} = {}
  BY PlainBytes DEF Ends
<1> QED BY <1>1 DEF Token, Control

\* Bytes that end no path, and the states of copy o of the authority.
Plain(C) == C \cap {"SP", "#", "?"} = {}
Within(o, s) == s \in o + 34 .. o + 172

\* An edge inside the authority: copy o, whose path is the state path.
Inner(r, o, path) ==
    /\ Within(o, r[1])
    /\ Within(o, r[3]) \/ r[3] = path
    /\ Plain(r[2])
    /\ r[4] = <<>>

Inside(S, o, path) == \A r \in S : Inner(r, o, path)

\* An edge without actions between two states of the authority.
LEMMA InnerEdge ==
    \A r, o, path, s, t, C :
        r \in Edge(s, C, t) /\ Within(o, s) /\ (Within(o, t) \/ t = path) /\ Plain(C)
        => Inner(r, o, path)
BY DEF Edge, Inner

\* The sets of bytes that the authority is made of.
LEMMA PlainSets ==
    /\ Plain(Hex) /\ Plain(HexLetter) /\ Plain(Digit) /\ Plain(RegChar)
    /\ Plain(Hex \ {"0", "5"}) /\ Plain(Hex \ {"0"})
    /\ Plain(RegChar \cup {":"}) /\ Plain((RegChar \cup {":"}) \ Digit)
    /\ Plain({"/"}) /\ Plain({":"}) /\ Plain({"@"}) /\ Plain({"["}) /\ Plain({"]"})
    /\ Plain({"%"}) /\ Plain({"."}) /\ Plain({"v"}) /\ Plain({"0", "3", "5"})
    /\ Plain({"0"}) /\ Plain({"1"}) /\ Plain({"2"}) /\ Plain({"5"})
    /\ Plain({"x02", "x03"}) /\ Plain({"x03"}) /\ Plain({"x04"}) /\ Plain({"x06"})
    /\ Plain({"x02", "x03", "x04", "x05"})
BY PlainBytes DEF Plain, Ends

\* Each group of the authority stays inside it.
LEMMA UserInfoInside ==
    ASSUME NEW o \in Nat, NEW path
    PROVE  Inside(UserInfoRows(o, path), o, path)
<1> SUFFICES ASSUME NEW r \in UserInfoRows(o, path)
             PROVE  Inner(r, o, path)
  BY DEF Inside
<1>1. /\ Within(o, o + 34) /\ Within(o, o + 35) /\ Within(o, o + 36)
      /\ Within(o, o + 38) /\ Within(o, o + 42) /\ Within(o, o + 47)
      /\ Within(o, o + 36 + 1)
  BY DEF Within
<1> QED BY <1>1, InnerEdge, PlainSets DEF UserInfoRows, Chain

LEMMA PasswordInside ==
    ASSUME NEW o \in Nat, NEW path
    PROVE  Inside(PasswordRows(o, path), o, path)
<1> SUFFICES ASSUME NEW r \in PasswordRows(o, path)
             PROVE  Inner(r, o, path)
  BY DEF Inside
<1>1. /\ Within(o, o + 38) /\ Within(o, o + 39) /\ Within(o, o + 40)
      /\ Within(o, o + 42) /\ Within(o, o + 40 + 1)
  BY DEF Within
<1> QED BY <1>1, InnerEdge, PlainSets DEF PasswordRows, Chain

LEMMA HostInside ==
    ASSUME NEW o \in Nat, NEW path
    PROVE  Inside(HostRows(o, path), o, path)
<1> SUFFICES ASSUME NEW r \in HostRows(o, path)
             PROVE  Inner(r, o, path)
  BY DEF Inside
<1>1. /\ Within(o, o + 42) /\ Within(o, o + 43) /\ Within(o, o + 44)
      /\ Within(o, o + 46) /\ Within(o, o + 47) /\ Within(o, o + 44 + 1)
  BY DEF Within
<1> QED BY <1>1, InnerEdge, PlainSets DEF HostRows, Chain

LEMMA AfterLiteralInside ==
    ASSUME NEW o \in Nat, NEW path
    PROVE  Inside(AfterLiteralRows(o, path), o, path)
<1> SUFFICES ASSUME NEW r \in AfterLiteralRows(o, path)
             PROVE  Inner(r, o, path)
  BY DEF Inside
<1>1. /\ Within(o, o + 46) /\ Within(o, o + 61)
  BY DEF Within
<1> QED BY <1>1, InnerEdge, PlainSets DEF AfterLiteralRows

LEMMA OctetInside ==
    ASSUME NEW o \in Nat, NEW path
    PROVE  Inside(OctetRows(o), o, path)
<1> SUFFICES ASSUME NEW r \in OctetRows(o)
             PROVE  Inner(r, o, path)
  BY DEF Inside
<1>1. /\ Within(o, o + 55) /\ Within(o, o + 56) /\ Within(o, o + 57)
      /\ Within(o, o + 58) /\ Within(o, o + 59) /\ Within(o, o + 60)
      /\ Within(o, o + 61) /\ Within(o, o + 62) /\ Within(o, o + 64)
      /\ Within(o, o + 67) /\ Within(o, o + 69) /\ Within(o, o + 72)
      /\ Within(o, o + 74)
  BY DEF Within
<1> QED BY <1>1, InnerEdge, PlainSets DEF OctetRows, OctetStart

LEMMA OctetRestInside ==
    ASSUME NEW o \in Nat, NEW path
    PROVE  Inside(OctetRestRows(o), o, path)
<1> SUFFICES ASSUME NEW r \in OctetRestRows(o)
             PROVE  Inner(r, o, path)
  BY DEF Inside
<1>1. /\ Within(o, o + 56) /\ Within(o, o + 57) /\ Within(o, o + 58)
      /\ Within(o, o + 59) /\ Within(o, o + 60) /\ Within(o, o + 61)
      /\ Within(o, o + 62) /\ Within(o, o + 67) /\ Within(o, o + 72)
      /\ Within(o, o + 62 + 1) /\ Within(o, o + 62 + 2) /\ Within(o, o + 62 + 3)
      /\ Within(o, o + 62 + 4) /\ Within(o, o + 67 + 1) /\ Within(o, o + 67 + 2)
      /\ Within(o, o + 67 + 3) /\ Within(o, o + 67 + 4) /\ Within(o, o + 72 + 1)
      /\ Within(o, o + 72 + 2) /\ Within(o, o + 72 + 3) /\ Within(o, o + 72 + 4)
  BY DEF Within
<1> QED BY <1>1, InnerEdge, PlainSets DEF OctetRestRows, OctetRest

LEMMA CompressedInside ==
    ASSUME NEW o \in Nat, NEW path
    PROVE  Inside(CompressedRows(o), o, path)
<1> SUFFICES ASSUME NEW r \in CompressedRows(o)
             PROVE  Inner(r, o, path)
  BY DEF Inside
<1>1. /\ Within(o, o + 48) /\ Within(o, o + 49) /\ Within(o, o + 61)
      /\ Within(o, o + 127) /\ Within(o, o + 143) /\ Within(o, o + 146)
      /\ Within(o, o + 149) /\ Within(o, o + 163) /\ Within(o, o + 164)
      /\ Within(o, o + 165) /\ Within(o, o + 166) /\ Within(o, o + 167)
      /\ Within(o, o + 168)
  BY DEF Within
<1> QED BY <1>1, InnerEdge, PlainSets DEF CompressedRows, OctetStart

LEMMA FutureInside ==
    ASSUME NEW o \in Nat, NEW path
    PROVE  Inside(FutureRows(o), o, path)
<1> SUFFICES ASSUME NEW r \in FutureRows(o)
             PROVE  Inner(r, o, path)
  BY DEF Inside
<1>1. /\ Within(o, o + 61) /\ Within(o, o + 169) /\ Within(o, o + 170)
      /\ Within(o, o + 171) /\ Within(o, o + 172)
  BY DEF Within
<1> QED BY <1>1, InnerEdge, PlainSets DEF FutureRows

LEMMA LiteralInside ==
    ASSUME NEW o \in Nat, NEW path
    PROVE  Inside(LiteralRows(o), o, path)
<1> DEFINE U1 == UNION {Edge(s, Hex, s + 1) : s \in o + 49 .. o + 51}
<1> DEFINE U2 == UNION {Edge(s, {":"}, o + 53) : s \in o + 49 .. o + 52}
<1> SUFFICES ASSUME NEW r \in LiteralRows(o)
             PROVE  Inner(r, o, path)
  BY DEF Inside
<1>1. /\ Within(o, o + 47) /\ Within(o, o + 48) /\ Within(o, o + 49)
      /\ Within(o, o + 51) /\ Within(o, o + 52) /\ Within(o, o + 53)
      /\ Within(o, o + 91) /\ Within(o, o + 167) /\ Within(o, o + 169)
  BY DEF Within
<1>2. /\ \A s \in o + 49 .. o + 51 : Within(o, s) /\ Within(o, s + 1)
      /\ \A s \in o + 49 .. o + 52 : Within(o, s)
  BY DEF Within
<1>3. ASSUME r \in U1
      PROVE  \E s \in o + 49 .. o + 51 : r \in Edge(s, Hex, s + 1)
  BY <1>3
<1>4. ASSUME r \in U2
      PROVE  \E s \in o + 49 .. o + 52 : r \in Edge(s, {":"}, o + 53)
  BY <1>4
<1>5. LiteralRows(o) = Edge(o + 47, {"x06"}, o + 48) \cup Edge(o + 47, Hex, o + 91)
          \cup Edge(o + 47, {":"}, o + 167) \cup Edge(o + 47, {"v"}, o + 169)
          \cup Edge(o + 48, Hex, o + 49)
          \cup U1
          \cup U2
  BY Zenon DEF LiteralRows
<1> HIDE DEF U1, U2
<1> QED BY <1>1, <1>2, <1>3, <1>4, <1>5, InnerEdge, PlainSets

LEMMA GroupInside ==
    ASSUME NEW o \in Nat, NEW path, NEW s \in Nat, o + 34 <= s, s + 4 <= o + 172
    PROVE  Inside(Group(s), o, path)
<1> DEFINE U1 == UNION {Edge(t, Hex, t + 1) : t \in s .. s + 2}
<1> DEFINE U2 == UNION {Edge(t, {":"}, s + 4) : t \in s .. s + 3}
<1> SUFFICES ASSUME NEW r \in Group(s)
             PROVE  Inner(r, o, path)
  BY DEF Inside
<1>1. /\ Within(o, s + 4)
      /\ \A t \in s .. s + 2 : Within(o, t) /\ Within(o, t + 1)
      /\ \A t \in s .. s + 3 : Within(o, t)
  BY DEF Within
<1>2. ASSUME r \in U1
      PROVE  \E t \in s .. s + 2 : r \in Edge(t, Hex, t + 1)
  BY <1>2
<1>3. ASSUME r \in U2
      PROVE  \E t \in s .. s + 3 : r \in Edge(t, {":"}, s + 4)
  BY <1>3
<1>4. Group(s) = U1 \cup U2
  BY Zenon DEF Group
<1> HIDE DEF U1, U2
<1> QED BY <1>1, <1>2, <1>3, <1>4, InnerEdge, PlainSets

LEMMA LastGroupInside ==
    ASSUME NEW o \in Nat, NEW path
    PROVE  Inside(LastGroupRows(o), o, path)
<1> DEFINE U == UNION {Edge(s, Hex, s + 1) \cup Edge(s, {"]"}, o + 61) : s \in o + 81 .. o + 82}
<1> SUFFICES ASSUME NEW r \in LastGroupRows(o)
             PROVE  Inner(r, o, path)
  BY DEF Inside
<1>1. /\ Within(o, o + 60) /\ Within(o, o + 61) /\ Within(o, o + 80)
      /\ Within(o, o + 81) /\ Within(o, o + 82) /\ Within(o, o + 83)
  BY DEF Within
<1>2. /\ \A s \in o + 81 .. o + 82 : Within(o, s) /\ Within(o, s + 1)
  BY DEF Within
<1>3. ASSUME r \in U
      PROVE  \E s \in o + 81 .. o + 82 : r \in Edge(s, Hex, s + 1) \cup Edge(s, {"]"}, o + 61)
  BY <1>3
<1>4. LastGroupRows(o) = Edge(o + 80, Hex, o + 81)
          \cup U
          \cup Edge(o + 83, Hex, o + 60) \cup Edge(o + 83, {"]"}, o + 61)
  BY Zenon DEF LastGroupRows
<1> HIDE DEF U
<1> QED BY <1>1, <1>2, <1>3, <1>4, InnerEdge, PlainSets

LEMMA LeadingGroupInside ==
    ASSUME NEW o \in Nat, NEW path
    PROVE  Inside(LeadingGroupRows(o), o, path)
<1> DEFINE U1 == UNION {Group(o + 86 + 5 * k) : k \in 1 .. 4}
<1> DEFINE U2 == UNION {Edge(o + 90 + 5 * k, Hex, o + 91 + 5 * k) : k \in 1 .. 4}
<1> SUFFICES ASSUME NEW r \in LeadingGroupRows(o)
             PROVE  Inner(r, o, path)
  BY DEF Inside
<1>1. /\ Within(o, o + 86) /\ Within(o, o + 90) /\ Within(o, o + 91)
      /\ Within(o, o + 95) /\ Within(o, o + 100) /\ Within(o, o + 105)
      /\ Within(o, o + 110) /\ Within(o, o + 163) /\ Within(o, o + 164)
      /\ Within(o, o + 165) /\ Within(o, o + 166)
  BY DEF Within
<1>2. /\ \A k \in 1 .. 4 : Within(o, o + 90 + 5 * k) /\ Within(o, o + 91 + 5 * k)
  BY DEF Within
<1>3. \A k \in 1 .. 4 : Inside(Group(o + 86 + 5 * k), o, path)
  <2> SUFFICES ASSUME NEW k \in 1 .. 4
               PROVE  Inside(Group(o + 86 + 5 * k), o, path)
    OBVIOUS
  <2>1. PICK s \in Nat : s = o + 86 + 5 * k
    OBVIOUS
  <2>2. Inside(Group(s), o, path)
    BY <2>1, GroupInside
  <2> QED BY <2>1, <2>2
<1>4. ASSUME r \in U1
      PROVE  \E k \in 1 .. 4 : r \in Group(o + 86 + 5 * k)
  BY <1>4
<1>5. ASSUME r \in U2
      PROVE  \E k \in 1 .. 4 : r \in Edge(o + 90 + 5 * k, Hex, o + 91 + 5 * k)
  BY <1>5
<1>6. LeadingGroupRows(o) = U1
          \cup U2
          \cup Edge(o + 95, {":"}, o + 166) \cup Edge(o + 100, {":"}, o + 165)
          \cup Edge(o + 105, {":"}, o + 164) \cup Edge(o + 110, {":"}, o + 163)
  BY Zenon DEF LeadingGroupRows
<1> HIDE DEF U1, U2
<1> QED BY <1>1, <1>2, <1>3, <1>4, <1>5, <1>6, InnerEdge, PlainSets DEF Inside

LEMMA TrailingGroupInside ==
    ASSUME NEW o \in Nat, NEW path
    PROVE  Inside(TrailingGroupRows(o), o, path)
<1> DEFINE U == UNION {Group(o + 86 + 5 * k) : k \in 5 .. 7}
<1> SUFFICES ASSUME NEW r \in TrailingGroupRows(o)
             PROVE  Inner(r, o, path)
  BY DEF Inside
<1>1. /\ Within(o, o + 86) /\ Within(o, o + 115) /\ Within(o, o + 116)
      /\ Within(o, o + 120) /\ Within(o, o + 121) /\ Within(o, o + 125)
      /\ Within(o, o + 126) /\ Within(o, o + 150) /\ Within(o, o + 151)
  BY DEF Within
<1>2. /\ \A k \in 5 .. 7 : Within(o, o + 86 + 5 * k)
  BY DEF Within
<1>3. \A k \in 5 .. 7 : Inside(Group(o + 86 + 5 * k), o, path)
  <2> SUFFICES ASSUME NEW k \in 5 .. 7
               PROVE  Inside(Group(o + 86 + 5 * k), o, path)
    OBVIOUS
  <2>1. PICK s \in Nat : s = o + 86 + 5 * k
    OBVIOUS
  <2>2. Inside(Group(s), o, path)
    BY <2>1, GroupInside
  <2> QED BY <2>1, <2>2
<1>4. ASSUME r \in U
      PROVE  \E k \in 5 .. 7 : r \in Group(o + 86 + 5 * k)
  BY <1>4
<1>5. TrailingGroupRows(o) = U
          \cup Edge(o + 115, Hex, o + 116) \cup Edge(o + 120, Hex, o + 121)
          \cup Edge(o + 125, Hex, o + 121)
          \cup Edge(o + 115, {":"}, o + 151) \cup Edge(o + 120, {":"}, o + 150)
          \cup Edge(o + 125, {":"}, o + 126)
  BY Zenon DEF TrailingGroupRows
<1> HIDE DEF U
<1> QED BY <1>1, <1>2, <1>3, <1>4, <1>5, InnerEdge, PlainSets DEF Inside

\* A group that may be an octet or an h16, whose states are inside.
LEMMA MixedInside ==
    ASSUME NEW o \in Nat, NEW path, NEW s \in Nat, NEW one \in Nat, NEW two \in Nat,
           NEW let \in Nat, NEW h \in Nat, NEW dot \in Nat, NEW ends,
           Within(o, s), Within(o, s + 1), Within(o, one), Within(o, one + 2),
           Within(o, two), Within(o, two + 2), Within(o, let), Within(o, h),
           Within(o, h + 2), Within(o, dot),
           \A e \in ends : Plain(e[1]) /\ Within(o, e[2])
    PROVE  Inside(MixedGroup(s, one, two, let, h, dot, ends), o, path)
<1> DEFINE E(t) == UNION {Edge(t, e[1], e[2]) : e \in ends}
<1> SUFFICES ASSUME NEW r \in MixedGroup(s, one, two, let, h, dot, ends)
             PROVE  Inner(r, o, path)
  BY DEF Inside
<1>1. \A t : Within(o, t) /\ r \in E(t) => Inner(r, o, path)
  BY InnerEdge
<1>2. Within(o, one + 1) /\ Within(o, two + 1) /\ Within(o, h + 1)
  BY DEF Within
<1>3. r \in OctetStart(s, s + 1, one, two) \cup Edge(s, HexLetter, let)
               \cup Edge(s + 1, {"."}, dot) \cup Edge(s + 1, Hex, h) \cup E(s + 1)
               \cup Edge(h, Hex, h + 1) \cup E(h)
               \cup Edge(h + 1, Hex, h + 2) \cup E(h + 1) \cup E(h + 2)
               \cup Edge(one, {"."}, dot) \cup Edge(one, HexLetter, h)
               \cup Edge(one, Digit, one + 1) \cup E(one)
               \cup Edge(one + 1, {"."}, dot) \cup Edge(one + 1, HexLetter, h + 1)
               \cup Edge(one + 1, Digit, one + 2) \cup E(one + 1)
               \cup Edge(one + 2, {"."}, dot) \cup Edge(one + 2, Hex, h + 2) \cup E(one + 2)
               \cup Edge(two, {"."}, dot) \cup Edge(two, {"0"}, two + 1)
               \cup Edge(two, {"5"}, two + 2) \cup Edge(two, Hex \ {"0", "5"}, h) \cup E(two)
               \cup Edge(two + 1, HexLetter, h + 1) \cup Edge(two + 1, Digit, one + 2)
               \cup E(two + 1)
               \cup Edge(two + 2, Hex \ {"0"}, h + 1) \cup Edge(two + 2, {"0"}, one + 2)
               \cup E(two + 2)
               \cup Edge(let, Hex, h) \cup E(let)
  BY DEF MixedGroup
<1> HIDE DEF E
<1> QED BY <1>1, <1>2, <1>3, InnerEdge, PlainSets DEF OctetStart

LEMMA Ls32Mixed ==
    ASSUME NEW o \in Nat, NEW path
    PROVE  Inside(MixedGroup(o + 53, o + 84, o + 87, o + 90, o + 77, o + 55,
                             {<<{":"}, o + 80>>}), o, path)
<1>1. PICK s \in Nat, one \in Nat, two \in Nat, let \in Nat, h \in Nat, dot \in Nat :
         /\ s = o + 53 /\ one = o + 84 /\ two = o + 87
         /\ let = o + 90 /\ h = o + 77 /\ dot = o + 55
  OBVIOUS
<1>2. /\ Within(o, s) /\ Within(o, s + 1) /\ Within(o, one) /\ Within(o, one + 2)
      /\ Within(o, two) /\ Within(o, two + 2) /\ Within(o, let) /\ Within(o, h)
      /\ Within(o, h + 2) /\ Within(o, dot)
  BY <1>1 DEF Within
<1>3. Within(o, o + 80) /\ Plain({":"})
  BY PlainSets DEF Within
<1>4. \A e \in {<<{":"}, o + 80>>} : Plain(e[1]) /\ Within(o, e[2])
  BY <1>3
<1>5. Inside(MixedGroup(s, one, two, let, h, dot, {<<{":"}, o + 80>>}), o, path)
  BY <1>2, <1>4, MixedInside
<1> QED BY <1>1, <1>5

LEMMA ShortMixed ==
    ASSUME NEW o \in Nat, NEW path
    PROVE  Inside(MixedGroup(o + 126, o + 143, o + 146, o + 149, o + 128, o + 55,
                             {<<{"]"}, o + 61>>, <<{":"}, o + 131>>}), o, path)
<1>1. PICK s \in Nat, one \in Nat, two \in Nat, let \in Nat, h \in Nat, dot \in Nat :
         /\ s = o + 126 /\ one = o + 143 /\ two = o + 146
         /\ let = o + 149 /\ h = o + 128 /\ dot = o + 55
  OBVIOUS
<1>2. /\ Within(o, s) /\ Within(o, s + 1) /\ Within(o, one) /\ Within(o, one + 2)
      /\ Within(o, two) /\ Within(o, two + 2) /\ Within(o, let) /\ Within(o, h)
      /\ Within(o, h + 2) /\ Within(o, dot)
  BY <1>1 DEF Within
<1>3. Within(o, o + 61) /\ Within(o, o + 131) /\ Plain({"]"}) /\ Plain({":"})
  BY PlainSets DEF Within
<1>4. \A e \in {<<{"]"}, o + 61>>, <<{":"}, o + 131>>} : Plain(e[1]) /\ Within(o, e[2])
  BY <1>3
<1>5. Inside(MixedGroup(s, one, two, let, h, dot,
                         {<<{"]"}, o + 61>>, <<{":"}, o + 131>>}), o, path)
  BY <1>2, <1>4, MixedInside
<1> QED BY <1>1, <1>5

LEMMA ShortLs32Mixed ==
    ASSUME NEW o \in Nat, NEW path
    PROVE  Inside(MixedGroup(o + 131, o + 136, o + 139, o + 142, o + 133, o + 55,
                             {<<{"]"}, o + 61>>, <<{":"}, o + 80>>}), o, path)
<1>1. PICK s \in Nat, one \in Nat, two \in Nat, let \in Nat, h \in Nat, dot \in Nat :
         /\ s = o + 131 /\ one = o + 136 /\ two = o + 139
         /\ let = o + 142 /\ h = o + 133 /\ dot = o + 55
  OBVIOUS
<1>2. /\ Within(o, s) /\ Within(o, s + 1) /\ Within(o, one) /\ Within(o, one + 2)
      /\ Within(o, two) /\ Within(o, two + 2) /\ Within(o, let) /\ Within(o, h)
      /\ Within(o, h + 2) /\ Within(o, dot)
  BY <1>1 DEF Within
<1>3. Within(o, o + 61) /\ Within(o, o + 80) /\ Plain({"]"}) /\ Plain({":"})
  BY PlainSets DEF Within
<1>4. \A e \in {<<{"]"}, o + 61>>, <<{":"}, o + 80>>} : Plain(e[1]) /\ Within(o, e[2])
  BY <1>3
<1>5. Inside(MixedGroup(s, one, two, let, h, dot,
                         {<<{"]"}, o + 61>>, <<{":"}, o + 80>>}), o, path)
  BY <1>2, <1>4, MixedInside
<1> QED BY <1>1, <1>5

LEMMA MiddleMixed ==
    ASSUME NEW o \in Nat, NEW path
    PROVE  Inside(MixedGroup(o + 151, o + 156, o + 159, o + 162, o + 153, o + 55,
                             {<<{":"}, o + 131>>}), o, path)
<1>1. PICK s \in Nat, one \in Nat, two \in Nat, let \in Nat, h \in Nat, dot \in Nat :
         /\ s = o + 151 /\ one = o + 156 /\ two = o + 159
         /\ let = o + 162 /\ h = o + 153 /\ dot = o + 55
  OBVIOUS
<1>2. /\ Within(o, s) /\ Within(o, s + 1) /\ Within(o, one) /\ Within(o, one + 2)
      /\ Within(o, two) /\ Within(o, two + 2) /\ Within(o, let) /\ Within(o, h)
      /\ Within(o, h + 2) /\ Within(o, dot)
  BY <1>1 DEF Within
<1>3. Within(o, o + 131) /\ Plain({":"})
  BY PlainSets DEF Within
<1>4. \A e \in {<<{":"}, o + 131>>} : Plain(e[1]) /\ Within(o, e[2])
  BY <1>3
<1>5. Inside(MixedGroup(s, one, two, let, h, dot, {<<{":"}, o + 131>>}), o, path)
  BY <1>2, <1>4, MixedInside
<1> QED BY <1>1, <1>5

LEMMA MixedRowsInside ==
    ASSUME NEW o \in Nat, NEW path
    PROVE  Inside(Ls32Rows(o), o, path) /\ Inside(ShortLs32Rows(o), o, path)
BY Ls32Mixed, ShortLs32Mixed DEF Ls32Rows, ShortLs32Rows

LEMMA ShortInside ==
    ASSUME NEW o \in Nat, NEW path
    PROVE  Inside(ShortRows(o), o, path)
<1> DEFINE M == MixedGroup(o + 126, o + 143, o + 146, o + 149, o + 128, o + 55,
                           {<<{"]"}, o + 61>>, <<{":"}, o + 131>>})
<1> SUFFICES ASSUME NEW r \in ShortRows(o)
             PROVE  Inner(r, o, path)
  BY DEF Inside
<1>1. /\ Within(o, o + 48) /\ Within(o, o + 61) /\ Within(o, o + 126)
      /\ Within(o, o + 127) /\ Within(o, o + 143) /\ Within(o, o + 146)
      /\ Within(o, o + 149) /\ Within(o, o + 150)
  BY DEF Within
<1>2. Inside(M, o, path)
  BY ShortMixed
<1>3. r \in Edge(o + 126, {"x02", "x03"}, o + 48) \cup Edge(o + 126, {"]"}, o + 61)
              \cup M \cup Edge(o + 150, {"x02", "x03"}, o + 48)
              \cup OctetStart(o + 150, o + 127, o + 143, o + 146)
              \cup Edge(o + 150, HexLetter, o + 149)
  BY DEF ShortRows
<1> HIDE DEF M
<1> QED BY <1>1, <1>2, <1>3, InnerEdge, PlainSets DEF OctetStart, Inside

LEMMA MiddleInside ==
    ASSUME NEW o \in Nat, NEW path
    PROVE  Inside(MiddleRows(o), o, path)
<1> DEFINE M == MixedGroup(o + 151, o + 156, o + 159, o + 162, o + 153, o + 55,
                           {<<{":"}, o + 131>>})
<1> SUFFICES ASSUME NEW r \in MiddleRows(o)
             PROVE  Inner(r, o, path)
  BY DEF Inside
<1>1. Within(o, o + 151) /\ Within(o, o + 48)
  BY DEF Within
<1>2. Inside(M, o, path)
  BY MiddleMixed
<1>3. r \in Edge(o + 151, {"x02", "x03"}, o + 48) \cup M
  BY DEF MiddleRows
<1> HIDE DEF M
<1> QED BY <1>1, <1>2, <1>3, InnerEdge, PlainSets DEF Inside

\* Each group of edges is as EdgeOK says.
LEMMA StartOK ==
    ASSUME NEW r \in StartRows
    PROVE  r[1] = 1 /\ FromStart(r)
BY PlainBytes
DEF StartRows, FromStart, InMethod, InXml, InJson, By, ButBy, Edge, EdgeDo, Ends

LEMMA MethodOK ==
    ASSUME NEW r \in MethodRows
    PROVE  r[1] \in InMethod /\ FromMethod(r)
<1> DEFINE U1 == UNION {EdgeDo(s, {"SP"}, 3, <<"request_method">>) : s \in 175 .. 193}
<1> DEFINE U2 == UNION {Edge(s, Upper \cup Digit, s + 1) : s \in 175 .. 192}
<1>1. ASSUME r \in U1
      PROVE  r[1] \in InMethod /\ FromMethod(r)
  <2>1. PICK s \in 175 .. 193 : r \in EdgeDo(s, {"SP"}, 3, <<"request_method">>)
    BY <1>1
  <2>2. r[1] = s /\ r[2] = {"SP"} /\ r[3] = 3 /\ r[4] = <<"request_method">>
    BY <2>1 DEF EdgeDo
  <2> QED BY <2>2 DEF FromMethod, InMethod, By
<1>2. ASSUME r \in U2
      PROVE  r[1] \in InMethod /\ FromMethod(r)
  <2>1. PICK s \in 175 .. 192 : r \in Edge(s, Upper \cup Digit, s + 1)
    BY <1>2
  <2>2. r[1] = s /\ r[2] = Upper \cup Digit /\ r[3] = s + 1 /\ r[4] = <<>>
    BY <2>1 DEF Edge
  <2> QED BY <2>2, PlainBytes DEF FromMethod, InMethod, ButBy, Ends
<1>3. ASSUME r \in EdgeDo(2, {"SP"}, 3, <<"request_method">>) \cup Edge(2, Upper \cup Digit, 175)
      PROVE  r[1] \in InMethod /\ FromMethod(r)
  BY <1>3, PlainBytes DEF FromMethod, InMethod, By, ButBy, Edge, EdgeDo, Ends
<1>4. MethodRows = EdgeDo(2, {"SP"}, 3, <<"request_method">>)
                     \cup Edge(2, Upper \cup Digit, 175) \cup U1 \cup U2
  BY Zenon DEF MethodRows
<1> HIDE DEF U1, U2
<1> QED BY <1>1, <1>2, <1>3, <1>4

LEMMA TargetOK ==
    ASSUME NEW r \in TargetRows
    PROVE  r[1] = 3 /\ FromNoTarget(r)
BY PlainBytes
DEF TargetRows, FromNoTarget, EmptyPathExit, InTarget, InPath, By, ButBy, Edge, EdgeDo,
    Ends

LEMMA PathEndOK ==
    ASSUME NEW s, NEW r \in PathEnd(s)
    PROVE  r[1] = s /\ PathExit(r)
BY DEF PathEnd, PathExit, By, EdgeDo

LEMMA VersionOK ==
    ASSUME NEW r \in VersionRows
    PROVE  \/ r[1] = 4 /\ FromNoVersion(r)
           \/ r[1] \in InVersion /\ FromVersion(r)
           \/ r[1] = 17 /\ FromEol(r)
BY PlainBytes
DEF VersionRows, FromNoVersion, FromVersion, FromEol, InVersion, By, ButBy, Edge,
    EdgeDo, Ends

LEMMA LineOK ==
    ASSUME NEW r \in LineRows
    PROVE  \/ r[1] = 13 /\ FromLine(r)
           \/ r[1] \in InName /\ FromName(r)
BY TokenBytes DEF LineRows, FromLine, FromName, InName, By, ButBy, Edge, EdgeDo

LEMMA FieldOK ==
    ASSUME NEW r \in FieldRows
    PROVE  \/ r[1] \in InName /\ FromName(r)
           \/ r[1] = 15 /\ FromBlank(r)
           \/ r[1] = 16 /\ FromValue(r)
BY TokenBytes DEF FieldRows, FromName, FromBlank, FromValue, InName, By, ButBy, Edge, EdgeDo

LEMMA FinalOK ==
    ASSUME NEW r \in FinalRows
    PROVE  r[1] = 348
BY DEF FinalRows, Edge, EdgeDo

LEMMA FirstSegmentOK ==
    ASSUME NEW r \in FirstSegmentRows
    PROVE  r[1] \in InTarget /\ FromTarget(r)
<1>1. CASE r \in PathEnd(19)
  <2>1. r[1] = 19 /\ PathExit(r)
    BY <1>1, PathEndOK
  <2> QED BY <2>1 DEF FromTarget, InTarget
<1>2. CASE r \in Edge(19, RegChar \cup {"@"}, 19) \cup Edge(19, {"%"}, 24)
                   \cup Chain(24, 19)
  <2>1. /\ r[1] \in InTarget /\ r[3] \in InTarget /\ r[4] = <<>>
        /\ r[2] \in {RegChar \cup {"@"}, {"%"}, Hex}
    BY <1>2 DEF Edge, Chain, InTarget
  <2>2. r[2] \cap {"SP", "#", "?", "/", ":"} = {}
    BY <2>1, PlainBytes DEF Ends
  <2> QED BY <2>1, <2>2 DEF FromTarget, ButBy
<1>3. CASE r \in Edge(19, {"/"}, 26)
  BY <1>3 DEF FromTarget, InTarget, InPath, By, Edge
<1> QED BY <1>1, <1>2, <1>3 DEF FirstSegmentRows

LEMMA FragmentOK ==
    ASSUME NEW r \in FragmentRows
    PROVE  \/ r[1] = 20 /\ FromNoFragment(r)
           \/ r[1] \in InFragment /\ FromFragment(r)
BY PathBytes, PlainBytes
DEF FragmentRows, Chain, FromNoFragment, FromFragment, InFragment, By, ButBy, Edge,
    EdgeDo, Ends

LEMMA PathOK ==
    ASSUME NEW r \in PathRows
    PROVE  r[1] \in InPath /\ FromPath(r)
<1>1. CASE r \in PathEnd(26) \/ r \in PathEnd(33)
  <2>1. r[1] \in {26, 33} /\ PathExit(r)
    BY <1>1, PathEndOK
  <2> QED BY <2>1 DEF FromPath, InPath
<1>2. CASE r \in Edge(26, PChar \cup {"/"}, 26) \cup Edge(26, {"%"}, 27)
                   \cup Chain(27, 26) \cup Edge(33, PChar, 26) \cup Edge(33, {"%"}, 27)
                   \cup Edge(33, {"/"}, 34)
  BY <1>2, PathBytes, PlainBytes DEF FromPath, InPath, ButBy, Edge, Chain, Ends
<1> QED BY <1>1, <1>2 DEF PathRows

LEMMA QueryOK ==
    ASSUME NEW r \in QueryRows
    PROVE  \/ r[1] = 29 /\ FromNoQuery(r)
           \/ r[1] \in InQuery /\ FromQuery(r)
BY PathBytes, PlainBytes
DEF QueryRows, Chain, FromNoQuery, FromQuery, InQuery, By, ButBy, Edge, EdgeDo, Ends

LEMMA SchemeOK ==
    ASSUME NEW r \in SchemeRows
    PROVE  \/ r[1] \in InTarget /\ FromTarget(r)
           \/ r[1] = 174 /\ FromScheme(r)
<1>1. CASE r \in PathEnd(173)
  <2>1. r[1] = 173 /\ PathExit(r)
    BY <1>1, PathEndOK
  <2> QED BY <2>1 DEF FromTarget, InTarget
<1>2. CASE r \in Edge(173, Alpha \cup Digit \cup {"+", "-", "."}, 173)
                   \cup Edge(173, {"!", "(", "more", "@"}, 19) \cup Edge(173, {"%"}, 24)
  <2>1. /\ r[1] \in InTarget /\ r[3] \in InTarget /\ r[4] = <<>>
        /\ r[2] \in {Alpha \cup Digit \cup {"+", "-", "."}, {"!", "(", "more", "@"}, {"%"}}
    BY <1>2 DEF Edge, InTarget
  <2>2. r[2] \cap {"SP", "#", "?", "/", ":"} = {}
    BY <2>1, PlainBytes DEF Ends
  <2> QED BY <2>1, <2>2 DEF FromTarget, ButBy
<1>3. CASE r \in Edge(173, {"/"}, 26) \cup Edge(173, {":"}, 174)
  BY <1>3 DEF FromTarget, InTarget, InPath, By, Edge
<1>4. CASE r \in EdgeDo(174, {"SP"}, 4, <<"mark", "request_path", "request_uri">>)
                   \cup EdgeDo(174, {"#"}, 20, <<"mark", "request_path", "request_uri">>)
                   \cup EdgeDo(174, {"?"}, 29, <<"mark", "request_path">>)
                   \cup EdgeDo(174, PChar, 26, <<"mark">>)
                   \cup EdgeDo(174, {"%"}, 27, <<"mark">>)
                   \cup EdgeDo(174, {"/"}, 33, <<"mark">>)
  BY <1>4, PathBytes DEF FromScheme, EmptyPathExit, InPath, By, ButBy, EdgeDo
<1> QED BY <1>1, <1>2, <1>4, <1>3 DEF SchemeRows

LEMMA XmlOK ==
    ASSUME NEW r \in XmlRows
    PROVE  \/ r[1] \in InXml /\ FromXml(r)
           \/ r[1] \in InData /\ FromData(r)
BY PlainBytes
DEF XmlRows, FromXml, FromData, InXml, InData, XmlEnds, By, ButBy, Edge, EdgeDo, Ends

LEMMA JsonOK ==
    ASSUME NEW r \in JsonRows
    PROVE  r[1] \in InData /\ FromData(r)
<1>1. CASE r \in EdgeDo(199, {"lbrace"}, 200, <<"mark">>)
                   \cup EdgeDo(201, {"NUL"}, 349, <<"json", "done">>)
  BY <1>1 DEF EdgeDo, FromData, InData
<1>2. CASE r \in Edge(200, Byte \ {"rbrace"}, 200) \cup Edge(200, {"rbrace"}, 201)
                   \cup Edge(201, Byte \ {"rbrace", "NUL"}, 200) \cup Edge(201, {"rbrace"}, 201)
  BY <1>2 DEF Edge, FromData, InData
<1> QED BY <1>1, <1>2 DEF JsonRows

LEMMA SocketEndOK ==
    ASSUME NEW S, S \subseteq InJson, NEW r \in SocketEnd(S)
    PROVE  r[1] \in InJson /\ FromJson(r)
<1>1. PICK s \in S : r \in EdgeDo(s, {"SP"}, 199, <<"request_path">>)
  BY DEF SocketEnd
<1> QED BY <1>1 DEF FromJson, InData, By, EdgeDo

LEMMA SocketPathOK ==
    ASSUME NEW r \in SocketPathRows
    PROVE  r[1] \in InJson /\ FromJson(r)
<1> DEFINE U == UNION {EdgeDo(s, {"SP"}, 199, <<"request_path">>) : s \in {198, 202, 205, 208}}
<1> DEFINE E == Edge(198, RegChar \cup {"@"}, 202) \cup Edge(198, {"%"}, 203)
                  \cup Edge(198, {"/"}, 208)
                  \cup Edge(202, RegChar \cup {"@"}, 202) \cup Edge(202, {"%"}, 203)
                  \cup Edge(202, {"/"}, 205) \cup Chain(203, 202)
                  \cup Edge(205, PChar \cup {"/"}, 205) \cup Edge(205, {"%"}, 206)
                  \cup Chain(206, 205)
                  \cup Edge(208, PChar, 205) \cup Edge(208, {"%"}, 206)
                  \cup Edge(208, {"/"}, 209)
<1>1. ASSUME r \in U
      PROVE  r[1] \in InJson /\ FromJson(r)
  <2>1. PICK s \in {198, 202, 205, 208} : r \in EdgeDo(s, {"SP"}, 199, <<"request_path">>)
    BY <1>1
  <2>2. r[1] = s /\ r[2] = {"SP"} /\ r[3] = 199 /\ r[4] = <<"request_path">>
    BY <2>1 DEF EdgeDo
  <2> QED BY <2>2 DEF FromJson, InData, InJson, By
<1>2. ASSUME r \in E
      PROVE  r[1] \in InJson /\ FromJson(r)
  BY <1>2, PathBytes, PlainBytes DEF FromJson, InJson, ButBy, Edge, Chain, Ends
<1>3. r \in U \/ r \in E
  <2> HIDE DEF U
  <2>1. SocketPathRows =
            U \cup Edge(198, RegChar \cup {"@"}, 202) \cup Edge(198, {"%"}, 203)
              \cup Edge(198, {"/"}, 208)
              \cup Edge(202, RegChar \cup {"@"}, 202) \cup Edge(202, {"%"}, 203)
              \cup Edge(202, {"/"}, 205) \cup Chain(203, 202)
              \cup Edge(205, PChar \cup {"/"}, 205) \cup Edge(205, {"%"}, 206)
              \cup Chain(206, 205)
              \cup Edge(208, PChar, 205) \cup Edge(208, {"%"}, 206)
              \cup Edge(208, {"/"}, 209)
    BY Zenon DEF SocketPathRows, U
  <2> QED BY <2>1
<1> QED BY <1>1, <1>2, <1>3

\* The first copy of the authority belongs to the path, the second to a socket request.
LEMMA RequestInner ==
    ASSUME NEW r, Inner(r, 0, 26)
    PROVE  r[1] \in InPath /\ FromPath(r)
BY DEF Inner, Within, Plain, FromPath, InPath, ButBy

LEMMA SocketInner ==
    ASSUME NEW r, Inner(r, 175, 205)
    PROVE  r[1] \in InJson /\ FromJson(r)
BY DEF Inner, Within, Plain, FromJson, InJson, ButBy

LEMMA RequestAuthorityOK ==
    ASSUME NEW r \in RequestAuthorityRows
    PROVE  r[1] \in InPath /\ FromPath(r)
<1> DEFINE U == UNION {PathEnd(s) : s \in {34, 35, 38, 42, 43, 46, 61}}
<1>1. ASSUME r \in U
      PROVE  r[1] \in InPath /\ FromPath(r)
  <2>1. PICK s \in {34, 35, 38, 42, 43, 46, 61} : r \in PathEnd(s)
    BY <1>1
  <2>2. r[1] = s /\ PathExit(r)
    BY <2>1, PathEndOK
  <2> QED BY <2>2 DEF FromPath, InPath
<1>2. /\ Inside(UserInfoRows(0, 26), 0, 26) /\ Inside(PasswordRows(0, 26), 0, 26)
      /\ Inside(HostRows(0, 26), 0, 26) /\ Inside(AfterLiteralRows(0, 26), 0, 26)
  BY UserInfoInside, PasswordInside, HostInside, AfterLiteralInside
<1>3. /\ Inside(LiteralRows(0), 0, 26) /\ Inside(OctetRows(0), 0, 26)
      /\ Inside(OctetRestRows(0), 0, 26) /\ Inside(LastGroupRows(0), 0, 26)
      /\ Inside(LeadingGroupRows(0), 0, 26) /\ Inside(TrailingGroupRows(0), 0, 26)
  BY LiteralInside, OctetInside, OctetRestInside, LastGroupInside, LeadingGroupInside,
     TrailingGroupInside
<1>4. /\ Inside(Ls32Rows(0), 0, 26) /\ Inside(ShortLs32Rows(0), 0, 26)
      /\ Inside(ShortRows(0), 0, 26) /\ Inside(MiddleRows(0), 0, 26)
      /\ Inside(CompressedRows(0), 0, 26) /\ Inside(FutureRows(0), 0, 26)
  BY MixedRowsInside, ShortInside, MiddleInside, CompressedInside, FutureInside
<1>5. RequestAuthorityRows =
        UserInfoRows(0, 26) \cup PasswordRows(0, 26) \cup HostRows(0, 26)
          \cup AfterLiteralRows(0, 26) \cup LiteralRows(0) \cup OctetRows(0)
          \cup OctetRestRows(0) \cup Ls32Rows(0) \cup LastGroupRows(0)
          \cup LeadingGroupRows(0) \cup TrailingGroupRows(0) \cup ShortRows(0)
          \cup ShortLs32Rows(0) \cup MiddleRows(0) \cup CompressedRows(0) \cup FutureRows(0)
          \cup U
  BY Zenon DEF RequestAuthorityRows
<1> HIDE DEF U
<1> QED BY <1>1, <1>2, <1>3, <1>4, <1>5, RequestInner DEF Inside

LEMMA SocketAuthorityOK ==
    ASSUME NEW r \in SocketAuthorityRows
    PROVE  r[1] \in InJson /\ FromJson(r)
<1>1. {209, 210, 213} \subseteq InJson /\ {217, 218, 221, 236} \subseteq InJson
  BY DEF InJson
<1>2. r \in SocketEnd({209, 210, 213}) \/ r \in SocketEnd({217, 218, 221, 236})
        => r[1] \in InJson /\ FromJson(r)
  BY <1>1, SocketEndOK
<1>3. /\ Inside(UserInfoRows(175, 205), 175, 205)
      /\ Inside(PasswordRows(175, 205), 175, 205)
      /\ Inside(HostRows(175, 205), 175, 205)
      /\ Inside(AfterLiteralRows(175, 205), 175, 205)
  BY UserInfoInside, PasswordInside, HostInside, AfterLiteralInside
<1>4. /\ Inside(LiteralRows(175), 175, 205) /\ Inside(OctetRows(175), 175, 205)
      /\ Inside(OctetRestRows(175), 175, 205) /\ Inside(LastGroupRows(175), 175, 205)
      /\ Inside(LeadingGroupRows(175), 175, 205) /\ Inside(TrailingGroupRows(175), 175, 205)
  BY LiteralInside, OctetInside, OctetRestInside, LastGroupInside, LeadingGroupInside,
     TrailingGroupInside
<1>5. /\ Inside(Ls32Rows(175), 175, 205) /\ Inside(ShortLs32Rows(175), 175, 205)
      /\ Inside(ShortRows(175), 175, 205) /\ Inside(MiddleRows(175), 175, 205)
      /\ Inside(CompressedRows(175), 175, 205) /\ Inside(FutureRows(175), 175, 205)
  BY MixedRowsInside, ShortInside, MiddleInside, CompressedInside, FutureInside
<1> QED
  BY <1>2, <1>3, <1>4, <1>5, SocketInner
  DEF Inside, SocketAuthorityRows, SocketUserInfoRows, SocketHostRows, SocketLiteralRows,
      SocketOctetRestRows, SocketLs32Rows, SocketLeadingGroupRows,
      SocketTrailingGroupRows, SocketShortLs32Rows, SocketShortRows, SocketMiddleRows,
      SocketFutureRows

\* Every edge of the automaton is of a shape that EdgeOK lists.
LEMMA RowsOK ==
    ASSUME NEW r \in Rows
    PROVE  EdgeOK(r)
<1>1. CASE r \in StartRows \cup MethodRows \cup TargetRows \cup VersionRows
  BY <1>1, StartOK, MethodOK, TargetOK, VersionOK DEF EdgeOK
<1>2. CASE r \in LineRows \cup FieldRows \cup FinalRows
  BY <1>2, LineOK, FieldOK, FinalOK DEF EdgeOK
<1>3. CASE r \in FirstSegmentRows \cup FragmentRows \cup PathRows \cup QueryRows
                   \cup SchemeRows \cup RequestAuthorityRows
  BY <1>3, FirstSegmentOK, FragmentOK, PathOK, QueryOK, SchemeOK, RequestAuthorityOK
  DEF EdgeOK
<1>4. CASE r \in XmlRows \cup JsonRows \cup SocketPathRows \cup SocketAuthorityRows
  BY <1>4, XmlOK, JsonOK, SocketPathOK, SocketAuthorityOK DEF EdgeOK
<1> QED BY <1>1, <1>2, <1>3, <1>4 DEF Rows

\* The edge that a byte takes leaves the current state.
LEMMA TakenEdge ==
    ASSUME NEW s \in State, NEW c, NEW relaxed, NEW r \in Taken(s, c, relaxed)
    PROVE  /\ r \in Rows /\ r[1] = s
           /\ c \in r[2] \/ (c \in MoreDelims /\ "more" \in r[2])
BY DEF Taken, Out

-----------------------------------------------------------------------------
(* One byte.                                                               *)

\* The lists of actions that edges carry.
LEMMA ActionSets ==
    /\ Range(<<>>) = {}
    /\ Range(<<"mark">>) = {"mark"}
    /\ Range(<<"request_method">>) = {"request_method"}
    /\ Range(<<"mark", "request_path", "request_uri">>) =
          {"mark", "request_path", "request_uri"}
    /\ Range(<<"mark", "request_path">>) = {"mark", "request_path"}
    /\ Range(<<"request_path", "request_uri">>) = {"request_path", "request_uri"}
    /\ Range(<<"request_path">>) = {"request_path"}
    /\ Range(<<"http_version">>) = {"http_version"}
    /\ Range(<<"start_field">>) = {"start_field"}
    /\ Range(<<"start_field", "done">>) = {"start_field", "done"}
    /\ Range(<<"write_field">>) = {"write_field"}
    /\ Range(<<"done">>) = {"done"}
    /\ Range(<<"start_value">>) = {"start_value"}
    /\ Range(<<"start_value", "write_value">>) = {"start_value", "write_value"}
    /\ Range(<<"write_value">>) = {"write_value"}
    /\ Range(<<"mark", "fragment">>) = {"mark", "fragment"}
    /\ Range(<<"fragment">>) = {"fragment"}
    /\ Range(<<"start_query">>) = {"start_query"}
    /\ Range(<<"start_query", "query_string", "request_uri">>) =
          {"start_query", "query_string", "request_uri"}
    /\ Range(<<"query_string", "request_uri">>) = {"query_string", "request_uri"}
    /\ Range(<<"xml", "done">>) = {"xml", "done"}
    /\ Range(<<"json", "done">>) = {"json", "done"}
BY DEF Range

LEMMA NotACallback ==
    \A s : /\ Call(s, "none") = s /\ Call(s, "mark") = s /\ Call(s, "start_field") = s
           /\ Call(s, "write_field") = s /\ Call(s, "start_value") = s
           /\ Call(s, "start_query") = s /\ Call(s, "xml") = s /\ Call(s, "json") = s
BY DEF Call, Callbacks

\* The callbacks that each list makes, in its order.
LEMMA CallsOf ==
    ASSUME NEW r
    PROVE  /\ r[4] = <<>> => CallsAfter(r) = calls
           /\ r[4] = <<"mark">> => CallsAfter(r) = calls
           /\ r[4] = <<"request_method">> => CallsAfter(r) = Call(calls, "request_method")
           /\ r[4] = <<"mark", "request_path", "request_uri">> =>
                CallsAfter(r) = Call(Call(calls, "request_path"), "request_uri")
           /\ r[4] = <<"mark", "request_path">> =>
                CallsAfter(r) = Call(calls, "request_path")
           /\ r[4] = <<"request_path", "request_uri">> =>
                CallsAfter(r) = Call(Call(calls, "request_path"), "request_uri")
           /\ r[4] = <<"request_path">> => CallsAfter(r) = Call(calls, "request_path")
           /\ r[4] = <<"http_version">> => CallsAfter(r) = Call(calls, "http_version")
           /\ r[4] = <<"start_field">> => CallsAfter(r) = calls
           /\ r[4] = <<"start_field", "done">> => CallsAfter(r) = Call(calls, "done")
           /\ r[4] = <<"write_field">> => CallsAfter(r) = calls
           /\ r[4] = <<"done">> => CallsAfter(r) = Call(calls, "done")
           /\ r[4] = <<"start_value">> => CallsAfter(r) = calls
           /\ r[4] = <<"start_value", "write_value">> =>
                CallsAfter(r) = Call(calls, "write_value")
           /\ r[4] = <<"write_value">> => CallsAfter(r) = Call(calls, "write_value")
           /\ r[4] = <<"mark", "fragment">> => CallsAfter(r) = Call(calls, "fragment")
           /\ r[4] = <<"fragment">> => CallsAfter(r) = Call(calls, "fragment")
           /\ r[4] = <<"start_query">> => CallsAfter(r) = calls
           /\ r[4] = <<"start_query", "query_string", "request_uri">> =>
                CallsAfter(r) = Call(Call(calls, "query_string"), "request_uri")
           /\ r[4] = <<"query_string", "request_uri">> =>
                CallsAfter(r) = Call(Call(calls, "query_string"), "request_uri")
           /\ r[4] = <<"xml", "done">> => CallsAfter(r) = Call(calls, "done")
           /\ r[4] = <<"json", "done">> => CallsAfter(r) = Call(calls, "done")
BY NotACallback DEF CallsAfter

LEMMA RankValues ==
    /\ Rank("request_method") = 1 /\ Rank("request_path") = 2 /\ Rank("query_string") = 3
    /\ Rank("request_uri") = 4 /\ Rank("fragment") = 5 /\ Rank("http_version") = 6
    /\ Rank("write_value") = 7 /\ Rank("done") = 8
BY DEF Rank

LEMMA RankType == \A x \in Callbacks : Rank(x) \in 1 .. 8
BY RankValues DEF Callbacks

\* A callback in its place keeps the order.
LEMMA CallUp ==
    ASSUME NEW s \in Seq(Callbacks), NEW a \in Callbacks, NEW k \in Nat, Upto(s, k),
           k < Rank(a)
    PROVE  /\ Call(s, a) \in Seq(Callbacks)
           /\ Upto(Call(s, a), Rank(a))
           /\ Range(Call(s, a)) = Range(s) \cup {a}
<1>1. \A i \in 1 .. Len(s) : s[i] # a
  BY RankType DEF Upto
<1>2. Call(s, a) = Append(s, a)
  BY <1>1 DEF Call, Last
<1>3. /\ Append(s, a) \in Seq(Callbacks) /\ Len(Append(s, a)) = Len(s) + 1
      /\ Append(s, a)[Len(s) + 1] = a /\ \A i \in 1 .. Len(s) : Append(s, a)[i] = s[i]
  OBVIOUS
<1> DEFINE u == Append(s, a)
<1> HIDE DEF u
<1>4. /\ u \in Seq(Callbacks) /\ Len(u) = Len(s) + 1
      /\ u[Len(s) + 1] = a /\ \A i \in 1 .. Len(s) : u[i] = s[i]
  BY <1>3 DEF u
<1>5. Upto(u, Rank(a))
  <2>1. PICK N \in Nat : N = Len(s)
    OBVIOUS
  <2>2. \A i \in 1 .. N + 1 : i \in 1 .. N \/ i = N + 1
    OBVIOUS
  <2>3. \A i \in 1 .. N : Rank(u[i]) = Rank(s[i]) /\ Rank(s[i]) \in Nat /\ Rank(s[i]) <= k
    BY <1>4, <2>1, RankType DEF Upto
  <2>4. Rank(u[N + 1]) = Rank(a) /\ Rank(a) \in Nat
    BY <1>4, <2>1, RankType
  <2>5. \A i \in 1 .. N + 1 : Rank(u[i]) <= Rank(a)
    BY <2>2, <2>3, <2>4
  <2>6. \A i, j \in 1 .. N : i < j => Rank(s[i]) < Rank(s[j])
    BY <2>1 DEF Upto
  <2>7. ASSUME NEW i \in 1 .. N + 1, NEW j \in 1 .. N + 1, i < j
        PROVE  Rank(u[i]) < Rank(u[j])
    <3>1. i \in 1 .. N
      BY <2>7
    <3>2. CASE j \in 1 .. N
      BY <2>3, <2>6, <2>7, <3>1, <3>2
    <3>3. CASE j = N + 1
      BY <2>3, <2>4, <3>1, <3>3
    <3> QED BY <2>2, <3>2, <3>3
  <2> QED BY <1>4, <2>1, <2>5, <2>7 DEF Upto
<1>6. Range(u) = Range(s) \cup {a}
  <2>1. DOMAIN s = 1 .. Len(s) /\ DOMAIN u = 1 .. Len(s) + 1
    BY <1>4
  <2> QED BY <1>4, <2>1 DEF Range
<1> QED BY <1>2, <1>4, <1>5, <1>6 DEF u

\* Header fields are one run.
LEMMA CallField ==
    ASSUME NEW s \in Seq(Callbacks), Upto(s, 7)
    PROVE  /\ Call(s, "write_value") \in Seq(Callbacks)
           /\ Upto(Call(s, "write_value"), 7)
           /\ Range(s) \subseteq Range(Call(s, "write_value"))
<1>1. "write_value" \in Callbacks
  BY DEF Callbacks
<1>2. CASE s # <<>> /\ Last(s) = "write_value"
  BY <1>2 DEF Call
<1>3. CASE s = <<>> \/ Last(s) # "write_value"
  <2>1. \A x \in Callbacks : Rank(x) = 7 => x = "write_value"
    BY RankValues DEF Callbacks
  <2>2. \A i \in 1 .. Len(s) : Rank(s[i]) <= 6
    BY <1>3, <2>1, RankType DEF Upto, Last
  <2>3. Upto(s, 6)
    BY <2>2 DEF Upto
  <2> QED BY <1>1, <2>3, CallUp, RankValues
<1> QED BY <1>2, <1>3

LEMMA UptoMore ==
    ASSUME NEW s \in Seq(Callbacks), NEW k \in Nat, NEW m \in Nat, Upto(s, k), k <= m
    PROVE  Upto(s, m)
BY RankType DEF Upto

LEMMA UptoNothing == Upto(<<>>, 0) /\ Range(<<>>) = {} /\ <<>> \in Seq(Callbacks)
BY DEF Upto, Range

\* What a byte with an edge does: the second branch of ParseByte.
Parsed(r, c, n, known) ==
    /\ n # 0 => "write_value" \in Range(r[4]) /\ unread = 0
    /\ ~known => "request_method" \in Range(r[4])
    /\ cs' = r[3]
    /\ at' = Advance(AtByte(r))
    /\ reported' = Reports(r)
    /\ calls' = CallsAfter(r)
    /\ m_error' = (m_error \/ on_request_method(r, ~known) \/ on_request_version(r))
    /\ contentLength' = IF n = 0 THEN contentLength ELSE on_request_http_field(r, n)
    /\ unread' = IF n = 0 THEN unread ELSE n
    /\ lex' = Lex(c)

LEMMA ByteTaken ==
    ASSUME NEW c, NEW n, NEW known, ParseByte(c, n, known), cs \in State
    PROVE  /\ pc = "parse" /\ cs # 0 /\ cs < 348
           /\ UNCHANGED <<pc, reads, requests, uri_relaxed, need, isClose>>
           /\ \/ /\ cs' = 0 /\ reported' = {}
                 /\ UNCHANGED <<at, m_error, contentLength, calls, lex, unread>>
              \/ \E r \in Rows : /\ r[1] = cs /\ Parsed(r, c, n, known)
                                 /\ c \in r[2] \/ (c \in MoreDelims /\ "more" \in r[2])
<1>1. CASE Taken(cs, c, uri_relaxed) = {}
  BY <1>1 DEF ParseByte, http_parser_error, http_parser_first_final
<1>2. CASE Taken(cs, c, uri_relaxed) # {}
  <2> DEFINE r == CHOOSE x \in Taken(cs, c, uri_relaxed) : TRUE
  <2>1. r \in Taken(cs, c, uri_relaxed)
    BY <1>2
  <2>2. Parsed(r, c, n, known)
    BY <1>2 DEF ParseByte, Parsed
  <2> HIDE DEF r
  <2>3. r \in Rows /\ r[1] = cs /\ (c \in r[2] \/ (c \in MoreDelims /\ "more" \in r[2]))
    BY <2>1, TakenEdge
  <2> QED BY <2>2, <2>3 DEF ParseByte, http_parser_error, http_parser_first_final
<1> QED BY <1>1, <1>2

-----------------------------------------------------------------------------
(* Types.                                                                  *)

LEMMA NextState ==
    ASSUME NEW r, EdgeOK(r), r[1] # 348
    PROVE  r[3] \in State
<1> USE DEF State, By, ButBy
<1>1. CASE \/ r[1] = 1 /\ FromStart(r)
           \/ r[1] \in InMethod /\ FromMethod(r)
  BY <1>1 DEF FromStart, FromMethod, InMethod, InXml, InJson
<1>2. CASE \/ r[1] = 3 /\ FromNoTarget(r)
           \/ r[1] \in InTarget /\ FromTarget(r)
  BY <1>2 DEF FromNoTarget, FromTarget, EmptyPathExit, PathExit, InTarget, InPath
<1>3. CASE \/ r[1] = 174 /\ FromScheme(r)
           \/ r[1] \in InPath /\ FromPath(r)
  BY <1>3 DEF FromScheme, FromPath, EmptyPathExit, PathExit, InPath
<1>4. CASE \/ r[1] = 29 /\ FromNoQuery(r)
           \/ r[1] \in InQuery /\ FromQuery(r)
  BY <1>4 DEF FromNoQuery, FromQuery, InQuery
<1>5. CASE \/ r[1] = 20 /\ FromNoFragment(r)
           \/ r[1] \in InFragment /\ FromFragment(r)
  BY <1>5 DEF FromNoFragment, FromFragment, InFragment
<1>6. CASE \/ r[1] = 4 /\ FromNoVersion(r)
           \/ r[1] \in InVersion /\ FromVersion(r)
           \/ r[1] = 17 /\ FromEol(r)
  BY <1>6 DEF FromNoVersion, FromVersion, FromEol, InVersion
<1>7. CASE \/ r[1] = 13 /\ FromLine(r)
           \/ r[1] \in InName /\ FromName(r)
  BY <1>7 DEF FromLine, FromName, InName
<1>8. CASE \/ r[1] = 15 /\ FromBlank(r)
           \/ r[1] = 16 /\ FromValue(r)
  BY <1>8 DEF FromBlank, FromValue
<1>9. CASE \/ r[1] \in InXml /\ FromXml(r)
           \/ r[1] \in InJson /\ FromJson(r)
           \/ r[1] \in InData /\ FromData(r)
  BY <1>9 DEF FromXml, FromJson, FromData, InXml, InJson, InData
<1> HIDE DEF State, By, ButBy
<1> QED BY <1>1, <1>2, <1>3, <1>4, <1>5, <1>6, <1>7, <1>8, <1>9 DEF EdgeOK

LEMMA CallType ==
    ASSUME NEW s \in Seq(Callbacks), NEW a
    PROVE  Call(s, a) \in Seq(Callbacks)
BY DEF Call

LEMMA CallsAfterType ==
    ASSUME NEW r, calls \in Seq(Callbacks)
    PROVE  CallsAfter(r) \in Seq(Callbacks)
BY CallType DEF CallsAfter

AtType == [mark : 0 .. MaxLen, field_start : 0 .. MaxLen,
           field_len : 0 .. MaxLen, query_start : Stale .. MaxLen]
LexType == [kind : LexKinds, len : 0 .. MaxLen, name : 0 .. MaxLen]

LEMMA FarType ==
    /\ \A n \in 0 .. MaxLen : Far(n) \in 0 .. MaxLen
    /\ \A n \in Stale .. MaxLen : Far(n) \in Stale .. MaxLen
    /\ Far(0) = 1 /\ 1 \in 0 .. MaxLen /\ 0 \in 0 .. MaxLen
BY SessionAssumption DEF Far, Stale

LEMMA BufferStartType == BufferStart \in AtType
BY SessionAssumption DEF BufferStart, AtType, Stale

LEMMA AtByteType ==
    ASSUME NEW r, at \in AtType
    PROVE  AtByte(r) \in AtType
<1>1. 0 \in 0 .. MaxLen /\ 0 \in Stale .. MaxLen
  BY SessionAssumption DEF Stale
<1>2. /\ at.mark \in 0 .. MaxLen /\ at.field_start \in 0 .. MaxLen
      /\ at.field_len \in 0 .. MaxLen /\ at.query_start \in Stale .. MaxLen
  BY DEF AtType
<1> QED BY <1>1, <1>2 DEF AtType, AtByte

LEMMA AdvanceIs ==
    ASSUME NEW a \in AtType
    PROVE  /\ Advance(a) \in AtType
           /\ Advance(a).mark = Far(a.mark)
           /\ Advance(a).field_start = Far(a.field_start)
           /\ Advance(a).field_len = a.field_len
           /\ Advance(a).query_start = Far(a.query_start)
BY FarType DEF Advance, AtType

LEMMA ReportsType ==
    ASSUME NEW r, at \in AtType, lex \in LexType
    PROVE  Reports(r) \subseteq Slice
<1>1. \A n \in 0 .. MaxLen : n \in -1 .. MaxLen
  BY SessionAssumption
<1>2. /\ AtByte(r).mark \in -1 .. MaxLen /\ AtByte(r).field_len \in -1 .. MaxLen
      /\ AtByte(r).query_start \in -1 .. MaxLen
  BY <1>1, AtByteType DEF AtType, Stale
<1>3. lex.len \in 0 .. MaxLen /\ lex.name \in 0 .. MaxLen /\ lex.kind \in LexKinds
  BY DEF LexType
<1>4. ASSUME NEW w \in {"request_method", "request_path", "query_string", "fragment",
                        "http_version", "write_field", "write_value"},
             NEW n \in -1 .. MaxLen, NEW m \in 0 .. MaxLen
      PROVE  Report(w, n, m) \in Slice
  BY <1>3 DEF Report, Slice
<1> QED BY <1>2, <1>3, <1>4 DEF Reports

LEMMA TokType ==
    ASSUME NEW k \in LexKinds, NEW n \in 0 .. MaxLen, lex \in LexType
    PROVE  Tok(k, n) \in LexType
BY DEF Tok, LexType

LEMMA MoreIs ==
    ASSUME lex \in LexType
    PROVE  /\ More \in LexType /\ More.kind = lex.kind
           /\ More.len = Far(lex.len) /\ More.name = lex.name
BY FarType DEF More, LexType

LEMMA LexAlways ==
    ASSUME NEW c, lex \in LexType
    PROVE  Lex(c) \in LexType
<1>1. \A k \in LexKinds : Tok(k, 0) \in LexType /\ Tok(k, 1) \in LexType
  BY TokType, FarType
<1>2. /\ "xml" \in LexKinds /\ "json" \in LexKinds /\ "method" \in LexKinds
      /\ "target" \in LexKinds /\ "line" \in LexKinds /\ "data" \in LexKinds
      /\ "eol" \in LexKinds /\ "version" \in LexKinds /\ "fragment" \in LexKinds
      /\ "query" \in LexKinds /\ "path" \in LexKinds /\ "name" \in LexKinds
      /\ "value" \in LexKinds
  BY DEF LexKinds
<1>3. More \in LexType
  BY MoreIs
<1>4. NewLine(c) \in LexType
  BY <1>1, <1>2 DEF NewLine
<1>5. LexTarget(c) \in LexType
  <2>1. [More EXCEPT !.kind = "path"] \in LexType
    BY <1>2, <1>3 DEF LexType
  <2> QED BY <1>1, <1>2, <1>3, <2>1 DEF LexTarget
<1>6. LexField(c) \in LexType
  <2>1. [kind |-> "blank", len |-> 0, name |-> lex.len] \in LexType
    BY FarType DEF LexType, LexKinds
  <2> QED BY <1>1, <1>2, <1>3, <1>4, <2>1 DEF LexField
<1>7. Tok(IF c = "<" THEN "xml" ELSE IF c = "@" THEN "json" ELSE "method", 1) \in LexType
  BY <1>1, <1>2
<1> QED BY <1>1, <1>2, <1>3, <1>4, <1>5, <1>6, <1>7 DEF Lex

LEMMA TypeInit == Init => TypeOK
<1>1. Init => lex \in LexType
  BY FarType DEF Init, LexType, LexKinds
<1>2. Init => calls \in Seq(Callbacks)
  BY DEF Init, NewParser
<1>3. Init => m_error \in BOOLEAN /\ isClose \in BOOLEAN /\ uri_relaxed \in BOOLEAN
  BY Zenon DEF Init, NewParser
<1>4. Init => cs \in State /\ contentLength = 0
  BY DEF Init, NewParser, http_parser_start, State
<1> QED
  BY <1>1, <1>2, <1>3, <1>4, SessionAssumption, BufferStartType
  DEF Init, TypeOK, AtType, LexType

LEMMA TypeByte ==
    ASSUME TypeOK, NEW c \in Byte, NEW n \in 0 .. MaxBody, NEW known \in BOOLEAN,
           ParseByte(c, n, known)
    PROVE  TypeOK'
<1>1. at \in AtType /\ lex \in LexType
  BY DEF TypeOK, AtType, LexType
<1>2. CASE /\ cs' = 0 /\ reported' = {}
           /\ UNCHANGED <<at, m_error, contentLength, calls, lex, unread>>
  BY <1>2, ByteTaken DEF TypeOK, State
<1>3. ASSUME NEW r \in Rows, r[1] = cs, Parsed(r, c, n, known)
      PROVE  TypeOK'
  <2>1. r[3] \in State
    BY <1>3, RowsOK, NextState, ByteTaken DEF TypeOK
  <2>2. Advance(AtByte(r)) \in AtType
    BY <1>1, AtByteType, AdvanceIs
  <2>3. Reports(r) \subseteq Slice
    BY <1>1, ReportsType
  <2>4. CallsAfter(r) \in Seq(Callbacks)
    BY CallsAfterType DEF TypeOK
  <2>5. Lex(c) \in LexType
    BY <1>1, LexAlways
  <2>6. m_error' \in BOOLEAN
    BY <1>3 DEF Parsed, on_request_method, on_request_version, TypeOK
  <2>7. contentLength' \in 0 .. MaxBody /\ unread' \in 0 .. MaxBody
    BY <1>3 DEF Parsed, on_request_http_field, TypeOK
  <2> QED
    BY <1>3, <2>1, <2>2, <2>3, <2>4, <2>5, <2>6, <2>7, ByteTaken
    DEF Parsed, TypeOK, AtType, LexType
<1> QED BY <1>2, <1>3, ByteTaken DEF TypeOK

LEMMA TypeStep == TypeOK /\ [Next]_vars => TypeOK'
<1> SUFFICES ASSUME TypeOK, [Next]_vars
             PROVE  TypeOK'
  OBVIOUS
<1>1. CASE Read
  BY <1>1, SessionAssumption, BufferStartType DEF Read, TypeOK, AtType
<1>2. CASE ReadFails
  BY <1>2 DEF ReadFails, TypeOK
<1>3. CASE EndOfRead
  BY <1>3 DEF EndOfRead, TypeOK
<1>4. CASE handleClient
  <2>1. [kind |-> "start", len |-> 0, name |-> 0] \in LexType
    BY FarType DEF LexType, LexKinds
  <2>2. <<>> \in Seq(Callbacks)
    OBVIOUS
  <2>3. CASE isClose \/ ~m_isKeepalive
    BY <1>4, <2>3 DEF handleClient, TypeOK
  <2>4. CASE ~(isClose \/ ~m_isKeepalive)
    <3>1. m_error' \in BOOLEAN /\ uri_relaxed' \in BOOLEAN
      BY Zenon, <1>4, <2>4 DEF handleClient, NewParser
    <3>2. cs' \in State /\ contentLength' = 0 /\ calls' = <<>>
      BY <1>4, <2>4 DEF handleClient, NewParser, http_parser_start, State
    <3> QED
      BY <1>4, <2>1, <2>2, <2>4, <3>1, <3>2, SessionAssumption, BufferStartType
      DEF handleClient, TypeOK, AtType, LexType
  <2> QED BY <2>3, <2>4
<1>5. ASSUME NEW c \in Byte, NEW n \in 0 .. MaxBody, NEW known \in BOOLEAN,
             ParseByte(c, n, known)
      PROVE  TypeOK'
  BY <1>5, TypeByte
<1>6. ASSUME NEW k \in 0 .. MaxBody, NEW close \in BOOLEAN, Finished(k, close)
      PROVE  TypeOK'
  BY <1>6, SessionAssumption DEF Finished, TypeOK
<1>7. ASSUME NEW k \in 1 .. MaxBody, ReadFixSize(k)
      PROVE  TypeOK'
  BY <1>7, SessionAssumption DEF ReadFixSize, TypeOK
<1>8. CASE UNCHANGED vars
  BY <1>8 DEF vars, TypeOK
<1> QED BY <1>1, <1>2, <1>3, <1>4, <1>5, <1>6, <1>7, <1>8 DEF Next

\* Types, for every bound: the automaton never leaves its table, the offsets of the
\* parser never exceed what is counted, and readFixSize() never waits for a negative
\* number of bytes or for more than a body has.
THEOREM HttpTypeCorrect == Spec => []TypeOK
<1>1. Init => TypeOK
  BY TypeInit
<1>2. TypeOK /\ [Next]_vars => TypeOK'
  BY TypeStep
<1> QED BY <1>1, <1>2, PTL DEF Spec

-----------------------------------------------------------------------------
(* The order of the callbacks.                                             *)

\* How far the callbacks have come, as one formula per stage of a head.
Has(s, k, A) == s \in Seq(Callbacks) /\ Upto(s, k) /\ A \subseteq Range(s)

LEMMA HasCall ==
    ASSUME NEW s, NEW k \in Nat, NEW A, Has(s, k, A), NEW a \in Callbacks, k < Rank(a)
    PROVE  Has(Call(s, a), Rank(a), A \cup {a})
BY CallUp DEF Has

\* The places at which each callback follows.
LEMMA HasNext ==
    ASSUME NEW s, NEW A
    PROVE  /\ Has(s, 0, A) => Has(Call(s, "request_method"), 1, A \cup {"request_method"})
           /\ Has(s, 0, A) => Has(Call(s, "request_path"), 2, A \cup {"request_path"})
           /\ Has(s, 1, A) => Has(Call(s, "request_path"), 2, A \cup {"request_path"})
           /\ Has(s, 2, A) => Has(Call(s, "query_string"), 3, A \cup {"query_string"})
           /\ Has(s, 2, A) => Has(Call(s, "request_uri"), 4, A \cup {"request_uri"})
           /\ Has(s, 3, A) => Has(Call(s, "request_uri"), 4, A \cup {"request_uri"})
           /\ Has(s, 4, A) => Has(Call(s, "fragment"), 5, A \cup {"fragment"})
           /\ Has(s, 5, A) => Has(Call(s, "http_version"), 6, A \cup {"http_version"})
           /\ Has(s, 7, A) => Has(Call(s, "done"), 8, A \cup {"done"})
<1> DEFINE Goes(k, a, m) == Has(s, k, A) => Has(Call(s, a), m, A \cup {a})
<1>1. \A k \in Nat : \A m \in Nat : \A a \in Callbacks :
         k < m /\ Rank(a) = m => Goes(k, a, m)
  BY HasCall
<1>2. /\ "request_method" \in Callbacks /\ "request_path" \in Callbacks
      /\ "query_string" \in Callbacks /\ "request_uri" \in Callbacks
      /\ "fragment" \in Callbacks /\ "http_version" \in Callbacks /\ "done" \in Callbacks
  BY DEF Callbacks
<1> HIDE DEF Goes
<1>3. /\ Goes(0, "request_method", 1) /\ Goes(0, "request_path", 2)
      /\ Goes(1, "request_path", 2) /\ Goes(2, "query_string", 3)
      /\ Goes(2, "request_uri", 4) /\ Goes(3, "request_uri", 4)
      /\ Goes(4, "fragment", 5) /\ Goes(5, "http_version", 6) /\ Goes(7, "done", 8)
  BY <1>1, <1>2, RankValues
<1> QED BY <1>3 DEF Goes

LEMMA HasMore ==
    ASSUME NEW s, NEW k \in Nat, NEW m \in Nat, NEW A, Has(s, k, A), k <= m
    PROVE  Has(s, m, A)
BY UptoMore DEF Has

\* What is to be shown of the callbacks when a state of each stage is entered.
LEMMA OrderNone ==
    ASSUME NEW s \in {0, 1} \cup InMethod \cup InXml \cup InJson
    PROVE  OrderAt(s, <<>>)
<1>1. Upto(<<>>, 8)
  BY DEF Upto
<1> QED BY <1>1 DEF OrderAt, InMethod, InTarget, InPath, InQuery, InFragment, InVersion,
                    InXml, InJson, InData

LEMMA OrderError ==
    ASSUME NEW cl, Upto(cl, 8)
    PROVE  OrderAt(0, cl)
BY DEF OrderAt, InMethod, InTarget, InPath, InQuery, InFragment, InVersion, InXml, InJson,
       InData

LEMMA OrderPath ==
    ASSUME NEW cl, Has(cl, 1, {"request_method"}),
           NEW s \in {3, 174} \cup InTarget \cup InPath
    PROVE  OrderAt(s, cl)
<1>1. Upto(cl, 8)
  BY UptoMore DEF Has
<1> QED BY <1>1 DEF Has, OrderAt, InMethod, InTarget, InPath, InQuery, InFragment,
                    InVersion, InXml, InJson, InData

LEMMA OrderQuery ==
    ASSUME NEW cl, Has(cl, 2, {"request_method", "request_path"}),
           NEW s \in {29} \cup InQuery
    PROVE  OrderAt(s, cl)
<1>1. Upto(cl, 8)
  BY UptoMore DEF Has
<1> QED BY <1>1 DEF Has, OrderAt, InMethod, InTarget, InPath, InQuery, InFragment,
                    InVersion, InXml, InJson, InData

LEMMA OrderFragment ==
    ASSUME NEW cl, Has(cl, 4, Line1), NEW s \in {20} \cup InFragment
    PROVE  OrderAt(s, cl)
<1>1. Upto(cl, 8)
  BY UptoMore DEF Has
<1> QED BY <1>1 DEF Has, OrderAt, InMethod, InTarget, InPath, InQuery, InFragment,
                    InVersion, InXml, InJson, InData

LEMMA OrderVersion ==
    ASSUME NEW cl, Has(cl, 5, Line1), NEW s \in {4} \cup InVersion
    PROVE  OrderAt(s, cl)
<1>1. Upto(cl, 8)
  BY UptoMore DEF Has
<1> QED BY <1>1 DEF Has, OrderAt, InMethod, InTarget, InPath, InQuery, InFragment,
                    InVersion, InXml, InJson, InData

LEMMA OrderFields ==
    ASSUME NEW cl, Has(cl, 7, Line1 \cup {"http_version"}), NEW s \in 13 .. 18
    PROVE  OrderAt(s, cl)
<1>1. Upto(cl, 8)
  BY UptoMore DEF Has
<1> QED BY <1>1 DEF Has, OrderAt, InMethod, InTarget, InPath, InQuery, InFragment,
                    InVersion, InXml, InJson, InData

LEMMA OrderDone ==
    ASSUME NEW cl, Has(cl, 8, Line1 \cup {"http_version", "done"})
    PROVE  OrderAt(348, cl)
BY DEF Has, OrderAt, InMethod, InTarget, InPath, InQuery, InFragment, InVersion, InXml,
       InJson, InData

LEMMA OrderData ==
    ASSUME NEW cl, Has(cl, 2, {"request_path"}), Range(cl) = {"request_path"},
           NEW s \in InData
    PROVE  OrderAt(s, cl)
<1>1. Upto(cl, 8)
  BY UptoMore DEF Has
<1> QED BY <1>1 DEF Has, OrderAt, InMethod, InTarget, InPath, InQuery, InFragment,
                    InVersion, InXml, InJson, InData

LEMMA OrderSocketDone ==
    ASSUME NEW cl, Has(cl, 8, {}), Range(cl) = {"request_path", "done"}
    PROVE  OrderAt(349, cl)
BY DEF Has, OrderAt, InMethod, InTarget, InPath, InQuery, InFragment, InVersion, InXml,
       InJson, InData

\* An edge keeps the order: by the token it is in.
LEMMA OrderStart ==
    ASSUME NEW r, calls \in Seq(Callbacks), OrderAt(r[1], calls),
           \/ r[1] = 1 /\ FromStart(r)
           \/ r[1] \in InMethod /\ FromMethod(r)
    PROVE  OrderAt(r[3], CallsAfter(r))
<1>1. calls = <<>>
  BY DEF OrderAt
<1>2. CASE r[3] \in InMethod \cup InXml \cup InJson /\ r[4] \in {<<>>, <<"mark">>}
  <2>1. CallsAfter(r) = calls
    BY <1>2, CallsOf
  <2> QED BY <1>1, <1>2, <2>1, OrderNone
<1>3. CASE r[3] = 3 /\ r[4] = <<"request_method">>
  <2>1. Has(calls, 0, {})
    BY <1>1, UptoNothing DEF Has
  <2>2. Has(Call(calls, "request_method"), 1, {} \cup {"request_method"})
    BY <2>1, HasNext
  <2>3. Has(Call(calls, "request_method"), 1, {"request_method"})
    BY <2>2
  <2> QED BY <1>3, <2>3, CallsOf, OrderPath
<1> QED BY <1>2, <1>3 DEF FromStart, FromMethod, By, ButBy

\* The three ways a path ends.
LEMMA OrderPathExit ==
    ASSUME NEW r, Has(calls, 1, {"request_method"}), PathExit(r) \/ EmptyPathExit(r)
    PROVE  OrderAt(r[3], CallsAfter(r))
<1> DEFINE c1 == Call(calls, "request_path")
           c2 == Call(c1, "request_uri")
<1>1. Has(c1, 2, {"request_method", "request_path"})
  <2>1. Has(c1, 2, {"request_method"} \cup {"request_path"})
    BY HasNext
  <2>2. {"request_method"} \cup {"request_path"} = {"request_method", "request_path"}
    OBVIOUS
  <2> HIDE DEF c1
  <2> QED BY <2>1, <2>2
<1>2. Has(c2, 4, Line1)
  <2> HIDE DEF c1
  <2>1. Has(c2, 4, {"request_method", "request_path"} \cup {"request_uri"})
    BY <1>1, HasNext
  <2>2. {"request_method", "request_path"} \cup {"request_uri"} = Line1
    BY DEF Line1
  <2> HIDE DEF c2
  <2> QED BY <2>1, <2>2
<1>3. CASE r[3] = 29 /\ CallsAfter(r) = c1
  BY <1>1, <1>3, OrderQuery
<1>4. CASE r[3] = 20 /\ CallsAfter(r) = c2
  BY <1>2, <1>4, OrderFragment
<1>5. CASE r[3] = 4 /\ CallsAfter(r) = c2
  <2>1. Has(c2, 5, Line1)
    BY <1>2, HasMore
  <2> QED BY <1>5, <2>1, OrderVersion
<1>6. \/ r[3] = 29 /\ r[4] \in {<<"request_path">>, <<"mark", "request_path">>}
      \/ /\ r[3] \in {4, 20}
         /\ r[4] \in {<<"request_path", "request_uri">>,
                      <<"mark", "request_path", "request_uri">>}
  BY DEF PathExit, EmptyPathExit, By
<1> QED BY <1>3, <1>4, <1>5, <1>6, CallsOf

LEMMA OrderTarget ==
    ASSUME NEW r, calls \in Seq(Callbacks), OrderAt(r[1], calls),
           \/ r[1] = 3 /\ FromNoTarget(r)
           \/ r[1] \in InTarget /\ FromTarget(r)
           \/ r[1] = 174 /\ FromScheme(r)
           \/ r[1] \in InPath /\ FromPath(r)
    PROVE  OrderAt(r[3], CallsAfter(r))
<1>1. Has(calls, 1, {"request_method"})
  BY DEF OrderAt, Has
<1>2. CASE r[3] \in {174} \cup InTarget \cup InPath /\ r[4] \in {<<>>, <<"mark">>}
  <2>1. CallsAfter(r) = calls
    BY <1>2, CallsOf
  <2> QED BY <1>1, <1>2, <2>1, OrderPath
<1> QED BY <1>1, <1>2, OrderPathExit
        DEF FromNoTarget, FromTarget, FromScheme, FromPath, By, ButBy

LEMMA OrderInQuery ==
    ASSUME NEW r, calls \in Seq(Callbacks), OrderAt(r[1], calls),
           \/ r[1] = 29 /\ FromNoQuery(r)
           \/ r[1] \in InQuery /\ FromQuery(r)
    PROVE  OrderAt(r[3], CallsAfter(r))
<1> DEFINE A == {"request_method", "request_path"}
           c1 == Call(calls, "query_string")
           c2 == Call(c1, "request_uri")
<1>1. Has(calls, 2, A)
  BY DEF OrderAt, Has
<1>2. Has(c2, 4, Line1)
  <2> HIDE DEF A
  <2>1. Has(c1, 3, A \cup {"query_string"})
    BY <1>1, HasNext
  <2> HIDE DEF c1
  <2>2. Has(c2, 4, (A \cup {"query_string"}) \cup {"request_uri"})
    BY <2>1, HasNext
  <2>3. Line1 \subseteq (A \cup {"query_string"}) \cup {"request_uri"}
    BY DEF Line1, A
  <2> HIDE DEF c2
  <2> QED BY <2>2, <2>3 DEF Has
<1>3. CASE r[3] \in InQuery /\ r[4] \in {<<>>, <<"start_query">>}
  <2>1. CallsAfter(r) = calls
    BY <1>3, CallsOf
  <2> QED BY <1>1, <1>3, <2>1, OrderQuery
<1>4. CASE /\ r[3] \in {4, 20}
           /\ r[4] \in {<<"query_string", "request_uri">>,
                        <<"start_query", "query_string", "request_uri">>}
  <2>1. CallsAfter(r) = c2
    BY <1>4, CallsOf
  <2>2. Has(c2, 5, Line1)
    BY <1>2, HasMore
  <2> QED BY <1>2, <1>4, <2>1, <2>2, OrderFragment, OrderVersion
<1> QED BY <1>3, <1>4 DEF FromNoQuery, FromQuery, By, ButBy

LEMMA OrderInFragment ==
    ASSUME NEW r, calls \in Seq(Callbacks), OrderAt(r[1], calls),
           \/ r[1] = 20 /\ FromNoFragment(r)
           \/ r[1] \in InFragment /\ FromFragment(r)
    PROVE  OrderAt(r[3], CallsAfter(r))
<1>1. Has(calls, 4, Line1)
  BY DEF OrderAt, Has
<1>2. CASE r[3] \in InFragment /\ r[4] \in {<<>>, <<"mark">>}
  <2>1. CallsAfter(r) = calls
    BY <1>2, CallsOf
  <2> QED BY <1>1, <1>2, <2>1, OrderFragment
<1>3. CASE r[3] = 4 /\ r[4] \in {<<"fragment">>, <<"mark", "fragment">>}
  <2>1. CallsAfter(r) = Call(calls, "fragment")
    BY <1>3, CallsOf
  <2>2. Has(Call(calls, "fragment"), 5, Line1 \cup {"fragment"})
    BY <1>1, HasNext
  <2>3. Has(Call(calls, "fragment"), 5, Line1)
    BY <2>2 DEF Has
  <2> QED BY <1>3, <2>1, <2>3, OrderVersion
<1> QED BY <1>2, <1>3 DEF FromNoFragment, FromFragment, By, ButBy

LEMMA OrderInVersion ==
    ASSUME NEW r, calls \in Seq(Callbacks), OrderAt(r[1], calls),
           \/ r[1] = 4 /\ FromNoVersion(r)
           \/ r[1] \in InVersion /\ FromVersion(r)
    PROVE  OrderAt(r[3], CallsAfter(r))
<1>1. Has(calls, 5, Line1)
  BY DEF OrderAt, Has
<1>2. CASE r[3] \in InVersion /\ r[4] \in {<<>>, <<"mark">>}
  <2>1. CallsAfter(r) = calls
    BY <1>2, CallsOf
  <2> QED BY <1>1, <1>2, <2>1, OrderVersion
<1>3. CASE r[3] \in {13, 17} /\ r[4] = <<"http_version">>
  <2>1. CallsAfter(r) = Call(calls, "http_version")
    BY <1>3, CallsOf
  <2>2. Has(Call(calls, "http_version"), 6, Line1 \cup {"http_version"})
    BY <1>1, HasNext
  <2>3. Has(Call(calls, "http_version"), 7, Line1 \cup {"http_version"})
    BY <2>2, HasMore
  <2>4. r[3] \in 13 .. 18
    BY <1>3
  <2> QED BY <2>1, <2>3, <2>4, OrderFields
<1> QED BY <1>2, <1>3 DEF FromNoVersion, FromVersion, By, ButBy

LEMMA OrderInFields ==
    ASSUME NEW r, calls \in Seq(Callbacks), OrderAt(r[1], calls),
           \/ r[1] = 17 /\ FromEol(r)
           \/ r[1] = 13 /\ FromLine(r)
           \/ r[1] \in InName /\ FromName(r)
           \/ r[1] = 15 /\ FromBlank(r)
           \/ r[1] = 16 /\ FromValue(r)
    PROVE  OrderAt(r[3], CallsAfter(r))
<1> DEFINE A == Line1 \cup {"http_version"}
<1>1. Has(calls, 7, A)
  BY DEF OrderAt, Has, InName
<1> HIDE DEF A
<1>2. CASE /\ r[3] \in 13 .. 18
           /\ r[4] \in {<<>>, <<"start_field">>, <<"write_field">>, <<"start_value">>}
  <2>1. CallsAfter(r) = calls
    BY <1>2, CallsOf
  <2> QED BY <1>1, <1>2, <2>1, OrderFields DEF A
<1>3. CASE /\ r[3] \in 13 .. 18
           /\ r[4] \in {<<"write_value">>, <<"start_value", "write_value">>}
  <2>1. CallsAfter(r) = Call(calls, "write_value")
    BY <1>3, CallsOf
  <2>2. Has(Call(calls, "write_value"), 7, A)
    BY <1>1, CallField DEF Has
  <2> QED BY <1>3, <2>1, <2>2, OrderFields DEF A
<1>4. CASE r[3] = 348 /\ r[4] \in {<<"done">>, <<"start_field", "done">>}
  <2>1. CallsAfter(r) = Call(calls, "done")
    BY <1>4, CallsOf
  <2>2. Has(Call(calls, "done"), 8, A \cup {"done"})
    BY <1>1, HasNext
  <2>3. A \cup {"done"} = Line1 \cup {"http_version", "done"}
    BY DEF A
  <2>4. Has(Call(calls, "done"), 8, Line1 \cup {"http_version", "done"})
    BY <2>2, <2>3
  <2> QED BY <1>4, <2>1, <2>4, OrderDone
<1>5. \A s \in {13, 15, 16, 17} \cup InName : s \in 13 .. 18
  BY DEF InName
<1> QED BY <1>2, <1>3, <1>4, <1>5
        DEF FromEol, FromLine, FromName, FromBlank, FromValue, By, ButBy

LEMMA OrderSocket ==
    ASSUME NEW r, calls \in Seq(Callbacks), OrderAt(r[1], calls),
           \/ r[1] \in InXml /\ FromXml(r)
           \/ r[1] \in InJson /\ FromJson(r)
    PROVE  OrderAt(r[3], CallsAfter(r))
<1>1. calls = <<>>
  BY DEF OrderAt
<1>2. CASE r[3] \in InXml \cup InJson /\ r[4] = <<>>
  <2>1. CallsAfter(r) = calls
    BY <1>2, CallsOf
  <2> QED BY <1>1, <1>2, <2>1, OrderNone
<1>3. CASE r[3] \in InData /\ r[4] = <<"request_path">>
  <2>1. CallsAfter(r) = Call(calls, "request_path")
    BY <1>3, CallsOf
  <2>2. /\ Call(calls, "request_path") \in Seq(Callbacks)
        /\ Upto(Call(calls, "request_path"), 2)
        /\ Range(Call(calls, "request_path")) = Range(calls) \cup {"request_path"}
    <3>1. Upto(calls, 0) /\ "request_path" \in Callbacks
      BY <1>1, UptoNothing DEF Callbacks
    <3> QED BY <3>1, CallUp, RankValues
  <2>3. Range(Call(calls, "request_path")) = {"request_path"}
    BY <1>1, <2>2, UptoNothing
  <2>4. Has(Call(calls, "request_path"), 2, {"request_path"})
    BY <2>2, <2>3 DEF Has
  <2> QED BY <1>3, <2>1, <2>3, <2>4, OrderData
<1> QED BY <1>2, <1>3 DEF FromXml, FromJson, By, ButBy

LEMMA OrderInData ==
    ASSUME NEW r, calls \in Seq(Callbacks), OrderAt(r[1], calls),
           r[1] \in InData, FromData(r)
    PROVE  OrderAt(r[3], CallsAfter(r))
<1>1. Upto(calls, 2) /\ Range(calls) = {"request_path"}
  BY DEF OrderAt
<1>2. CASE r[3] \in InData /\ r[4] \in {<<>>, <<"mark">>}
  <2>1. CallsAfter(r) = calls
    BY <1>2, CallsOf
  <2> QED BY <1>1, <1>2, <2>1, OrderData DEF Has
<1>3. CASE r[3] = 349 /\ r[4] \in {<<"xml", "done">>, <<"json", "done">>}
  <2>1. CallsAfter(r) = Call(calls, "done")
    BY <1>3, CallsOf
  <2>2. /\ Call(calls, "done") \in Seq(Callbacks) /\ Upto(Call(calls, "done"), 8)
        /\ Range(Call(calls, "done")) = Range(calls) \cup {"done"}
    BY <1>1, CallUp, RankValues DEF Callbacks
  <2>3. Range(Call(calls, "done")) = {"request_path", "done"}
    BY <1>1, <2>2
  <2>4. Has(Call(calls, "done"), 8, {})
    BY <2>2 DEF Has
  <2> QED BY <1>3, <2>1, <2>3, <2>4, OrderSocketDone
<1> QED BY <1>2, <1>3 DEF FromData

LEMMA OrderEdge ==
    ASSUME NEW r, calls \in Seq(Callbacks), OrderAt(r[1], calls), EdgeOK(r), r[1] # 348
    PROVE  OrderAt(r[3], CallsAfter(r))
BY OrderStart, OrderTarget, OrderInQuery, OrderInFragment, OrderInVersion, OrderInFields,
   OrderSocket, OrderInData DEF EdgeOK

LEMMA OrderStep == TypeOK /\ OrderInv /\ [Next]_vars => OrderInv'
<1> SUFFICES ASSUME TypeOK, OrderInv, [Next]_vars
             PROVE  OrderInv'
  OBVIOUS
<1>1. ASSUME NEW c \in Byte, NEW n \in 0 .. MaxBody, NEW known \in BOOLEAN,
             ParseByte(c, n, known)
      PROVE  OrderInv'
  <2>1. CASE cs' = 0 /\ calls' = calls
    <3>1. Upto(calls, 8)
      BY DEF OrderInv, OrderAt
    <3>2. OrderAt(0, calls)
      BY <3>1, OrderError
    <3> QED BY <2>1, <3>2 DEF OrderInv
  <2>2. ASSUME NEW r \in Rows, r[1] = cs, Parsed(r, c, n, known)
        PROVE  OrderInv'
    <3>1. OrderAt(r[3], CallsAfter(r))
      <4>1. cs # 348 /\ calls \in Seq(Callbacks)
        BY <1>1, ByteTaken DEF TypeOK
      <4> QED BY <2>2, <4>1, OrderEdge, RowsOK DEF OrderInv
    <3>2. cs' = r[3] /\ calls' = CallsAfter(r)
      BY <2>2 DEF Parsed
    <3> QED BY <3>1, <3>2 DEF OrderInv
  <2> QED BY <1>1, <2>1, <2>2, ByteTaken DEF TypeOK
<1>2. CASE UNCHANGED <<cs, calls>>
  BY <1>2 DEF OrderInv
<1>3. CASE cs' = 1 /\ calls' = <<>>
  BY <1>3, OrderNone DEF OrderInv
<1> QED BY <1>1, <1>2, <1>3 DEF Next, vars, Read, ReadFails, EndOfRead, handleClient,
                               NewParser, http_parser_start, Finished, ReadFixSize

\* The callbacks of a head come in the order of the grammar, however the head is cut
\* into reads: execute() keeps the state of the automaton between two of them.
THEOREM HttpCallbackOrder == Spec => []CallbackOrder
<1>1. Init => TypeOK /\ OrderInv
  <2>1. Init => cs = 1 /\ calls = <<>>
    BY DEF Init, NewParser, http_parser_start
  <2> QED BY <2>1, TypeInit, OrderNone DEF OrderInv
<1>2. TypeOK /\ OrderInv /\ [Next]_vars => (TypeOK /\ OrderInv)'
  BY TypeStep, OrderStep
<1>3. TypeOK /\ OrderInv => CallbackOrder
  BY DEF OrderInv, OrderAt, CallbackOrder, Upto, Line1
<1> QED BY <1>1, <1>2, <1>3, PTL DEF Spec

-----------------------------------------------------------------------------
(* The slices, for a head that arrives in one read.                        *)

Drives(r, c) == c \in r[2] \/ (c \in MoreDelims /\ "more" \in r[2])

\* What the actions of an edge leave in the offsets, now and for the next byte.
LEMMA AtEffect ==
    ASSUME NEW r, at \in AtType
    PROVE  /\ "mark" \in Range(r[4]) \/ "start_value" \in Range(r[4]) =>
                AtByte(r).mark = 0 /\ Advance(AtByte(r)).mark = 1
           /\ "mark" \notin Range(r[4]) /\ "start_value" \notin Range(r[4]) =>
                AtByte(r).mark = at.mark /\ Advance(AtByte(r)).mark = Far(at.mark)
           /\ "start_field" \in Range(r[4]) => Advance(AtByte(r)).field_start = 1
           /\ "start_field" \notin Range(r[4]) =>
                Advance(AtByte(r)).field_start = Far(at.field_start)
           /\ "write_field" \in Range(r[4]) /\ "start_field" \notin Range(r[4]) =>
                Advance(AtByte(r)).field_len = at.field_start
           /\ "write_field" \notin Range(r[4]) =>
                AtByte(r).field_len = at.field_len /\ Advance(AtByte(r)).field_len = at.field_len
           /\ "start_query" \in Range(r[4]) =>
                AtByte(r).query_start = 0 /\ Advance(AtByte(r)).query_start = 1
           /\ "start_query" \notin Range(r[4]) =>
                /\ AtByte(r).query_start = at.query_start
                /\ Advance(AtByte(r)).query_start = Far(at.query_start)
<1> DEFINE a == AtByte(r)
           p == Advance(a)
<1>1. a \in AtType
  BY AtByteType
<1>2. /\ p.mark = Far(a.mark) /\ p.field_start = Far(a.field_start)
      /\ p.field_len = a.field_len /\ p.query_start = Far(a.query_start)
  BY <1>1, AdvanceIs
<1>3. /\ a.mark = IF Range(r[4]) \cap {"mark", "start_value"} # {} THEN 0 ELSE at.mark
      /\ a.field_start = IF "start_field" \in Range(r[4]) THEN 0 ELSE at.field_start
      /\ a.field_len = IF "write_field" \in Range(r[4]) THEN a.field_start ELSE at.field_len
      /\ a.query_start = IF "start_query" \in Range(r[4]) THEN 0 ELSE at.query_start
  BY DEF AtByte
<1> HIDE DEF a, p
<1>4. /\ "mark" \in Range(r[4]) \/ "start_value" \in Range(r[4]) =>
           a.mark = 0 /\ p.mark = 1
      /\ "mark" \notin Range(r[4]) /\ "start_value" \notin Range(r[4]) =>
           a.mark = at.mark /\ p.mark = Far(at.mark)
      /\ "start_field" \in Range(r[4]) => p.field_start = 1
      /\ "start_field" \notin Range(r[4]) => p.field_start = Far(at.field_start)
      /\ "write_field" \in Range(r[4]) /\ "start_field" \notin Range(r[4]) =>
           p.field_len = at.field_start
      /\ "write_field" \notin Range(r[4]) =>
           a.field_len = at.field_len /\ p.field_len = at.field_len
      /\ "start_query" \in Range(r[4]) => a.query_start = 0 /\ p.query_start = 1
      /\ "start_query" \notin Range(r[4]) =>
           a.query_start = at.query_start /\ p.query_start = Far(at.query_start)
  BY <1>2, <1>3, FarType
<1> QED BY <1>4 DEF a, p

\* What is reported is one of these.
LEMMA ReportsAre ==
    ASSUME NEW r, NEW s \in Reports(r)
    PROVE  /\ s.kind = lex.kind
           /\ \/ /\ s.what \in Range(r[4])
                 /\ s.what \in {"request_method", "request_path", "fragment", "http_version"}
                 /\ s.len = AtByte(r).mark /\ s.true = lex.len
              \/ /\ s.what = "query_string" /\ "query_string" \in Range(r[4])
                 /\ s.len = AtByte(r).query_start /\ s.true = lex.len
              \/ /\ s.what = "write_value" /\ "write_value" \in Range(r[4])
                 /\ s.len = AtByte(r).mark /\ s.true = lex.len
              \/ /\ s.what = "write_field" /\ "write_value" \in Range(r[4])
                 /\ s.len = AtByte(r).field_len /\ s.true = lex.name
BY DEF Reports, Report

LEMMA KindsOf ==
    /\ KindOf("request_method") = {"method"}
    /\ KindOf("request_path") = {"target", "path", "xml", "json"}
    /\ KindOf("query_string") = {"query"} /\ KindOf("fragment") = {"fragment"}
    /\ KindOf("http_version") = {"version"}
    /\ KindOf("write_value") = {"blank", "value"} /\ KindOf("write_field") = {"blank", "value"}
BY DEF KindOf

\* What has to be shown of the edge that byte c takes.
Right(r) ==
    /\ \A s \in Reports(r) : s.kind \in KindOf(s.what) /\ s.len = s.true
    /\ "write_value" \in Range(r[4]) => AtByte(r).field_len # 0

LinkEdge(r, c) == LinkAt(r[3], Lex(c), Advance(AtByte(r))) /\ Right(r)

\* The slices by the action that reports them.
LEMMA RightNone ==
    ASSUME NEW r, Range(r[4]) \cap {"request_method", "request_path", "fragment",
                     "http_version", "query_string", "write_value"} = {}
    PROVE  Right(r)
<1>1. Reports(r) = {}
  BY ReportsAre
<1> QED BY <1>1 DEF Right

LEMMA RightMark ==
    ASSUME NEW r,
           NEW w \in {"request_method", "request_path", "fragment", "http_version"},
           Range(r[4]) \cap {"request_method", "request_path", "fragment",
                     "http_version", "query_string", "write_value"} = {w},
           lex.kind \in KindOf(w), AtByte(r).mark = lex.len
    PROVE  Right(r)
<1>1. \A s \in Reports(r) : s.what = w /\ s.kind = lex.kind /\ s.len = s.true
  BY ReportsAre
<1> QED BY <1>1 DEF Right

LEMMA RightQuery ==
    ASSUME NEW r,
           Range(r[4]) \cap {"request_method", "request_path", "fragment",
                     "http_version", "query_string", "write_value"} = {"query_string"},
           lex.kind = "query", AtByte(r).query_start = lex.len
    PROVE  Right(r)
<1>1. \A s \in Reports(r) : s.what = "query_string" /\ s.kind = lex.kind /\ s.len = s.true
  BY ReportsAre
<1> QED BY <1>1, KindsOf DEF Right

LEMMA RightField ==
    ASSUME NEW r,
           Range(r[4]) \cap {"request_method", "request_path", "fragment",
                     "http_version", "query_string", "write_value"} = {"write_value"},
           lex.kind \in {"blank", "value"}, AtByte(r).mark = lex.len,
           AtByte(r).field_len = lex.name, lex.name # 0
    PROVE  Right(r)
<1>1. \A s \in Reports(r) : /\ s.what \in {"write_field", "write_value"}
                            /\ s.kind = lex.kind /\ s.len = s.true
  BY ReportsAre
<1> QED BY <1>1, KindsOf DEF Right

\* What has to be shown when a state of each token is entered.
LEMMA LinkMethod ==
    ASSUME NEW s, NEW lx, NEW a, s \in InMethod, Marked(lx, a, "method")
    PROVE  LinkAt(s, lx, a)
BY DEF LinkAt, InMethod, InTarget, InPath, InQuery, InFragment, InVersion, InName,
       InXml, InJson

LEMMA LinkNoTarget ==
    ASSUME NEW s, NEW lx, NEW a, s = 3, Fresh(lx, "target")
    PROVE  LinkAt(s, lx, a)
BY DEF LinkAt, InMethod, InTarget, InPath, InQuery, InFragment, InVersion, InName,
       InXml, InJson

LEMMA LinkTarget ==
    ASSUME NEW s, NEW lx, NEW a, s \in InTarget, Marked(lx, a, "target")
    PROVE  LinkAt(s, lx, a)
BY DEF LinkAt, InMethod, InTarget, InPath, InQuery, InFragment, InVersion, InName,
       InXml, InJson

LEMMA LinkNoPath ==
    ASSUME NEW s, NEW lx, NEW a, s = 174, Fresh(lx, "path")
    PROVE  LinkAt(s, lx, a)
BY DEF LinkAt, InMethod, InTarget, InPath, InQuery, InFragment, InVersion, InName,
       InXml, InJson

LEMMA LinkPath ==
    ASSUME NEW s, NEW lx, NEW a, s \in InPath, Marked(lx, a, "path")
    PROVE  LinkAt(s, lx, a)
BY DEF LinkAt, InMethod, InTarget, InPath, InQuery, InFragment, InVersion, InName,
       InXml, InJson

LEMMA LinkNoQuery ==
    ASSUME NEW s, NEW lx, NEW a, s = 29, Fresh(lx, "query")
    PROVE  LinkAt(s, lx, a)
BY DEF LinkAt, InMethod, InTarget, InPath, InQuery, InFragment, InVersion, InName,
       InXml, InJson

LEMMA LinkQuery ==
    ASSUME NEW s, NEW lx, NEW a, s \in InQuery, lx.kind = "query" /\ a.query_start = lx.len
    PROVE  LinkAt(s, lx, a)
BY DEF LinkAt, InMethod, InTarget, InPath, InQuery, InFragment, InVersion, InName,
       InXml, InJson

LEMMA LinkNoFragment ==
    ASSUME NEW s, NEW lx, NEW a, s = 20, Fresh(lx, "fragment")
    PROVE  LinkAt(s, lx, a)
BY DEF LinkAt, InMethod, InTarget, InPath, InQuery, InFragment, InVersion, InName,
       InXml, InJson

LEMMA LinkFragment ==
    ASSUME NEW s, NEW lx, NEW a, s \in InFragment, Marked(lx, a, "fragment")
    PROVE  LinkAt(s, lx, a)
BY DEF LinkAt, InMethod, InTarget, InPath, InQuery, InFragment, InVersion, InName,
       InXml, InJson

LEMMA LinkNoVersion ==
    ASSUME NEW s, NEW lx, NEW a, s = 4, Fresh(lx, "version")
    PROVE  LinkAt(s, lx, a)
BY DEF LinkAt, InMethod, InTarget, InPath, InQuery, InFragment, InVersion, InName,
       InXml, InJson

LEMMA LinkVersion ==
    ASSUME NEW s, NEW lx, NEW a, s \in InVersion, Marked(lx, a, "version")
    PROVE  LinkAt(s, lx, a)
BY DEF LinkAt, InMethod, InTarget, InPath, InQuery, InFragment, InVersion, InName,
       InXml, InJson

LEMMA LinkEol ==
    ASSUME NEW s, NEW lx, NEW a, s = 17, lx.kind = "eol"
    PROVE  LinkAt(s, lx, a)
BY DEF LinkAt, InMethod, InTarget, InPath, InQuery, InFragment, InVersion, InName,
       InXml, InJson

LEMMA LinkLine ==
    ASSUME NEW s, NEW lx, NEW a, s = 13, Fresh(lx, "line")
    PROVE  LinkAt(s, lx, a)
BY DEF LinkAt, InMethod, InTarget, InPath, InQuery, InFragment, InVersion, InName,
       InXml, InJson

LEMMA LinkName ==
    ASSUME NEW s, NEW lx, NEW a, s \in InName,
           lx.kind = "name" /\ a.field_start = lx.len /\ lx.len >= 1
    PROVE  LinkAt(s, lx, a)
BY DEF LinkAt, InMethod, InTarget, InPath, InQuery, InFragment, InVersion, InName,
       InXml, InJson

LEMMA LinkBlank ==
    ASSUME NEW s, NEW lx, NEW a, s = 15, Fresh(lx, "blank") /\ Named(lx, a)
    PROVE  LinkAt(s, lx, a)
BY DEF LinkAt, InMethod, InTarget, InPath, InQuery, InFragment, InVersion, InName,
       InXml, InJson

LEMMA LinkValue ==
    ASSUME NEW s, NEW lx, NEW a, s = 16, Marked(lx, a, "value") /\ Named(lx, a)
    PROVE  LinkAt(s, lx, a)
BY DEF LinkAt, InMethod, InTarget, InPath, InQuery, InFragment, InVersion, InName,
       InXml, InJson

LEMMA LinkXml ==
    ASSUME NEW s, NEW lx, NEW a, s \in InXml, Marked(lx, a, "xml")
    PROVE  LinkAt(s, lx, a)
BY DEF LinkAt, InMethod, InTarget, InPath, InQuery, InFragment, InVersion, InName,
       InXml, InJson

LEMMA LinkJson ==
    ASSUME NEW s, NEW lx, NEW a, s \in InJson, Marked(lx, a, "json")
    PROVE  LinkAt(s, lx, a)
BY DEF LinkAt, InMethod, InTarget, InPath, InQuery, InFragment, InVersion, InName,
       InXml, InJson

LEMMA LinkRest ==
    ASSUME NEW s, NEW lx, NEW a, s \in {0, 348, 349} \cup InData
    PROVE  LinkAt(s, lx, a)
BY DEF LinkAt, InMethod, InTarget, InPath, InQuery, InFragment, InVersion, InName,
       InXml, InJson, InData

\* The next token, by the delimiters.
LEMMA LexStart ==
    ASSUME NEW c, lex \in LexType, lex.kind = "start"
    PROVE  /\ Lex(c).len = 1
           /\ c \notin {"<", "@"} => Lex(c).kind = "method"
           /\ c = "<" => Lex(c).kind = "xml"
           /\ c = "@" => Lex(c).kind = "json"
BY DEF Lex, Tok

LEMMA LexMethod ==
    ASSUME NEW c, lex \in LexType, lex.kind = "method"
    PROVE  /\ c = "SP" => Fresh(Lex(c), "target")
           /\ c # "SP" => Lex(c) = More
BY DEF Lex, Tok, Fresh

LEMMA LexInTarget ==
    ASSUME NEW c, lex \in LexType, lex.kind \in {"target", "path", "query", "fragment"}
    PROVE  /\ c = "SP" => Fresh(Lex(c), "version")
           /\ c = "#" /\ lex.kind # "fragment" => Fresh(Lex(c), "fragment")
           /\ c = "?" /\ lex.kind \in {"target", "path"} => Fresh(Lex(c), "query")
           /\ c = "/" /\ lex.kind = "target" => /\ Lex(c).kind = "path"
                                                /\ Lex(c).len = Far(lex.len)
           /\ c = ":" /\ lex.kind = "target" => Fresh(Lex(c), "path")
           /\ c \notin {"SP", "#", "?", "/", ":"} => Lex(c) = More
           /\ c \notin {"SP", "#", "?"} /\ lex.kind = "path" => Lex(c) = More
           /\ c \notin {"SP", "#"} /\ lex.kind = "query" => Lex(c) = More
           /\ c # "SP" /\ lex.kind = "fragment" => Lex(c) = More
<1>1. Lex(c) = LexTarget(c)
  BY DEF Lex
<1>2. /\ [More EXCEPT !.kind = "path"].kind = "path"
      /\ [More EXCEPT !.kind = "path"].len = Far(lex.len)
  BY MoreIs DEF LexType
<1>3. Fresh(Tok("version", 0), "version") /\ Fresh(Tok("fragment", 0), "fragment")
      /\ Fresh(Tok("query", 0), "query") /\ Fresh(Tok("path", 0), "path")
  BY DEF Tok, Fresh
<1> QED BY <1>1, <1>2, <1>3 DEF LexTarget

LEMMA LexVersion ==
    ASSUME NEW c, lex \in LexType, lex.kind = "version"
    PROVE  /\ c = "LF" => Fresh(Lex(c), "line")
           /\ c = "CR" => Lex(c).kind = "eol"
           /\ c \notin {"CR", "LF"} => Lex(c) = More
BY DEF Lex, NewLine, Tok, Fresh

LEMMA LexLine ==
    ASSUME NEW c, lex \in LexType
    PROVE  /\ lex.kind = "eol" => Fresh(Lex(c), "line")
           /\ lex.kind = "line" /\ c # "LF" => Lex(c).kind = "name" /\ Lex(c).len = 1
           /\ lex.kind = "name" /\ c # ":" => Lex(c) = More
           /\ lex.kind = "name" /\ c = ":" =>
                 Fresh(Lex(c), "blank") /\ Lex(c).name = lex.len
<1>1. CASE lex.kind = "eol"
  BY <1>1 DEF Lex, Tok, Fresh
<1>2. CASE lex.kind = "line"
  <2>1. Lex(c) = LexField(c)
    BY <1>2 DEF Lex
  <2> QED BY <1>2, <2>1 DEF LexField, Tok
<1>3. CASE lex.kind = "name"
  <2>1. Lex(c) = LexField(c)
    BY <1>3 DEF Lex
  <2> QED BY <1>3, <2>1 DEF LexField, Fresh
<1> QED BY <1>1, <1>2, <1>3

LEMMA LexValue ==
    ASSUME NEW c, lex \in LexType
    PROVE  /\ lex.kind = "blank" /\ c \in {"SP", "TAB"} => Lex(c) = lex
           /\ lex.kind = "blank" /\ c \notin {"SP", "TAB", "CR", "LF"} =>
                 Lex(c).kind = "value" /\ Lex(c).len = 1 /\ Lex(c).name = lex.name
           /\ lex.kind = "value" /\ c \notin {"CR", "LF"} => Lex(c) = More
           /\ lex.kind \in {"blank", "value"} /\ c = "LF" => Fresh(Lex(c), "line")
           /\ lex.kind \in {"blank", "value"} /\ c = "CR" => Lex(c).kind = "eol"
<1> SUFFICES ASSUME lex.kind \in {"blank", "value"}
             PROVE  /\ lex.kind = "blank" /\ c \in {"SP", "TAB"} => Lex(c) = lex
                    /\ lex.kind = "blank" /\ c \notin {"SP", "TAB", "CR", "LF"} =>
                          Lex(c).kind = "value" /\ Lex(c).len = 1 /\ Lex(c).name = lex.name
                    /\ lex.kind = "value" /\ c \notin {"CR", "LF"} => Lex(c) = More
                    /\ c = "LF" => Fresh(Lex(c), "line")
                    /\ c = "CR" => Lex(c).kind = "eol"
  OBVIOUS
<1>1. Lex(c) = LexField(c)
  BY DEF Lex
<1>2. /\ Tok("value", 1).kind = "value" /\ Tok("value", 1).len = 1
      /\ Tok("value", 1).name = lex.name
      /\ Fresh(Tok("line", 0), "line") /\ Tok("eol", 0).kind = "eol"
  BY DEF Tok, Fresh
<1> QED BY <1>1, <1>2 DEF LexField, NewLine

LEMMA LexSocket ==
    ASSUME NEW c, lex \in LexType
    PROVE  /\ lex.kind = "xml" /\ c \notin XmlEnds => Lex(c) = More
           /\ lex.kind = "json" /\ c # "SP" => Lex(c) = More
BY DEF Lex, XmlEnds

\* An edge keeps the offsets at the tokens: by the token it is in.
LEMMA LinkStart ==
    ASSUME NEW r, NEW c, Drives(r, c), at \in AtType, lex \in LexType,
           LinkAt(r[1], lex, at), r[1] = 1, FromStart(r)
    PROVE  LinkEdge(r, c)
<1> DEFINE a == AtByte(r)
           p == Advance(a)
           lx == Lex(c)
<1>1. r[4] = <<"mark">>
  BY DEF FromStart, By, ButBy
<1>2. Range(r[4]) = {"mark"}
  BY <1>1, ActionSets
<1>3. Right(r)
  BY <1>2, RightNone
<1>4. p.mark = 1
  BY <1>2, AtEffect
<1>5. lex.kind = "start"
  BY DEF LinkAt
<1>6. \/ r[3] \in InMethod /\ c \notin {"<", "@"}
      \/ r[3] \in InXml /\ c = "<"
      \/ r[3] \in InJson /\ c = "@"
  BY DEF Drives, FromStart, By, ButBy, MoreDelims
<1> HIDE DEF p, lx
<1>7. LinkAt(r[3], lx, p)
  BY <1>4, <1>5, <1>6, LexStart, LinkMethod, LinkXml, LinkJson DEF Marked, lx
<1> QED BY <1>3, <1>7 DEF LinkEdge, p, lx

LEMMA FarAbove == \A n \in 0 .. MaxLen : n >= 1 => Far(n) >= 1
BY SessionAssumption DEF Far, Stale

LEMMA LinkFromMethod ==
    ASSUME NEW r, NEW c, Drives(r, c), at \in AtType, lex \in LexType,
           LinkAt(r[1], lex, at), r[1] \in InMethod, FromMethod(r)
    PROVE  LinkEdge(r, c)
<1>1. lex.kind = "method" /\ at.mark = lex.len
  BY DEF LinkAt, Marked, Fresh, Named
<1>2. CASE /\ r[3] = 3 /\ c = "SP"
           /\ r[4] = <<"request_method">>
  <2>1. Range(r[4]) = {"request_method"}
    BY <1>2, ActionSets
  <2>2. AtByte(r).mark = at.mark
    BY <1>1, <2>1, AtEffect
  <2>3. Right(r)
    BY <1>1, <2>1, <2>2, RightMark, KindsOf
  <2>4. Fresh(Lex(c), "target")
    BY <1>1, <1>2, LexMethod
  <2>5. LinkAt(r[3], Lex(c), Advance(AtByte(r)))
    BY <1>1, <1>2, <2>2, <2>4, LinkNoTarget DEF Marked, Fresh, Named
  <2> QED BY <2>3, <2>5 DEF LinkEdge
<1>3. CASE /\ r[3] \in InMethod /\ c # "SP"
           /\ r[4] = <<>>
  <2>1. Range(r[4]) = {}
    BY <1>3, ActionSets
  <2>2. Advance(AtByte(r)).mark = Far(at.mark)
    BY <1>1, <2>1, AtEffect
  <2>3. Right(r)
    BY <1>1, <2>1, <2>2, RightNone
  <2>4. Lex(c).kind = "method" /\ Lex(c).len = Far(lex.len)
    BY <1>1, <1>3, LexMethod, MoreIs
  <2>5. LinkAt(r[3], Lex(c), Advance(AtByte(r)))
    BY <1>1, <1>3, <2>2, <2>4, LinkMethod DEF Marked, Fresh, Named
  <2> QED BY <2>3, <2>5 DEF LinkEdge
<1> QED BY <1>2, <1>3
        DEF Drives, By, ButBy, MoreDelims, FromMethod

LEMMA LinkFromNoTarget ==
    ASSUME NEW r, NEW c, Drives(r, c), at \in AtType, lex \in LexType,
           LinkAt(r[1], lex, at), r[1] = 3, FromNoTarget(r)
    PROVE  LinkEdge(r, c)
<1>1. lex.kind = "target" /\ lex.len = 0
  BY DEF LinkAt, Marked, Fresh, Named
<1>2. CASE /\ r[3] = 4 /\ c = "SP"
           /\ r[4] = <<"mark", "request_path", "request_uri">>
  <2>1. Range(r[4]) = {"mark", "request_path", "request_uri"}
    BY <1>2, ActionSets
  <2>2. AtByte(r).mark = 0
    BY <1>1, <2>1, AtEffect
  <2>3. Right(r)
    BY <1>1, <2>1, <2>2, RightMark, KindsOf
  <2>4. Fresh(Lex(c), "version")
    BY <1>1, <1>2, LexInTarget
  <2>5. LinkAt(r[3], Lex(c), Advance(AtByte(r)))
    BY <1>1, <1>2, <2>2, <2>4, LinkNoVersion DEF Marked, Fresh, Named
  <2> QED BY <2>3, <2>5 DEF LinkEdge
<1>3. CASE /\ r[3] = 20 /\ c = "#"
           /\ r[4] = <<"mark", "request_path", "request_uri">>
  <2>1. Range(r[4]) = {"mark", "request_path", "request_uri"}
    BY <1>3, ActionSets
  <2>2. AtByte(r).mark = 0
    BY <1>1, <2>1, AtEffect
  <2>3. Right(r)
    BY <1>1, <2>1, <2>2, RightMark, KindsOf
  <2>4. Fresh(Lex(c), "fragment")
    BY <1>1, <1>3, LexInTarget
  <2>5. LinkAt(r[3], Lex(c), Advance(AtByte(r)))
    BY <1>1, <1>3, <2>2, <2>4, LinkNoFragment DEF Marked, Fresh, Named
  <2> QED BY <2>3, <2>5 DEF LinkEdge
<1>4. CASE /\ r[3] = 29 /\ c = "?"
           /\ r[4] = <<"mark", "request_path">>
  <2>1. Range(r[4]) = {"mark", "request_path"}
    BY <1>4, ActionSets
  <2>2. AtByte(r).mark = 0
    BY <1>1, <2>1, AtEffect
  <2>3. Right(r)
    BY <1>1, <2>1, <2>2, RightMark, KindsOf
  <2>4. Fresh(Lex(c), "query")
    BY <1>1, <1>4, LexInTarget
  <2>5. LinkAt(r[3], Lex(c), Advance(AtByte(r)))
    BY <1>1, <1>4, <2>2, <2>4, LinkNoQuery DEF Marked, Fresh, Named
  <2> QED BY <2>3, <2>5 DEF LinkEdge
<1>5. CASE /\ r[3] \in InPath /\ c = "/"
           /\ r[4] = <<"mark">>
  <2>1. Range(r[4]) = {"mark"}
    BY <1>5, ActionSets
  <2>2. Advance(AtByte(r)).mark = 1
    BY <1>1, <2>1, AtEffect
  <2>3. Right(r)
    BY <1>1, <2>1, <2>2, RightNone
  <2>4. Lex(c).kind = "path" /\ Lex(c).len = 1
    BY <1>1, <1>5, LexInTarget, FarType
  <2>5. LinkAt(r[3], Lex(c), Advance(AtByte(r)))
    BY <1>1, <1>5, <2>2, <2>4, LinkPath DEF Marked, Fresh, Named
  <2> QED BY <2>3, <2>5 DEF LinkEdge
<1>6. CASE /\ r[3] \in InTarget /\ c \notin {"SP", "#", "?", "/", ":"}
           /\ r[4] = <<"mark">>
  <2>1. Range(r[4]) = {"mark"}
    BY <1>6, ActionSets
  <2>2. Advance(AtByte(r)).mark = 1
    BY <1>1, <2>1, AtEffect
  <2>3. Right(r)
    BY <1>1, <2>1, <2>2, RightNone
  <2>4. Lex(c).kind = "target" /\ Lex(c).len = 1
    BY <1>1, <1>6, LexInTarget, MoreIs, FarType
  <2>5. LinkAt(r[3], Lex(c), Advance(AtByte(r)))
    BY <1>1, <1>6, <2>2, <2>4, LinkTarget DEF Marked, Fresh, Named
  <2> QED BY <2>3, <2>5 DEF LinkEdge
<1> QED BY <1>2, <1>3, <1>4, <1>5, <1>6
        DEF Drives, By, ButBy, MoreDelims, FromNoTarget, EmptyPathExit

LEMMA LinkFromTarget ==
    ASSUME NEW r, NEW c, Drives(r, c), at \in AtType, lex \in LexType,
           LinkAt(r[1], lex, at), r[1] \in InTarget, FromTarget(r)
    PROVE  LinkEdge(r, c)
<1>1. lex.kind = "target" /\ at.mark = lex.len
  BY DEF LinkAt, Marked, Fresh, Named
<1>2. CASE /\ r[3] = 4 /\ c = "SP"
           /\ r[4] = <<"request_path", "request_uri">>
  <2>1. Range(r[4]) = {"request_path", "request_uri"}
    BY <1>2, ActionSets
  <2>2. AtByte(r).mark = at.mark
    BY <1>1, <2>1, AtEffect
  <2>3. Right(r)
    BY <1>1, <2>1, <2>2, RightMark, KindsOf
  <2>4. Fresh(Lex(c), "version")
    BY <1>1, <1>2, LexInTarget
  <2>5. LinkAt(r[3], Lex(c), Advance(AtByte(r)))
    BY <1>1, <1>2, <2>2, <2>4, LinkNoVersion DEF Marked, Fresh, Named
  <2> QED BY <2>3, <2>5 DEF LinkEdge
<1>3. CASE /\ r[3] = 20 /\ c = "#"
           /\ r[4] = <<"request_path", "request_uri">>
  <2>1. Range(r[4]) = {"request_path", "request_uri"}
    BY <1>3, ActionSets
  <2>2. AtByte(r).mark = at.mark
    BY <1>1, <2>1, AtEffect
  <2>3. Right(r)
    BY <1>1, <2>1, <2>2, RightMark, KindsOf
  <2>4. Fresh(Lex(c), "fragment")
    BY <1>1, <1>3, LexInTarget
  <2>5. LinkAt(r[3], Lex(c), Advance(AtByte(r)))
    BY <1>1, <1>3, <2>2, <2>4, LinkNoFragment DEF Marked, Fresh, Named
  <2> QED BY <2>3, <2>5 DEF LinkEdge
<1>4. CASE /\ r[3] = 29 /\ c = "?"
           /\ r[4] = <<"request_path">>
  <2>1. Range(r[4]) = {"request_path"}
    BY <1>4, ActionSets
  <2>2. AtByte(r).mark = at.mark
    BY <1>1, <2>1, AtEffect
  <2>3. Right(r)
    BY <1>1, <2>1, <2>2, RightMark, KindsOf
  <2>4. Fresh(Lex(c), "query")
    BY <1>1, <1>4, LexInTarget
  <2>5. LinkAt(r[3], Lex(c), Advance(AtByte(r)))
    BY <1>1, <1>4, <2>2, <2>4, LinkNoQuery DEF Marked, Fresh, Named
  <2> QED BY <2>3, <2>5 DEF LinkEdge
<1>5. CASE /\ r[3] \in InPath /\ c = "/"
           /\ r[4] = <<>>
  <2>1. Range(r[4]) = {}
    BY <1>5, ActionSets
  <2>2. Advance(AtByte(r)).mark = Far(at.mark)
    BY <1>1, <2>1, AtEffect
  <2>3. Right(r)
    BY <1>1, <2>1, <2>2, RightNone
  <2>4. Lex(c).kind = "path" /\ Lex(c).len = Far(lex.len)
    BY <1>1, <1>5, LexInTarget
  <2>5. LinkAt(r[3], Lex(c), Advance(AtByte(r)))
    BY <1>1, <1>5, <2>2, <2>4, LinkPath DEF Marked, Fresh, Named
  <2> QED BY <2>3, <2>5 DEF LinkEdge
<1>6. CASE /\ r[3] = 174 /\ c = ":"
           /\ r[4] = <<>>
  <2>1. Range(r[4]) = {}
    BY <1>6, ActionSets
  <2>2. Right(r)
    BY <1>1, <2>1, RightNone
  <2>3. Fresh(Lex(c), "path")
    BY <1>1, <1>6, LexInTarget
  <2>4. LinkAt(r[3], Lex(c), Advance(AtByte(r)))
    BY <1>1, <1>6, <2>3, LinkNoPath DEF Marked, Fresh, Named
  <2> QED BY <2>2, <2>4 DEF LinkEdge
<1>7. CASE /\ r[3] \in InTarget /\ c \notin {"SP", "#", "?", "/", ":"}
           /\ r[4] = <<>>
  <2>1. Range(r[4]) = {}
    BY <1>7, ActionSets
  <2>2. Advance(AtByte(r)).mark = Far(at.mark)
    BY <1>1, <2>1, AtEffect
  <2>3. Right(r)
    BY <1>1, <2>1, <2>2, RightNone
  <2>4. Lex(c).kind = "target" /\ Lex(c).len = Far(lex.len)
    BY <1>1, <1>7, LexInTarget, MoreIs
  <2>5. LinkAt(r[3], Lex(c), Advance(AtByte(r)))
    BY <1>1, <1>7, <2>2, <2>4, LinkTarget DEF Marked, Fresh, Named
  <2> QED BY <2>3, <2>5 DEF LinkEdge
<1> QED BY <1>2, <1>3, <1>4, <1>5, <1>6, <1>7
        DEF Drives, By, ButBy, MoreDelims, FromTarget, PathExit

LEMMA LinkFromScheme ==
    ASSUME NEW r, NEW c, Drives(r, c), at \in AtType, lex \in LexType,
           LinkAt(r[1], lex, at), r[1] = 174, FromScheme(r)
    PROVE  LinkEdge(r, c)
<1>1. lex.kind = "path" /\ lex.len = 0
  BY DEF LinkAt, Marked, Fresh, Named
<1>2. CASE /\ r[3] = 4 /\ c = "SP"
           /\ r[4] = <<"mark", "request_path", "request_uri">>
  <2>1. Range(r[4]) = {"mark", "request_path", "request_uri"}
    BY <1>2, ActionSets
  <2>2. AtByte(r).mark = 0
    BY <1>1, <2>1, AtEffect
  <2>3. Right(r)
    BY <1>1, <2>1, <2>2, RightMark, KindsOf
  <2>4. Fresh(Lex(c), "version")
    BY <1>1, <1>2, LexInTarget
  <2>5. LinkAt(r[3], Lex(c), Advance(AtByte(r)))
    BY <1>1, <1>2, <2>2, <2>4, LinkNoVersion DEF Marked, Fresh, Named
  <2> QED BY <2>3, <2>5 DEF LinkEdge
<1>3. CASE /\ r[3] = 20 /\ c = "#"
           /\ r[4] = <<"mark", "request_path", "request_uri">>
  <2>1. Range(r[4]) = {"mark", "request_path", "request_uri"}
    BY <1>3, ActionSets
  <2>2. AtByte(r).mark = 0
    BY <1>1, <2>1, AtEffect
  <2>3. Right(r)
    BY <1>1, <2>1, <2>2, RightMark, KindsOf
  <2>4. Fresh(Lex(c), "fragment")
    BY <1>1, <1>3, LexInTarget
  <2>5. LinkAt(r[3], Lex(c), Advance(AtByte(r)))
    BY <1>1, <1>3, <2>2, <2>4, LinkNoFragment DEF Marked, Fresh, Named
  <2> QED BY <2>3, <2>5 DEF LinkEdge
<1>4. CASE /\ r[3] = 29 /\ c = "?"
           /\ r[4] = <<"mark", "request_path">>
  <2>1. Range(r[4]) = {"mark", "request_path"}
    BY <1>4, ActionSets
  <2>2. AtByte(r).mark = 0
    BY <1>1, <2>1, AtEffect
  <2>3. Right(r)
    BY <1>1, <2>1, <2>2, RightMark, KindsOf
  <2>4. Fresh(Lex(c), "query")
    BY <1>1, <1>4, LexInTarget
  <2>5. LinkAt(r[3], Lex(c), Advance(AtByte(r)))
    BY <1>1, <1>4, <2>2, <2>4, LinkNoQuery DEF Marked, Fresh, Named
  <2> QED BY <2>3, <2>5 DEF LinkEdge
<1>5. CASE /\ r[3] \in InPath /\ c \notin {"SP", "#", "?"}
           /\ r[4] = <<"mark">>
  <2>1. Range(r[4]) = {"mark"}
    BY <1>5, ActionSets
  <2>2. Advance(AtByte(r)).mark = 1
    BY <1>1, <2>1, AtEffect
  <2>3. Right(r)
    BY <1>1, <2>1, <2>2, RightNone
  <2>4. Lex(c).kind = "path" /\ Lex(c).len = 1
    BY <1>1, <1>5, LexInTarget, MoreIs, FarType
  <2>5. LinkAt(r[3], Lex(c), Advance(AtByte(r)))
    BY <1>1, <1>5, <2>2, <2>4, LinkPath DEF Marked, Fresh, Named
  <2> QED BY <2>3, <2>5 DEF LinkEdge
<1> QED BY <1>2, <1>3, <1>4, <1>5
        DEF Drives, By, ButBy, MoreDelims, FromScheme, EmptyPathExit

LEMMA LinkFromPath ==
    ASSUME NEW r, NEW c, Drives(r, c), at \in AtType, lex \in LexType,
           LinkAt(r[1], lex, at), r[1] \in InPath, FromPath(r)
    PROVE  LinkEdge(r, c)
<1>1. lex.kind = "path" /\ at.mark = lex.len
  BY DEF LinkAt, Marked, Fresh, Named
<1>2. CASE /\ r[3] = 4 /\ c = "SP"
           /\ r[4] = <<"request_path", "request_uri">>
  <2>1. Range(r[4]) = {"request_path", "request_uri"}
    BY <1>2, ActionSets
  <2>2. AtByte(r).mark = at.mark
    BY <1>1, <2>1, AtEffect
  <2>3. Right(r)
    BY <1>1, <2>1, <2>2, RightMark, KindsOf
  <2>4. Fresh(Lex(c), "version")
    BY <1>1, <1>2, LexInTarget
  <2>5. LinkAt(r[3], Lex(c), Advance(AtByte(r)))
    BY <1>1, <1>2, <2>2, <2>4, LinkNoVersion DEF Marked, Fresh, Named
  <2> QED BY <2>3, <2>5 DEF LinkEdge
<1>3. CASE /\ r[3] = 20 /\ c = "#"
           /\ r[4] = <<"request_path", "request_uri">>
  <2>1. Range(r[4]) = {"request_path", "request_uri"}
    BY <1>3, ActionSets
  <2>2. AtByte(r).mark = at.mark
    BY <1>1, <2>1, AtEffect
  <2>3. Right(r)
    BY <1>1, <2>1, <2>2, RightMark, KindsOf
  <2>4. Fresh(Lex(c), "fragment")
    BY <1>1, <1>3, LexInTarget
  <2>5. LinkAt(r[3], Lex(c), Advance(AtByte(r)))
    BY <1>1, <1>3, <2>2, <2>4, LinkNoFragment DEF Marked, Fresh, Named
  <2> QED BY <2>3, <2>5 DEF LinkEdge
<1>4. CASE /\ r[3] = 29 /\ c = "?"
           /\ r[4] = <<"request_path">>
  <2>1. Range(r[4]) = {"request_path"}
    BY <1>4, ActionSets
  <2>2. AtByte(r).mark = at.mark
    BY <1>1, <2>1, AtEffect
  <2>3. Right(r)
    BY <1>1, <2>1, <2>2, RightMark, KindsOf
  <2>4. Fresh(Lex(c), "query")
    BY <1>1, <1>4, LexInTarget
  <2>5. LinkAt(r[3], Lex(c), Advance(AtByte(r)))
    BY <1>1, <1>4, <2>2, <2>4, LinkNoQuery DEF Marked, Fresh, Named
  <2> QED BY <2>3, <2>5 DEF LinkEdge
<1>5. CASE /\ r[3] \in InPath /\ c \notin {"SP", "#", "?"}
           /\ r[4] = <<>>
  <2>1. Range(r[4]) = {}
    BY <1>5, ActionSets
  <2>2. Advance(AtByte(r)).mark = Far(at.mark)
    BY <1>1, <2>1, AtEffect
  <2>3. Right(r)
    BY <1>1, <2>1, <2>2, RightNone
  <2>4. Lex(c).kind = "path" /\ Lex(c).len = Far(lex.len)
    BY <1>1, <1>5, LexInTarget, MoreIs
  <2>5. LinkAt(r[3], Lex(c), Advance(AtByte(r)))
    BY <1>1, <1>5, <2>2, <2>4, LinkPath DEF Marked, Fresh, Named
  <2> QED BY <2>3, <2>5 DEF LinkEdge
<1> QED BY <1>2, <1>3, <1>4, <1>5
        DEF Drives, By, ButBy, MoreDelims, FromPath, PathExit

LEMMA LinkFromNoQuery ==
    ASSUME NEW r, NEW c, Drives(r, c), at \in AtType, lex \in LexType,
           LinkAt(r[1], lex, at), r[1] = 29, FromNoQuery(r)
    PROVE  LinkEdge(r, c)
<1>1. lex.kind = "query" /\ lex.len = 0
  BY DEF LinkAt, Marked, Fresh, Named
<1>2. CASE /\ r[3] = 4 /\ c = "SP"
           /\ r[4] = <<"start_query", "query_string", "request_uri">>
  <2>1. Range(r[4]) = {"start_query", "query_string", "request_uri"}
    BY <1>2, ActionSets
  <2>2. AtByte(r).query_start = 0
    BY <1>1, <2>1, AtEffect
  <2>3. Right(r)
    BY <1>1, <2>1, <2>2, RightQuery
  <2>4. Fresh(Lex(c), "version")
    BY <1>1, <1>2, LexInTarget
  <2>5. LinkAt(r[3], Lex(c), Advance(AtByte(r)))
    BY <1>1, <1>2, <2>2, <2>4, LinkNoVersion DEF Marked, Fresh, Named
  <2> QED BY <2>3, <2>5 DEF LinkEdge
<1>3. CASE /\ r[3] = 20 /\ c = "#"
           /\ r[4] = <<"start_query", "query_string", "request_uri">>
  <2>1. Range(r[4]) = {"start_query", "query_string", "request_uri"}
    BY <1>3, ActionSets
  <2>2. AtByte(r).query_start = 0
    BY <1>1, <2>1, AtEffect
  <2>3. Right(r)
    BY <1>1, <2>1, <2>2, RightQuery
  <2>4. Fresh(Lex(c), "fragment")
    BY <1>1, <1>3, LexInTarget
  <2>5. LinkAt(r[3], Lex(c), Advance(AtByte(r)))
    BY <1>1, <1>3, <2>2, <2>4, LinkNoFragment DEF Marked, Fresh, Named
  <2> QED BY <2>3, <2>5 DEF LinkEdge
<1>4. CASE /\ r[3] \in InQuery /\ c \notin {"SP", "#"}
           /\ r[4] = <<"start_query">>
  <2>1. Range(r[4]) = {"start_query"}
    BY <1>4, ActionSets
  <2>2. Advance(AtByte(r)).query_start = 1
    BY <1>1, <2>1, AtEffect
  <2>3. Right(r)
    BY <1>1, <2>1, <2>2, RightNone
  <2>4. Lex(c).kind = "query" /\ Lex(c).len = 1
    BY <1>1, <1>4, LexInTarget, MoreIs, FarType
  <2>5. LinkAt(r[3], Lex(c), Advance(AtByte(r)))
    BY <1>1, <1>4, <2>2, <2>4, LinkQuery DEF Marked, Fresh, Named
  <2> QED BY <2>3, <2>5 DEF LinkEdge
<1> QED BY <1>2, <1>3, <1>4
        DEF Drives, By, ButBy, MoreDelims, FromNoQuery

LEMMA LinkFromQuery ==
    ASSUME NEW r, NEW c, Drives(r, c), at \in AtType, lex \in LexType,
           LinkAt(r[1], lex, at), r[1] \in InQuery, FromQuery(r)
    PROVE  LinkEdge(r, c)
<1>1. lex.kind = "query" /\ at.query_start = lex.len
  BY DEF LinkAt, Marked, Fresh, Named
<1>2. CASE /\ r[3] = 4 /\ c = "SP"
           /\ r[4] = <<"query_string", "request_uri">>
  <2>1. Range(r[4]) = {"query_string", "request_uri"}
    BY <1>2, ActionSets
  <2>2. AtByte(r).query_start = at.query_start
    BY <1>1, <2>1, AtEffect
  <2>3. Right(r)
    BY <1>1, <2>1, <2>2, RightQuery
  <2>4. Fresh(Lex(c), "version")
    BY <1>1, <1>2, LexInTarget
  <2>5. LinkAt(r[3], Lex(c), Advance(AtByte(r)))
    BY <1>1, <1>2, <2>2, <2>4, LinkNoVersion DEF Marked, Fresh, Named
  <2> QED BY <2>3, <2>5 DEF LinkEdge
<1>3. CASE /\ r[3] = 20 /\ c = "#"
           /\ r[4] = <<"query_string", "request_uri">>
  <2>1. Range(r[4]) = {"query_string", "request_uri"}
    BY <1>3, ActionSets
  <2>2. AtByte(r).query_start = at.query_start
    BY <1>1, <2>1, AtEffect
  <2>3. Right(r)
    BY <1>1, <2>1, <2>2, RightQuery
  <2>4. Fresh(Lex(c), "fragment")
    BY <1>1, <1>3, LexInTarget
  <2>5. LinkAt(r[3], Lex(c), Advance(AtByte(r)))
    BY <1>1, <1>3, <2>2, <2>4, LinkNoFragment DEF Marked, Fresh, Named
  <2> QED BY <2>3, <2>5 DEF LinkEdge
<1>4. CASE /\ r[3] \in InQuery /\ c \notin {"SP", "#"}
           /\ r[4] = <<>>
  <2>1. Range(r[4]) = {}
    BY <1>4, ActionSets
  <2>2. Advance(AtByte(r)).query_start = Far(at.query_start)
    BY <1>1, <2>1, AtEffect
  <2>3. Right(r)
    BY <1>1, <2>1, <2>2, RightNone
  <2>4. Lex(c).kind = "query" /\ Lex(c).len = Far(lex.len)
    BY <1>1, <1>4, LexInTarget, MoreIs
  <2>5. LinkAt(r[3], Lex(c), Advance(AtByte(r)))
    BY <1>1, <1>4, <2>2, <2>4, LinkQuery DEF Marked, Fresh, Named
  <2> QED BY <2>3, <2>5 DEF LinkEdge
<1> QED BY <1>2, <1>3, <1>4
        DEF Drives, By, ButBy, MoreDelims, FromQuery

LEMMA LinkFromNoFragment ==
    ASSUME NEW r, NEW c, Drives(r, c), at \in AtType, lex \in LexType,
           LinkAt(r[1], lex, at), r[1] = 20, FromNoFragment(r)
    PROVE  LinkEdge(r, c)
<1>1. lex.kind = "fragment" /\ lex.len = 0
  BY DEF LinkAt, Marked, Fresh, Named
<1>2. CASE /\ r[3] = 4 /\ c = "SP"
           /\ r[4] = <<"mark", "fragment">>
  <2>1. Range(r[4]) = {"mark", "fragment"}
    BY <1>2, ActionSets
  <2>2. AtByte(r).mark = 0
    BY <1>1, <2>1, AtEffect
  <2>3. Right(r)
    BY <1>1, <2>1, <2>2, RightMark, KindsOf
  <2>4. Fresh(Lex(c), "version")
    BY <1>1, <1>2, LexInTarget
  <2>5. LinkAt(r[3], Lex(c), Advance(AtByte(r)))
    BY <1>1, <1>2, <2>2, <2>4, LinkNoVersion DEF Marked, Fresh, Named
  <2> QED BY <2>3, <2>5 DEF LinkEdge
<1>3. CASE /\ r[3] \in InFragment /\ c # "SP"
           /\ r[4] = <<"mark">>
  <2>1. Range(r[4]) = {"mark"}
    BY <1>3, ActionSets
  <2>2. Advance(AtByte(r)).mark = 1
    BY <1>1, <2>1, AtEffect
  <2>3. Right(r)
    BY <1>1, <2>1, <2>2, RightNone
  <2>4. Lex(c).kind = "fragment" /\ Lex(c).len = 1
    BY <1>1, <1>3, LexInTarget, MoreIs, FarType
  <2>5. LinkAt(r[3], Lex(c), Advance(AtByte(r)))
    BY <1>1, <1>3, <2>2, <2>4, LinkFragment DEF Marked, Fresh, Named
  <2> QED BY <2>3, <2>5 DEF LinkEdge
<1> QED BY <1>2, <1>3
        DEF Drives, By, ButBy, MoreDelims, FromNoFragment

LEMMA LinkFromFragment ==
    ASSUME NEW r, NEW c, Drives(r, c), at \in AtType, lex \in LexType,
           LinkAt(r[1], lex, at), r[1] \in InFragment, FromFragment(r)
    PROVE  LinkEdge(r, c)
<1>1. lex.kind = "fragment" /\ at.mark = lex.len
  BY DEF LinkAt, Marked, Fresh, Named
<1>2. CASE /\ r[3] = 4 /\ c = "SP"
           /\ r[4] = <<"fragment">>
  <2>1. Range(r[4]) = {"fragment"}
    BY <1>2, ActionSets
  <2>2. AtByte(r).mark = at.mark
    BY <1>1, <2>1, AtEffect
  <2>3. Right(r)
    BY <1>1, <2>1, <2>2, RightMark, KindsOf
  <2>4. Fresh(Lex(c), "version")
    BY <1>1, <1>2, LexInTarget
  <2>5. LinkAt(r[3], Lex(c), Advance(AtByte(r)))
    BY <1>1, <1>2, <2>2, <2>4, LinkNoVersion DEF Marked, Fresh, Named
  <2> QED BY <2>3, <2>5 DEF LinkEdge
<1>3. CASE /\ r[3] \in InFragment /\ c # "SP"
           /\ r[4] = <<>>
  <2>1. Range(r[4]) = {}
    BY <1>3, ActionSets
  <2>2. Advance(AtByte(r)).mark = Far(at.mark)
    BY <1>1, <2>1, AtEffect
  <2>3. Right(r)
    BY <1>1, <2>1, <2>2, RightNone
  <2>4. Lex(c).kind = "fragment" /\ Lex(c).len = Far(lex.len)
    BY <1>1, <1>3, LexInTarget, MoreIs
  <2>5. LinkAt(r[3], Lex(c), Advance(AtByte(r)))
    BY <1>1, <1>3, <2>2, <2>4, LinkFragment DEF Marked, Fresh, Named
  <2> QED BY <2>3, <2>5 DEF LinkEdge
<1> QED BY <1>2, <1>3
        DEF Drives, By, ButBy, MoreDelims, FromFragment

LEMMA LinkFromNoVersion ==
    ASSUME NEW r, NEW c, Drives(r, c), at \in AtType, lex \in LexType,
           LinkAt(r[1], lex, at), r[1] = 4, FromNoVersion(r)
    PROVE  LinkEdge(r, c)
<1>1. lex.kind = "version" /\ lex.len = 0
  BY DEF LinkAt, Marked, Fresh, Named
<1>2. CASE /\ r[3] \in InVersion /\ c \notin {"CR", "LF"}
           /\ r[4] = <<"mark">>
  <2>1. Range(r[4]) = {"mark"}
    BY <1>2, ActionSets
  <2>2. Advance(AtByte(r)).mark = 1
    BY <1>1, <2>1, AtEffect
  <2>3. Right(r)
    BY <1>1, <2>1, <2>2, RightNone
  <2>4. Lex(c).kind = "version" /\ Lex(c).len = 1
    BY <1>1, <1>2, LexVersion, MoreIs, FarType
  <2>5. LinkAt(r[3], Lex(c), Advance(AtByte(r)))
    BY <1>1, <1>2, <2>2, <2>4, LinkVersion DEF Marked, Fresh, Named
  <2> QED BY <2>3, <2>5 DEF LinkEdge
<1> QED BY <1>2
        DEF Drives, By, ButBy, MoreDelims, FromNoVersion

LEMMA LinkFromVersion ==
    ASSUME NEW r, NEW c, Drives(r, c), at \in AtType, lex \in LexType,
           LinkAt(r[1], lex, at), r[1] \in InVersion, FromVersion(r)
    PROVE  LinkEdge(r, c)
<1>1. lex.kind = "version" /\ at.mark = lex.len
  BY DEF LinkAt, Marked, Fresh, Named
<1>2. CASE /\ r[3] = 13 /\ c = "LF"
           /\ r[4] = <<"http_version">>
  <2>1. Range(r[4]) = {"http_version"}
    BY <1>2, ActionSets
  <2>2. AtByte(r).mark = at.mark
    BY <1>1, <2>1, AtEffect
  <2>3. Right(r)
    BY <1>1, <2>1, <2>2, RightMark, KindsOf
  <2>4. Fresh(Lex(c), "line")
    BY <1>1, <1>2, LexVersion
  <2>5. LinkAt(r[3], Lex(c), Advance(AtByte(r)))
    BY <1>1, <1>2, <2>2, <2>4, LinkLine DEF Marked, Fresh, Named
  <2> QED BY <2>3, <2>5 DEF LinkEdge
<1>3. CASE /\ r[3] = 17 /\ c = "CR"
           /\ r[4] = <<"http_version">>
  <2>1. Range(r[4]) = {"http_version"}
    BY <1>3, ActionSets
  <2>2. AtByte(r).mark = at.mark
    BY <1>1, <2>1, AtEffect
  <2>3. Right(r)
    BY <1>1, <2>1, <2>2, RightMark, KindsOf
  <2>4. Lex(c).kind = "eol"
    BY <1>1, <1>3, LexVersion
  <2>5. LinkAt(r[3], Lex(c), Advance(AtByte(r)))
    BY <1>1, <1>3, <2>2, <2>4, LinkEol DEF Marked, Fresh, Named
  <2> QED BY <2>3, <2>5 DEF LinkEdge
<1>4. CASE /\ r[3] \in InVersion /\ c \notin {"CR", "LF"}
           /\ r[4] = <<>>
  <2>1. Range(r[4]) = {}
    BY <1>4, ActionSets
  <2>2. Advance(AtByte(r)).mark = Far(at.mark)
    BY <1>1, <2>1, AtEffect
  <2>3. Right(r)
    BY <1>1, <2>1, <2>2, RightNone
  <2>4. Lex(c).kind = "version" /\ Lex(c).len = Far(lex.len)
    BY <1>1, <1>4, LexVersion, MoreIs
  <2>5. LinkAt(r[3], Lex(c), Advance(AtByte(r)))
    BY <1>1, <1>4, <2>2, <2>4, LinkVersion DEF Marked, Fresh, Named
  <2> QED BY <2>3, <2>5 DEF LinkEdge
<1> QED BY <1>2, <1>3, <1>4
        DEF Drives, By, ButBy, MoreDelims, FromVersion

LEMMA LinkFromEol ==
    ASSUME NEW r, NEW c, Drives(r, c), at \in AtType, lex \in LexType,
           LinkAt(r[1], lex, at), r[1] = 17, FromEol(r)
    PROVE  LinkEdge(r, c)
<1>1. lex.kind = "eol"
  BY DEF LinkAt, Marked, Fresh, Named
<1>2. CASE /\ r[3] = 13
           /\ r[4] = <<>>
  <2>1. Range(r[4]) = {}
    BY <1>2, ActionSets
  <2>2. Right(r)
    BY <1>1, <2>1, RightNone
  <2>3. Fresh(Lex(c), "line")
    BY <1>1, <1>2, LexLine
  <2>4. LinkAt(r[3], Lex(c), Advance(AtByte(r)))
    BY <1>1, <1>2, <2>3, LinkLine DEF Marked, Fresh, Named
  <2> QED BY <2>2, <2>4 DEF LinkEdge
<1> QED BY <1>2
        DEF Drives, By, ButBy, MoreDelims, FromEol

LEMMA LinkFromLine ==
    ASSUME NEW r, NEW c, Drives(r, c), at \in AtType, lex \in LexType,
           LinkAt(r[1], lex, at), r[1] = 13, FromLine(r)
    PROVE  LinkEdge(r, c)
<1>1. lex.kind = "line"
  BY DEF LinkAt, Marked, Fresh, Named
<1>2. CASE /\ r[3] = 348
           /\ r[4] = <<"start_field", "done">>
  <2>1. Range(r[4]) = {"start_field", "done"}
    BY <1>2, ActionSets
  <2>2. Right(r)
    BY <1>1, <2>1, RightNone
  <2>3. LinkAt(r[3], Lex(c), Advance(AtByte(r)))
    BY <1>1, <1>2, LinkRest DEF Marked, Fresh, Named
  <2> QED BY <2>2, <2>3 DEF LinkEdge
<1>3. CASE /\ r[3] \in InName /\ c # "LF"
           /\ r[4] = <<"start_field">>
  <2>1. Range(r[4]) = {"start_field"}
    BY <1>3, ActionSets
  <2>2. Advance(AtByte(r)).field_start = 1
    BY <1>1, <2>1, AtEffect
  <2>3. Right(r)
    BY <1>1, <2>1, <2>2, RightNone
  <2>4. Lex(c).kind = "name" /\ Lex(c).len = 1
    BY <1>1, <1>3, LexLine
  <2>5. LinkAt(r[3], Lex(c), Advance(AtByte(r)))
    BY <1>1, <1>3, <2>2, <2>4, LinkName DEF Marked, Fresh, Named
  <2> QED BY <2>3, <2>5 DEF LinkEdge
<1> QED BY <1>2, <1>3
        DEF Drives, By, ButBy, MoreDelims, FromLine

LEMMA LinkFromName ==
    ASSUME NEW r, NEW c, Drives(r, c), at \in AtType, lex \in LexType,
           LinkAt(r[1], lex, at), r[1] \in InName, FromName(r)
    PROVE  LinkEdge(r, c)
<1>1. /\ lex.kind = "name" /\ at.field_start = lex.len
      /\ lex.len >= 1 /\ lex.len \in 0 .. MaxLen
  BY DEF LinkAt, Marked, Fresh, Named, LexType
<1>2. CASE /\ r[3] = 15 /\ c = ":"
           /\ r[4] = <<"write_field">>
  <2>1. Range(r[4]) = {"write_field"}
    BY <1>2, ActionSets
  <2>2. Advance(AtByte(r)).field_len = at.field_start
    BY <1>1, <2>1, AtEffect
  <2>3. Right(r)
    BY <1>1, <2>1, <2>2, RightNone
  <2>4. Fresh(Lex(c), "blank") /\ Lex(c).name = lex.len
    BY <1>1, <1>2, LexLine
  <2>5. LinkAt(r[3], Lex(c), Advance(AtByte(r)))
    BY <1>1, <1>2, <2>2, <2>4, LinkBlank DEF Marked, Fresh, Named
  <2> QED BY <2>3, <2>5 DEF LinkEdge
<1>3. CASE /\ r[3] = 348
           /\ r[4] = <<"done">>
  <2>1. Range(r[4]) = {"done"}
    BY <1>3, ActionSets
  <2>2. Right(r)
    BY <1>1, <2>1, RightNone
  <2>3. LinkAt(r[3], Lex(c), Advance(AtByte(r)))
    BY <1>1, <1>3, LinkRest DEF Marked, Fresh, Named
  <2> QED BY <2>2, <2>3 DEF LinkEdge
<1>4. CASE /\ r[3] \in InName /\ c # ":"
           /\ r[4] = <<>>
  <2>1. Range(r[4]) = {}
    BY <1>4, ActionSets
  <2>2. Advance(AtByte(r)).field_start = Far(at.field_start)
    BY <1>1, <2>1, AtEffect
  <2>3. Right(r)
    BY <1>1, <2>1, <2>2, RightNone
  <2>4. Lex(c).kind = "name" /\ Lex(c).len = Far(lex.len) /\ Lex(c).len >= 1
    BY <1>1, <1>4, LexLine, MoreIs, FarAbove
  <2>5. LinkAt(r[3], Lex(c), Advance(AtByte(r)))
    BY <1>1, <1>4, <2>2, <2>4, LinkName DEF Marked, Fresh, Named
  <2> QED BY <2>3, <2>5 DEF LinkEdge
<1> QED BY <1>2, <1>3, <1>4
        DEF Drives, By, ButBy, MoreDelims, FromName

LEMMA LinkFromBlank ==
    ASSUME NEW r, NEW c, Drives(r, c), at \in AtType, lex \in LexType,
           LinkAt(r[1], lex, at), r[1] = 15, FromBlank(r)
    PROVE  LinkEdge(r, c)
<1>1. /\ lex.kind = "blank" /\ lex.len = 0 /\ at.field_len = lex.name
      /\ lex.name >= 1 /\ lex.name \in 0 .. MaxLen
  BY DEF LinkAt, Marked, Fresh, Named, LexType
<1>2. CASE /\ r[3] = 15 /\ c \in {"SP", "TAB"}
           /\ r[4] = <<"start_value">>
  <2>1. Range(r[4]) = {"start_value"}
    BY <1>2, ActionSets
  <2>2. Advance(AtByte(r)).field_len = at.field_len
    BY <1>1, <2>1, AtEffect
  <2>3. Right(r)
    BY <1>1, <2>1, <2>2, RightNone
  <2>4. Lex(c) = lex
    BY <1>1, <1>2, LexValue
  <2>5. LinkAt(r[3], Lex(c), Advance(AtByte(r)))
    BY <1>1, <1>2, <2>2, <2>4, LinkBlank DEF Marked, Fresh, Named
  <2> QED BY <2>3, <2>5 DEF LinkEdge
<1>3. CASE /\ r[3] = 13 /\ c = "LF"
           /\ r[4] = <<"start_value", "write_value">>
  <2>1. Range(r[4]) = {"start_value", "write_value"}
    BY <1>3, ActionSets
  <2>2. AtByte(r).mark = 0 /\ AtByte(r).field_len = at.field_len
    BY <1>1, <2>1, AtEffect
  <2>3. Right(r)
    BY <1>1, <2>1, <2>2, RightField
  <2>4. Fresh(Lex(c), "line")
    BY <1>1, <1>3, LexValue
  <2>5. LinkAt(r[3], Lex(c), Advance(AtByte(r)))
    BY <1>1, <1>3, <2>2, <2>4, LinkLine DEF Marked, Fresh, Named
  <2> QED BY <2>3, <2>5 DEF LinkEdge
<1>4. CASE /\ r[3] = 17 /\ c = "CR"
           /\ r[4] = <<"start_value", "write_value">>
  <2>1. Range(r[4]) = {"start_value", "write_value"}
    BY <1>4, ActionSets
  <2>2. AtByte(r).mark = 0 /\ AtByte(r).field_len = at.field_len
    BY <1>1, <2>1, AtEffect
  <2>3. Right(r)
    BY <1>1, <2>1, <2>2, RightField
  <2>4. Lex(c).kind = "eol"
    BY <1>1, <1>4, LexValue
  <2>5. LinkAt(r[3], Lex(c), Advance(AtByte(r)))
    BY <1>1, <1>4, <2>2, <2>4, LinkEol DEF Marked, Fresh, Named
  <2> QED BY <2>3, <2>5 DEF LinkEdge
<1>5. CASE /\ r[3] = 16 /\ c \notin {"SP", "TAB", "CR", "LF"}
           /\ r[4] = <<"start_value">>
  <2>1. Range(r[4]) = {"start_value"}
    BY <1>5, ActionSets
  <2>2. Advance(AtByte(r)).mark = 1 /\ Advance(AtByte(r)).field_len = at.field_len
    BY <1>1, <2>1, AtEffect
  <2>3. Right(r)
    BY <1>1, <2>1, <2>2, RightNone
  <2>4. Lex(c).kind = "value" /\ Lex(c).len = 1 /\ Lex(c).name = lex.name
    BY <1>1, <1>5, LexValue
  <2>5. LinkAt(r[3], Lex(c), Advance(AtByte(r)))
    BY <1>1, <1>5, <2>2, <2>4, LinkValue DEF Marked, Fresh, Named
  <2> QED BY <2>3, <2>5 DEF LinkEdge
<1> QED BY <1>2, <1>3, <1>4, <1>5
        DEF Drives, By, ButBy, MoreDelims, FromBlank

LEMMA LinkFromValue ==
    ASSUME NEW r, NEW c, Drives(r, c), at \in AtType, lex \in LexType,
           LinkAt(r[1], lex, at), r[1] = 16, FromValue(r)
    PROVE  LinkEdge(r, c)
<1>1. /\ lex.kind = "value" /\ at.mark = lex.len /\ at.field_len = lex.name
      /\ lex.name >= 1 /\ lex.name \in 0 .. MaxLen
  BY DEF LinkAt, Marked, Fresh, Named, LexType
<1>2. CASE /\ r[3] = 13 /\ c = "LF"
           /\ r[4] = <<"write_value">>
  <2>1. Range(r[4]) = {"write_value"}
    BY <1>2, ActionSets
  <2>2. AtByte(r).mark = at.mark /\ AtByte(r).field_len = at.field_len
    BY <1>1, <2>1, AtEffect
  <2>3. Right(r)
    BY <1>1, <2>1, <2>2, RightField
  <2>4. Fresh(Lex(c), "line")
    BY <1>1, <1>2, LexValue
  <2>5. LinkAt(r[3], Lex(c), Advance(AtByte(r)))
    BY <1>1, <1>2, <2>2, <2>4, LinkLine DEF Marked, Fresh, Named
  <2> QED BY <2>3, <2>5 DEF LinkEdge
<1>3. CASE /\ r[3] = 17 /\ c = "CR"
           /\ r[4] = <<"write_value">>
  <2>1. Range(r[4]) = {"write_value"}
    BY <1>3, ActionSets
  <2>2. AtByte(r).mark = at.mark /\ AtByte(r).field_len = at.field_len
    BY <1>1, <2>1, AtEffect
  <2>3. Right(r)
    BY <1>1, <2>1, <2>2, RightField
  <2>4. Lex(c).kind = "eol"
    BY <1>1, <1>3, LexValue
  <2>5. LinkAt(r[3], Lex(c), Advance(AtByte(r)))
    BY <1>1, <1>3, <2>2, <2>4, LinkEol DEF Marked, Fresh, Named
  <2> QED BY <2>3, <2>5 DEF LinkEdge
<1>4. CASE /\ r[3] = 16 /\ c \notin {"CR", "LF"}
           /\ r[4] = <<>>
  <2>1. Range(r[4]) = {}
    BY <1>4, ActionSets
  <2>2. Advance(AtByte(r)).mark = Far(at.mark) /\ Advance(AtByte(r)).field_len = at.field_len
    BY <1>1, <2>1, AtEffect
  <2>3. Right(r)
    BY <1>1, <2>1, <2>2, RightNone
  <2>4. Lex(c).kind = "value" /\ Lex(c).len = Far(lex.len) /\ Lex(c).name = lex.name
    BY <1>1, <1>4, LexValue, MoreIs
  <2>5. LinkAt(r[3], Lex(c), Advance(AtByte(r)))
    BY <1>1, <1>4, <2>2, <2>4, LinkValue DEF Marked, Fresh, Named
  <2> QED BY <2>3, <2>5 DEF LinkEdge
<1> QED BY <1>2, <1>3, <1>4
        DEF Drives, By, ButBy, MoreDelims, FromValue

LEMMA LinkFromXml ==
    ASSUME NEW r, NEW c, Drives(r, c), at \in AtType, lex \in LexType,
           LinkAt(r[1], lex, at), r[1] \in InXml, FromXml(r)
    PROVE  LinkEdge(r, c)
<1>1. lex.kind = "xml" /\ at.mark = lex.len
  BY DEF LinkAt, Marked, Fresh, Named
<1>2. CASE /\ r[3] \in InData
           /\ r[4] = <<"request_path">>
  <2>1. Range(r[4]) = {"request_path"}
    BY <1>2, ActionSets
  <2>2. AtByte(r).mark = at.mark
    BY <1>1, <2>1, AtEffect
  <2>3. Right(r)
    BY <1>1, <2>1, <2>2, RightMark, KindsOf
  <2>4. LinkAt(r[3], Lex(c), Advance(AtByte(r)))
    BY <1>1, <1>2, <2>2, LinkRest DEF Marked, Fresh, Named
  <2> QED BY <2>3, <2>4 DEF LinkEdge
<1>3. CASE /\ r[3] \in InXml /\ c \notin XmlEnds
           /\ r[4] = <<>>
  <2>1. Range(r[4]) = {}
    BY <1>3, ActionSets
  <2>2. Advance(AtByte(r)).mark = Far(at.mark)
    BY <1>1, <2>1, AtEffect
  <2>3. Right(r)
    BY <1>1, <2>1, <2>2, RightNone
  <2>4. Lex(c).kind = "xml" /\ Lex(c).len = Far(lex.len)
    BY <1>1, <1>3, LexSocket, MoreIs
  <2>5. LinkAt(r[3], Lex(c), Advance(AtByte(r)))
    BY <1>1, <1>3, <2>2, <2>4, LinkXml DEF Marked, Fresh, Named
  <2> QED BY <2>3, <2>5 DEF LinkEdge
<1> QED BY <1>2, <1>3
        DEF Drives, By, ButBy, MoreDelims, FromXml, XmlEnds

LEMMA LinkFromJson ==
    ASSUME NEW r, NEW c, Drives(r, c), at \in AtType, lex \in LexType,
           LinkAt(r[1], lex, at), r[1] \in InJson, FromJson(r)
    PROVE  LinkEdge(r, c)
<1>1. lex.kind = "json" /\ at.mark = lex.len
  BY DEF LinkAt, Marked, Fresh, Named
<1>2. CASE /\ r[3] \in InData
           /\ r[4] = <<"request_path">>
  <2>1. Range(r[4]) = {"request_path"}
    BY <1>2, ActionSets
  <2>2. AtByte(r).mark = at.mark
    BY <1>1, <2>1, AtEffect
  <2>3. Right(r)
    BY <1>1, <2>1, <2>2, RightMark, KindsOf
  <2>4. LinkAt(r[3], Lex(c), Advance(AtByte(r)))
    BY <1>1, <1>2, <2>2, LinkRest DEF Marked, Fresh, Named
  <2> QED BY <2>3, <2>4 DEF LinkEdge
<1>3. CASE /\ r[3] \in InJson /\ c # "SP"
           /\ r[4] = <<>>
  <2>1. Range(r[4]) = {}
    BY <1>3, ActionSets
  <2>2. Advance(AtByte(r)).mark = Far(at.mark)
    BY <1>1, <2>1, AtEffect
  <2>3. Right(r)
    BY <1>1, <2>1, <2>2, RightNone
  <2>4. Lex(c).kind = "json" /\ Lex(c).len = Far(lex.len)
    BY <1>1, <1>3, LexSocket, MoreIs
  <2>5. LinkAt(r[3], Lex(c), Advance(AtByte(r)))
    BY <1>1, <1>3, <2>2, <2>4, LinkJson DEF Marked, Fresh, Named
  <2> QED BY <2>3, <2>5 DEF LinkEdge
<1> QED BY <1>2, <1>3
        DEF Drives, By, ButBy, MoreDelims, FromJson

LEMMA LinkFromData ==
    ASSUME NEW r, NEW c, r[1] \in InData, FromData(r)
    PROVE  LinkEdge(r, c)
<1>1. r[4] \in {<<>>, <<"mark">>, <<"xml", "done">>, <<"json", "done">>}
  BY DEF FromData
<1>2. Range(r[4]) \in {{}, {"mark"}, {"xml", "done"}, {"json", "done"}}
  BY <1>1, ActionSets
<1>3. Right(r)
  BY <1>2, RightNone
<1>4. LinkAt(r[3], Lex(c), Advance(AtByte(r)))
  BY LinkRest DEF FromData
<1> QED BY <1>3, <1>4 DEF LinkEdge

LEMMA LinkEdges ==
    ASSUME NEW r, NEW c, Drives(r, c), at \in AtType, lex \in LexType,
           LinkAt(r[1], lex, at), EdgeOK(r), r[1] # 348
    PROVE  LinkEdge(r, c)
BY LinkStart, LinkFromMethod, LinkFromNoTarget, LinkFromTarget, LinkFromScheme,
   LinkFromPath, LinkFromNoQuery, LinkFromQuery, LinkFromNoFragment, LinkFromFragment,
   LinkFromNoVersion, LinkFromVersion, LinkFromEol, LinkFromLine, LinkFromName,
   LinkFromBlank, LinkFromValue, LinkFromXml, LinkFromJson, LinkFromData DEF EdgeOK

LEMMA LinkNew ==
    ASSUME NEW lx, NEW a, lx.kind = "start"
    PROVE  LinkAt(1, lx, a)
BY DEF LinkAt, InMethod, InTarget, InPath, InQuery, InFragment, InVersion, InName, InXml,
       InJson

WholeInv == LinkInv /\ SlicesWhole

LEMMA WholeByte ==
    ASSUME TypeOK, WholeInv, NEW c \in Byte, NEW n \in 0 .. MaxBody, NEW known \in BOOLEAN,
           ParseByte(c, n, known)
    PROVE  WholeInv'
<1>1. at \in AtType /\ lex \in LexType /\ cs \in State
  BY DEF TypeOK, AtType, LexType
<1>2. /\ pc = "parse" /\ pc' = "parse" /\ reads' = reads /\ reads = 1 /\ cs < 348
      /\ LinkAt(cs, lex, at) /\ contentLength = unread
  BY <1>1, ByteTaken DEF WholeInv, LinkInv
<1>3. CASE /\ cs' = 0 /\ reported' = {}
           /\ UNCHANGED <<at, m_error, contentLength, calls, lex, unread>>
  <2>1. LinkAt(cs', lex', at')
    BY <1>3, LinkRest
  <2> QED BY <1>2, <1>3, <2>1 DEF WholeInv, LinkInv, SlicesWhole
<1>4. ASSUME NEW r \in Rows, r[1] = cs, Parsed(r, c, n, known), Drives(r, c)
      PROVE  WholeInv'
  <2>1. LinkEdge(r, c)
    <3>1. r[1] # 348 /\ EdgeOK(r) /\ LinkAt(r[1], lex, at)
      BY <1>1, <1>2, <1>4, RowsOK DEF State
    <3> QED BY <1>1, <1>4, <3>1, LinkEdges
  <2>2. LinkAt(cs', lex', at')
    BY <1>4, <2>1 DEF LinkEdge, Parsed
  <2>3. SlicesWhole'
    BY <1>4, <2>1 DEF LinkEdge, Right, Parsed, SlicesWhole
  <2>4. contentLength' = unread'
    BY <1>2, <1>4, <2>1 DEF LinkEdge, Right, Parsed, on_request_http_field
  <2> QED BY <1>2, <2>2, <2>3, <2>4 DEF WholeInv, LinkInv
<1> QED BY <1>1, <1>3, <1>4, ByteTaken DEF Drives

LEMMA WholeStep == MaxReads = 1 /\ TypeOK /\ WholeInv /\ [Next]_vars => WholeInv'
<1> SUFFICES ASSUME MaxReads = 1, TypeOK, WholeInv, [Next]_vars
             PROVE  WholeInv'
  OBVIOUS
<1> USE DEF WholeInv, LinkInv, SlicesWhole
<1>1. CASE Read
  <2>1. cs = 1 /\ lex.kind = "start" /\ contentLength = unread /\ reads = 0
    BY <1>1 DEF Read, LinkAt
  <2>2. LinkAt(1, lex, at')
    BY <2>1, LinkNew
  <2> QED BY <1>1, <2>1, <2>2 DEF Read
<1>2. CASE ReadFails
  BY <1>2 DEF ReadFails
<1>3. CASE EndOfRead
  BY <1>3 DEF EndOfRead
<1>4. CASE handleClient
  <2>1. CASE isClose \/ ~m_isKeepalive
    BY <1>4, <2>1 DEF handleClient
  <2>2. CASE ~(isClose \/ ~m_isKeepalive)
    <3>1. /\ pc' = "read" /\ reads' = 0 /\ cs' = 1 /\ contentLength' = 0 /\ reported' = {}
          /\ unread' = unread /\ unread = 0 /\ lex'.kind = "start"
      BY <1>4, <2>2 DEF handleClient, NewParser, http_parser_start
    <3>2. LinkAt(1, lex', at')
      BY <3>1, LinkNew
    <3> QED BY <3>1, <3>2
  <2> QED BY <2>1, <2>2
<1>5. ASSUME NEW c \in Byte, NEW n \in 0 .. MaxBody, NEW known \in BOOLEAN,
             ParseByte(c, n, known)
      PROVE  WholeInv'
  BY <1>5, WholeByte
<1>6. ASSUME NEW k \in 0 .. MaxBody, NEW close \in BOOLEAN, Finished(k, close)
      PROVE  WholeInv'
  <2>1. contentLength = unread /\ unread \in Nat /\ k \in Nat /\ k <= unread
    BY <1>6, SessionAssumption DEF Finished, TypeOK
  <2>2. CASE m_error
    BY <1>6, <2>2 DEF Finished
  <2>3. CASE ~m_error /\ unread > k
    BY <1>6, <2>1, <2>3 DEF Finished
  <2>4. CASE ~m_error /\ unread = k
    BY <1>6, <2>1, <2>4 DEF Finished
  <2> QED BY <2>1, <2>2, <2>3, <2>4
<1>7. ASSUME NEW k \in 1 .. MaxBody, ReadFixSize(k)
      PROVE  WholeInv'
  BY <1>7, SessionAssumption DEF ReadFixSize, TypeOK
<1>8. CASE UNCHANGED vars
  BY <1>8 DEF vars
<1> QED BY <1>1, <1>2, <1>3, <1>4, <1>5, <1>6, <1>7, <1>8 DEF Next

LEMMA WholeInit == Init => WholeInv
<1>1. Init => lex.kind = "start" /\ cs = 1 /\ contentLength = 0
  BY DEF Init, NewParser, http_parser_start
<1>2. Init => LinkAt(1, lex, at)
  BY <1>1, LinkNew
<1> QED BY <1>1, <1>2 DEF Init, WholeInv, LinkInv, SlicesWhole

\* Of a head that arrives in one read, every slice handed to a callback is the whole
\* token, whatever bytes the client sends and however long its tokens are.
THEOREM HttpSlicesWhole == MaxReads = 1 => (Spec => []SlicesWhole)
<1> SUFFICES ASSUME MaxReads = 1
             PROVE  Spec => []SlicesWhole
  OBVIOUS
<1>1. Init => TypeOK /\ WholeInv
  BY TypeInit, WholeInit
<1>2. TypeOK /\ WholeInv /\ [Next]_vars => (TypeOK /\ WholeInv)'
  BY TypeStep, WholeStep
<1>3. WholeInv => SlicesWhole
  BY DEF WholeInv
<1> QED BY <1>1, <1>2, <1>3, PTL DEF Spec

\* With heads that arrive in one read, recvRequest() has taken the whole body off the
\* stream when a request is served, for bodies of any length cut anywhere.
THEOREM HttpInSync == MaxReads = 1 => (Spec => []InSync)
<1> SUFFICES ASSUME MaxReads = 1
             PROVE  Spec => []InSync
  OBVIOUS
<1>1. Init => TypeOK /\ WholeInv
  BY TypeInit, WholeInit
<1>2. TypeOK /\ WholeInv /\ [Next]_vars => (TypeOK /\ WholeInv)'
  BY TypeStep, WholeStep
<1>3. WholeInv => InSync
  BY DEF WholeInv, LinkInv, InSync
<1> QED BY <1>1, <1>2, <1>3, PTL DEF Spec
=============================================================================

------------------------------ MODULE MCInputs ------------------------------
(***************************************************************************)
(* The pure parts checked on small inputs: the formats of the network, of  *)
(* the window system and of the disk, the offline model, boot and program  *)
(* loading, the shell and the console.                                     *)
(***************************************************************************)
EXTENDS Integers, Sequences, SequencesExt, FiniteSetsExt, TLC

\* Inputs put together from up to n pieces.
Joined(pieces, n) == {FlattenSeq(s) : s \in BoundedSeq(pieces, n)}

-----------------------------------------------------------------------------
(* JSON *)

J == INSTANCE Json WITH MAX_DEPTH <- 3, INT_MAX <- 127, UINT_MAX <- 255, MAX_EXP <- 18, MIN_EXP <- -7, MANTISSA <- 16

JsonFloats == {J!Float(s, d, e) : s \in BOOLEAN, d \in {<<1>>, <<2, 5>>, <<1, 0, 2>>}, e \in {-7, -5, -4, -1, 0, 1, 2, 16, 17, 18}}
              \cup {J!Float(s, <<>>, 0) : s \in BOOLEAN}
JsonLeaves == {J!Null, J!Bool(TRUE), J!Str(<<>>), J!Str(<<34, 92, 1, 31, 65, 8364>>), J!Num("int", -128), J!Num("int", 90), J!Num("uint", 255),
               J!Float(TRUE, <<2, 5>>, -5), J!Arr(<<>>), J!Obj(<<>>)}
JsonKeys == {<<97>>, <<10>>}
JsonNodes(vs, n) == {J!Arr(s) : s \in BoundedSeq(vs, n)} \cup {J!Obj(s) : s \in BoundedSeq(JsonKeys \X vs, n)}
JsonValues == JsonLeaves \cup JsonFloats \cup JsonNodes(JsonLeaves, 2) \cup JsonNodes(JsonNodes({J!Null, J!Num("int", 7)}, 1), 2)

\* Both writers are read back to the value, and no text of a value that has an end of its
\* own (not a number) is read when it is cut short.
ASSUME JsonReadsBack == \A v \in JsonValues :
    LET compact == J!WriteCompact(v)
    IN  /\ J!Parse(compact) = J!Ok(v, Len(compact) + 1, 0)
        /\ LET pretty == J!WritePretty(v, <<32, 9>>) IN J!Parse(pretty) = J!Ok(v, Len(pretty) + 1, 0)
        /\ v[1] # "number" => \A n \in 0 .. Len(compact) - 1 : ~J!Parse(SubSeq(compact, 1, n)).ok

\* What is not finite is written as null: a number that is too large does not come back.
ASSUME JsonInfinityIsLost ==
    LET v == J!Parse(<<49, 101, 49, 57>>).v IN v = J!Infinite(FALSE) /\ J!Parse(J!WriteCompact(v)).v = J!Null

\* The grammar of numbers, and the value that was written is the value that is written.
NumberChars == {45, 43, 46, 48, 55, 101}
DigitsIn(s, from, to) == from <= to /\ \A i \in from .. to : s[i] \in J!Digit
NumberGrammar(s) == \E m \in {0, 1}, w \in 1 .. Len(s) : \E f \in w .. Len(s) : LET n == Len(s) IN
    /\ m = 1 <=> s[1] = 45
    /\ DigitsIn(s, m + 1, w) /\ (s[m + 1] = 48 => w = m + 1)
    /\ f = w \/ (s[w + 1] = 46 /\ DigitsIn(s, w + 2, f))
    /\ f = n \/ (f < n /\ s[f + 1] = 101 /\ (DigitsIn(s, f + 2, n) \/ (f + 2 < n /\ s[f + 2] \in {43, 45} /\ DigitsIn(s, f + 3, n))))
ASSUME NumbersAreRead == \A s \in BoundedSeq(NumberChars, 5) :
    LET r == J!Parse(s) IN r.ok = NumberGrammar(s) /\ (r.ok /\ r.v \notin {J!Infinite(b) : b \in BOOLEAN} => J!Parse(J!WriteCompact(r.v)).v = r.v)

\* Escapes of UTF-16 halves are read as UTF-16 is: a high half before a low one is one
\* character, any other half is replaced.
EscapedUnits == [u \in {65, 55296, 56319, 56320, 57343, 233} |->
    CASE u = 65 -> <<65>> [] u = 55296 -> <<92, 117, 100, 56, 48, 48>> [] u = 56319 -> <<92, 117, 68, 66, 70, 70>>
      [] u = 56320 -> <<92, 117, 100, 99, 48, 48>> [] u = 57343 -> <<92, 117, 100, 102, 70, 102>> [] u = 233 -> <<92, 117, 48, 48, 101, 57>>]
IsPair(s, i) == i \in 1 .. Len(s) - 1 /\ s[i] \in J!High /\ s[i + 1] \in J!Low
Utf16(s) == FlattenSeq([i \in DOMAIN s |->
    IF IsPair(s, i) THEN <<65536 + (s[i] - 55296) * 1024 + (s[i + 1] - 56320)>> ELSE IF IsPair(s, i - 1) THEN <<>>
    ELSE IF s[i] \in J!High \cup J!Low THEN <<65533>> ELSE <<s[i]>>])
ASSUME EscapesArePaired == \A s \in BoundedSeq(DOMAIN EscapedUnits, 4) :
    J!Parse(<<34>> \o FlattenSeq([i \in DOMAIN s |-> EscapedUnits[s[i]]]) \o <<34>>).v = J!Str(Utf16(s))

\* The limit is on what is open, not on what was opened.
ASSUME DepthIsWhatIsOpen == \A s \in BoundedSeq({91, 93, 44}, 8) :
    LET open == [i \in DOMAIN s |-> Cardinality({j \in 1 .. i : s[j] = 91}) - Cardinality({j \in 1 .. i : s[j] = 93})]
        r == J!Parse(s)
    IN  /\ r.ok => \A i \in DOMAIN s : open[i] <= 3
        /\ ~r.ok /\ r.kind = "DepthLimitExceeded" => open[r.pos - 1] = 4

\* Casts lose nothing but at the top: the float just above the range becomes its maximum.
ASSUME CastsAreExact == \A n \in -300 .. 600 : J!RoundF(n) = n =>
    /\ J!AsI64("float", n) = (IF n \in -128 .. 127 THEN {n} ELSE IF n = 128 THEN {127} ELSE {})
    /\ J!AsU64("float", n) = (IF n \in 0 .. 255 THEN {n} ELSE IF n = 256 THEN {255} ELSE {})

\* The last entry of a key counts, and insert replaces it; remove takes the first one, so
\* a key that was pushed twice is still there.
ASSUME LastKeyCounts == \A entries \in BoundedSeq({"k", "l"} \X {1, 2}, 3), key \in {"k", "l", "m"} :
    /\ J!Get(J!Insert(entries, key, 3), key) = {3}
    /\ \A other \in {"k", "l", "m"} \ {key} : /\ J!Get(J!Insert(entries, key, 3), other) = J!Get(entries, other)
                                              /\ J!Get(J!RemoveKey(entries, key), other) = J!Get(entries, other)
    /\ J!ContainsKey(J!RemoveKey(entries, key), key) <=> Cardinality(J!Places(entries, key)) > 1

-----------------------------------------------------------------------------
(* HTTP *)

H == INSTANCE Http WITH Lower <- "Content-Length" :> "content-length" @@ "Transfer-Encoding" :> "transfer-encoding" @@ "CHUNKED" :> "chunked",
    USIZE_MAX <- 255, Checked <- TRUE, MAX_LINE_SIZE <- 9, MAX_HEADER_SIZE <- 20, MAX_PORT <- 999, MAX_REDIRECTS <- 2, MAX_IPV6 <- 4

\* A caller that asks for events until there is none.
RECURSIVE HttpDrain(_, _)
HttpDrain(p, seen) ==
    LET n == H!NextEvent(p)
    IN  IF n.event[1] \in {"none", "error", "panic"} THEN <<n.p, IF n.event = <<"none">> THEN seen ELSE Append(seen, n.event)>>
        ELSE HttpDrain(n.p, Append(seen, n.event))
Over(seen) == seen # <<>> /\ Last(seen)[1] \in {"error", "panic"}
HttpFeed(s, piece) == IF Over(s[2]) THEN s ELSE HttpDrain(H!Feed(s[1], piece), s[2])
HttpEvents(pieces) == FoldLeft(HttpFeed, <<H!NewResponse, <<>>>>, pieces)
\* The events, the data of the body in one piece.
BodyOf(seen) == FlattenSeq([i \in DOMAIN seen |-> IF seen[i][1] = "data" THEN seen[i][2] ELSE <<>>])
AsOne(s) == <<SelectSeq(s[2], LAMBDA e : e[1] # "data"), BodyOf(s[2])>>
Cuts(text) == {<<SubSeq(text, 1, i), SubSeq(text, i + 1, Len(text))>> : i \in 0 .. Len(text)}

StatusText(digits) == <<"HTTP/1.1", " ">> \o digits \o <<"CR", "LF">>
Field(name, value) == <<name, ":", " ">> \o value \o <<"CR", "LF">>
Statuses == {StatusText(<<"2", "0", "0">>), StatusText(<<"3", "0", "4">>), StatusText(<<"2", "0", "0", " ", "OK">>)}
FieldSets == {<<>>, Field("Content-Length", <<"3">>), Field("content-length", <<"0">>), Field("Transfer-Encoding", <<"CHUNKED">>),
              Field("Content-Length", <<"x">>), Field("Transfer-Encoding", <<"chunked">>) \o Field("Content-Length", <<"1">>), <<"LF">>, <<"x", "CR", "LF">>}
Bodies == {<<>>, <<"x", "y", "CR", "LF">>, <<"2", "CR", "LF", "x", "LF", "CR", "LF", "0", "CR", "LF", "CR", "LF">>,
           <<"1", ";", "LF", "z", "CR", "LF", "+", "0", "LF", "LF", "x">>, <<"g", "LF">>, <<"f", "f", "LF">>}
HttpReplies == {s \o f \o <<"CR", "LF">> \o b : s \in Statuses, f \in FieldSets, b \in Bodies}
\* The events do not depend on where the bytes were cut: lines, sizes and chunks may
\* arrive in pieces.
ASSUME CutsDoNotMatter == \A text \in HttpReplies : \A cut \in Cuts(text) : AsOne(HttpEvents(cut)) = AsOne(HttpEvents(<<text>>))

\* But a line that is too long is refused only while its end is missing.
LongLine == StatusText(<<"2", "0", "0">>) \o Field("x", <<"y", "y", "y", "y", "y", "y", "y", "y", "y", "y">>)
ASSUME LongLinesMayPass ==
    /\ ~Over(HttpEvents(<<LongLine>>)[2])
    /\ Over(HttpEvents(<<SubSeq(LongLine, 1, Len(LongLine) - 2), SubSeq(LongLine, Len(LongLine) - 1, Len(LongLine))>>)[2])

\* Whatever the chunks, the data is what was put into them; each trailer costs the caller
\* one more call before it hears of the end.
ChunkText(data) == H!UintText(Len(data)) \o <<"CR", "LF">> \o data \o <<"CR", "LF">>
ChunkedReply(chunks, trailers) ==
    StatusText(<<"2", "0", "0">>) \o Field("Transfer-Encoding", <<"chunked">>) \o <<"CR", "LF">>
    \o FlattenSeq([i \in DOMAIN chunks |-> ChunkText(chunks[i])]) \o <<"0", "CR", "LF">>
    \o FlattenSeq([i \in 1 .. trailers |-> Field("t", <<"u">>)]) \o <<"CR", "LF">>
RECURSIVE MoreCalls(_)
MoreCalls(p) == IF p.state = "Done" THEN 0 ELSE 1 + MoreCalls(HttpDrain(p, <<>>)[1])
ASSUME ChunksJoin == \A chunks \in BoundedSeq({<<"x">>, <<"CR", "LF">>, <<"0", "LF", "y">>}, 3), trailers \in 0 .. 2 :
    LET s == HttpEvents(<<ChunkedReply(chunks, trailers)>>)
    IN  BodyOf(s[2]) = FlattenSeq(chunks) /\ MoreCalls(s[1]) = trailers /\ (trailers = 0 <=> Last(s[2]) = <<"complete">>)

\* A length is a promise: that many bytes, and none of what comes behind. A reply without
\* a body ends without the event that says so.
ASSUME LengthIsKept == \A n \in 0 .. 4, sent \in 0 .. 6, code \in {<<"2", "0", "0">>, <<"2", "0", "4">>} :
    LET none == n = 0 \/ code = <<"2", "0", "4">>
        least == IF n < sent THEN n ELSE sent
        s == HttpEvents(<<StatusText(code) \o Field("Content-Length", H!UintText(n)) \o <<"CR", "LF">> \o [i \in 1 .. sent |-> "x"]>>)
    IN  /\ Len(BodyOf(s[2])) = (IF none THEN 0 ELSE least)
        /\ s[1].state = "Done" <=> none \/ sent >= n
        /\ Last(s[2]) = <<"complete">> <=> ~none /\ sent >= n

\* The size of a chunk is a machine word: the largest ones overflow with the two bytes behind.
ASSUME ChunkSizesOverflow == \A n \in 240 .. 255 :
    LET size == <<H!DigitChars[n \div 16 + 1], H!DigitChars[(n % 16) + 1], "LF">>
        s == HttpEvents(<<StatusText(<<"2", "0", "0">>) \o Field("Transfer-Encoding", <<"chunked">>) \o <<"LF">> \o size>>)
    IN  n + 2 > 255 <=> Last(s[2]) = <<"panic">>

-----------------------------------------------------------------------------
(* Server-sent events *)

RECURSIVE SseDrain(_, _)
SseDrain(s, seen) == LET n == H!SseNext(s) IN IF n.event = <<>> THEN <<n.p, seen>> ELSE SseDrain(n.p, seen \o n.event)
SseEvents(pieces) == FoldLeft(LAMBDA s, piece : SseDrain(H!Feed(s[1], piece), s[2]), <<H!NewSse, <<>>>>, pieces)[2]
SsePieces(eol) == {<<"data", ":", " ", "x">> \o eol, <<"data", ":", "y">> \o eol, <<"data">> \o eol, <<"event", ":", " ", "e">> \o eol, <<":", "c">> \o eol,
                   <<"retry", ":", "7">> \o eol, <<"id">> \o eol, eol}
\* With one character at the end of each line the cuts do not matter; with two, a cut
\* between them ends the event early, if there is one.
ASSUME SseCuts == \A text \in Joined(SsePieces(<<"LF">>), 3) : \A cut \in Cuts(text) : SseEvents(cut) = SseEvents(<<text>>)
ASSUME SseEndsEarly == \A text \in Joined(SsePieces(<<"CR", "LF">>) \ {<<"retry", ":", "7", "CR", "LF">>}, 3) : \A cut \in Cuts(text) :
    \/ SseEvents(cut) = SseEvents(<<text>>)
    \/ cut[1] # <<>> /\ Last(cut[1]) = "CR" /\ Len(SseEvents(cut)) > Len(SseEvents(<<text>>))

-----------------------------------------------------------------------------
(* URLs *)

UrlPieces == {<<"http">>, <<"https">>, <<":", "/", "/">>, <<"h">>, <<"[", ":", "1", "]">>, <<":", "8", "0">>, <<"/">>, <<"a">>, <<"?">>, <<"#">>, <<".", ".">>}
UrlTexts == {<<"http", ":", "/", "/", "h">> \o s : s \in Joined(UrlPieces, 3)} \cup {<<"https", ":", "/", "/">> \o s : s \in Joined(UrlPieces, 3)}
Urls == {u \in {H!ParseUrl(s) : s \in UrlTexts} : u.ok}
\* A URL is read back from its text, but for an address that has lost its brackets, a port
\* without a host and a fragment that was left in the path in front of an empty query.
ASSUME UrlsReadBack == \A u \in Urls : H!ParseUrl(H!UrlText(u)) = u \/ ":" \in ToSet(u.host) \/ u.host = <<>> \/ ("#" \in ToSet(u.path) /\ u.query = <<>>)

References == Joined({<<".", ".">>, <<".">>, <<"/">>, <<"a">>, <<"?">>, <<"#">>, <<":">>}, 4)
Bases == {H!UrlOf("http", <<"h">>, 80, path, <<"q">>) : path \in {<<"/">>, <<"/", "a">>, <<"/", "a", "/">>, <<"/", "a", "/", "b">>}}
\* A reference leads to a path that begins with a slash, on the same host unless it names
\* one; dots in front climb to the root and no higher.
ASSUME ReferencesStay == \A base \in Bases, r \in References :
    LET u == H!Resolve(base, r)
        names == H!SchemeEnd(r) > 0 \/ H!StartsWith(r, <<"/", "/">>)
    IN  /\ ~names => u.ok /\ u.host = base.host
        /\ u.ok => u.path[1] = "/"
        /\ ~names /\ "?" \notin ToSet(r) => "#" \notin ToSet(u.path)
ASSUME DotsClimb == \A base \in Bases, n \in 0 .. 4 :
    LET ups == FlattenSeq([i \in 1 .. n |-> <<".", ".", "/">>])
        depth == Cardinality({i \in DOMAIN base.path : base.path[i] = "/"}) - 1
    IN  H!Resolve(base, ups \o <<"x">>).path = SubSeq(base.path, 1, 2 * (IF n < depth THEN depth - n ELSE 0) + 1) \o <<"x">>
\* A reference with a URL in its query is taken for a URL, and refused.
ASSUME UrlInQueryIsRefused == ~H!Resolve(CHOOSE b \in Bases : TRUE, <<"/", "a", "?", "http", ":", "/", "/", "b">>).ok

\* Redirects end, and only the first ones of a chain are followed.
ASSUME RedirectsEnd == \A code \in {200, 301, 303, 307}, method \in {"GET", "HEAD", "POST"}, location \in {<<>>, <<<<"/", "a">>>>, <<<<"x", ":", "/", "/">>>>} :
    LET next == H!ShouldRedirect(code, location, CHOOSE b \in Bases : TRUE, method)
    IN  /\ next # {} <=> code # 200 /\ location = <<<<"/", "a">>>>
        /\ \A n \in next : n[2] = method \/ (n[2] = "GET" /\ code # 307 /\ method = "POST")
        /\ {c \in 0 .. 5 : H!ShouldFollow(H!FollowUpToFive, c)} = 0 .. 1 /\ ~H!ShouldFollow(-1, 0)

\* The request is read back by lines: its headers in their order, and the body behind the
\* first empty line, as long as the length says.
RECURSIVE LinesOf(_, _)
LinesOf(text, seen) == LET line == H!Line(text) IN IF line = <<>> THEN <<seen, H!Rest(text)>> ELSE LinesOf(H!Rest(text), Append(seen, line))
ASSUME RequestsReadBack == \A u \in Bases, body \in {<<>>, <<"x">>, <<"CR", "LF", "y">>}, headers \in BoundedSeq({<<<<"a">>, <<"v">>>>, <<<<"b">>, <<"w", " ", "v">>>>}, 2) :
    LET read == LinesOf(H!Serialize([method |-> "POST", url |-> u, headers |-> headers, body |-> body]), <<>>)
        fields == [i \in 1 .. Len(read[1]) - 1 |-> H!HeaderOf(read[1][i + 1])]
    IN  /\ read[2] = body
        /\ IsSuffix(headers, fields)
        /\ body # <<>> => H!GetHeader(fields, "Content-Length") = H!UintText(Len(body))

-----------------------------------------------------------------------------
(* Packets *)

P == INSTANCE Packets WITH MAX_JUMPS <- 3, SEEN <- 2, MAX_NAME <- 7, MAX_LABEL <- 3, ENTRY_LIFE <- 4, REQUEST_AGAIN <- 2, REQUESTS <- 2, QUEUE <- 2

SumBytes == {0, 1, 128, 255}
\* A sum that was put in verifies, and a change of one byte shows, unless it changes
\* nothing in the arithmetic of ones' complement.
ASSUME SumsShowChanges == \A d \in BoundedSeq(SumBytes, 4) :
    LET sum == P!Checksum(P!Be16(0) \o d)
        sent == P!Be16(sum) \o d
    IN  /\ P!Verify(sent)
        /\ \A i \in DOMAIN d, b \in SumBytes : P!Verify([sent EXCEPT ![i + 2] = b]) <=> b = d[i]

IpA == <<10, 0, 2, 15>>
IpB == <<10, 0, 2, 2>>
Payloads == BoundedSeq({0, 200, 255}, 3) \cup {<<1, 2, 3, 4, 5, 6, 7, 8>>}
\* What is built is read: through padding behind it, and cut short it is refused.
ASSUME PacketsReadBack == \A data \in Payloads, padding \in {<<>>, <<0, 0, 0>>} :
    LET udp == P!BuildUdp(68, 67, data, IpA, IpB)
        ip == P!BuildIpv4(IpA, IpB, 17, udp)
        frame == P!BuildEthernet(P!Broadcast, P!NoMac, 2048, ip) \o padding
        got == P!EthernetPayload(frame)
        packet == P!Ipv4Packet(got)
        inner == P!Ipv4Payload(packet)
        echo == P!BuildEcho(8, 300, 1, data)
    IN  /\ P!IsEthernet(frame) /\ P!Field(frame, P!EthernetLayout, "ethertype") = <<8, 0>>
        /\ P!IsIpv4(got) /\ P!VerifyIpv4(packet) /\ P!Field(packet, P!Ipv4Layout, "src") = IpA /\ P!Field(packet, P!Ipv4Layout, "dst") = IpB
        /\ P!Flags(packet) = 0 /\ P!FragOffset(packet) = 0
        /\ inner = udp /\ P!IsUdp(inner) /\ P!VerifyUdp(P!UdpPacket(inner), IpA, IpB) /\ P!UdpPayload(P!UdpPacket(inner)) = data
        /\ P!IsEcho(echo) /\ P!Verify(echo) /\ P!Behind(echo, 8) = data
        /\ \A n \in 0 .. Len(ip) - 1 : ~P!IsIpv4(SubSeq(ip, 1, n))
        /\ \A n \in 0 .. Len(udp) - 1 : ~P!IsUdp(SubSeq(udp, 1, n))

\* The sum of a datagram may come out as zero, which says that there is none: then no
\* change of the datagram shows.
ASSUME ZeroSumsShowNothing ==
    LET udp == P!BuildUdp(0, 0, <<255, 218>>, P!Zeros(4), P!Zeros(4)) IN P!U16(udp, 6) = 0 /\ P!VerifyUdp([udp EXCEPT ![9] = 7], P!Zeros(4), P!Zeros(4))

OptionPieces == {<<0>>, <<1, 2, 53, 1>>, <<53, 1, 2>>, <<53, 2, 7, 7>>, <<255>>, <<12, 0>>, <<53>>, <<6, 9>>}
\* The type is the first option of its form that is not inside another, before the end.
RECURSIVE TypeOf(_)
TypeOf(s) == IF s = <<>> \/ s[1] \in {<<255>>, <<53>>, <<6, 9>>} THEN -1 ELSE IF s[1] = <<53, 1, 2>> THEN 2 ELSE TypeOf(Tail(s))
Whole(s) == \A i \in DOMAIN s : s[i] \in {<<53>>, <<6, 9>>} => i = Len(s)
ASSUME OptionsAreWalked == \A s \in BoundedSeq(OptionPieces, 3) : Whole(s) =>
    LET d == P!BuildDhcp(<<1, 2, 3, 4>>, P!Broadcast, s)
    IN  /\ P!IsDhcp(d) /\ P!Field(d, P!DhcpLayout, "magic_cookie") = P!Cookie /\ P!Field(d, P!DhcpLayout, "chaddr") = P!Broadcast
        /\ P!GetMessageType(d) = TypeOf(s)

DnsNames == BoundedSeq({97, 66, 46, 32}, 5)
\* A name is taken iff its labels are labels; encoded, both readers read it back.
ASSUME NamesReadBack == \A text \in DnsNames :
    LET labels == P!ParseNameBuf(text)
        d == P!BuildDnsQuery(7, labels, 1, 1)
        read == P!NameTurns(d, P!NameAt(12), 9)
    IN  labels # <<>> =>
        /\ read.out = "name" /\ P!NamesEqual(read.labels, labels) /\ read.next = 12 + Len(P!LabelsText(labels))
        /\ P!ParseName(d, 12).ok /\ P!QType(d, 12) = 1 /\ P!QClass(d, 12) = 1
        /\ P!ParseName(d, 12).name = (IF Last(text) = 46 THEN Front(text) ELSE text)

\* Compressed, the two disagree on where the name ends: only one of them comes back from
\* the pointer.
ASSUME PointersReturn ==
    LET d == <<1, 97, 0>> \o <<1, 98, 192, 0>> \o <<0, 1, 0, 1>>
    IN  /\ P!ParseName(d, 3).name = <<98, 46, 97>> /\ P!ParseName(d, 3).pos = 3
        /\ P!NameTurns(d, P!NameAt(3), 9).next = 7

\* A chain of pointers ends, in a name or as an error, if it does not run into a circle
\* behind the last pointer the detector has room for; parse_name counts, and always ends.
PointerTables == [1 .. 5 -> 0 .. 5]
PointersOf(f) == FlattenSeq([i \in 1 .. 5 |-> <<192, 2 * f[i]>>]) \o <<0>>
RECURSIVE Visit(_, _, _)
Visit(f, i, n) == IF n = 0 \/ i = 6 THEN {} ELSE {i} \cup Visit(f, f[i] + 1, n - 1)
\* The pointers of the circle that is reached from the first one, if there is one.
Circle(f) == {i \in 1 .. 5 : i \in Visit(f, 1, 6) /\ i \in Visit(f, f[i] + 1, 6)}
Lead(f) == Cardinality(Visit(f, 1, 6) \ Circle(f))
ASSUME ChainsEnd == \A f \in PointerTables :
    LET ends == P!NameTurns(PointersOf(f), P!NameAt(0), 20).out # "go"
    IN  /\ ~ends <=> Circle(f) # {} /\ Lead(f) > 2
        /\ P!ParseName(PointersOf(f), 0).ok => Circle(f) = {}

-----------------------------------------------------------------------------
(* The ARP cache *)

ArpMe == P!NewArpCache(<<2, 2, 2, 2, 2, 2>>, IpA)
ArpPeer == <<3, 3, 3, 3, 3, 3>>
ReplyFrame == P!BuildEthernet(ArpMe.mac, ArpPeer, 2054, P!ArpReply(ArpPeer, IpB, ArpMe.mac, IpA))
AskFrame(target) == P!BuildEthernet(P!Broadcast, ArpPeer, 2054, P!ArpRequest(ArpPeer, IpB, target))
ArpSteps == {"resolve", "reply", "tick"}
\* Each step comes one unit of time after the one before.
ArpRun(steps) == FoldLeft(LAMBDA s, i :
    LET r == CASE steps[i] = "resolve" -> P!ResolveArp(s.c, IpB, "packet", i)
               [] steps[i] = "reply" -> P!HandleArp(s.c, ReplyFrame, i)
               [] steps[i] = "tick" -> P!TickArp(s.c, i)
    IN  [c |-> r.c, log |-> s.log \o [j \in DOMAIN r.actions |-> <<i, r.actions[j]>>]],
    [c |-> ArpMe, log |-> <<>>], [i \in DOMAIN steps |-> i])
\* Packets wait exactly for the addresses that were asked for; requests keep their
\* distance and their number; an answer that is old is not used.
ASSUME ArpKeepsCount == \A steps \in [1 .. 7 -> ArpSteps] :
    LET s == ArpRun(steps)
        asked == SelectSeq(s.log, LAMBDA a : a[2] # P!ArpTimeout)
        waits == IpB \in DOMAIN s.c.entries /\ ~P!Known(s.c, IpB)
        last == {i \in 1 .. 7 : steps[i] = "reply"}
    IN  /\ IpB \in DOMAIN s.c.pending <=> waits
        /\ waits => Len(s.c.pending[IpB]) \in 1 .. 2 /\ s.c.entries[IpB].count \in 1 .. 2
        /\ \A i \in 1 .. Len(asked) - 1 : asked[i + 1][1] - asked[i][1] >= 2
              \/ \E j \in asked[i][1] .. asked[i + 1][1] : steps[j] = "tick" \/ steps[j] = "reply"
        /\ P!GetMac(s.c, IpB) = {ArpPeer} => last # {} /\ (steps[7] \in {"tick", "resolve"} => 7 - Max(last) < 4)

\* A question for our address is answered to the one who asked; the clock wraps, and an
\* entry from before is fresh until the clock has passed it again.
ASSUME ArpAnswers ==
    /\ P!HandleArp(ArpMe, AskFrame(IpA), 1).actions = <<P!BuildEthernet(ArpPeer, ArpMe.mac, 2054, P!ArpReply(ArpMe.mac, IpA, ArpPeer, IpB))>>
    /\ P!HandleArp(ArpMe, AskFrame(IpB), 1).actions = <<>>
    /\ LET c == P!HandleArp(ArpMe, ReplyFrame, 100).c IN P!TickArp(c, 104).c.entries = <<>> /\ P!TickArp(c, 50).c = c

-----------------------------------------------------------------------------
(* Messages of the window system *)

W == INSTANCE Wire WITH MAX_STR <- 2, IsUtf8 <- LAMBDA s : \A i \in DOMAIN s : s[i] < 128

WireValues(type) ==
    CASE type = "u8" -> {0, 255} [] type = "bool" -> BOOLEAN [] type = "cursor" -> {0, 5}
      [] type = "u16" -> {0, 258, 65535} [] type = "i16" -> {-32768, -1, 300}
      [] type = "u32" -> {<<1, 2, 3, 4>>, <<255, 0, 0, 0>>} [] type = "char" -> {<<0, 0, 0, 0>>, <<255, 255, 16, 0>>, <<0, 224, 0, 0>>}
      [] type = "string" -> {<<>>, <<97>>, <<97, 98>>, <<97, 98, 99>>}
WireFields(types) == FoldLeft(LAMBDA s, t : {Append(f, v) : f \in s, v \in WireValues(t)}, {<<>>}, types)
WireKinds == W!ClientKinds @@ W!ServerKinds
\* Every message is read back by the side it is for, and by no other; cut short it is
\* truncated, and with a byte too many it is refused as well.
ASSUME MessagesReadBack == \A kind \in DOMAIN WireKinds : \A fields \in WireFields(WireKinds[kind]) :
    LET client == kind \in DOMAIN W!ClientKinds
        b == IF client THEN W!EncodeClient(kind, fields) ELSE W!EncodeServer(kind, fields)
        Own(c) == IF client THEN W!DecodeClient(c) ELSE W!DecodeServer(c)
        Other(c) == IF client THEN W!DecodeServer(c) ELSE W!DecodeClient(c)
    IN  IF \E i \in DOMAIN fields : W!TooLong(WireKinds[kind][i], fields[i]) THEN b = <<>>
        ELSE /\ Own(b).ok /\ Own(b).v = fields
             /\ Other(b) = W!Error("UnknownKind")
             /\ \A n \in 0 .. Len(b) - 1 : Own(SubSeq(b, 1, n)) = W!Error("Truncated")
             /\ Own(Append(b, 0)) = W!Error("Trailing")

\* Bytes that are read are the bytes that would have been written: no message has two forms.
WireBytes == {<<7, 0>>, <<104, 0>>, <<4, 0>>, <<105, 0>>, <<1>>, <<2>>, <<5>>, <<6>>, <<0, 0>>, <<9, 9, 9, 9>>, <<0, 216, 0, 0>>, <<255>>}
ASSUME MessagesAreCanonical == \A s \in BoundedSeq(WireBytes, 4) :
    LET b == FlattenSeq(s)
        Canonical(kinds) == LET d == W!Decode(kinds, b) IN d.ok => W!Encode(kinds, W!U16(b), d.v) = b
    IN  Canonical(W!ClientKinds) /\ Canonical(W!ServerKinds)

-----------------------------------------------------------------------------
(* Partition tables *)

D == INSTANCE Partitions WITH MIN_ENTRY <- 1, MAX_ARRAY_SIZE <- 4, SECTOR_SIZES <- {2}

Slot(boot, system, start, size) == [boot |-> boot, system |-> system, start |-> start, size |-> size]
MbrSlots == {Slot(b, s, f, n) : b \in {0, 128}, s \in {0, 12}, f \in {0, 1, 7}, n \in {0, 1, 7}} \cup {Slot(7, 1, 1, 1)}
PlainDisk(slots) == [sectorSize |-> 2, sectors |-> 8, failing |-> {}, mbr |-> [signed |-> TRUE, slots |-> slots]]
\* What an MBR offers is on the disk, not on its first sector, and keeps the number of its slot.
ASSUME MbrIsOnDisk == \A a \in MbrSlots, b \in MbrSlots :
    LET r == D!ReadTable(PlainDisk(<<a, b, Slot(0, 0, 0, 0), Slot(0, 12, 2, 3)>>))
    IN  /\ r.ok <=> 7 \notin {a.boot, b.boot}
        /\ r.ok => \A i \in DOMAIN r.v.partitions : LET p == r.v.partitions[i] IN
               p.first >= 1 /\ p.sectors >= 1 /\ p.first + p.sectors <= 8 /\ p.first = <<a, b, a, Slot(0, 12, 2, 3)>>[p.number].start
        /\ r.ok => r.v.partitions # <<>> /\ Last(r.v.partitions).number = 4

Header(good, my, first, last, array, entries) ==
    [good |-> good, my |-> my, firstUsable |-> first, lastUsable |-> last, array |-> array, entries |-> entries, entrySize |-> 1]
Part(first, last) == [used |-> TRUE, first |-> first, last |-> last, bootable |-> FALSE]
UnusedPart == [Part(3, 3) EXCEPT !.used = FALSE]
GptEntries == {UnusedPart, Part(3, 4), Part(5, 5), Part(2, 6), Part(5, 4)}
GptDisk(primary, backup, entries, damaged, failing) ==
    [sectorSize |-> 2, sectors |-> 8, failing |-> failing, mbr |-> [signed |-> TRUE, slots |-> [i \in 1 .. 4 |-> Slot(0, IF i = 2 THEN 238 ELSE 0, 1, 7)]],
     headers |-> (1 :> primary @@ 7 :> backup), arrays |-> [a \in 0 .. 7 |-> entries], arrayGood |-> [a \in 0 .. 7 |-> a \notin damaged]]
\* Whatever a good header says, a partition lies in the sectors it calls usable, which are
\* on the disk, and not on the array it was read from.
ASSUME GptIsOnDisk == \A first \in 0 .. 6, last \in 0 .. 8, array \in 0 .. 7, n \in {2, 3, 5}, e \in GptEntries :
    LET entries == <<e, Part(first, last), UnusedPart, UnusedPart, UnusedPart>>
        r == D!ReadTable(GptDisk(Header(TRUE, 1, first, last, array, n), Header(FALSE, 7, 3, 5, 6, 2), entries, {}, {}))
    IN  r.ok => /\ last < 8 /\ n <= 4 /\ ~r.v.backup
                /\ \A i \in DOMAIN r.v.partitions : LET p == r.v.partitions[i] IN
                      /\ first <= p.first /\ p.first + p.sectors - 1 <= last
                      /\ array + D!DivCeil(n, 2) <= p.first \/ array >= p.first + p.sectors

\* Damage to the first header or its array is made good by the last sector; a first header
\* that does not read is not.
ASSUME BackupIsUsed == \A good \in BOOLEAN, my \in {1, 2}, damaged \in SUBSET {2, 6}, failing \in SUBSET {1, 2, 6, 7}, a \in GptEntries :
    LET r == D!ReadTable(GptDisk(Header(good, my, 3, 5, 2, 2), Header(TRUE, 7, 3, 5, 6, 2), <<a, Part(3, 3)>>, damaged, failing))
        primary == good /\ my = 1 /\ 2 \notin damaged \cup failing
        backup == 6 \notin damaged \cup failing /\ 7 \notin failing
    IN  /\ r.ok <=> 1 \notin failing /\ (primary \/ backup)
        /\ r.ok => r.v.backup = ~primary /\ Last(r.v.partitions) = [number |-> 2, first |-> 3, sectors |-> 1, bootable |-> FALSE]

\* GUIDs are read back from their text; the text has one form.
ASSUME GuidsReadBack == \A g \in [1 .. 16 -> {0}] \cup {[i \in 1 .. 16 |-> 16 * i - 1], [i \in 1 .. 16 |-> i]} :
    /\ D!ParseGuid(D!GuidText(g)) = g
    /\ \A i \in 1 .. 36 : D!ParseGuid([D!GuidText(g) EXCEPT ![i] = IF @ = D!DASH THEN 0 ELSE D!DASH]) = <<>>

\* A name ends at its first zero and has no half of a pair in it.
ASSUME NamesAreClean == \A units \in BoundedSeq({0, 65, 55296, 56320, 65535}, 5) :
    LET name == D!Decoded(units)
    IN  /\ \A i \in DOMAIN name : name[i] \notin 55296 .. 57343 \cup {0}
        /\ \A u \in {<<0>>, <<0, 65>>} : D!Decoded(units \o u) = name

-----------------------------------------------------------------------------
(* Tool calls *)

Gr == INSTANCE Grammar WITH MAX_DIGITS <- 2

Keyword(s) == <<"string", s>>
SchemaOf(type, more) == J!Obj(<<<<"type", Keyword(type)>>>> \o more)
Letters(s) == J!Str(s)
ObjectSchema(properties, required) == SchemaOf("object", <<<<"properties", J!Obj(properties)>>, <<"required", J!Arr(required)>>>>)
Short == SchemaOf("string", <<<<"maxLength", J!Num("int", 2)>>>>)
OneOf(values) == SchemaOf("string", <<<<"enum", J!Arr([i \in DOMAIN values |-> Letters(values[i])])>>>>)
Pair == SchemaOf("array", <<<<"items", SchemaOf("integer", <<>>)>>, <<"maxItems", J!Num("int", 2)>>>>)
ToolA == ObjectSchema(<<<<<<97>>, Short>>, <<<<98>>, SchemaOf("integer", <<>>)>>, <<<<97, 98>>, OneOf(<<<<97>>, <<97, 98>>>>)>>>>, <<Letters(<<98>>)>>)
ToolB == ObjectSchema(<<<<<<97>>, Pair>>, <<<<98>>, SchemaOf("boolean", <<>>)>>, <<<<99>>, SchemaOf("null", <<>>)>>>>, <<>>)
ToolNames == <<<<97>>, <<97, 98>>>>
CallGrammar == Gr!ToolCallGrammar(<<<<ToolNames[1], ToolA>>, <<ToolNames[2], ToolB>>>>, <<60>>, <<62>>).node

\* The values of a schema, from a few; and whether a value is one of a schema's.
RECURSIVE SchemaValues(_), Conforms(_, _)
SchemaValues(node) ==
    CASE node[1] = "string" -> {Letters(s) : s \in {t \in {<<>>, <<97>>, <<97, 98>>, <<34, 65>>} : node[3] = {} \/ \E v \in node[3] : t \in ToSet(v)}}
      [] node[1] = "integer" -> {J!Num("int", 0), J!Num("int", -10)}
      [] node[1] = "boolean" -> {J!Bool(TRUE), J!Bool(FALSE)}
      [] node[1] = "null" -> {J!Null}
      [] node[1] = "array" -> {J!Arr(s) : s \in {t \in BoundedSeq(SchemaValues(node[2]), 2) : Len(t) <= node[3]}}
      [] node[1] = "object" -> LET With(s, p) == {Append(e, <<p[1], v>>) : e \in s, v \in SchemaValues(p[2])} \cup (IF p[3] THEN {} ELSE s)
                               IN  {J!Obj(e) : e \in FoldLeft(With, {<<>>}, node[2])}
Conforms(node, v) ==
    CASE node[1] = "string" -> v[1] = "string" /\ (node[2] < 0 \/ Len(v[2]) <= node[2]) /\ \A e \in node[3] : v[2] \in ToSet(e)
      [] node[1] = "integer" -> v[1] = "number" /\ v[2] = "int"
      [] node[1] = "boolean" -> v[1] = "bool"
      [] node[1] = "null" -> v[1] = "null"
      [] node[1] = "array" -> v[1] = "array" /\ Len(v[2]) <= node[3] /\ \A i \in DOMAIN v[2] : Conforms(node[2], v[2][i])
      [] node[1] = "object" -> LET place(k) == SelectInSeq(node[2], LAMBDA p : p[1] = k) IN
            /\ v[1] = "object"
            /\ \A i \in DOMAIN v[2] : place(v[2][i][1]) > 0 /\ (i > 1 => place(v[2][i - 1][1]) < place(v[2][i][1])) /\ Conforms(node[2][place(v[2][i][1])][2], v[2][i][2])
            /\ \A i \in DOMAIN node[2] : node[2][i][3] => \E j \in DOMAIN v[2] : v[2][j][1] = node[2][i][1]
CallOf(tool, input) == J!Obj(<<<<<<110, 97, 109, 101>>, Letters(ToolNames[tool])>>, <<<<105, 110, 112, 117, 116>>, input>>>>)
IsCall(v) == \E tool \in 1 .. 2 : v[1] = "object" /\ Len(v[2]) = 2 /\ v = CallOf(tool, v[2][2][2]) /\ Conforms(CallGrammar.schemas[tool], v[2][2][2])
Calls == UNION {{CallOf(tool, v) : v \in SchemaValues(CallGrammar.schemas[tool])} : tool \in 1 .. 2}
Wrapped(text) == <<60>> \o text \o <<62>>

Matched(text) == LET r == Gr!AcceptBytes(Gr!NewMatcher(CallGrammar), text) IN r.ok /\ Gr!IsComplete(r.m)
\* What the JSON writer makes of a call that conforms gets through.
ASSUME CallsPass == \A call \in Calls : IsCall(call) /\ Matched(Wrapped(J!WriteCompact(call)))

\* A text that gets through is such a call: every text one byte away from one is tried.
CallBytes == {32, 34, 44, 45, 48, 53, 58, 62, 91, 92, 93, 97, 98, 110, 117, 123, 125}
CallStates(text) == FoldLeft(LAMBDA s, b : Append(s, Gr!Step(Last(s), b).m), <<Gr!NewMatcher(CallGrammar)>>, text)
ASSUME OnlyCallsPass == \A call \in {c \in Calls : Len(c[2][2][2][2]) \in {0, 3}} :
    LET text == Wrapped(J!WriteCompact(call))
        states == CallStates(text)
    IN  \A p \in DOMAIN text, b \in CallBytes :
          LET first == Gr!Step(states[p], b)
              Passes(rest) == LET r == Gr!AcceptBytes(first.m, rest) IN r.ok /\ Gr!IsComplete(r.m)
              Right(rest) == Passes(rest) => LET all == SubSeq(text, 1, p - 1) \o <<b>> \o rest
                                                 parsed == J!Parse(SubSeq(all, 2, Len(all) - 1))
                                             IN  parsed.ok /\ IsCall(parsed.v)
          IN  first.ok => Right(SubSeq(text, p, Len(text))) /\ Right(SubSeq(text, p + 1, Len(text))) /\ Right(SubSeq(text, p + 2, Len(text)))

\* The decoder is never left without a byte to go on with.
GoesOn(m) == Gr!IsComplete(m) \/ \E b \in 32 .. 126 : Gr!Step(m, b).ok
ASSUME NeverStuck == \A call \in Calls : LET states == CallStates(Wrapped(J!WriteCompact(call))) IN
    \A p \in DOMAIN states : GoesOn(states[p]) /\ \A b \in CallBytes : LET r == Gr!Step(states[p], b) IN r.ok => GoesOn(r.m)

\* A string takes exactly the well-formed sequences of UTF-8.
Scalar(s) ==
    LET low(i) == s[i] - 128
    IN  CASE Len(s) = 1 -> s[1]
          [] Len(s) = 2 -> 64 * (s[1] - 192) + low(2)
          [] Len(s) = 3 -> 4096 * (s[1] - 224) + 64 * low(2) + low(3)
          [] Len(s) = 4 -> 262144 * (s[1] - 240) + 4096 * low(2) + 64 * low(3) + low(4)
WellFormed(s) ==
    LET least == <<32, 128, 2048, 65536>>
        lead == <<0 .. 127, 192 .. 223, 224 .. 239, 240 .. 247>>
    IN  /\ s[1] \in lead[Len(s)] /\ \A i \in 2 .. Len(s) : s[i] \in 128 .. 191
        /\ Scalar(s) >= least[Len(s)] /\ Scalar(s) <= 1114111 /\ Scalar(s) \notin 55296 .. 57343
Utf8Bytes == {65, 128, 143, 144, 159, 160, 191, 193, 194, 223, 224, 237, 239, 240, 243, 244, 245}
FreeString == Gr!Push([g |-> CallGrammar, frames |-> <<>>, done |-> FALSE, last |-> {}], [Gr!StringFrame(-1, {}) EXCEPT !.phase = "Content"])
ASSUME StringsAreUtf8 == \A s \in BoundedSeq(Utf8Bytes, 3) \cup {<<a>> \o t : a \in {240, 241, 244}, t \in [1 .. 3 -> Utf8Bytes]} :
    LET r == Gr!AcceptBytes(FreeString, s)
        \* One character and nothing left open.
        whole == r.ok /\ r.m.frames[1].need = 0 /\ r.m.frames[1].chars = 1
    IN  s # <<>> => (whole <=> WellFormed(s))

\* Where the matcher and the schema part: an array with maxItems 0 takes one item; a tool
\* whose properties are name and input has to write the suffix twice; an enum value that is
\* not ASCII can be begun and never ended.
EmptyArray == SchemaOf("array", <<<<"items", SchemaOf("integer", <<>>)>>, <<"maxItems", J!Num("int", 0)>>>>)
Small(node, bytes) == LET r == Gr!AcceptBytes([g |-> CallGrammar, frames |-> <<Gr!ValueFrame(node)>>, done |-> FALSE, last |-> {}], bytes) IN r.ok /\ r.m.frames = <<>>
NameInput == ObjectSchema(<<<<<<110, 97, 109, 101>>, Short>>, <<<<105, 110, 112, 117, 116>>, Short>>>>, <<>>)
NameInputGrammar == Gr!ToolCallGrammar(<<<<<<97>>, NameInput>>>>, <<>>, <<62>>).node
NameInputText == J!WriteCompact(CallOf(1, J!Obj(<<>>)))
ASSUME SchemasPartWays ==
    /\ Small(Gr!CompileSchema(EmptyArray).node, <<91, 53, 93>>) /\ ~Small(Gr!CompileSchema(EmptyArray).node, <<91, 53, 44, 53, 93>>)
    /\ LET r == Gr!AcceptBytes(Gr!NewMatcher(NameInputGrammar), NameInputText) IN ~r.ok
    /\ LET r == Gr!AcceptBytes(Gr!NewMatcher(NameInputGrammar), Front(NameInputText) \o <<62, 125, 62>>) IN r.ok /\ Gr!IsComplete(r.m)
    /\ LET node == Gr!CompileSchema(OneOf(<<<<195, 169>>>>)).node
           r == Gr!AcceptBytes([g |-> CallGrammar, frames |-> <<Gr!ValueFrame(node)>>, done |-> FALSE, last |-> {}], <<34, 195, 169>>)
       IN  r.ok /\ \A b \in 0 .. 255 : ~Gr!Step(r.m, b).ok

\* The mask of a vocabulary with whole words allows what the bytes allow, and the end token
\* only behind a complete call.
CallVocab == [bytes |-> <<<<60, 123>>, <<34, 110, 97, 109, 101, 34, 58>>, <<34, 97>>, <<34, 44>>, <<98, 34>>, <<>>, <<34>>, <<60>>>>, end |-> 6, special |-> {8}]
ASSUME MasksAreExact == \A call \in Calls : LET states == CallStates(Wrapped(J!WriteCompact(call))) IN
    \A p \in DOMAIN states : LET allowed == Gr!AllowedTokens(states[p], CallVocab) IN
        /\ \A id \in allowed \ {6} : Gr!AcceptToken(states[p], CallVocab, id).ok /\ (p = 1 => id = 1)
        /\ 6 \in allowed <=> p = Len(states)
        /\ 8 \notin allowed

\* Keywords the matcher cannot keep to are refused, wherever they stand.
ASSUME KeywordsAreRefused == \A k \in {"pattern", "minimum", "minItems", "const", "enum"} :
    LET inner == SchemaOf(CASE k = "minimum" -> "integer" [] k = "minItems" -> "array" [] OTHER -> "string", <<<<k, J!Num("int", 1)>>>>)
        r == Gr!ToolCallGrammar(<<<<<<97>>, ToolA>>, <<<<98>>, ObjectSchema(<<<<<<97>>, SchemaOf("array", <<<<"items", inner>>>>)>>>>, <<>>)>>>>, <<>>, <<>>)
    IN  IF k = "enum" THEN r.ok ELSE ~r.ok /\ r.kind = (IF k = "const" THEN "InvalidSchema" ELSE "UnsupportedKeyword")

-----------------------------------------------------------------------------
(* The offline model *)

Text8(c) == IF c < 128 THEN <<c>> ELSE <<192 + c \div 64, 128 + (c % 64)>>
RECURSIVE Sound8(_)
Sound8(s) == \/ s = <<>>
             \/ s[1] < 128 /\ Sound8(Tail(s))
             \/ Len(s) > 1 /\ s[1] \in 194 .. 223 /\ s[2] \in 128 .. 191 /\ Sound8(SubSeq(s, 3, Len(s)))
             \/ Len(s) > 2 /\ s[1] \in 225 .. 236 /\ s[2] \in 128 .. 191 /\ s[3] \in 128 .. 191 /\ Sound8(SubSeq(s, 4, Len(s)))
M == INSTANCE LocalModel WITH Alphabetic <- {97, 98, 101, 114, 115, 233}, Numeric <- {49, 50, 189}, White <- {10, 32},
     Utf8 <- Text8, IsUtf8 <- Sound8, BASE <- 16, W16 <- 1, W32 <- 1, W64 <- 1, HEADER_SIZE <- 3, ALIGN <- 2, BLOCK <- 2

\* Every byte has a character of its own, and none is a blank or a control character.
ASSUME BytesAreTold == \A a, b \in 0 .. 255 : (M!ByteToUnicode[a] = M!ByteToUnicode[b] => a = b) /\ M!ByteToUnicode[a] \notin (0 .. 32) \cup (127 .. 160)

\* The scanner splits a text the way the regular expression does: of the first alternative
\* that matches here the longest match.
AllIn(s, a, b, C) == \A i \in a .. b : s[i] \in C
OtherChars == {33, 39}
Alternatives(s) ==
    LET Run(C) == {n \in DOMAIN s : AllIn(s, 1, n, C) \/ (s[1] = 32 /\ n > 1 /\ AllIn(s, 2, n, C))}
        white == {n \in DOMAIN s : AllIn(s, 1, n, {10, 32})}
    IN  <<{n \in DOMAIN s : SubSeq(s, 1, n) \in {<<39, 115>>, <<39, 114, 101>>}}, Run({97, 101, 114, 115}), Run({49, 189}), Run(OtherChars),
          {n \in white : n = Len(s) \/ s[n + 1] \in {10, 32}}, white>>
RECURSIVE RegexSplit(_)
RegexSplit(s) ==
    IF s = <<>> THEN <<>>
    ELSE LET a == Alternatives(s)
             n == Max(a[SelectInSeq(a, LAMBDA m : m # {})])
         IN  <<SubSeq(s, 1, n)>> \o RegexSplit(SubSeq(s, n + 1, Len(s)))
ASSUME SplitIsTheRegex == \A s \in BoundedSeq({97, 49, 32, 10, 39, 115}, 5) \cup BoundedSeq({39, 114, 101, 32, 33}, 4) : M!Gpt2Split(s) = RegexSplit(s)

\* Lowest rank first is the same as one pass for each rank, from left to right, when a merge
\* joins what earlier ones have made.
Symbols(word) == [i \in DOMAIN word |-> <<word[i]>>]
RECURSIVE OnePass(_, _)
OnePass(pair, s) ==
    IF Len(s) < 2 THEN s
    ELSE IF <<s[1], s[2]>> = pair THEN <<s[1] \o s[2]>> \o OnePass(pair, SubSeq(s, 3, Len(s)))
    ELSE <<s[1]>> \o OnePass(pair, Tail(s))
MergeTables == {<<>>, <<<<<<97>>, <<98>>>>>>, <<<<<<97>>, <<97>>>>, <<<<97>>, <<98>>>>>>,
                <<<<<<97>>, <<98>>>>, <<<<97, 98>>, <<97>>>>, <<<<97, 98>>, <<97, 98>>>>>>,
                <<<<<<98>>, <<97>>>>, <<<<97>>, <<98, 97>>>>, <<<<98>>, <<98>>>>, <<<<98, 98>>, <<97, 98, 97>>>>>>}
ASSUME MergesAreOrdered == \A table \in MergeTables, word \in BoundedSeq({97, 98}, 7) :
    LET rank == [k \in ToSet(table) |-> SelectInSeq(table, LAMBDA p : p = k) - 1]
    IN  M!Merge([rank |-> rank], Symbols(word)) = FoldLeft(LAMBDA s, p : OnePass(p, s), Symbols(word), table)

\* A vocabulary with a token for every byte, a few merges, and two markers, one of which
\* begins the other.
TokenBytes == <<<<97>>, <<98>>, <<49>>, <<32>>, <<195>>, <<169>>, <<97, 98>>, <<32, 97>>, <<195, 169>>, <<49, 49>>, <<60>>, <<60, 97>>, <<60, 97, 98>>, <<10>>>>
TokenMerges == <<<<0, 1>>, <<3, 0>>, <<4, 5>>, <<2, 2>>, <<99, 0>>>>
Marker(id) == [id |-> id, content |-> TokenBytes[id + 1]]
Coder(isolate) == M!FromLoaderData(TokenBytes, TokenMerges, <<Marker(11), Marker(12)>>, isolate)
SampleTexts == BoundedSeq({97, 98, 49, 32, 233}, 4) \cup BoundedSeq({60, 97, 98}, 5)
RECURSIVE MarkersIn(_)
MarkersIn(s) == IF s = <<>> THEN <<>>
                ELSE IF M!StartsWith(s, <<60, 97, 98>>) THEN <<12>> \o MarkersIn(SubSeq(s, 4, Len(s)))
                ELSE IF M!StartsWith(s, <<60, 97>>) THEN <<11>> \o MarkersIn(SubSeq(s, 3, Len(s)))
                ELSE MarkersIn(Tail(s))
\* What is encoded decodes to the same bytes, markers are found leftmost and longest, and
\* an isolated digit is a token of its own.
ASSUME TextsReadBack == \A isolate \in BOOLEAN : LET coder == Coder(isolate) IN \A text \in SampleTexts :
    LET r == M!Encode(coder, text) IN
        /\ r.ok /\ M!Decode(coder, r.ids) = [ok |-> TRUE, bytes |-> M!Bytes(text)]
        /\ SelectSeq(r.ids, LAMBDA id : id \in {11, 12}) = MarkersIn(text)
        /\ isolate => 9 \notin ToSet(r.ids)

\* A turn of the prompt for every message and one to answer, unless a message holds a marker.
Content == BoundedSeq({60, 97, 98}, 3)
ASSUME TurnsAreTold == LET coder == Coder(FALSE) IN \A contents \in BoundedSeq(Content, 2) :
    LET messages == [i \in DOMAIN contents |-> [role |-> <<98>>, content |-> contents[i]]]
        ids == M!Encode(coder, M!Prompt(messages, <<60, 97, 98>>, <<60, 97>>, <<98>>)).ids
        starts == SelectSeq(ids, LAMBDA id : id = 12)
        plain == \A i \in DOMAIN contents : MarkersIn(contents[i] \o <<32>>) = <<>> /\ (contents[i] # <<>> => Last(contents[i]) # 60)
    IN  plain => Len(starts) = Len(messages) + 1 /\ Len(SelectSeq(ids, LAMBDA id : id = 11)) = Len(messages)

\* A streaming decoder holds back less than a character and loses nothing.
StreamBytes == <<<<97>>, <<195>>, <<169>>, <<226, 130>>, <<172, 97>>, <<255>>, <<>>>>
Streamer == M!FromLoaderData(StreamBytes, <<>>, <<>>, FALSE)
Streamed(ids) == FoldLeft(LAMBDA s, id : LET f == M!DecoderFeed(Streamer, s.buffer, id) IN [ok |-> s.ok /\ f.ok, buffer |-> f.buffer, out |-> s.out \o f.out], [ok |-> TRUE, buffer |-> <<>>, out |-> <<>>], ids)
ASSUME StreamsAreWhole == \A ids \in BoundedSeq(0 .. 6, 4) :
    LET s == Streamed(ids)
        all == M!Decode(Streamer, ids).bytes
    IN  /\ Sound8(all) <=> (s.ok /\ s.buffer = <<>> /\ M!DecoderFinish(s.buffer).ok)
        /\ s.ok => s.out \o s.buffer = all /\ Sound8(s.out) /\ Len(s.buffer) < 3
        /\ Sound8(all) => s.out = all

-----------------------------------------------------------------------------
\* The engine: its text as the caller sees it, asking `n` times or until it is done.
EngineConfig == [maxNewTokens |-> 3, stopIds |-> {5}, maxContext |-> 9]
RECURSIVE Answer(_, _, _, _)
Answer(e, budget, n, text) ==
    LET s == M!Step(e, budget) IN
    IF n = 0 THEN [text |-> text, reason |-> "none", e |-> e]
    ELSE IF s.step = "Done" THEN [text |-> text, reason |-> s.reason, e |-> s.e] ELSE Answer(s.e, budget, n - 1, text \o s.text)
EngineWith(draws, greedy, pos) == [M!NewEngine(Streamer, EngineConfig, draws, greedy) EXCEPT !.pos = pos]
Scripts == {s \o <<5, 5, 5, 5, 5>> : s \in BoundedSeq({0, 1, 2, 3, 5}, 4)}
Spoken(draws) == LET stop == SelectInSeq(draws, LAMBDA id : id = 5) IN SubSeq(draws, 1, IF stop <= 4 THEN stop - 1 ELSE 3)
\* Greedy: whatever the budget, the same text and the same end; at most max_new_tokens, and
\* when the tokens make text, all of it.
ASSUME BudgetsDoNotMatter == \A draws \in Scripts :
    LET one == Answer(EngineWith(draws, TRUE, 0), 1, 9, <<>>)
        said == M!Decode(Streamer, Spoken(draws)).bytes
    IN  /\ \A budget \in 2 .. 4 : LET other == Answer(EngineWith(draws, TRUE, 0), budget, 9, <<>>) IN other.text = one.text /\ other.reason = one.reason
        /\ one.reason = (IF Len(Spoken(draws)) = 3 THEN "MaxTokens" ELSE "EndOfTurn")
        /\ one.e.generated = Spoken(draws)
        /\ Sound8(said) => one.text = said
\* Drawn at random, a turn that ended in the middle of a step is taken up again by the next.
ASSUME EndsCanBePassed ==
    LET draws == <<0, 5, 0, 5, 5, 5>> IN
        /\ Answer(EngineWith(draws, FALSE, 0), 1, 9, <<>>).text = <<97>>
        /\ Answer(EngineWith(draws, FALSE, 0), 2, 9, <<>>).text = <<97, 97>>
\* A byte that starts no character holds back all text behind it, to the end.
ASSUME WrongBytesBlock == \A before, after \in BoundedSeq({0}, 1) :
    Answer([EngineWith(before \o <<2>> \o after \o <<5, 5, 5, 5>>, TRUE, 0) EXCEPT !.config.maxNewTokens = 9], 1, 9, <<>>).text = M!Decode(Streamer, before).bytes
\* At the end of the context, and when no token can be drawn, the engine says nothing for ever.
ASSUME SilenceHasNoEnd == \A n \in 1 .. 3, budget \in 0 .. 2 :
    /\ LET a == Answer(EngineWith(<<0, 0, 0, 0>>, TRUE, 9), budget, n, <<>>) IN a.reason = "none" /\ a.text = <<>>
    /\ LET a == Answer(EngineWith(<<-1, -1, -1, -1>>, TRUE, 0), budget, n, <<>>) IN a.reason = "none" /\ a.text = <<>>
\* start() resets nothing: a second turn begins with the tokens of the first already spent.
ASSUME SecondTurns == \A draws \in {s \in Scripts : 1 \notin ToSet(s)} :
    LET first == Answer(EngineWith(draws, TRUE, 0), 1, 9, <<>>).e
        again == M!Start(first, <<97>>)
        second == M!Step(again.e, 1)
    IN  /\ again.ok /\ again.e.pos = first.pos + 1
        /\ Len(first.generated) = 3 => second.step = "Done" /\ second.reason = "MaxTokens"
        /\ ~M!Start(first, <<97, 97, 97, 97, 97, 97, 97, 97, 97, 97>>).ok
        /\ M!Step(M!Cancel(again.e), 1).reason = "Cancelled"

\* Without stop tokens of its own an engine stops at the end marker, and needs one.
ASSUME StopsAreSet == LET none == [stopIds |-> {}] IN
    /\ M!WithStops(Coder(FALSE), none, <<60, 97>>) = [ok |-> TRUE, config |-> [stopIds |-> {11}]]
    /\ M!WithStops(Coder(FALSE), [stopIds |-> {3}], <<60, 97>>).config.stopIds = {3}
    /\ ~M!WithStops(Coder(FALSE), none, <<33>>).ok

-----------------------------------------------------------------------------
\* Tokens that a draw may return are finite, allowed, and no worse than any that it leaves.
Logits3 == [1 .. 3 -> {<<"finite", n>> : n \in {-8, 0, 8, 16}} \cup {<<"nan">>, <<"inf">>}]
Power == [n \in -32 .. 32 |-> 2 ^ ((n + 32) \div 4)]
SampleParams == {[temperature |-> t, topK |-> k, topP |-> p, penalty |-> c] : t \in {0, 2}, k \in 0 .. 2, p \in {<<0, 4>>, <<3, 4>>, <<4, 4>>}, c \in {1, 2}}
ASSUME DrawsAreBest == \A logits \in Logits3, p \in SampleParams : \A allowed \in {0 .. 2, {0, 2}}, recent \in {<<>>, <<0>>, <<0, 0, 1>>} :
    LET got == M!Sample(logits, allowed, recent, p, Power)
        usable == {id \in allowed : logits[id + 1][1] = "finite"}
        L(id) == M!Logit(logits, recent, p.penalty, id)
    IN  /\ got \subseteq usable /\ (got = {} <=> usable = {})
        /\ \A a \in got, b \in usable \ got : L(a) > L(b) \/ (L(a) = L(b) /\ a < b)
        /\ p.topK > 0 => Cardinality(got) <= p.topK
        /\ p.topP[1] = 0 => Cardinality(got) <= 1
        /\ p.temperature = 0 /\ p.topK = 0 /\ p.topP = <<4, 4>> => Cardinality(got) <= 1
\* Temperature 0 is not greedy once top_k or top_p is set.
ASSUME ZeroCanBeRandom == M!Sample([i \in 1 .. 3 |-> <<"finite", 8 * i>>], 0 .. 2, <<>>, [temperature |-> 0, topK |-> 2, topP |-> <<4, 4>>, penalty |-> 1], Power) = {1, 2}

-----------------------------------------------------------------------------
\* A model file, written.
Counted(items) == <<Len(items)>> \o FlattenSeq(items)
TensorText(t) == <<Len(t.name)>> \o t.name \o <<t.dtype, Len(t.shape)>> \o t.shape \o <<t.offset, t.elements>>
ModelFile(vocab, merges, added, tensors, magic) ==
    LET head == <<magic, 1, Len(vocab)>> \o Counted([i \in DOMAIN vocab |-> <<Len(vocab[i])>> \o vocab[i]]) \o Counted(merges)
                \o Counted([i \in DOMAIN added |-> <<added[i][1], Len(added[i][2])>> \o added[i][2]])
    IN  head \o Counted([i \in DOMAIN tensors |-> TensorText(tensors[i])]) \o <<Len(head)>>
OtmTensors == {[name |-> n, dtype |-> d, shape |-> s, offset |-> o, elements |-> e] : n \in {<<>>, <<7>>}, d \in 0 .. 2, s \in {<<>>, <<2>>}, o \in 0 .. 15, e \in {0, 1, 2, 4, 14, 15}}
TensorBytes(t) == IF t.dtype = 1 THEN 3 * ((t.elements + 1) \div 2) ELSE t.elements
\* A file whose tensors are aligned and inside is read as it was written; no other is read.
ASSUME ModelsReadBack == \A t \in OtmTensors, vocab \in {<<>>, <<<<5>>>>}, merges \in {<<>>, <<<<3, 4>>>>}, added \in {<<>>, <<<<9, <<6>>>>>>}, magic \in {1, 2} :
    LET f == ModelFile(vocab, merges, added, <<t>>, magic)
        r == M!Load(f)
        good == t.dtype < 2 /\ t.offset % 2 = 0 /\ t.offset + TensorBytes(t) <= Len(f)
        view == r.tensors[1]
    IN  Len(f) <= 15 =>
        /\ r.err = "" <=> (magic = 1 /\ good /\ ~(t.dtype = 1 /\ t.elements = 15))
        /\ r.err = "" => /\ r.vocab = vocab /\ r.merges = merges /\ r.added = added /\ Len(r.tensors) = 1
                         /\ view.name = t.name /\ view.shape = t.shape /\ view.elements = t.elements
                         /\ view.data = SubSeq(f, t.offset + 1, t.offset + TensorBytes(t))
        /\ r.err = "panic" <=> (magic = 1 /\ t.dtype = 1 /\ t.elements = 15 /\ t.offset % 2 = 0)
\* However a file is cut short or overwritten, what is read lies inside of it.
DamagedFiles == LET f == ModelFile(<<<<5>>>>, <<>>, <<>>, <<[name |-> <<>>, dtype |-> 0, shape |-> <<>>, offset |-> 2, elements |-> 3]>>, 1)
                IN  {SubSeq(f, 1, n) : n \in 0 .. Len(f)} \cup {[f EXCEPT ![i] = x, ![j] = y] : i, j \in DOMAIN f, x \in {0, 1, 3, 15}, y \in {0, 2, 9}}
ASSUME DamageIsSeen == \A f \in DamagedFiles : LET r == M!Load(f) IN r.err = "" =>
    /\ Len(r.vocab) = f[3] /\ f[1] = 1
    /\ \A i \in DOMAIN r.tensors : LET t == r.tensors[i] IN t.offset % 2 = 0 /\ t.offset + Len(t.data) <= Len(f) /\ Len(t.data) = TensorBytes(t)

\* A model whose tensors have their sizes is never read past their ends; every head has its
\* own keys exactly when the heads share them evenly.
ModelPart(t, name, n) == [name |-> <<t, name>>, dtype |-> 0, bytes |-> n]
Sizes(m) == LET kv == m.nKvHeads * m.headDim * m.dim IN
    <<ModelPart(0, "embed_tokens", m.vocabSize * m.dim), ModelPart(0, "norm", m.dim), ModelPart(1, "input_layernorm", m.dim), ModelPart(1, "post_attention_layernorm", m.dim),
      ModelPart(1, "q_proj", m.dim * m.dim), ModelPart(1, "k_proj", kv), ModelPart(1, "v_proj", kv), ModelPart(1, "o_proj", m.dim * m.dim),
      ModelPart(1, "gate_proj", m.hiddenDim * m.dim), ModelPart(1, "up_proj", m.hiddenDim * m.dim), ModelPart(1, "down_proj", m.dim * m.hiddenDim)>>
ModelOf(heads, kvHeads, size, dim) ==
    LET m == [vocabSize |-> 3, dim |-> dim, nLayers |-> 1, nHeads |-> heads, nKvHeads |-> kvHeads, headDim |-> size, hiddenDim |-> 2, maxContext |-> 2] IN m @@ [tensors |-> Sizes(m)]
ASSUME ModelsAreFed == \A heads \in 1 .. 5, kvHeads \in 0 .. 5, size \in 1 .. 2, dim \in 1 .. 6 :
    LET m == ModelOf(heads, kvHeads, size, dim)
        even == kvHeads > 0 /\ heads >= kvHeads /\ heads % kvHeads = 0
        fits == heads * size <= dim
    IN  /\ even /\ fits => \A tok \in 0 .. 2 : M!SessionFeed(m, 0, tok) = "ok" /\ M!SessionFeed(m, 1, tok) = "ok" /\ M!SessionFeed(m, 2, tok) = "ctx"
        /\ even => \A h \in 0 .. heads - 1 : M!KvHead(m, h) < kvHeads
        \* An uneven share reads the keys of the next position, past the cache at the last.
        /\ kvHeads > 0 /\ heads > kvHeads /\ heads % kvHeads # 0 =>
              /\ \E h \in 0 .. heads - 1 : M!KvHead(m, h) >= kvHeads
              /\ M!SessionFeed(m, 1, 0) = "panic"
        /\ ~fits => M!SessionFeed(m, 0, 0) = "panic"
        /\ even /\ fits => /\ M!SessionFeed(m, 0, 3) = "panic"
                           /\ \A i \in DOMAIN m.tensors :
                                /\ M!SessionFeed([m EXCEPT !.tensors = RemoveAt(@, i)], 0, 0) = "missing"
                                /\ M!SessionFeed([m EXCEPT !.tensors[i].bytes = @ - 1], 0, 0) = "panic"

-----------------------------------------------------------------------------
(* Boot and program loading *)

Ascii(s) == \A i \in DOMAIN s : s[i] < 128
B == INSTANCE Boot WITH PAGE <- 4, ADDR_MAX <- 1023, CEILING <- 600, SEGMENT_LOW <- 8, SEGMENT_HIGH <- 24, EHDR_SIZE <- 2, PHDR_SIZE <- 2,
     STACK_TOP <- 600, STACK_MAPPED <- 48, WORD <- 2, STACK_ALIGN <- 4, RANDOM_BYTES <- 2, IsUtf8 <- Ascii,
     BLOCK <- 16, NAME <- <<0, 4>>, SIZE <- <<4, 6>>, CHECKSUM <- <<6, 10>>, TYPE <- 10, PREFIX <- <<11, 15>>,
     HEADER_LEN <- 4, MAX_TABLE <- 12, HHDM_END <- 39, CAP_LOW <- 2, CAP_END <- 7, NO_BUS <- 9

EmptySpace(free) == [pages |-> <<>>, mem |-> <<>>, free |-> free]
Segment(type, w, x, vaddr, filesz, memsz) == [type |-> type, w |-> w, x |-> x, offset |-> 3, vaddr |-> vaddr, filesz |-> filesz, memsz |-> memsz]
Program(phdrs, entry) ==
    [magic |-> "ELF", class |-> 64, data |-> "LSB", version |-> 1, type |-> "EXEC", machine |-> "X86_64", entry |-> entry, phoff |-> 2, phentsize |-> 2, phnum |-> Len(phdrs),
     phdrs |-> phdrs, bytes |-> [i \in 1 .. 10 |-> 100 + i]]
Segments == {Segment("LOAD", w, x, v, f, m) : w, x \in BOOLEAN, v \in {7, 8, 10, 12, 17, 23}, f \in {0, 2, 7, 8}, m \in {0, 2, 7, 8}}
Programs == {Program(<<s>>, e) : s \in Segments, e \in {8, 13}}
    \cup {Program(<<s, t>>, 9) : s \in {Segment("LOAD", FALSE, TRUE, 8, 2, m) : m \in {2, 6}}, t \in Segments}
    \cup {Program(<<Segment(k, TRUE, TRUE, v, 0, m), Segment("LOAD", FALSE, TRUE, 8, 2, 2)>>, 8) : k \in {"NOTE", "TLS", "INTERP", "DYNAMIC"}, v \in {0, 1020}, m \in {0, 3, 4, 9}}
\* A program is taken exactly when its segments are sound and their pages apart, and then
\* memory is the file's bytes with zeros around them; no page is writable and executable.
Pages(s) == {p \in 0 .. 300 : \E a \in s.vaddr .. s.vaddr + s.memsz : 4 * p <= a /\ a < 4 * p + 4 /\ (a = s.vaddr + s.memsz => a % 4 # 0)}
\* A segment without pages must not lie between the pages of another either.
Pierces(s, t) == Pages(s) = {} /\ {s.vaddr \div 4 - 1, s.vaddr \div 4} \subseteq Pages(t)
SoundSegment(s) == s.filesz <= s.memsz /\ ~(s.w /\ s.x) /\ s.vaddr >= 8 /\ s.vaddr + s.memsz <= 24 /\ 3 + s.filesz <= 10
Loads(f) == {i \in DOMAIN f.phdrs : f.phdrs[i].type = "LOAD"}
SoundProgram(f) ==
    /\ \A i \in DOMAIN f.phdrs : f.phdrs[i].type \in {"LOAD", "NOTE"} /\ f.phdrs[i].vaddr + f.phdrs[i].memsz <= 1020
    /\ \A i \in Loads(f) : SoundSegment(f.phdrs[i])
    /\ \A i, j \in Loads(f) : i # j => Pages(f.phdrs[i]) \cap Pages(f.phdrs[j]) = {} /\ ~Pierces(f.phdrs[i], f.phdrs[j])
    /\ \E i \in Loads(f) : f.phdrs[i].x /\ f.phdrs[i].vaddr <= f.entry /\ f.entry < f.phdrs[i].vaddr + f.phdrs[i].memsz
ASSUME ProgramsAreLoaded == \A f \in Programs : LET r == B!LoadElf(EmptySpace(9), f) IN
    /\ r.err = "" <=> SoundProgram(f)
    /\ r.err # "" => r.space = EmptySpace(9)
    /\ r.err = "" => /\ DOMAIN r.space.pages = UNION {{4 * p : p \in Pages(f.phdrs[i])} : i \in Loads(f)}
                     /\ \A p \in DOMAIN r.space.pages : ~(r.space.pages[p].w /\ r.space.pages[p].x) /\ p \in 8 .. 20
                     /\ r.space.free = 9 - Cardinality(DOMAIN r.space.pages)
                     /\ \A a \in DOMAIN r.space.mem : r.space.mem[a] =
                            LET at == {i \in Loads(f) : a \in f.phdrs[i].vaddr .. f.phdrs[i].vaddr + f.phdrs[i].filesz - 1}
                            IN  IF at = {} THEN 0 ELSE 103 + a - f.phdrs[Max(at)].vaddr + 1
\* Without frames the loader stops in the middle and leaves what it has mapped to the caller.
ASSUME LoadsCanStop == \A f \in Programs, free \in 0 .. 2 : LET r == B!LoadElf(EmptySpace(free), f) IN
    r.err = "OutOfMemory" <=> (SoundProgram(f) /\ r.space.free = 0 /\ Cardinality(DOMAIN r.space.pages) = free
                               /\ Cardinality(UNION {Pages(f.phdrs[i]) : i \in Loads(f)}) > free)
\* Headers are refused in the order of their fields, before anything else.
GoodProgram == Program(<<Segment("LOAD", FALSE, TRUE, 8, 2, 2)>>, 8)
ASSUME HeadersAreOrdered ==
    LET bad == <<[GoodProgram EXCEPT !.bytes = <<1>>], [GoodProgram EXCEPT !.magic = "x"], [GoodProgram EXCEPT !.class = 32], [GoodProgram EXCEPT !.data = "MSB"],
                 [GoodProgram EXCEPT !.version = 0], [GoodProgram EXCEPT !.type = "DYN"], [GoodProgram EXCEPT !.machine = "ARM"], [GoodProgram EXCEPT !.phentsize = 1],
                 [GoodProgram EXCEPT !.phoff = 9]>>
        errors == <<"TooShort", "BadMagic", "WrongClass", "WrongEndian", "WrongVersion", "WrongType", "WrongMachine", "TruncatedProgramHeaders", "TruncatedProgramHeaders">>
    IN  \A i \in DOMAIN bad : B!LoadElf(EmptySpace(9), bad[i]).err = errors[i]

\* The runtime finds the arguments the kernel put on the stack; those that are too long are
\* refused, and the stack pointer is aligned and below everything written.
Argvs == {a \in BoundedSeq(BoundedSeq({97, 98}, 2) \cup {<<97, 97, 97, 97, 97, 97>>, <<97, 200>>}, 3) : TRUE}
ASSUME ArgumentsArrive == \A argv \in Argvs, free \in {11, 12} :
    LET r == B!BuildInitialStack(EmptySpace(free), 13, argv, <<7, 8>>)
        size == 2 * (Len(argv) + 11) + Len(FlattenSeq(argv)) + Len(argv) + 2
        image == B!BuildImage(13, argv, <<7, 8>>).bytes
    IN  /\ r.err = (IF free < 12 THEN "OutOfMemory" ELSE IF size > 48 THEN "ArgsTooLarge" ELSE "")
        /\ r.err = "" => /\ r.rsp % 4 = 0 /\ r.rsp >= 552 /\ B!STACK_LOW = 552 /\ r.rsp + Len(image) = 600
                         /\ B!RtMain(r.space.mem, r.rsp) = [i \in DOMAIN argv |-> IF Ascii(argv[i]) THEN argv[i] ELSE <<>>]
                         /\ \A p \in DOMAIN r.space.pages : r.space.pages[p].w /\ ~r.space.pages[p].x
                         \* auxv: the entry point and the random bytes.
                         /\ LET aux == r.rsp + 2 * (Len(argv) + 3) IN
                              /\ B!WordAt(r.space.mem, aux + 4) = 9 /\ B!WordAt(r.space.mem, aux + 6) = 13
                              /\ r.space.mem[B!WordAt(r.space.mem, aux + 10)] = 7 /\ r.space.mem[B!WordAt(r.space.mem, aux + 10) + 1] = 8
                              /\ B!WordAt(r.space.mem, aux + 12) = 0

\* Copies: everything in range or nothing at all.
UserPages == {8, 12, 20, 596, 600}
UserMem(x) == [pages |-> [p \in UserPages |-> [w |-> p # 12, x |-> FALSE, user |-> p # 20]], free |-> 0,
               mem |-> [a \in UNION {p .. p + 3 : p \in UserPages} |-> IF a \in {10, 15, 597} THEN 0 ELSE IF a = 14 THEN x ELSE 65]]
Reach(p, n, pages) == \A a \in p .. p + n - 1 : \E q \in pages : a \in q .. q + 3
ASSUME CopiesAreWhole == \A p \in (5 .. 24) \cup (594 .. 601) \cup {1023}, n \in 0 .. 6 :
    LET space == UserMem(65)
        from == B!CopyFromUser(space, p, n)
        to == B!CopyToUser(space, p, [i \in 1 .. n |-> 90])
        after == B!CopyFromUser(to.space, p, n)
    IN  /\ from.ok <=> Reach(p, n, {8, 12, 596})
        /\ to.ok <=> Reach(p, n, {8, 596}) /\ (to.ok <=> B!ValidateWritable(space, p, n))
        /\ ~to.ok => to.space = space
        /\ to.ok => after.bytes = [i \in 1 .. n |-> 90] /\ DOMAIN to.space.mem = DOMAIN space.mem
        /\ \A a \in DOMAIN space.mem : a \notin p .. p + n - 1 => to.space.mem[a] = space.mem[a]
ASSUME StringsEnd == \A p \in 5 .. 24, max \in 0 .. 6, x \in {65, 200} :
    LET space == UserMem(x)
        s == B!UserStr(space, p, max)
        ends == {n \in 0 .. max - 1 : Reach(p, n + 1, {8, 12}) /\ space.mem[p + n] = 0}
        text == [i \in 1 .. Min(ends) |-> space.mem[p + i - 1]]
    IN  s.ok <=> ends # {} /\ Ascii(text) /\ (s.ok => s.text = text)

-----------------------------------------------------------------------------
\* Archives, written.
Octal(n, width) == [i \in 1 .. width |-> 48 + ((n \div 8 ^ (width - i)) % 8)]
Pad(s, width) == s \o [i \in 1 .. width - Len(s) |-> 0]
TarHeader(f) ==
    LET h == Pad(f.name, 4) \o Octal(Len(f.data), 2) \o <<32, 32, 32, 32>> \o <<f.type>> \o Pad(f.prefix, 4) \o <<0>>
        total == FoldLeft(LAMBDA a, b : a + b, 0, h)
    IN  SubSeq(h, 1, 6) \o Octal(total, 4) \o SubSeq(h, 11, 16)
Zeros(n) == [i \in 1 .. n |-> 0]
Tar(files, blocks) == FlattenSeq([i \in DOMAIN files |-> TarHeader(files[i]) \o files[i].data \o Zeros((16 - (Len(files[i].data) % 16)) % 16)]) \o Zeros(16 * blocks)
TarFiles == {[name |-> n, prefix |-> p, type |-> t, data |-> d] : n \in {<<>>, <<97>>, <<46, 46>>, <<47, 97>>, <<97, 46, 46, 98>>, <<98, 47, 46, 46>>, <<200>>}, p \in {<<>>, <<98>>, <<46, 46>>}, t \in {48, 0, 53},
             d \in {<<>>, <<1>>, [i \in 1 .. 16 |-> i], [i \in 1 .. 17 |-> 0]}}
PathOf(f) == LET name == IF Ascii(f.name) THEN f.name ELSE <<>> IN IF f.prefix = <<>> THEN name ELSE f.prefix \o <<47>> \o name
\* ".." as a component: at the start, at the end or between slashes.
Climbs(path) == \E i \in 1 .. Len(path) - 1 : /\ SubSeq(path, i, i + 1) = <<46, 46>>
                                              /\ i = 1 \/ path[i - 1] = 47
                                              /\ i + 1 = Len(path) \/ path[i + 2] = 47
SafePath(path) == (path = <<>> \/ path[1] # 47) /\ ~Climbs(path)
\* Archives are read as they were written, or refused for a path that leads out of them.
ASSUME ArchivesReadBack == \A f \in TarFiles, blocks \in 0 .. 2 : \A g \in {[name |-> <<97>>, prefix |-> <<>>, type |-> t, data |-> <<9>>] : t \in {48, 53}} :
    LET r == B!ParseArchive(Tar(<<f, g>>, blocks))
        kept == SelectSeq(<<f, g>>, LAMBDA x : x.type # 53)
    IN  IF f.type # 53 /\ ~SafePath(PathOf(f)) THEN r = B!BadArchive("UnsafePath")
        ELSE r = B!Unpacked([i \in DOMAIN kept |-> [path |-> PathOf(kept[i]), data |-> kept[i].data]])
\* A shortened archive loses files from its end or is refused; a changed header is refused.
TwoFiles == <<[name |-> <<97>>, prefix |-> <<>>, type |-> 48, data |-> <<1, 2>>], [name |-> <<97>>, prefix |-> <<>>, type |-> 48, data |-> [i \in 1 .. 17 |-> 3]]>>
ASSUME CutArchives == LET whole == B!ParseArchive(Tar(TwoFiles, 1)) IN \A n \in 0 .. Len(Tar(TwoFiles, 1)) :
    LET r == B!ParseArchive(SubSeq(Tar(TwoFiles, 1), 1, n)) IN
        /\ r.err \in {"", "Truncated"}
        /\ r.err = "" => IsPrefix(r.files, whole.files) /\ Len(r.files) = (IF n >= 65 THEN 2 ELSE IF n >= 18 THEN 1 ELSE 0)
ASSUME ChangesAreSeen == \A i \in 1 .. 16, x \in {0, 32, 48, 55, 56, 97} :
    LET t == Tar(TwoFiles, 1)
        r == B!ParseArchive([t EXCEPT ![i] = x])
    IN  x # t[i] => r.err = "BadChecksum" \/ (i \in 7 .. 10 /\ r = B!ParseArchive(t))
ASSUME FirstFileOpens == LET files == B!ParseArchive(Tar(TwoFiles, 1)).files IN
    /\ \A slashes \in 0 .. 2 : B!Open(files, [i \in 1 .. slashes |-> 47] \o <<97>>) = [ok |-> TRUE, data |-> <<1, 2>>]
    /\ ~B!Open(files, <<97, 47>>).ok
    /\ B!Initramfs(<<[cmdline |-> "x", data |-> <<>>], [cmdline |-> "initramfs", data |-> Tar(TwoFiles, 1)]>>) = [present |-> TRUE, files |-> files]
    /\ ~B!Initramfs(<<[cmdline |-> "initramfs", data |-> SubSeq(Tar(TwoFiles, 1), 1, 17)], [cmdline |-> "initramfs", data |-> Tar(TwoFiles, 1)]>>).present
ASSUME OctalsAreRead == \A f \in BoundedSeq({0, 32, 48, 49, 55, 56}, 4) :
    LET blank == {0, 32}
        spans == {<<a, b>> \in (1 .. Len(f) + 1) \X (0 .. Len(f)) : b >= a - 1 /\ (\A i \in 1 .. a - 1 : f[i] \in blank) /\ (\A i \in a .. b : f[i] \in 48 .. 55)
                                                                   /\ (b = Len(f) \/ (f[b + 1] \in blank /\ b >= a))}
        Digits(ab) == FoldLeft(LAMBDA n, c : 8 * n + c - 48, 0, SubSeq(f, ab[1], ab[2]))
    IN  B!ParseOctal(f) = (IF spans = {} THEN -1 ELSE LET v == Digits(CHOOSE s \in spans : \A t \in spans : s[1] <= t[1]) IN IF v > 1023 THEN -1 ELSE v)

-----------------------------------------------------------------------------
\* Firmware tables, written: a table with a checksum that is right, or off by one.
Summed(bytes, at, wrong) == [bytes EXCEPT ![at] = (512 + wrong - FoldLeft(LAMBDA a, b : a + b, 0, bytes)) % 256]
Table(signature, revision, body, wrong) == Summed(<<signature, 4 + Len(body), revision, 0>> \o body, 4, wrong)
Pointer(revision, root, wrong) == LET v1 == Summed(<<82, revision, root, 0>>, 4, wrong[1]) IN v1 \o Summed(<<root, 0>>, 2, wrong[2])
\* A machine: the pointer, the root at 6, one table at 16 and one at 28.
Firmware(pointer, root, one, two) == Pad(pointer, 6) \o Pad(root, 10) \o Pad(one, 12) \o Pad(two, 12)
RootTable(revision, addresses, wrong) == Table(88, 1, IF revision >= 2 THEN FlattenSeq([i \in DOMAIN addresses |-> <<addresses[i], 0>>]) ELSE addresses, wrong)
Madt(lapic, wrong) == Table(65, 1, <<lapic, 0, 0, 5, 1, 2, 1>>, wrong)
ShortMadt == Table(65, 1, <<7>>, 0)
LongMadt == Table(65, 1, <<9, 0, 0, 5, 1, 2, 1, 0>>, 0)
\* Tables that are damaged, reach past what is mapped, or that no root lists, count for nothing; of two the later counts,
\* also when it is too short to be read; without a MADT the machine does not start.
ASSUME TablesAreFound == \A revision \in {1, 2}, wrong \in {<<0, 0>>, <<1, 0>>, <<0, 1>>}, rootWrong, oneWrong \in {0, 1}, addresses \in {<<>>, <<16>>, <<28>>, <<16, 28>>, <<28, 16>>, <<39>>, <<16, 200>>}, two \in {Madt(9, 0), ShortMadt, LongMadt, Table(72, 1, <<1, 2, 3>>, 0)} :
    LET mem == Firmware(Pointer(revision, 6, wrong), RootTable(revision, addresses, rootWrong), Madt(8, oneWrong), two)
        r == B!AcpiInit(mem, 0)
        rooted == wrong[1] = 0 /\ (revision >= 2 => wrong[2] = 0) /\ rootWrong = 0
        madts == SelectSeq(addresses, LAMBDA a : (a = 16 /\ oneWrong = 0) \/ (a = 28 /\ two[1] = 65 /\ two # LongMadt))
    IN  /\ r.some <=> rooted /\ madts # <<>> /\ ~(Last(madts) = 28 /\ two = ShortMadt)
        /\ r.some => /\ r.value.madt.value.lapic = (IF Last(madts) = 16 THEN 8 ELSE 9)
                     /\ r.value.madt.value.cpus = <<[processor |-> 1, apic |-> 2, enabled |-> TRUE]>>
                     /\ r.value.hpet = (IF 28 \in ToSet(addresses) /\ two[1] = 72 THEN B!Some(3) ELSE B!None)
\* The walk over a MADT never leaves it, and finds the entries that were written.
MadtEntries == {<<0, 5, 3, 4, 1>>, <<0, 5, 3, 4, 2>>, <<0, 4, 3, 4>>, <<1, 6, 7, 0, 50, 16>>, <<2, 6, 0, 4, 20, 13>>, <<2, 7, 0, 9, 9, 15, 0>>, <<4, 3, 0>>, <<5, 5, 0, 0, 99>>, <<9, 2>>}
BadTails == {<<>>, <<0>>, <<0, 0, 3, 4, 1>>, <<0, 1>>, <<0, 9, 3, 4, 1>>, <<1, 255>>}
ASSUME EntriesAreWalked == \A entries \in BoundedSeq(MadtEntries, 3), tail \in BadTails :
    LET m == B!ParseMadt([body |-> <<60, 0>> \o FlattenSeq(entries) \o tail]).value
        Of(kind, n) == SelectSeq(entries, LAMBDA e : e[1] = kind /\ Len(e) >= n)
        lapics == Of(5, 5)
    IN  /\ m.cpus = [i \in DOMAIN Of(0, 5) |-> [processor |-> 3, apic |-> 4, enabled |-> Of(0, 5)[i][5] = 1]]
        /\ Len(m.ioapics) = Len(Of(1, 6)) /\ Len(m.overrides) = Len(Of(2, 6))
        /\ m.lapic = (IF lapics = <<>> THEN 60 ELSE 99)
\* Every setting of a line is told, reserved ones like the bus; ISA settles the rest.
ASSUME LinesAreSettled == \A flags \in 0 .. 15 :
    LET p == B!PolarityFromFlags(flags)
        t == B!TriggerFromFlags(flags)
    IN  /\ B!PolarityForIsa(p) = (IF flags % 4 = 3 THEN "ActiveLow" ELSE "ActiveHigh")
        /\ B!TriggerForIsa(t) = (IF flags >= 12 THEN "Level" ELSE "Edge")
\* Optional fields exist from a revision and a length on.
ASSUME FieldsAreOptional == \A n \in 0 .. 9, revision \in 0 .. 3 :
    LET t == [revision |-> revision, body |-> [i \in 1 .. n |-> i]] IN
        /\ B!BootArchFlags(t).some <=> revision >= 2 /\ n >= 4
        /\ B!ParseHpet(t).some <=> n >= 3
        /\ B!ParseMcfg(t) = (IF n = 0 THEN B!None ELSE B!Some(IF n < 5 THEN <<>> ELSE IF n < 9 THEN <<[base |-> 2, segment |-> 3, first |-> 4, last |-> 5]>>
                             ELSE <<[base |-> 2, segment |-> 3, first |-> 4, last |-> 5], [base |-> 6, segment |-> 7, first |-> 8, last |-> 9]>>))

-----------------------------------------------------------------------------
\* Machines of three buses with a bridge from bus 0 and one from bus 1.
Device(multi, secondary) == [multi |-> multi, secondary |-> secondary]
Machines == {[bdf \in {<<0, 0, 0>>, <<0, 0, 3>>, <<0, 31, 0>>, <<1, 5, 0>>, <<2, 7, 0>>, <<2, 8, 1>>} |->
              CASE bdf = <<0, 0, 0>> -> Device(multi, -1) [] bdf = <<0, 31, 0>> -> Device(FALSE, a) [] bdf = <<1, 5, 0>> -> Device(FALSE, b) [] OTHER -> Device(FALSE, -1)] :
             multi \in BOOLEAN, a, b \in {-1, 0, 1, 2, 9}}
Repeated(s, x) == Len(SelectSeq(s, LAMBDA y : y = x))
Answers(m) == {<<0, 0, 0>>, <<0, 31, 0>>, <<1, 5, 0>>, <<2, 7, 0>>} \cup (IF m[<<0, 0, 0>>].multi THEN {<<0, 0, 3>>} ELSE {})
\* The ways from a bus that is scanned to the bus of a device.
Ways(a, b, bus) == CASE bus = 0 -> 1 [] bus = 1 -> IF a = 1 THEN 2 ELSE 1
                     [] bus = 2 -> 1 + (IF a = 2 THEN 1 ELSE 0) + (IF b = 2 THEN (IF a = 1 THEN 2 ELSE 1) ELSE 0)
\* A scan of all buses finds every device that answers, once for every way that leads to
\* its bus, behind bridges several times; it ends unless bridges form a circle.
ASSUME DevicesAreFound == \A m \in Machines :
    LET a == m[<<0, 31, 0>>].secondary
        b == m[<<1, 5, 0>>].secondary
        r == B!ScanSegment(m, 0, 2, 9)
    IN  /\ r.ends <=> ~(a = 0 \/ b = 1 \/ (a = 1 /\ b = 0))
        /\ r.ends /\ ~(b = 0) => /\ ToSet(r.found) = Answers(m)
                                /\ \A d \in Answers(m) : Repeated(r.found, d) = Ways(a, b, d[1])
\* No two functions have the same place in the configuration window, and none reaches into another's.
ASSUME WindowsAreApart == \A x, y \in {0, 1, 255} \X {0, 1, 31} \X {0, 1, 7} : x # y => B!EcamOffset(x) - B!EcamOffset(y) \notin -4095 .. 4095

\* Base addresses: one for every register that is not empty, reserved or an upper half.
RawBars == {0, 1, 21, 16, 20, 22, 52, 54}
ASSUME BarsAreDecoded == \A raw \in [1 .. 3 -> RawBars] :
    LET bars == B!DecodeBars(raw, 100)
        Wide(i) == i < 3 /\ raw[i] % 8 = 4
        upper == IF Wide(1) THEN {2} ELSE IF Wide(2) THEN {3} ELSE {}
        kept == {i \in (1 .. 3) \ upper : raw[i] # 0 /\ (raw[i] % 2 = 1 \/ raw[i] % 8 = 0 \/ Wide(i))}
    IN  /\ {i \in 1 .. 3 : bars[i].address.some} = kept
        /\ \A i \in kept : bars[i] = [io |-> raw[i] % 2 = 1, address |-> B!Some(IF Wide(i) THEN 100 * raw[i + 1] + 16 * (raw[i] \div 16)
                                                                           ELSE IF raw[i] % 2 = 1 THEN 4 * (raw[i] \div 4) ELSE 16 * (raw[i] \div 16))]
\* The walk over capabilities ends on every list, visits each place once and follows the links.
ASSUME CapabilitiesEnd == \A next \in [2 .. 7 -> {0, 2, 3, 4, 6, 7}], start \in 0 .. 7 :
    LET caps == B!Capabilities(next, start, <<>>) IN
        /\ \A i, j \in DOMAIN caps : i # j => caps[i][2] # caps[j][2]
        /\ caps # <<>> <=> start \in 2 .. 6
        /\ \A i \in DOMAIN caps : caps[i][2] = IF i = 1 THEN start ELSE next[caps[i - 1][2] + 1]
\* A probe returns one more than the size it measured, and one where there is nothing.
ASSUME ProbesAreOffByOne == /\ B!ProbeBarSize(0, 256) = 1
                            /\ \A k \in 4 .. 7 : B!ProbeBarSize(256 - 2 ^ k, 256) = 2 ^ k + 1
                            /\ \A k \in 2 .. 7 : B!ProbeBarSize(256 - 2 ^ k + 1, 256) = 2 ^ k + 1

-----------------------------------------------------------------------------
(* The shell, the console and the allocator of the programs *)

S == INSTANCE Shell WITH HISTORY <- 2, PROMPT <- <<27, 91, 49, 109, 62, 27, 91, 48, 109>>, Builtins <- (<<101>> :> "exit") @@ (<<107>> :> "kill") @@ (<<114>> :> "run") @@ (<<104>> :> "help"),
     CODE_MAX <- 127, PID_MAX <- 15, MAX_ARGS <- 1, MAX_IO_LEN <- 3, ERRNO_MAX <- 15, ENTRY_SIZE <- 12, WORD <- 1, NAME_LEN <- 2,
     MAX_PARAMS <- 3, PARAM_MAX <- 255, TAB_STOP <- 2, CAPACITY <- 4, REPLAY_CHUNK <- 3,
     FONT_W <- 1, FONT_H <- 2, WIDE <- 6, CELL_BYTES <- 7, RGB_BYTES <- 3, FRAME_SIZE <- 8,
     CLASS_SIZES <- <<1, 2, 4, 8>>, SLAB_SIZE <- 16, PAGE <- 4

\* Keys by name, as the keyboard driver writes them, and three bytes that break a sequence off.
KeyBytes == ("a" :> <<97>>) @@ ("b" :> <<98>>) @@ ("blank" :> <<32>>) @@ ("up" :> <<27, 91, 65>>) @@ ("down" :> <<27, 91, 66>>) @@ ("right" :> <<27, 91, 67>>)
    @@ ("left" :> <<27, 91, 68>>) @@ ("home" :> <<27, 91, 72>>) @@ ("end" :> <<27, 91, 70>>) @@ ("delete" :> <<27, 91, 51, 126>>)
    @@ ("back" :> <<127>>) @@ ("ctrl-a" :> <<1>>) @@ ("ctrl-e" :> <<5>>) @@ ("ctrl-u" :> <<21>>) @@ ("ctrl-l" :> <<12>>) @@ ("ctrl-c" :> <<3>>) @@ ("enter" :> <<10>>)
Bytes(keys) == FlattenSeq([i \in DOMAIN keys |-> KeyBytes[keys[i]]])
NoOs == [spawn |-> [ok |-> FALSE, n |-> 2], wait |-> [ok |-> FALSE, n |-> 0], kill |-> [ok |-> TRUE, n |-> 0]]
Entered(keys) == S!Session(Bytes(keys), NoOs)

\* What a user expects of the keys: the text before and after the cursor, the lines entered
\* without the oldest, and how far up among them.
FreshLine == [before |-> <<>>, after |-> <<>>]
Expect(u, key) ==
    LET At0(b, a) == [u EXCEPT !.text = [before |-> b, after |-> a]]
        Edit(b, a) == [u EXCEPT !.text = [before |-> b, after |-> a], !.back = 0]
        b == u.text.before
        a == u.text.after
        Show(k) == IF k = 0 THEN [u EXCEPT !.text = FreshLine, !.back = 0]
                   ELSE [u EXCEPT !.text = [before |-> u.lines[Len(u.lines) - k + 1], after |-> <<>>], !.back = k]
    IN  CASE key \in {"a", "b", "blank"} -> Edit(b \o KeyBytes[key], a)
          [] key = "left" -> IF b = <<>> THEN u ELSE At0(Front(b), <<Last(b)>> \o a)
          [] key = "right" -> IF a = <<>> THEN u ELSE At0(Append(b, Head(a)), Tail(a))
          [] key \in {"home", "ctrl-a"} -> At0(<<>>, b \o a)
          [] key \in {"end", "ctrl-e"} -> At0(b \o a, <<>>)
          [] key = "back" -> IF b = <<>> THEN u ELSE Edit(Front(b), a)
          [] key = "delete" -> IF a = <<>> THEN u ELSE Edit(b, Tail(a))
          [] key = "ctrl-u" -> Show(0)
          [] key = "up" -> IF u.lines = <<>> THEN u ELSE Show(Min({u.back + 1, Len(u.lines)}))
          [] key = "down" -> IF u.back = 0 THEN u ELSE Show(u.back - 1)
          [] key = "enter" -> LET line == S!Trim(b \o a)
                                  all  == IF line = <<>> THEN u.lines ELSE Append(u.lines, line)
                              IN  [text |-> FreshLine, back |-> 0, lines |-> SubSeq(all, Max({1, Len(all) - 1}), Len(all))]
          [] OTHER -> u
Wanted(keys) == FoldLeft(Expect, [text |-> FreshLine, back |-> 0, lines |-> <<>>], keys)
\* The keys of the driver do to the line what a user expects of them, over lines and history.
KeyRuns == BoundedSeq({"a", "blank", "up", "down", "enter"}, 5) \cup {<<"a", "b">> \o s : s \in BoundedSeq({"b", "left", "right", "home", "end", "delete", "back", "ctrl-u", "ctrl-a", "ctrl-e"}, 3)}
    \cup {<<"a", "enter", "b", "enter", "a", "b", "enter">> \o s : s \in BoundedSeq({"up", "down", "left", "b", "enter", "ctrl-c", "ctrl-l"}, 3)}
ASSUME KeysEdit == \A keys \in KeyRuns :
    LET e == Entered(keys).e
        u == Wanted(keys)
    IN  /\ e.line = u.text.before \o u.text.after /\ e.cursor = Len(u.text.before)
        /\ e.history = u.lines /\ e.index = (IF u.back = 0 THEN 0 ELSE Len(u.lines) + 1 - u.back)
        /\ e.escape = "Normal"

\* What the shell prints for a line that fits its row leaves the prompt, the line and the
\* cursor on the screen, and nothing of the lines before it.
Row(c, r) == [i \in 1 .. c.cols |-> c.cells[r * c.cols + i - 1].glyph]
\* The row and the column of the cursor when a console has had all the bytes.
RECURSIVE Leaves(_, _, _, _)
Leaves(c, bytes, row, col) ==
    IF bytes = <<>> THEN Row(c, c.row) = row /\ c.col = col
    ELSE \A d \in {S!WriteBytes(c, <<Head(bytes)>>)} : Leaves(d, Tail(bytes), row, col)
Faithful(keys, cols) ==
    LET sh == Entered(keys)
        n  == 1 + Len(sh.e.line)
    IN  Leaves(S!NewConsole(cols, 3), sh.out, <<62>> \o sh.e.line \o [i \in 1 .. cols - n |-> 32], 1 + sh.e.cursor)
LineRuns == {<<"a", "b">> \o s : s \in BoundedSeq({"a", "left", "home", "delete", "back"}, 2)}
    \cup {<<"a", "b", "enter", "b", "enter">> \o s : s \in BoundedSeq({"up", "down", "left", "b", "enter", "ctrl-l"}, 2)}
ASSUME LinesAreShown == \A keys \in LineRuns : Faithful(keys, 6)
\* A line that reaches the last column is not: the prompt is printed again on the row below.
ASSUME LongLinesAreSmeared == \A keys \in {<<"a", "a", "a">>, <<"a", "a", "a", "left">>, <<"a", "a", "a", "b">>} : ~Faithful(keys, 4)
\* Nor is a byte that is no text: three glyphs stand for it and the cursor is after the first.
ASSUME StrangeBytesAreWide == Leaves(S!NewConsole(9, 2), S!Session(<<97, 255, 98>>, NoOs).out, <<62, 97, 239, 191, 189, 98, 32, 32, 32>>, 4)

\* An escape sequence survives whatever the shell takes for itself, even the end of the line;
\* of a sequence the editor does not know the rest is typed.
ASSUME SequencesAreResumed == \A broken \in {<<10>>, <<1>>, <<127>>, <<3>>} :
    LET sh == S!Session(<<97, 10, 27>> \o broken \o <<91, 65>>, NoOs) IN sh.e.line = <<97>> /\ sh.e.index = 1
ASSUME UnknownKeysAreTyped == S!Session(<<27, 91, 49, 59, 53, 67>>, NoOs).e.line = <<59, 53, 67>> /\ S!Session(<<27, 79, 65>>, NoOs).e.line = <<65>>

\* A command line is a program's name and arguments or a command of the shell's own; numbers
\* are read up to their limits, and other numbers are none.
Effect(line, os) == LET fs == S!Session(line \o <<10>>, os).effects IN Last(fs)
Wrote(n) == IF n < 0 THEN <<45>> \o S!Decimal(-n) ELSE S!Decimal(n)
ASSUME CommandsAreRun ==
    /\ \A line \in BoundedSeq({32, 97, 104, 114}, 5) :
         LET f     == Effect(line, [NoOs EXCEPT !.spawn.ok = TRUE, !.wait = [ok |-> TRUE, n |-> 3]])
             words == S!SplitWhitespace(line)
             prog  == IF words # <<>> /\ words[1] = <<114>> THEN Tail(words) ELSE words
         IN  CASE words = <<>> -> f.do = "nothing"
               [] words # <<>> /\ words[1] = <<104>> -> f.do = "help" /\ f.arg = Tail(words)
               [] words # <<>> /\ words[1] # <<104>> /\ prog = <<>> -> f.says = "missing program name"
               [] OTHER -> f.arg = <<Head(prog), Tail(prog)>> /\ f.says = (IF Len(prog) > 2 THEN "command not found" ELSE "exited with code")
    /\ \A n \in -300 .. 300 : Effect(<<101, 32>> \o Wrote(n), NoOs) = [do |-> "exit", arg |-> <<IF n \in -128 .. 127 THEN n ELSE 0>>, says |-> ""]
    /\ \A n \in -3 .. 300 : Effect(<<107, 32>> \o Wrote(n), NoOs).says = (IF n \in 0 .. 15 THEN "" ELSE "invalid pid")
\* After exit no key does anything.
ASSUME ExitIsLast == \A s \in BoundedSeq({97, 10, 27, 127}, 3) : LET sh == S!Session(<<101, 10>> \o s, NoOs) IN Len(sh.effects) = 1 /\ sh.e.line = <<>>

\* An exit code comes back through wait unless it looks like an errno; from 128 it is told as a kill.
ASSUME ExitCodesAreAmbiguous == \A code \in -20 .. 140 :
    LET f == Effect(<<97>>, [NoOs EXCEPT !.spawn.ok = TRUE, !.wait = S!Result(code)])
    IN  /\ (f.says = "wait failed") <=> code \in -15 .. -1
        /\ (f.says = "killed") <=> code >= 128
        /\ (f.says = "") <=> code = 0
\* A long text is written in full, in pieces the kernel takes.
ASSUME PiecesAreWhole == \A n \in 0 .. 10 :
    LET text == [i \in 1 .. n |-> i] IN FlattenSeq(S!WriteFd(text)) = text /\ \A i \in DOMAIN S!WriteFd(text) : Len(S!WriteFd(text)[i]) \in 1 .. 3
\* ps shows the processes the kernel has written, as many as its buffer holds.
ASSUME ProcessesAreListed ==
    LET ps == [i \in 1 .. 3 |-> [pid |-> 10 + i, ppid |-> 10, state |-> i, name |-> SubSeq(<<65, 66>>, 1, i - 1), ticks |-> 77]]
        Seen(p) == [pid |-> p.pid, ppid |-> p.ppid, state |-> p.state, name |-> p.name]
    IN  \A n \in 0 .. 3, cap \in {0, 11, 12, 23, 24, 35, 36, 60} :
            LET list == S!SysProcList(SubSeq(ps, 1, n), cap)
            IN  /\ list.ok <=> cap >= 12
                /\ Len(list.bytes) <= cap
                /\ list.ok => S!CmdPs(list.bytes) = [i \in 1 .. Min({n, cap \div 12}) |-> Seen(ps[i])]

\* After any output each cell on the screen shows what it holds, the line is under the cursor's
\* cell alone, and the cursor is on the grid; where the output is cut does not matter.
Outputs == BoundedSeq({97, 10, 13, 9, 8}, 4) \cup {<<97, 98>> \o s : s \in BoundedSeq({27, 91, 50, 74, 72, 75}, 3)} \cup {<<97, 10, 98, 27, 91>> \o s \o <<99>> : s \in {<<50, 74>>, <<72>>, <<75>>, <<74>>}}
    \cup {<<97, 98, 27, 91>> \o s : s \in BoundedSeq({49, 51, 59, 67, 68, 71, 109}, 3)}
ScreenIsTrue(c) ==
    /\ c.col \in 0 .. c.cols - 1 /\ c.row \in 0 .. c.rows - 1
    /\ \A i \in DOMAIN c.cells : c.shown[i].pixels = S!Pixels(c.cells[i]) /\ (c.shown[i].under # -1 <=> i = S!Index(c))
ASSUME ScreensAreTrue == \A out \in Outputs, size \in {<<3, 2>>, <<1, 1>>} :
    LET c == S!WriteBytes(S!NewConsole(size[1], size[2]), out)
    IN  /\ ScreenIsTrue(c)
        /\ \A k \in 1 .. Len(out) - 1 : S!WriteBytes(S!WriteBytes(S!NewConsole(size[1], size[2]), SubSeq(out, 1, k)), SubSeq(out, k + 1, Len(out))) = c
\* The screen holds the last rows of the text, broken at its width.
RECURSIVE BrokenAt(_, _, _)
BrokenAt(text, cols, row) ==
    IF text = <<>> THEN <<row>>
    ELSE LET more == IF Head(text) = 10 THEN row ELSE Append(row, Head(text))
         IN  IF Head(text) = 10 \/ Len(more) = cols THEN <<more>> \o BrokenAt(Tail(text), cols, <<>>) ELSE BrokenAt(Tail(text), cols, more)
ASSUME LastRowsAreShown == \A text \in BoundedSeq({97, 98, 10}, 7) :
    LET c     == S!WriteBytes(S!NewConsole(2, 3), text)
        lines == BrokenAt(text, 2, <<>>)
        Line(r) == LET k == r + 1 + Max({0, Len(lines) - 3}) IN IF k <= Len(lines) THEN lines[k] ELSE <<>>
    IN  \A r \in 0 .. 2 : Row(c, r) = Line(r) \o [i \in 1 .. 2 - Len(Line(r)) |-> 32]

\* Colours are those of the last codes in order; parameters after the last that is kept are
\* added to it as digits; a bold default foreground stays white.
Colours(codes) == S!Attrs(S!WriteBytes(S!NewConsole(1, 1), codes))
ASSUME ColoursAreSet ==
    /\ \A k, l \in {0, 1, 3, 31, 44, 92, 99} :
         Colours(<<27, 91>> \o S!Decimal(k) \o <<59>> \o S!Decimal(l) \o <<109>>) = S!ApplySgr(S!ApplySgr(S!DefaultAttrs, k), l)
    /\ \A i \in 0 .. 7 : LET c == Colours(<<27, 91, 57, 48 + i, 59, 52, 48 + i, 109>>) IN c.fg = 8 + i /\ c.bg = i
    /\ Colours(<<27, 91, 109>>) = S!DefaultAttrs
    /\ Colours(<<27, 91, 59, 59, 51, 59, 49, 109>>).fg = 1
    /\ Colours(<<27, 91, 49, 109, 27, 91, 51, 49, 109>>).fg = 9 /\ Colours(<<27, 91, 51, 49, 109, 27, 91, 49, 109>>).fg = 1
\* The cursor moves by the number given, or by one, and stays in its row.
ASSUME CursorsMove == \A n \in 0 .. 12, final \in {67, 68, 71} :
    LET c    == S!WriteBytes(S!NewConsole(5, 2), <<97, 98, 27, 91>> \o S!Decimal(n) \o <<final>>)
        step == Max({n, 1})
    IN  c.row = 0 /\ c.col = (CASE final = 67 -> Min({2 + step, 4}) [] final = 68 -> Max({2 - step, 0}) [] OTHER -> Min({step, 5}) - 1)
\* A panic is red whatever was set, unless a sequence was left unfinished: its first bytes are then lost.
ASSUME PanicsAreRed ==
    LET Told(before) == S!PanicPrint(S!WriteBytes(S!NewConsole(4, 3), before), <<80, 81>>)
    IN  /\ \A b \in {<<>>, <<97>>, <<27, 91, 49, 109>>, <<27, 91, 51, 50, 109, 97>>} : \E i \in 0 .. 11 : Told(b).cells[i] = [glyph |-> 80, fg |-> 18, bg |-> 17]
        /\ \A b \in {<<27>>, <<27, 91>>} : Told(b).cells[0].glyph = 80 /\ \A i \in 0 .. 11 : Told(b).cells[i].glyph # 10

\* The serial line and the screen leave out the same sequences when they are whole; of one with
\* a byte the screen does not expect, the rest is on the screen and not on the line.
ScreenText(bytes) == LET c == S!WriteBytes(S!NewConsole(9, 1), bytes) IN SubSeq(Row(c, 0), 1, c.col)
SerialText(bytes) == S!SerialWrite(S!NewLog.port, bytes).sent
ASSUME SequencesAreLeftOut == \A s \in BoundedSeq({27, 91, 49, 59, 109}, 5) :
    /\ (\A i \in 2 .. Len(s) : s[i] = 27 => s[i - 1] # 91 /\ ~(s[i - 1] \in {49, 59})) => ScreenText(s) = SerialText(s)
    /\ \A i \in DOMAIN SerialText(s) : SerialText(s)[i] # 27
    /\ SerialText(s \o <<10>>) \in {SerialText(s), SerialText(s) \o <<13, 10>>} /\ (s = <<>> => SerialText(s \o <<10>>) = <<13, 10>>)
ASSUME ScreensShowMore == ScreenText(<<27, 91, 63, 50, 53, 104>>) = <<50, 53, 104>> /\ SerialText(<<27, 91, 63, 50, 53, 104>>) = <<>>

\* The ring gives back the last bytes written, oldest first; a console that comes up shows
\* them as if it had been there, when they were no more than the ring holds.
ASSUME RingsReadBack == \A s \in BoundedSeq(1 .. 3, 6), k \in 0 .. 6 :
    k <= Len(s) => S!ForEachSegment(S!RingWrite(S!RingWrite(S!NewRing, SubSeq(s, 1, k)), SubSeq(s, k + 1, Len(s)))) = SubSeq(s, Max({1, Len(s) - 3}), Len(s))
Shape(ok) == [ok |-> ok, cols |-> 3, rows |-> 2, scale |-> 1]
ASSUME BootLogsAreShown == \A s \in BoundedSeq({97, 10, 27, 91, 109}, 4), t \in {<<>>, <<98>>, <<109>>} :
    LET log == S!KPrint(S!ReplayBootLog(S!InitConsole(S!KPrint(S!NewLog, s), Shape(TRUE))), t)
        off == S!KPrint(S!ReplayBootLog(S!InitConsole(S!KPrint(S!NewLog, s), Shape(FALSE))), t)
    IN  /\ log.console = S!WriteBytes(S!NewConsole(3, 2), s \o t)
        /\ log.port = S!SerialWrite(S!NewLog.port, s \o t)
        /\ ~off.up /\ off.port = S!SerialWrite(S!NewLog.port, s \o <<33, 10>> \o t)

\* A console takes at most half of the free memory.  Scale 1 is tried when the scale wished
\* for does not fit, but on a screen with room for one cell it never takes less.
ASSUME ConsolesFit == \A w, h \in 1 .. 12, wish \in 0 .. 3, free \in {0, 2, 10, 30, 60, 90, 120, 150, 200} :
    LET c    == S!TryNew(w, h, wish, free)
        want == IF wish = 0 THEN (IF w < 6 THEN 1 ELSE 2) ELSE wish
    IN  /\ c.ok => /\ c.cols * c.rows * 7 + c.cols * c.scale * c.rows * 2 * c.scale * 3 <= 8 * (free \div 2)
                   /\ c.cols >= 1 /\ c.rows >= 1
        /\ (w >= want /\ h >= 2 * want) => (c.ok => c.scale = want) /\ (c.cols * c.scale <= w)
ASSUME SmallScreensFallBack == \E w, h \in 1 .. 12 : LET c == S!TryNew(w, h, 3, 6) IN c.ok /\ c.scale = 1

\* Blocks in use are apart, mapped and aligned, free blocks are apart from them, and a block
\* is refused only for its layout or when the kernel has no memory; all that is freed can be
\* given again, and large blocks go back to the kernel.
Layouts == {<<1, 1>>, <<1, 4>>, <<3, 2>>, <<8, 1>>, <<9, 4>>, <<2, 8>>, <<0, 1>>}
HeapSteps(st) ==
    {LET a == S!Alloc(st.h, l[1], l[2]) IN [h |-> a.h, live |-> IF a.ptr = 0 THEN st.live ELSE st.live \cup {<<a.ptr, l>>}, refused |-> IF a.ptr = 0 THEN {l} ELSE {}] : l \in Layouts}
    \cup {[h |-> S!Dealloc(st.h, b[1], b[2][1], b[2][2]), live |-> st.live \ {b}, refused |-> {}] : b \in st.live}
RECURSIVE Heaps(_, _)
Heaps(set, n) == IF n = 0 THEN set ELSE set \cup Heaps(UNION {HeapSteps(st) : st \in set}, n - 1)
Extent(b) == b[1] .. b[1] + b[2][1] - 1
ASSUME BlocksAreApart == \A st \in Heaps({[h |-> S!NewHeap(m), live |-> {}, refused |-> {}] : m \in {16, 40}}, 4) :
    LET free == UNION {UNION {st.h.heads[k][i] .. st.h.heads[k][i] + <<1, 2, 4, 8>>[k] - 1 : i \in DOMAIN st.h.heads[k]} : k \in 1 .. 4}
    IN  /\ \A b \in st.live : Extent(b) \subseteq st.h.mapped \ free /\ b[1] % b[2][2] = 0
        /\ \A b, d \in st.live : b # d => Extent(b) \cap Extent(d) = {}
        /\ \A k \in 1 .. 4 : IsInjective(st.h.heads[k])
        /\ \A l \in st.refused : l[1] = 0 \/ l[2] > 4 \/ st.h.left < 16
=============================================================================

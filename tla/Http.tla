-------------------------------- MODULE Http --------------------------------
(***************************************************************************)
(* otter-http: the response parser fed piece by piece, the parser of       *)
(* server-sent events, URLs and the references resolved against them,      *)
(* redirects and the text of a request.  A text is a sequence of tokens:   *)
(* the characters the code looks at, and whole words where it compares     *)
(* words; a length counts tokens.                                          *)
(***************************************************************************)
EXTENDS Integers, Sequences, SequencesExt, FiniteSetsExt

CONSTANTS
    Lower,                  \* the words with capitals, and what to_lowercase makes of them
    USIZE_MAX,              \* the largest length and chunk size
    Checked,                \* the build checks additions for overflow
    MAX_LINE_SIZE, MAX_HEADER_SIZE, MAX_PORT, MAX_REDIRECTS, MAX_IPV6

Blanks == {" ", "CR", "LF", "HT"}
DigitChars == <<"0", "1", "2", "3", "4", "5", "6", "7", "8", "9", "a", "b", "c", "d", "e", "f">>
DigitsOf(radix) == ToSet(SubSeq(DigitChars, 1, radix))
DigitValue(c) == SelectInSeq(DigitChars, LAMBDA d : d = c) - 1

IndexOf(s, c) == SelectInSeq(s, LAMBDA d : d = c)
LastIndexOf(s, c) == SelectLastInSeq(s, LAMBDA d : d = c)
From(s, i) == SubSeq(s, i, Len(s))
UpTo(s, i) == SubSeq(s, 1, i)
StartsWith(s, prefix) == IsPrefix(prefix, s)
Trim(s) ==
    LET kept == {i \in DOMAIN s : s[i] \notin Blanks} IN IF kept = {} THEN <<>> ELSE SubSeq(s, Min(kept), Max(kept))
LowerOf(s) == [i \in DOMAIN s |-> IF s[i] \in DOMAIN Lower THEN Lower[s[i]] ELSE s[i]]

\* str::parse and from_str_radix: an optional plus, digits; -1 for an error.
ParseUint(s, radix, max) ==
    LET digits == IF s # <<>> /\ s[1] = "+" THEN Tail(s) ELSE s
        value == FoldLeft(LAMBDA n, d : IF n < 0 \/ n * radix + DigitValue(d) > max THEN -1 ELSE n * radix + DigitValue(d), 0, digits)
    IN  IF digits = <<>> \/ ~(ToSet(digits) \subseteq DigitsOf(radix)) THEN -1 ELSE value
RECURSIVE UintText(_)
UintText(n) == IF n < 10 THEN <<DigitChars[n + 1]>> ELSE Append(UintText(n \div 10), DigitChars[(n % 10) + 1])

-----------------------------------------------------------------------------
(* Responses *)

NewResponse == [state |-> "StatusLine", buffer |-> <<>>, code |-> 0, headers |-> <<>>, encoding |-> <<"none">>,
                remaining |-> 0, body |-> 0, headerSize |-> 0]
Feed(p, data) == [p EXCEPT !.buffer = @ \o data]

\* The first line, and what is behind it; nothing before its end has arrived.
HasLine(buffer) == "LF" \in ToSet(buffer)
Line(buffer) == LET i == IndexOf(buffer, "LF") IN UpTo(buffer, IF i > 1 /\ buffer[i - 1] = "CR" THEN i - 2 ELSE i - 1)
Rest(buffer) == From(buffer, IndexOf(buffer, "LF") + 1)

SplitWhitespace(s) ==
    LET starts == {i \in DOMAIN s : s[i] \notin Blanks /\ (i = 1 \/ s[i - 1] \in Blanks)}
        word(i) == SubSeq(s, i, Max({j \in i .. Len(s) : \A k \in i .. j : s[k] \notin Blanks}))
    IN  [n \in 1 .. Cardinality(starts) |-> word(CHOOSE i \in starts : Cardinality({j \in starts : j <= i}) = n)]
Versions == {<<"HTTP/1.1">>, <<"HTTP/1.0">>}
\* The code of the status, or -1.
ParseStatusLine(line) ==
    LET parts == SplitWhitespace(line) IN IF Len(parts) < 2 \/ parts[1] \notin Versions THEN -1 ELSE ParseUint(parts[2], 10, 65535)
HeaderOf(line) == LET i == IndexOf(line, ":") IN <<Trim(UpTo(line, i - 1)), Trim(From(line, i + 1))>>

HasHeader(headers, name) == \E i \in DOMAIN headers : LowerOf(headers[i][1]) = LowerOf(<<name>>)
GetHeader(headers, name) == headers[SelectInSeq(headers, LAMBDA h : LowerOf(h[1]) = LowerOf(<<name>>))][2]

DetermineBodyEncoding(p) ==
    CASE p.code \in {204, 304} -> <<"length", 0>>
      [] HasHeader(p.headers, "Transfer-Encoding") /\ "chunked" \in ToSet(LowerOf(GetHeader(p.headers, "Transfer-Encoding"))) -> <<"chunked">>
      [] HasHeader(p.headers, "Content-Length") -> <<"length", ParseUint(GetHeader(p.headers, "Content-Length"), 10, USIZE_MAX)>>
      [] OTHER -> <<"close">>

Event(p, e) == [p |-> p, event |-> e]
Nothing(p) == Event(p, <<"none">>)
Failed(p, kind) == Event(p, <<"error", kind>>)
\* No line yet: wait, unless it is too long already.
Waiting(p) == IF Len(p.buffer) > MAX_LINE_SIZE THEN Failed(p, "LineTooLong") ELSE Nothing(p)

StatusLineStep(p) ==
    LET code == ParseStatusLine(Line(p.buffer))
    IN  IF ~HasLine(p.buffer) THEN Waiting(p)
        ELSE IF code < 0 THEN Failed(p, "InvalidStatus")
        ELSE Event([p EXCEPT !.code = code, !.buffer = Rest(@), !.state = "Headers"], <<"status", code>>)

HeadersStep(p) ==
    LET line == Line(p.buffer)
        size == p.headerSize + Len(line) + 2
        read == [p EXCEPT !.headerSize = size, !.buffer = Rest(@)]
        encoding == DetermineBodyEncoding(p)
        after == IF encoding = <<"length", 0>> THEN "Done" ELSE IF encoding = <<"chunked">> THEN "Chunks" ELSE "Body"
        header == HeaderOf(line)
    IN  CASE ~HasLine(p.buffer) -> IF p.headerSize > MAX_HEADER_SIZE THEN Failed(p, "HeadersTooLarge") ELSE Waiting(p)
          [] HasLine(p.buffer) /\ size > MAX_HEADER_SIZE -> Failed([p EXCEPT !.headerSize = size], "HeadersTooLarge")
          [] HasLine(p.buffer) /\ size <= MAX_HEADER_SIZE /\ line = <<>> ->
                IF encoding = <<"length", -1>> THEN Failed(read, "InvalidContentLength")
                ELSE Event([read EXCEPT !.encoding = encoding, !.state = after], <<"headersComplete">>)
          [] OTHER -> IF ":" \notin ToSet(line) THEN Failed([p EXCEPT !.headerSize = size], "InvalidHeader")
                      ELSE Event([read EXCEPT !.headers = Append(@, header)], <<"header", header>>)

BodyStep(p) ==
    LET left == p.encoding[2] - p.body
        n == IF left < Len(p.buffer) THEN left ELSE Len(p.buffer)
    IN  CASE p.buffer = <<>> /\ (p.encoding[1] = "close" \/ left > 0) -> Nothing(p)
          [] p.encoding[1] = "length" /\ left = 0 -> Event([p EXCEPT !.state = "Done"], <<"complete">>)
          [] p.encoding[1] = "length" /\ left > 0 -> Event([p EXCEPT !.buffer = From(@, n + 1), !.body = @ + n], <<"data", UpTo(p.buffer, n)>>)
          [] OTHER -> Event([p EXCEPT !.buffer = <<>>], <<"data", p.buffer>>)

\* The two bytes behind a chunk are dropped unseen.
ChunkDataStep(p) ==
    LET need == IF Checked THEN p.remaining + 2 ELSE (p.remaining + 2) % (USIZE_MAX + 1)
    IN  IF need > USIZE_MAX \/ (Len(p.buffer) >= need /\ Len(p.buffer) < p.remaining) THEN Event(p, <<"panic">>)
        ELSE IF Len(p.buffer) < need THEN Nothing(p)
        ELSE Event([p EXCEPT !.buffer = From(@, need + 1), !.body = @ + p.remaining, !.state = "Chunks"], <<"data", UpTo(p.buffer, p.remaining)>>)

\* A trailer is dropped, and the caller has to ask again.
TrailersStep(p) ==
    IF ~HasLine(p.buffer) THEN Waiting(p)
    ELSE IF Line(p.buffer) = <<>> THEN Event([p EXCEPT !.buffer = Rest(@), !.state = "Done"], <<"complete">>)
    ELSE Nothing([p EXCEPT !.buffer = Rest(@)])

ChunkSize(line) == LET i == IndexOf(line, ";") IN ParseUint(Trim(IF i = 0 THEN line ELSE UpTo(line, i - 1)), 16, USIZE_MAX)
\* A size is followed at once by the data, or by the trailers.
ChunksStep(p) ==
    LET size == ChunkSize(Line(p.buffer))
        read == [p EXCEPT !.buffer = Rest(@), !.remaining = size]
    IN  IF ~HasLine(p.buffer) THEN Waiting(p)
        ELSE IF size < 0 THEN Failed(p, "InvalidChunkSize")
        ELSE IF size = 0 THEN TrailersStep([read EXCEPT !.state = "Trailers"])
        ELSE ChunkDataStep([read EXCEPT !.state = "ChunkData"])

NextEvent(p) ==
    CASE p.state = "StatusLine" -> StatusLineStep(p)
      [] p.state = "Headers" -> HeadersStep(p)
      [] p.state = "Body" -> BodyStep(p)
      [] p.state = "Chunks" -> ChunksStep(p)
      [] p.state = "ChunkData" -> ChunkDataStep(p)
      [] p.state = "Trailers" -> TrailersStep(p)
      [] p.state = "Done" -> Nothing(p)

-----------------------------------------------------------------------------
(* Server-sent events *)

NoEvent == [event |-> <<>>, data |-> <<>>, id |-> <<>>, retry |-> -1]
NewSse == [buffer |-> <<>>, current |-> NoEvent, lines |-> <<>>]

FieldOf(line) == LET i == IndexOf(line, ":") IN IF i = 0 THEN line ELSE UpTo(line, i - 1)
ValueOf(line) ==
    LET i == IndexOf(line, ":")
        value == From(line, i + 1)
    IN  IF i = 0 THEN <<>> ELSE IF value # <<>> /\ value[1] = " " THEN Tail(value) ELSE value

SetField(s, field, value, valued) ==
    CASE field = <<"event">> -> [s EXCEPT !.current.event = value]
      [] field = <<"data">> -> [s EXCEPT !.lines = Append(@, value)]
      [] field = <<"id">> -> [s EXCEPT !.current.id = value]
      [] field = <<"retry">> /\ valued /\ ParseUint(value, 10, USIZE_MAX) >= 0 -> [s EXCEPT !.current.retry = ParseUint(value, 10, USIZE_MAX)]
      [] OTHER -> s

JoinedLines(lines) == FlattenSeq([i \in DOMAIN lines |-> IF i = 1 THEN lines[i] ELSE <<"LF">> \o lines[i]])

\* Lines end at LF, at CR, or at CR and LF if both have arrived.  The event is a sequence of one, or empty.
RECURSIVE SseNext(_)
SseNext(s) ==
    LET end == SelectInSeq(s.buffer, LAMBDA c : c \in {"CR", "LF"})
        both == s.buffer[end] = "CR" /\ end < Len(s.buffer) /\ s.buffer[end + 1] = "LF"
        line == Trim(UpTo(s.buffer, end - 1))
        read == [s EXCEPT !.buffer = From(@, IF both THEN end + 2 ELSE end + 1)]
        pending == s.lines # <<>> \/ s.current.event # <<>> \/ s.current.id # <<>>
    IN  IF end = 0 THEN Event(s, <<>>)
        ELSE IF line = <<>> /\ pending
             THEN Event([read EXCEPT !.lines = <<>>, !.current = NoEvent], <<[s.current EXCEPT !.data = JoinedLines(s.lines)]>>)
        ELSE IF line = <<>> \/ line[1] = ":" THEN SseNext(read)
        ELSE SseNext(SetField(read, FieldOf(line), ValueOf(line), ":" \in ToSet(line)))

-----------------------------------------------------------------------------
(* URLs *)

DefaultPort == [http |-> 80, https |-> 443]
UrlError(kind) == [ok |-> FALSE, kind |-> kind]
UrlOf(scheme, host, port, path, query) == [ok |-> TRUE, scheme |-> scheme, host |-> host, port |-> port, path |-> path, query |-> query]

\* The position of "://", or 0.
SchemeEnd(s) == LET at == {i \in 1 .. Len(s) - 2 : SubSeq(s, i, i + 2) = <<":", "/", "/">>} IN IF at = {} THEN 0 ELSE Min(at)

Cut(s, c) == IF IndexOf(s, c) = 0 THEN s ELSE UpTo(s, IndexOf(s, c) - 1)
Behind(s, c) == IF IndexOf(s, c) = 0 THEN <<>> ELSE From(s, IndexOf(s, c) + 1)
OrRoot(path) == IF path = <<>> THEN <<"/">> ELSE path
\* Path and query: a fragment is cut off the one that comes last.
ParsePathQuery(s) ==
    IF "?" \in ToSet(s) THEN <<OrRoot(Cut(s, "?")), Cut(Behind(s, "?"), "#")>> ELSE <<OrRoot(Cut(s, "#")), <<>>>>

IsValidIpv6(addr) == addr # <<>> /\ Len(addr) <= MAX_IPV6 /\ ToSet(addr) \subseteq DigitsOf(16) \cup {":", "."}

\* Host and port; -1 for a port that is none.
ParseHostPort(s, scheme) ==
    LET end == IndexOf(s, "]")
        after == From(s, end + 1)
        colon == LastIndexOf(s, ":")
    IN  CASE s[1] = "[" /\ after = <<>> -> <<SubSeq(s, 2, end - 1), DefaultPort[scheme]>>
          [] s[1] = "[" /\ after # <<>> -> <<SubSeq(s, 2, end - 1), IF after[1] = ":" THEN ParseUint(Tail(after), 10, MAX_PORT) ELSE -1>>
          [] s[1] # "[" /\ colon > 0 -> <<UpTo(s, colon - 1), ParseUint(From(s, colon + 1), 10, MAX_PORT)>>
          [] OTHER -> <<s, DefaultPort[scheme]>>

ParseUrl(text) ==
    LET url == Trim(text)
        at == SchemeEnd(url)
        scheme == UpTo(url, at - 1)
        rest == From(url, at + 3)
        end == IF "/" \in ToSet(rest) THEN IndexOf(rest, "/") ELSE IF "?" \in ToSet(rest) THEN IndexOf(rest, "?") ELSE Len(rest) + 1
        hostPort == UpTo(rest, end - 1)
        bracketed == hostPort # <<>> /\ hostPort[1] = "["
        host == ParseHostPort(hostPort, scheme[1])
        where == ParsePathQuery(IF end > Len(rest) THEN <<"/">> ELSE From(rest, end))
    IN  IF at = 0 THEN UrlError("MissingScheme")
        ELSE IF scheme \notin {<<"http">>, <<"https">>} THEN UrlError("InvalidScheme")
        ELSE IF hostPort = <<>> THEN UrlError("MissingHost")
        ELSE IF bracketed /\ ("]" \notin ToSet(hostPort) \/ ~IsValidIpv6(SubSeq(hostPort, 2, IndexOf(hostPort, "]") - 1))) THEN UrlError("InvalidIpv6")
        ELSE IF host[2] < 0 THEN UrlError("InvalidPort")
        ELSE UrlOf(scheme[1], host[1], host[2], where[1], where[2])

\* What is left of a path in front of its last slash, the slash included.
Directory(path) == OrRoot(UpTo(path, LastIndexOf(path, "/")))
Parent(path) == Directory(IF Len(path) > 1 /\ Last(path) = "/" THEN Front(path) ELSE path)

\* The dots in front of a reference climb, and never above the root.
RECURSIVE Climb(_, _)
Climb(path, s) ==
    IF StartsWith(s, <<".", ".", "/">>) THEN Climb(Parent(path), From(s, 4))
    ELSE IF s = <<".", ".">> THEN Parent(path)
    ELSE path \o s

Resolve(url, reference) ==
    LET r == Trim(reference)
        directory == IF Last(url.path) = "/" THEN url.path ELSE Directory(url.path)
        where == ParsePathQuery(r)
        path == Cut(IF StartsWith(r, <<".", "/">>) THEN directory \o From(r, 3)
                    ELSE IF r = <<".">> THEN directory
                    ELSE IF StartsWith(r, <<".", ".", "/">>) \/ r = <<".", ".">> THEN Climb(directory, r)
                    ELSE directory \o r, "#")
    IN  IF r = <<>> THEN url
        ELSE IF SchemeEnd(r) > 0 THEN ParseUrl(r)
        ELSE IF StartsWith(r, <<"/", "/">>) THEN ParseUrl(<<url.scheme, ":">> \o r)
        ELSE IF r[1] = "/" THEN [url EXCEPT !.path = where[1], !.query = where[2]]
        ELSE IF r[1] = "?" THEN [url EXCEPT !.query = Cut(Tail(r), "#")]
        ELSE [url EXCEPT !.path = Cut(path, "?"), !.query = Behind(path, "?")]

PortText(url) == IF url.port = DefaultPort[url.scheme] THEN <<>> ELSE <<":">> \o UintText(url.port)
QueryText(url) == IF url.query = <<>> THEN <<>> ELSE <<"?">> \o url.query
UrlText(url) == <<url.scheme, ":", "/", "/">> \o url.host \o PortText(url) \o url.path \o QueryText(url)

-----------------------------------------------------------------------------
(* Redirects and requests *)

\* RedirectPolicy: follow_up_to_five is MAX_REDIRECTS, never is -1.
ShouldFollow(policy, count) == policy >= 0 /\ count < policy
FollowUpToFive == MAX_REDIRECTS

\* The URL and the method to go on with; an empty set for no redirect.
ShouldRedirect(code, location, url, method) ==
    LET target == Resolve(url, location[1])
        kept == IF code \in {307, 308} \/ method = "HEAD" THEN method ELSE "GET"
    IN  IF location # <<>> /\ code \in {301, 302, 303, 307, 308} /\ target.ok THEN {<<target, kept>>} ELSE {}

Eol == <<"CR", "LF">>
Serialize(r) ==
    LET sized == IF r.body = <<>> THEN <<>> ELSE <<"Content-Length", ":", " ">> \o UintText(Len(r.body)) \o Eol
        custom == FlattenSeq([i \in DOMAIN r.headers |-> r.headers[i][1] \o <<":", " ">> \o r.headers[i][2] \o Eol])
    IN  <<r.method, " ">> \o r.url.path \o QueryText(r.url) \o <<" ", "HTTP/1.1">> \o Eol
        \o <<"Host", ":", " ">> \o r.url.host \o PortText(r.url) \o Eol
        \o <<"User-Agent", ":", " ", "OtterOS/0.1">> \o Eol \o <<"Connection", ":", " ", "close">> \o Eol
        \o sized \o custom \o Eol \o r.body
=============================================================================

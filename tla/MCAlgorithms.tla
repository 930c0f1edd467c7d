---------------------------- MODULE MCAlgorithms ----------------------------
(***************************************************************************)
(* The scheduler's live instance, with the sequential algorithms of the    *)
(* system: parsers of text over inputs put together from pieces, binary    *)
(* formats and rings over bounded inputs.  TLC evaluates the ASSUMEs       *)
(* before it explores the states.                                          *)
(***************************************************************************)
EXTENDS Sched, Integers, SequencesExt, FiniteSetsExt, TLC

\* Inputs put together from up to n pieces.
Joined(pieces, n) == {FlattenSeq(s) : s \in BoundedSeq(pieces, n)}

-----------------------------------------------------------------------------
(* HTML tokenizer *)

HtmlLetters == {"a", "b", "c", "d", "e", "f", "g", "h", "i", "l", "m", "n", "o", "p", "r", "s", "t", "u", "v", "x", "y"}
HtmlLower == [c \in HtmlLetters |-> c] @@ "A" :> "a" @@ "P" :> "p"
HtmlDigit == "0" :> 0 @@ "8" :> 8 @@ "a" :> 10 @@ "b" :> 11
HtmlEntities == (<<"l", "t", ";">> :> <<"<">>) @@ (<<"l", "t">> :> <<"<">>) @@ (<<"a", ";">> :> <<"&">>)
Html == INSTANCE HtmlTokenizer WITH Lower <- HtmlLower, Digit <- HtmlDigit, Entities <- HtmlEntities, MaxParsed <- 10000000

HtmlPieces == {<<"<", "a">>, <<"<", "/", "A">>, <<">">>, <<" ">>, <<"/">>, <<"=">>, <<"\"">>, <<"b">>, <<"<", "!", "-", "-">>, <<"-">>,
               <<"!">>, <<"&", "l", "t">>, <<"&", "#">>, <<"8">>, <<";">>, <<"NUL">>,
               <<"<", "!", "d", "o", "c", "t", "y", "p", "e">>, <<" ", "p", "u", "b", "l", "i", "c">>}
HtmlInputs == Joined(HtmlPieces, 3)

HtmlEnds(input) == ~Html!More(Html!Loop(Html!Fresh(input), Html!Fuel(Html!Fresh(input))))
\* The tokenizer reconsumes characters and backs up over references; it reaches the end
\* of every input, and the one end-of-file token is the last.
ASSUME TokenizerEnds == \A input \in HtmlInputs :
    /\ HtmlEnds(input)
    /\ LET tokens == Html!Tokenize(input) IN \A i \in DOMAIN tokens : tokens[i] = Html!Eof <=> i = Len(tokens)

\* Behind a tag that is complete, the tokens do not depend on what came before it.
ClosedInputs == {input \in Joined(HtmlPieces, 2) : Html!Loop(Html!Fresh(input), Html!Fuel(Html!Fresh(input))).state = "Data"
                                                   /\ input # <<>> /\ Last(input) = ">"}
ASSUME ClosedTagsSeparate == \A front \in ClosedInputs, back \in Joined(HtmlPieces, 2) :
    Html!Tokenize(front \o back) = Front(Html!Tokenize(front)) \o Html!Tokenize(back)

\* A reference in RCDATA moves on, but for "&#" before something other than digits: the
\* loop of tokenize_rcdata meets that one again and again.
Stuck(input) == Len(input) > 2 /\ input[2] = "#" /\ ~Html!Numeric(Html!Fresh(input), 2).found
ASSUME RcdataMovesOn == \A rest \in HtmlInputs :
    LET input == <<"&">> \o rest IN Html!ParseEntityInRcdata(Html!Fresh(input)).pos = 1 <=> Stuck(input)

-----------------------------------------------------------------------------
(* HTML documents *)

Tree == INSTANCE HtmlTree WITH
    Lower <- HtmlLower, Digit <- HtmlDigit, Entities <- HtmlEntities, MaxParsed <- 10000000,
    VOID_ELEMENTS <- {<<"b", "r">>, <<"h", "r">>}, BLOCK_ELEMENTS <- {<<"p">>, <<"d", "i", "v">>, <<"h", "1">>, <<"u", "l">>, <<"h", "r">>, <<"t", "a", "b", "l", "e">>, <<"p", "r", "e">>},
    TEXT_ELEMENTS <- {<<"t", "i", "t", "l", "e">>}, RAW_ELEMENTS <- {<<"s", "t", "y", "l", "e">>}, HEAD_ELEMENTS <- {<<"b", "a", "s", "e">>, <<"s", "t", "y", "l", "e">>},
    HIDDEN_ELEMENTS <- {<<"h", "e", "a", "d">>, <<"s", "t", "y", "l", "e">>}, PARAGRAPH_ELEMENTS <- {<<"p">>, <<"d", "i", "v">>}, CODE_ELEMENTS <- {<<"c", "o", "d", "e">>},
    HEADINGS <- (<<"h", "1">> :> 1), UNESCAPES <- <<<<<<"&", "l", "t", ";">>, "<">>>>, NUMBERS <- (<<"8">> :> 8),
    Resolve <- LAMBDA base, href : base \o href

Tag(name) == <<"<">> \o name \o <<">">>
EndOf(name) == <<"<", "/">> \o name \o <<">">>
TreeTags == {<<"p">>, <<"d", "i", "v">>, <<"b">>, <<"l", "i">>, <<"u", "l">>, <<"h", "1">>, <<"s", "t", "y", "l", "e">>}
TreePieces == {Tag(n) : n \in TreeTags} \cup {EndOf(n) : n \in TreeTags \cup {Tree!HtmlTag}} \cup {Tag(<<"b", "r">>), <<"x", " ">>}
TreeInputs == Joined(TreePieces, 3)

\* The characters of the text, and of the blocks, blanks and line breaks apart.
Visible(s) == SelectSeq(s, LAMBDA c : c \notin {" ", "BR"})
Characters(s) == {<<c, Cardinality({i \in DOMAIN s : s[i] = c})>> : c \in Range(s)}
BlockText(blocks) == FlattenSeq([i \in DOMAIN blocks |-> FlattenSeq([j \in DOMAIN blocks[i].spans |-> blocks[i].spans[j].text])])

ClosesHtml(input) == Tree!Find(input, EndOf(Tree!HtmlTag), 1) # 0
\* The stack of open elements is only empty behind an end of html; every node but the
\* first has one parent, which lists it once, and comes after it.
ASSUME TreeIsSound == \A input \in TreeInputs :
    LET b == Tree!Parse(input)
    IN  /\ b.panicked => ClosesHtml(input)
        /\ ~ClosesHtml(input) => \A n \in 2 .. Len(b.nodes) :
              /\ b.nodes[n].parent \in 1 .. n - 1
              /\ \A m \in DOMAIN b.nodes : Cardinality({i \in DOMAIN b.nodes[m].children : b.nodes[m].children[i] = n})
                                           = (IF m = b.nodes[n].parent THEN 1 ELSE 0)

\* Whatever the tags, what is rendered are the characters of the text, each as often.
ASSUME RenderKeepsText == \A input \in {s \in TreeInputs : ~ClosesHtml(s) /\ Tree!Find(s, <<"s", "t", "y", "l", "e">>, 1) = 0} :
    LET nodes == Tree!Parse(input).nodes
    IN  Characters(Visible(BlockText(Tree!Render(nodes, <<>>)))) = Characters(Visible(Tree!TextContent(nodes, 1)))

\* A line passes the width only if it is one word.
ASSUME LinesFit == \A words \in BoundedSeq({<<"x">>, <<"x", "x">>, <<"x", "x", "x", "x">>}, 4), first \in 0 .. 2, width \in 1 .. 8 :
    LET lines == Tree!Wrapped(words, first, 1, width)
    IN  /\ FlattenSeq(lines) = words
        /\ \A i \in DOMAIN lines : Len(lines[i]) > 1 => (IF i = 1 THEN first ELSE 1) + Tree!WordsLength(lines[i]) <= width

-----------------------------------------------------------------------------
(* Terminal *)

TermDecoded == (<<"c3", "a9">> :> "e9") @@ (<<"e2", "a9", "a9">> :> "2a69")
Term == INSTANCE Terminal WITH
    Class <- "c3" :> "two" @@ "a9" :> "tail" @@ "e2" :> "three" @@ "ff" :> "bad",
    Decoded <- TermDecoded,
    Truncated <- "2a69" :> "i" @@ "FFFD" :> "fd", Value <- [d \in {"0", "1", "2", "3", "4", "5", "6", "8", "9"} |->
        CASE d = "0" -> 0 [] d = "1" -> 1 [] d = "2" -> 2 [] d = "3" -> 3 [] d = "4" -> 4 [] d = "5" -> 5 [] d = "6" -> 6 [] d = "8" -> 8 [] d = "9" -> 9],
    Capacity <- 2, Checked <- TRUE

Csi(s) == <<"ESC", "[">> \o s
AltOn == Csi(<<"?", "1", "0", "4", "9", "h">>)
AltOff == Csi(<<"?", "1", "0", "4", "9", "l">>)
TermSafe == {<<"a">>, <<"b", "c">>, <<"LF">>, <<"HT">>, <<"CR">>, <<"BS">>, <<"ESC", "7">>, <<"ESC", "8">>, <<"ESC", "D">>, <<"ESC", "M">>,
             <<"ESC", "E">>, <<"ESC", "c">>, Csi(<<"2", ";", "2", "H">>), Csi(<<"K">>), Csi(<<"J">>), Csi(<<"2", "J">>), Csi(<<"L">>),
             Csi(<<"M">>), Csi(<<"@">>), Csi(<<"P">>), Csi(<<"2", "X">>), Csi(<<"2", "S">>), Csi(<<"T">>), Csi(<<"A">>), Csi(<<"2", "r">>),
             Csi(<<"1", ";", "1", "r">>), Csi(<<"3", "8", ";", "5", ";", "1", "m">>)}
TermStart == Term!NewTerminal(2, 2)
TermOne == {TermStart} \cup {Term!FeedBytes(TermStart, s) : s \in TermSafe}
TermTwo == TermOne \cup {Term!FeedBytes(t, s) : t \in TermOne, s \in TermSafe}

\* The screen keeps its shape, the cursor stays on it or at the margin, and no byte
\* makes the code index outside.
ASSUME ScreenKeepsShape == \A before \in TermTwo, s \in TermSafe :
    LET t == Term!FeedBytes(before, s)
    IN  /\ ~t.panicked
        /\ Len(t.grid) = t.rows /\ \A r \in 1 .. t.rows : Len(t.grid[r]) = t.cols
        /\ t.cur.row \in Term!Rows(t) /\ t.cur.col \in 0 .. t.cols

\* Two things break it: an erase up to a cursor at the margin, and a region upside down.
ASSUME ScreenBreaks == \A t \in TermTwo :
    /\ Term!EraseLine(t, 1).panicked <=> t.cur.col = t.cols
    /\ Term!ScrollUp(Term!SetScrollRegion(t, 1, 0), 1).panicked

\* Every row that changed is in the next damage report.
ASSUME DamageIsComplete == \A t \in TermTwo, piece \in TermSafe :
    LET before == Term!TakeDamage(t)
        after == Term!FeedBytes(before, piece)
    IN  {r \in Term!Rows(t) : after.grid[r + 1] # before.grid[r + 1]} \subseteq after.dirty

\* Whatever is written on the alternate screen, leaving it brings back screen, cursor and
\* attributes.
ASSUME AltScreenRestores == \A t \in {TermStart, Term!FeedBytes(TermStart, <<"a", "b", "c">>)}, s \in Joined(TermSafe, 2) :
    LET back == Term!FeedBytes(t, AltOn \o s \o AltOff)
    IN  ~back.panicked => back.grid = t.grid /\ back.cur = t.cur /\ back.attrs = t.attrs

\* The scrollback holds the last lines that left, the oldest first.
ASSUME ScrollbackIsLast == \A n \in 0 .. 5 :
    LET t == FoldLeft(Term!PushLine, TermStart, [i \in 1 .. n |-> i])
        kept == Min({n, 2})
    IN  [i \in 1 .. kept |-> Term!GetLine(t, i - 1)] = [i \in 1 .. kept |-> n - kept + i]

\* Behind any broken bytes the decoder finds back: text that is well formed comes out.
DecoderBytes == {"a", "c3", "a9", "e2", "ff"}
Text(t) == t.grid[1]
ASSUME DecoderRecovers == \A junk \in BoundedSeq(DecoderBytes, 4), ch \in {<<"b">>, <<"c3", "a9">>, <<"e2", "a9", "a9">>} :
    LET t == Term!FeedBytes(Term!NewTerminal(12, 1), junk \o ch \o <<"c">>)
        shown == [i \in 1 .. t.cur.col |-> t.grid[1][i].ch]
    IN  IsSuffix(<<IF ch = <<"b">> THEN "b" ELSE TermDecoded[ch], "c">>, shown)

-----------------------------------------------------------------------------
(* Certificates *)

X509Oid == "sha256" :> <<1>> @@ "sha384" :> <<2>> @@ "mgf1" :> <<3>> @@ "pss" :> <<4>> @@ "rsaEncryption" :> <<5>> @@ "ecPublicKey" :> <<6>>
           @@ "p256" :> <<7>> @@ "p384" :> <<8>> @@ "ecdsa_sha256" :> <<9>> @@ "ecdsa_sha384" :> <<10>> @@ "serverAuth" :> <<11>> @@ "anyUsage" :> <<12>>
           @@ "basicConstraints" :> <<13>> @@ "keyUsage" :> <<14>> @@ "extKeyUsage" :> <<15>> @@ "subjectAltName" :> <<16>>
           @@ "authorityKeyId" :> <<17>> @@ "subjectKeyId" :> <<18>> @@ "nameConstraints" :> <<19>>
X == INSTANCE X509 WITH Oid <- X509Oid, RsaOid <- ("sha256" :> <<20>> @@ "sha384" :> <<21>>), HashLen <- ("sha256" :> 32 @@ "sha384" :> 48),
        KeyIsGood <- LAMBDA kind, bytes : bytes # <<>>, Verifies <- LAMBDA k, alg, tbs, signature : signature = k.bytes,
        MAX_CHAIN_CERTS <- 4, MAX_PATH_DEPTH <- 3

\* The one DER form of a value.
EncodeLen(n) == IF n < 128 THEN <<n>> ELSE IF n < 256 THEN <<129, n>> ELSE <<130, n \div 256, n % 256>>
Tlv(tag, content) == <<tag>> \o EncodeLen(Len(content)) \o content
Seq30(parts) == Tlv(X!SEQUENCE, FlattenSeq(parts))

\* What the reader takes is canonical: written again it is the same bytes, and with the
\* rest behind it, all there was.
DerBytes == {0, 1, 2, 48, 127, 128, 129, 130}
ASSUME DerIsCanonical ==
    /\ \A data \in BoundedSeq(DerBytes, 4) : LET r == X!ReadTlv(data) IN
         r.ok => Tlv(r.v.tag, r.v.content) = r.v.all /\ r.v.all \o r.v.rest = data
    /\ \A n \in 0 .. 300 : LET data == Tlv(4, [i \in 1 .. n |-> 0]) IN X!ReadTlv(data).ok /\ X!ReadTlv(data \o <<9>>).v.rest = <<9>>
    /\ \A data \in BoundedSeq(DerBytes, 4) : X!Items(data).ok =>
         data = FlattenSeq([i \in DOMAIN X!Items(data).v |-> Tlv(X!Items(data).v[i].tag, X!Items(data).v[i].content)])

\* Numbers and identifiers have one form: different contents mean different values.
NumberBytes == {0, 1, 127, 128, 129, 255}
Uints == {c \in BoundedSeq(NumberBytes, 3) : X!IsUint(c)}
Oids == {c \in BoundedSeq(NumberBytes, 3) : X!ValidOid(c)}
ASSUME NumbersAreCanonical ==
    /\ Cardinality({X!DecodeUint(c).v : c \in Uints}) = Cardinality(Uints)
    /\ Cardinality({X!Arcs(c) : c \in Oids}) = Cardinality(Oids)

\* The day after a date is the next number, from 1950 to 2110: days_from_civil counts.
DayAfter(y, m, d) == IF d < X!DaysInMonth(y, m) THEN <<y, m, d + 1>> ELSE IF m < 12 THEN <<y, m + 1, 1>> ELSE <<y + 1, 1, 1>>
ASSUME DaysAreCounted ==
    /\ X!DaysFromCivil(1970, 1, 1) = 0
    /\ \A y \in 1950 .. 2110, m \in 1 .. 12 : \A d \in 1 .. X!DaysInMonth(y, m) :
         LET next == DayAfter(y, m, d) IN X!DaysFromCivil(next[1], next[2], next[3]) = X!DaysFromCivil(y, m, d) + 1

\* Case and blanks do not tell names apart, and matching is an equivalence.
NameTexts == BoundedSeq({32, 65, 97, 98}, 3)
Attr(bytes) == [oid |-> <<1>>, tag |-> 12, bytes |-> bytes]
ASSUME NamesNormalise ==
    /\ \A s \in NameTexts : X!Normalize(X!Normalize(s)) = X!Normalize(s)
    /\ \A s \in NameTexts, t \in NameTexts : X!AttrMatches(Attr(s), Attr(<<32>> \o t)) <=> X!AttrMatches(Attr(t), Attr(s \o <<32>>))
    /\ \A s \in NameTexts : X!AttrMatches(Attr(s), [Attr(s) EXCEPT !.tag = X!BMP_STRING, !.bytes = FlattenSeq([i \in DOMAIN s |-> <<0, s[i]>>])])

\* A wildcard stands for exactly one label, and only as the first of three or more.
HostText == {<<97>>, <<98>>, <<42>>, <<>>}
Dotted(labels) == Tail(FlattenSeq([i \in DOMAIN labels |-> <<46>> \o labels[i]]))
Names(n) == {s \in BoundedSeq(HostText, n) : s # <<>>}
ASSUME WildcardIsOneLabel == \A pattern \in Names(3), host \in Names(4) :
    X!MatchesHost(<<[tag |-> X!Implicit(2), content |-> Dotted(pattern)]>>, Dotted(host)) <=>
        LET Bare(s) == IF Len(s) > 1 /\ Last(s) = <<>> THEN Front(s) ELSE s
            p == Bare(pattern)
            h == Bare(host)
        IN  /\ <<>> \notin Range(p) \cup Range(h) /\ Len(p) = Len(h)
            /\ p = h \/ (p[1] = <<42>> /\ Len(p) >= 3 /\ Tail(p) = Tail(h))
            /\ p[1] = <<42>> => Len(p) >= 3

\* "::" is the zeros that are missing, wherever it stands.
ColonForms == {<<a, b>> : a \in 0 .. 8, b \in 0 .. 8}
Group(n) == IF n = 0 THEN <<>> ELSE Tail(FlattenSeq([i \in 1 .. n |-> <<58, 49>>]))
ASSUME DoubleColonFills == \A f \in ColonForms :
    X!ParseIpLiteral(Group(f[1]) \o <<58, 58>> \o Group(f[2])) =
        IF f[1] + f[2] > 7 THEN X!None
        ELSE X!Some([k \in 1 .. 16 |-> IF k % 2 = 0 /\ (k <= 2 * f[1] \/ k > 16 - 2 * f[2]) THEN 1 ELSE 0])

\* A certificate, and what is wrong with it: every part may be replaced.
Ext(name, critical, value) == Seq30(<<Tlv(6, X509Oid[name]), IF critical THEN <<1, 1, 255>> ELSE <<>>, Tlv(4, value)>>)
CaExtensions == <<Ext("basicConstraints", TRUE, Seq30(<<<<1, 1, 255>>>>)), Ext("keyUsage", TRUE, <<3, 2, 2, 4>>)>>
San == Ext("subjectAltName", FALSE, Seq30(<<Tlv(130, <<97>>)>>))
NameOf(c) == Seq30(<<Tlv(X!SET_TAG, Seq30(<<Tlv(6, <<1>>), Tlv(12, <<c>>)>>))>>)
Stamp(year) == Tlv(23, year \o <<48, 49, 48, 49, 48, 48, 48, 48, 48, 48, 90>>)
Alg == Seq30(<<Tlv(6, X509Oid["ecdsa_sha256"])>>)
Parts(issuer, subject, extensions) ==
    [version |-> Tlv(160, <<2, 1, 2>>), serial |-> <<2, 1, 1>>, alg |-> Alg, issuer |-> NameOf(issuer),
     from |-> Stamp(<<50, 48>>), to |-> Stamp(<<51, 48>>), subject |-> NameOf(subject),
     key |-> Seq30(<<Seq30(<<Tlv(6, X509Oid["ecPublicKey"]), Tlv(6, X509Oid["p256"])>>), Tlv(3, <<0, subject>>)>>),
     extensions |-> Tlv(163, Seq30(extensions)), outer |-> Alg, signature |-> Tlv(3, <<0, issuer>>)]
Encoded(p) == Seq30(<<Seq30(<<p.version, p.serial, p.alg, p.issuer, Seq30(<<p.from, p.to>>), p.subject, p.key, p.extensions>>), p.outer, p.signature>>)
Leaf == Parts(67, 76, <<San>>)
Wrong == {<<"version", Tlv(160, <<2, 1, 1>>)>>, <<"version", <<>>>>, <<"serial", <<2, 2, 0, 1>>>>, <<"serial", <<2, 1, 128>>>>,
          <<"alg", Seq30(<<Tlv(6, X509Oid["ecdsa_sha384"])>>)>>, <<"outer", Seq30(<<Tlv(6, X509Oid["ecdsa_sha384"])>>)>>,
          <<"issuer", Seq30(<<Tlv(X!SET_TAG, <<>>)>>)>>, <<"to", Stamp(<<49, 57>>)>>, <<"from", Tlv(23, <<50>>)>>,
          <<"key", Seq30(<<Seq30(<<Tlv(6, X509Oid["ecPublicKey"]), <<5, 0>>>>), Tlv(3, <<0, 1>>)>>)>>, <<"signature", Tlv(3, <<1, 2>>)>>,
          <<"extensions", Tlv(163, Seq30(<<>>))>>, <<"extensions", Tlv(163, Seq30(<<San, San>>))>>,
          <<"extensions", Tlv(163, Seq30(<<Ext("pss", TRUE, <<>>)>>))>>,
          <<"extensions", Tlv(163, Seq30(<<Ext("basicConstraints", FALSE, Seq30(<<<<1, 1, 255>>>>))>>))>>,
          <<"extensions", Tlv(163, Seq30(<<Ext("keyUsage", TRUE, <<3, 2, 2, 4>>)>>))>>,
          <<"extensions", Tlv(163, Seq30(<<Ext("nameConstraints", FALSE, Seq30(<<Tlv(160, Seq30(<<Tlv(130, <<97>>)>>))>>))>>))>>}
ASSUME PartsAreChecked ==
    /\ X!ParseCertificate(Encoded(Leaf)).ok /\ X!ParseCertificate(Encoded(Parts(67, 67, CaExtensions))).ok
    /\ X!ParseCertificate(Encoded([Leaf EXCEPT !.extensions = Tlv(163, Seq30(<<Ext("pss", FALSE, <<>>), San>>))])).ok
    /\ \A w \in Wrong : ~X!ParseCertificate(Encoded([Leaf EXCEPT ![w[1]] = w[2]])).ok

\* find_path tells exactly whether a chain without repetition leads to an anchor, whatever
\* the order of the pool: of at most MAX_PATH_DEPTH certificates, the leaf included.
Issued(i, s) == X!ParseCertificate(Encoded(Parts(i, s, CaExtensions))).v
LeafCert == X!ParseCertificate(Encoded(Leaf)).v
People == {67, 68, 69, 70}
Pairs == {<<68, 67>>, <<69, 68>>, <<67, 68>>, <<70, 68>>, <<70, 67>>, <<70, 69>>, <<70, 70>>}
CertOf == [p \in Pairs |-> Issued(p[1], p[2])]
Today == X!ParseUtcTime(<<50, 53, 48, 49, 48, 49, 48, 48, 48, 48, 48, 48, 90>>).v
Anchors == <<CertOf[<<70, 70>>]>>
Chains(pool) == {s \in BoundedSeq(DOMAIN pool, 2) : IsInjective(s)}
Leads(pool, s) ==
    LET owner == <<67>> \o [i \in DOMAIN s |-> pool[s[i]][1]]
    IN  /\ \A i \in DOMAIN s : pool[s[i]][2] = owner[i]
        /\ Last(owner) = 70
ASSUME PathsAreFound == \A pool \in BoundedSeq(Pairs, 3) :
    X!FindPath(<<LeafCert>>, [i \in DOMAIN pool |-> CertOf[pool[i]]], {}, Anchors, Today) <=> \E s \in Chains(pool) : Leads(pool, s)

-----------------------------------------------------------------------------
(* USB *)

U == INSTANCE Usb WITH MAX_EXT_CAPS <- 3, TEN_LBAS <- 8, TEN_BLOCKS <- 3, MAX_LENGTH <- 10

\* A controller reads a transfer ring: it stops at the first block with the old cycle bit
\* and follows the link.
RingSize == 4
Controller(w) ==
    LET slot == w.mem[w.hw.at]
    IN  IF slot.cycle # w.hw.cycle THEN w
        ELSE IF slot.link THEN [w EXCEPT !.hw.at = 0, !.hw.cycle = ~@]
        ELSE [w EXCEPT !.hw.at = @ + 1, !.got = Append(@, slot.trb)]
Driver(w) ==
    LET p == U!Push(w.ring, w.mem, Len(w.sent), FALSE)
    IN  IF U!FreeSlots(w.ring, w.hw.at) = 0 THEN w ELSE [w EXCEPT !.ring = p.ring, !.mem = p.mem, !.sent = Append(@, Len(w.sent))]
\* An event ring, the other way round: the controller writes while there is room.
EventWrite(w) ==
    IF Len(w.sent) - Len(w.got) >= RingSize THEN w
    ELSE [w EXCEPT !.mem[w.hw.at] = [trb |-> Len(w.sent), link |-> FALSE, chain |-> FALSE, cycle |-> w.hw.cycle], !.sent = Append(@, Len(w.sent)),
                   !.hw = IF @.at + 1 = RingSize THEN [at |-> 0, cycle |-> ~@.cycle] ELSE [@ EXCEPT !.at = @ + 1]]
EventRead(w) ==
    LET p == U!Pop(w.ring, w.mem) IN IF p = U!None THEN w ELSE [w EXCEPT !.ring = p[1].ring, !.got = Append(@, p[1].trb)]
RingStart == [ring |-> U!NewRing(RingSize), mem |-> U!ZeroedRing(RingSize), hw |-> [at |-> 0, cycle |-> TRUE], sent |-> <<>>, got |-> <<>>]
Turns == [1 .. 11 -> BOOLEAN]
Drained(w, Step(_)) == FoldLeft(LAMBDA s, i : Step(s), w, [i \in 1 .. 2 * RingSize |-> i])
\* Whatever the order of writes and reads over several turns of the ring, every block
\* arrives once and in order.
ASSUME RingsDeliver == \A turn \in Turns :
    LET transfer == FoldLeft(LAMBDA w, i : IF turn[i] THEN Driver(w) ELSE Controller(w), RingStart, [i \in 1 .. 11 |-> i])
        events == FoldLeft(LAMBDA w, i : IF turn[i] THEN EventWrite(w) ELSE EventRead(w), RingStart, [i \in 1 .. 11 |-> i])
    IN  /\ IsPrefix(transfer.got, transfer.sent) /\ IsPrefix(events.got, events.sent)
        /\ LET end == Drained(transfer, Controller) IN end.got = end.sent
        /\ LET end == Drained(events, EventRead) IN end.got = end.sent

\* No two fields of a context meet: a field that is all ones is read back alone.  The cycle
\* state is the lowest bit of the dequeue pointer, which is aligned.
Only1(layout, f) == [g \in DOMAIN layout |-> IF g = f THEN (IF f = "dequeue_lo" THEN 4 ELSE 0) .. layout[f][3] - 1 ELSE {}]
ASSUME ContextFieldsApart ==
    /\ \A f \in DOMAIN U!SlotLayout : U!FromDwords(U!SlotLayout, U!ToDwords(U!SlotLayout, Only1(U!SlotLayout, f))) = Only1(U!SlotLayout, f)
    /\ \A f \in DOMAIN U!EndpointLayout : LET e == Only1(U!EndpointLayout, f) IN U!FromDwords(U!EndpointLayout, U!ToDwords(U!EndpointLayout, e)) = e
\* Every endpoint has a place of its own in the input context, inside it.
ASSUME EndpointsApart ==
    /\ \A a, b \in (1 .. 15) \cup (129 .. 143) : U!Dci(a) \in 2 .. 31 /\ (U!Dci(a) = U!Dci(b) => a = b)
    /\ \A csz \in BOOLEAN, d \in 1 .. 31 : (d + 1) * U!Stride(csz) + 7 < U!InputContextLen(csz)
\* The interval is the largest power of two not above the period asked for, in its bounds.
ASSUME IntervalsFit == \A b \in 0 .. 255, speed \in DOMAIN U!Speeds, type \in 0 .. 7 :
    LET i == U!Interval(speed, type, b)
    IN  /\ i \in 0 .. 15
        /\ speed \in {"Full", "Low"} /\ type \in {3, 7} /\ b > 0 => 2^i <= 8 * b /\ 8 * b < 2^(i + 1)

\* Writing a port register: changes are cleared and the port disabled by writing ones.
PortWrite(p, w) == (p \ (w \cap (U!Changes \cup {U!PED}))) \cup (w \cap {U!PR})
ASSUME PortWritesAreSafe == \A p \in SUBSET {0, 1, 4, 5, 9, 17, 18, 21, 23, 25} :
    /\ PortWrite(p, U!PortscNeutral(p)) = p
    /\ PortWrite(p, U!PortscReset(p)) = p \cup {U!PR}
    /\ PortWrite(p, U!PortscClearChanges(p)) = p \ U!Changes
\* The walk over the capabilities ends, and never looks at one twice.
ASSUME WalkEnds == \A read \in [1 .. 4 -> [id : {1, 2, 3}, next : 0 .. 2, ones : BOOLEAN]] :
    LET far == [i \in 1 .. 6 |-> IF i <= 4 THEN read[i] ELSE [id |-> 1, next |-> 0, ones |-> TRUE]]
        caps == U!WalkExtendedCaps(far, 1)
    IN  Len(caps) <= 3 /\ \A i, j \in DOMAIN caps : i < j => caps[i].offset < caps[j].offset

\* What the scan codes say is pressed is what the last report says, the modifiers too,
\* even behind reports of too many keys.
PressedBy(codes) ==
    FoldLeft(LAMBDA s, c : IF c = 224 THEN [s EXCEPT !.e0 = TRUE]
                           ELSE [e0 |-> FALSE, down |-> IF c >= 128 THEN s.down \ {<<s.e0, c - 128>>} ELSE s.down \cup {<<s.e0, c>>}],
             [e0 |-> FALSE, down |-> {}], codes).down
Typed(reports) == FoldLeft(LAMBDA s, r : LET n == U!Report(s.previous, r) IN [previous |-> n.previous, out |-> s.out \o n.out],
                           [previous |-> [i \in 1 .. 8 |-> 0], out |-> <<>>], reports)
KeyReport(mods, a, b) == <<mods, 0, a, b, 0, 0, 0, 0>>
KeyReports(keys) == {KeyReport(m, a, b) : m \in {0, 9, 64}, a \in keys, b \in keys} \cup {KeyReport(8, 1, 1), <<1, 0, 4>>}
MeantBy(r) == {U!ModifierCodes[b + 1] : b \in U!Bits(r[1])} \cup ({U!GetKeyCodes(k) : k \in Range(U!Keys(r))} \ {U!None})
AsPair(c) == IF Len(c) = 2 THEN <<TRUE, c[2]>> ELSE <<FALSE, c[1]>>
ASSUME KeysInStep == \A reports \in BoundedSeq(KeyReports({0, 4, 49, 72, 80}), 2) :
    LET t == Typed(reports) IN PressedBy(t.out) = {AsPair(c) : c \in MeantBy(t.previous)}
\* Two usages have one scan code: releasing one of them releases both.
ASSUME KeysShareACode == PressedBy(Typed(<<KeyReport(0, 49, 50), KeyReport(0, 49, 0)>>).out) = {}

\* Descriptors of other kinds change nothing, nor what lies behind the total length; a cut
\* in the middle is noticed.
DescPieces == {<<9, 4, 0, 0, 1, 8, 6, 80, 0>>, <<7, 5, 129, 2, 0, 18, 0>>, <<9, 33, 0, 0, 0, 0, 0, 63, 0>>, <<6, 48, 15, 0, 0, 0>>, <<2, 11>>, <<3, 36, 0>>}
ConfigOf(body, extra) == <<9, 2, 9 + Len(body), 0, 1, 1, 0, 128, 50>> \o body \o extra
ASSUME DescriptorsAssemble == \A s \in BoundedSeq(DescPieces, 4) :
    LET parsed == U!ParseConfiguration(ConfigOf(FlattenSeq(s), <<>>))
        known == SelectSeq(s, LAMBDA d : d[2] \in {4, 5, 33, 48})
    IN  /\ parsed.ok
        /\ parsed = U!ParseConfiguration(ConfigOf(FlattenSeq(known), <<1, 1>>))
        /\ s # <<>> => U!ParseConfiguration(Front(ConfigOf(FlattenSeq(s), <<>>))) = U!Fail("Truncated")
        /\ Len(parsed.v.interfaces) = Cardinality({i \in DOMAIN s : s[i][2] = 4})

\* Text written as UTF-16 is read back; a lone surrogate is replaced and hides nothing.
CodePoints == {65, 55295, 57344, 65536, 1114111}
AsUtf16(c) == IF c < 65536 THEN <<c>> ELSE <<55296 + (c - 65536) \div 1024, 56320 + ((c - 65536) % 1024)>>
ASSUME StringsReadBack == \A s \in BoundedSeq(CodePoints, 3), lone \in {<<>>, <<55296>>, <<57343>>} :
    LET units == FlattenSeq([i \in DOMAIN s |-> AsUtf16(s[i])])
        bytes == FlattenSeq([i \in DOMAIN units |-> <<units[i] % 256, units[i] \div 256>>])
    IN  /\ U!ParseString(<<2 + Len(bytes), 3>> \o bytes) = U!Ok(s)
        /\ U!Utf16(lone \o <<65>> \o units) = (IF lone = <<>> THEN <<>> ELSE <<U!REPLACEMENT>>) \o <<65>> \o s

\* A read or write asks for the blocks it was asked for, in the long form where the short
\* one cannot name them.
ASSUME TransfersNameBlocks == \A lba \in 0 .. 12, blocks \in 0 .. 6, size \in 1 .. 3, in \in BOOLEAN :
    LET c == U!Transfer(in, lba, blocks, size)
    IN  IF blocks = 0 \/ blocks * size > 10 THEN c = U!None
        ELSE /\ c[1].lba = lba /\ c[1].blocks = blocks /\ c[1].length = blocks * size
             /\ c[1].cbLen = 10 <=> (blocks <= 3 /\ lba + blocks - 1 <= 7)
=============================================================================

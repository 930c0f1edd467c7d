--------------------------- MODULE HtmlTokenizer ---------------------------
(***************************************************************************)
(* The tokenizer of otter-html (crates/otter-html/src/tokenizer): one      *)
(* character at a time through a state machine that may reconsume, with    *)
(* look-ahead for character references and DOCTYPEs.  A character is a     *)
(* string; "NUL" is U+0000, "FFFD" the replacement character, " " any of   *)
(* tab, line feed, carriage return and blank, "FF" the form feed, which    *)
(* only DOCTYPEs count as blank.  The tables of letters and of named       *)
(* references are constants.                                               *)
(***************************************************************************)
EXTENDS Integers, Sequences, SequencesExt, FiniteSetsExt

CONSTANTS
    Lower,          \* function from letters to lower-case letters
    Digit,          \* function from hexadecimal digits to their values
    Entities,       \* function from the names of the table to what they stand for
    MaxParsed       \* the largest number that from_str_radix accepts (2^64 - 1)

Alpha == DOMAIN Lower
Decimal == {d \in DOMAIN Digit : Digit[d] < 10}
AlphaNum == Alpha \cup Decimal
Blank == {" "}
DocBlank == {" ", "FF"}
ToLower(c) == IF c \in Alpha THEN Lower[c] ELSE c
NulFree(c) == IF c = "NUL" THEN "FFFD" ELSE c

-----------------------------------------------------------------------------
(* Tokens and the tokenizer's fields. *)

None == <<"none">>          \* no name, no identifier
NoTag == [kind |-> "none"]
StartTag(name, attrs, closing) == [kind |-> "start", name |-> name, attrs |-> attrs, closing |-> closing]
EndTag(name) == [kind |-> "end", name |-> name]
Comment(text) == [kind |-> "comment", text |-> text]
Character(c) == [kind |-> "char", char |-> c]
Characters(s) == [i \in DOMAIN s |-> Character(s[i])]
NoDoctype == [kind |-> "doctype", name |-> None, public |-> None, system |-> None, quirks |-> FALSE]
Eof == [kind |-> "eof"]

\* with_state: carriage returns are gone and the first character is next.
Fresh(input) ==
    [input |-> input, pos |-> 1, state |-> "Data", tokens |-> <<>>, tag |-> NoTag,
     buffer |-> <<>>, name |-> <<>>, value |-> <<>>, doctype |-> NoDoctype]

More(t) == t.pos <= Len(t.input)
At(t, i) == IF i \in DOMAIN t.input THEN t.input[i] ELSE ""
Goto(t, state) == [t EXCEPT !.state = state]
Reconsume(t, state) == [t EXCEPT !.state = state, !.pos = @ - 1]
Emit(t, tokens) == [t EXCEPT !.tokens = @ \o tokens]
Collect(t, s) == [t EXCEPT !.buffer = @ \o s]
EmitComment(t) == Goto(Emit(t, <<Comment(t.buffer)>>), "Data")

\* emit_current_tag, finalize_attribute: the first value of a name is kept, and an end
\* tag keeps none.
EmitTag(t) == Goto([t EXCEPT !.tokens = IF t.tag = NoTag THEN @ ELSE Append(@, t.tag), !.tag = NoTag], "Data")
NewAttribute(t, name) == [t EXCEPT !.name = name, !.value = <<>>]
FinalizeAttribute(t) ==
    LET kept == IF t.name # <<>> /\ t.tag.kind = "start"
                THEN [t EXCEPT !.tag.attrs = @ @@ (t.name :> t.value)]
                ELSE t
    IN  NewAttribute(kept, <<>>)
\* emit_doctype, emit_doctype_proper
EmitDoctype(t) == Goto([t EXCEPT !.tokens = Append(@, t.doctype), !.doctype = NoDoctype], "Data")
EmitDoctypeProper(t) == EmitDoctype([t EXCEPT !.doctype.quirks = FALSE])

-----------------------------------------------------------------------------
(* Character references. *)

\* The last position of the longest run of characters of S that starts at i.
RunEnd(t, i, S) == Min({j \in i .. Len(t.input) + 1 : At(t, j) \notin S}) - 1

Parsed(s, radix) == FoldLeft(LAMBDA n, c : n * radix + Digit[c], 0, s)
Windows1252 == <<8364, 129, 8218, 402, 8222, 8230, 8224, 8225, 710, 8240, 352, 8249, 338, 141, 381, 143,
                 144, 8216, 8217, 8220, 8221, 8226, 8211, 8212, 732, 8482, 353, 8250, 339, 157, 382, 376>>
\* decode_numeric_entity, as the number of a character
DecodeNumericEntity(n) ==
    LET final == IF n \in 128 .. 159 THEN Windows1252[n - 127] ELSE n
    IN  IF final = 0 \/ final \in 55296 .. 57343 \/ final > 1114111 THEN "FFFD" ELSE ToString(final)

\* "#" or "#x" at i: where the digits start and end, and what they stand for.
Numeric(t, i) ==
    LET hex == At(t, i + 1) \in {"x", "X"}
        first == IF hex THEN i + 2 ELSE i + 1
        last == RunEnd(t, first, IF hex THEN DOMAIN Digit ELSE Decimal)
        n == Parsed(SubSeq(t.input, first, last), IF hex THEN 16 ELSE 10)
    IN  [found |-> last >= first, last |-> last, parses |-> n <= MaxParsed, char |-> DecodeNumericEntity(n)]

Name(t, i) == SubSeq(t.input, i, RunEnd(t, i, AlphaNum \cup {";"}))
IsEntity(name) == name \in DOMAIN Entities
EndsInSemicolon(name) == name # <<>> /\ Last(name) = ";"
\* The longest prefix of the name that the table has and the caller accepts, or 0.
Longest(name, from, Accepts(_)) ==
    Max({0} \cup {n \in from .. Len(name) : IsEntity(SubSeq(name, 1, n)) /\ Accepts(n)})

\* character_reference_state: pos is behind the "&"; the main loop will add one to pos.
CharacterReferenceState(t) ==
    LET i == t.pos
        literal == [Emit(t, Characters(<<"&">>)) EXCEPT !.pos = i - 1]
        numeric == Numeric(t, i)
        name == Name(t, i)
        n == Longest(name, IF EndsInSemicolon(name) THEN 2 ELSE 1, LAMBDA k : TRUE)
        result ==
            CASE ~More(t) -> Emit(t, Characters(<<"&">>))
              [] More(t) /\ At(t, i) = "#" ->
                    IF ~numeric.found THEN literal
                    ELSE [Emit(t, <<Character(IF numeric.parses THEN numeric.char ELSE "FFFD")>>)
                             EXCEPT !.pos = numeric.last + (IF At(t, numeric.last + 1) = ";" THEN 1 ELSE 0)]
              [] OTHER ->
                    IF n > 0
                    THEN [Emit(t, Characters(Entities[SubSeq(name, 1, n)]))
                             EXCEPT !.pos = i + n - 1 + (IF EndsInSemicolon(name) /\ n < Len(name) THEN 1 ELSE 0)]
                    ELSE IF EndsInSemicolon(name)
                    THEN [Emit(t, Characters(<<"&">> \o name)) EXCEPT !.pos = i + Len(name) - 1]
                    ELSE literal
    IN  Goto(result, "Data")

\* parse_entity_in_attr_value: pos is at the "&" and stays on the last character used.
ParseEntityInAttrValue(t) ==
    LET i == t.pos + 1
        Value(s, pos) == [t EXCEPT !.value = @ \o s, !.pos = pos]
        literal == Value(<<"&">>, t.pos)
        numeric == Numeric(t, i)
        name == Name(t, i)
        Follows(n) == At(t, i + n) \in AlphaNum \cup {"="}
        shorter == Longest(name, 1, LAMBDA n : ~Follows(n) /\ (EndsInSemicolon(name) => n < Len(name)))
    IN  CASE At(t, i) = "#" ->
                CASE i = Len(t.input) -> Value(<<"&", "#">>, t.pos)
                  [] numeric.found /\ numeric.parses ->
                        Value(<<numeric.char>>, numeric.last + (IF At(t, numeric.last + 1) = ";" THEN 1 ELSE 0))
                  [] OTHER -> literal
          [] At(t, i) # "#" /\ IsEntity(name) ->
                IF ~EndsInSemicolon(name) /\ Follows(Len(name)) THEN literal
                ELSE Value(Entities[name], i + Len(name) - 1)
          [] OTHER ->
                IF shorter > 0
                THEN Value(Entities[SubSeq(name, 1, shorter)], i + shorter - (IF EndsInSemicolon(name) THEN 0 ELSE 1))
                ELSE IF EndsInSemicolon(name) THEN Value(<<"&">> \o name, i + Len(name) - 1)
                ELSE literal

\* parse_entity_in_rcdata: pos is at the "&" and ends behind what was used.
ParseEntityInRcdata(t) ==
    LET i == t.pos + 1
        Text(s, pos) == [Emit(t, Characters(s)) EXCEPT !.pos = pos]
        numeric == Numeric(t, i)
        name == Name(t, i)
        behind == i + Len(name)
        short == SubSeq(name, 1, Len(name) - 1)
    IN  CASE At(t, i) = "#" ->
                CASE i = Len(t.input) -> Text(<<"&", "#">>, i + 1)
                  [] numeric.found /\ numeric.parses ->
                        Text(<<numeric.char>>, numeric.last + (IF At(t, numeric.last + 1) = ";" THEN 2 ELSE 1))
                  [] OTHER -> Text(<<"&">>, t.pos)
          [] At(t, i) # "#" /\ IsEntity(name) -> Text(Entities[name], behind)
          [] OTHER ->
                IF EndsInSemicolon(name)
                THEN Text(IF IsEntity(short) THEN Entities[short] ELSE <<"&">> \o name, behind)
                ELSE Text(<<"&">>, i)

-----------------------------------------------------------------------------
(* Text and tags. *)

DataState(t, c) ==
    CASE c = "&" -> Goto([t EXCEPT !.buffer = <<>>], "CharacterReference")
      [] c = "<" -> Goto(t, "TagOpen")
      [] OTHER   -> Emit(t, <<Character(c)>>)

TagOpenState(t, c) ==
    CASE c = "/"       -> Goto(t, "EndTagOpen")
      [] c \in Alpha   -> Reconsume([t EXCEPT !.tag = StartTag(<<>>, <<>>, FALSE)], "TagName")
      [] c = "!"       -> Goto(t, "MarkupDeclarationOpen")
      [] c = "?"       -> Goto([t EXCEPT !.buffer = <<"?">>], "BogusComment")
      [] OTHER         -> Reconsume(Emit(t, <<Character("<")>>), "Data")

EndTagOpenState(t, c) ==
    CASE c \in Alpha   -> Reconsume([t EXCEPT !.tag = EndTag(<<>>)], "TagName")
      [] c = ">"       -> Goto(t, "Data")
      [] OTHER         -> Goto([t EXCEPT !.buffer = <<c>>], "BogusComment")

TagNameState(t, c) ==
    CASE c \in Blank   -> Goto(t, "BeforeAttributeName")
      [] c = "/"       -> Goto(t, "SelfClosingStartTag")
      [] c = ">"       -> EmitTag(t)
      [] OTHER         -> IF t.tag = NoTag THEN t ELSE [t EXCEPT !.tag.name = Append(@, ToLower(c))]

BeforeAttributeNameState(t, c) ==
    CASE c \in Blank   -> t
      [] c = "/"       -> Goto(t, "SelfClosingStartTag")
      [] c = "="       -> Goto(NewAttribute(t, <<"=">>), "BeforeAttributeValue")
      [] c = ">"       -> EmitTag(t)
      [] OTHER         -> Reconsume(NewAttribute(t, <<>>), "AttributeName")

\* The attribute is not finalized before "/": the next one replaces it.
AttributeNameState(t, c) ==
    CASE c \in Blank   -> Goto(t, "AfterAttributeName")
      [] c = "/"       -> Goto(t, "SelfClosingStartTag")
      [] c = "="       -> Goto(t, "BeforeAttributeValue")
      [] c = ">"       -> EmitTag(FinalizeAttribute(t))
      [] OTHER         -> [t EXCEPT !.name = Append(@, ToLower(c))]

AfterAttributeNameState(t, c) ==
    CASE c \in Blank   -> t
      [] c = "/"       -> Goto(t, "SelfClosingStartTag")
      [] c = "="       -> Goto(t, "BeforeAttributeValue")
      [] c = ">"       -> EmitTag(FinalizeAttribute(t))
      [] OTHER         -> Reconsume(FinalizeAttribute(t), "AttributeName")

BeforeAttributeValueState(t, c) ==
    CASE c \in Blank   -> t
      [] c = "\""      -> Goto(t, "AttributeValueDoubleQuoted")
      [] c = "'"       -> Goto(t, "AttributeValueSingleQuoted")
      [] c = ">"       -> EmitTag(FinalizeAttribute(t))
      [] OTHER         -> Reconsume(t, "AttributeValueUnquoted")

AttrValueQuotedState(t, c, quote) ==
    CASE c = quote     -> Goto(t, "AfterAttributeValueQuoted")
      [] c = "&"       -> ParseEntityInAttrValue(t)
      [] OTHER         -> [t EXCEPT !.value = Append(@, c)]

\* A blank ends the value without finalizing the attribute.
AttrValueUnquotedState(t, c) ==
    CASE c \in Blank   -> Goto(t, "BeforeAttributeName")
      [] c = "&"       -> ParseEntityInAttrValue(t)
      [] c = ">"       -> EmitTag(FinalizeAttribute(t))
      [] c = "=" /\ t.name = <<"=">> /\ t.value = <<>> -> Reconsume(FinalizeAttribute(t), "BeforeAttributeName")
      [] OTHER         -> [t EXCEPT !.value = Append(@, c)]

AfterAttrValueQuotedState(t, c) ==
    CASE c \in Blank   -> Goto(FinalizeAttribute(t), "BeforeAttributeName")
      [] c = "/"       -> Goto(FinalizeAttribute(t), "SelfClosingStartTag")
      [] c = ">"       -> EmitTag(FinalizeAttribute(t))
      [] OTHER         -> Reconsume(FinalizeAttribute(t), "BeforeAttributeName")

SelfClosingStartTagState(t, c) ==
    IF c = ">" THEN EmitTag(IF t.tag.kind = "start" THEN [t EXCEPT !.tag.closing = TRUE] ELSE t)
    ELSE Reconsume(t, "BeforeAttributeName")

-----------------------------------------------------------------------------
(* Comments. *)

MarkupDeclarationOpenState(t, c) ==
    LET keyword == [i \in 1 .. 7 |-> ToLower(At(t, t.pos + i - 1))]
    IN  CASE keyword = <<"d", "o", "c", "t", "y", "p", "e">> ->
                Goto([t EXCEPT !.doctype.quirks = TRUE, !.pos = @ + 6], "DocType")
          [] c = "-" /\ At(t, t.pos + 1) = "-" ->
                Goto([t EXCEPT !.pos = @ + 1, !.buffer = <<>>], "CommentStart")
          [] OTHER -> Reconsume([t EXCEPT !.buffer = <<>>], "BogusComment")

BogusCommentState(t, c) == IF c = ">" THEN EmitComment(t) ELSE Collect(t, <<NulFree(c)>>)

\* A state that holds back some dashes: they are collected when no end follows.
HeldBack(t, c, dashes) ==
    IF c = "NUL" THEN Goto(Collect(t, dashes \o <<"FFFD">>), "Comment")
    ELSE Reconsume(Collect(t, dashes), "Comment")

CommentStartState(t, c) ==
    CASE c = "-" -> Goto(t, "CommentStartDash")
      [] c = ">" -> EmitComment(t)
      [] OTHER   -> Reconsume(t, "Comment")
CommentStartDashState(t, c) ==
    CASE c = "-" -> Goto(t, "CommentEnd")
      [] c = ">" -> EmitComment(t)
      [] OTHER   -> HeldBack(t, c, <<"-">>)
CommentState(t, c) == IF c = "-" THEN Goto(t, "CommentEndDash") ELSE Collect(t, <<NulFree(c)>>)
CommentEndDashState(t, c) == IF c = "-" THEN Goto(t, "CommentEnd") ELSE HeldBack(t, c, <<"-">>)
CommentEndState(t, c) ==
    CASE c = ">" -> EmitComment(t)
      [] c = "-" -> Collect(t, <<"-">>)
      [] c = "!" -> Goto(t, "CommentEndBang")
      [] OTHER   -> Reconsume(Collect(t, <<"-", "-">>), "Comment")
CommentEndBangState(t, c) ==
    CASE c = "-" -> Goto(Collect(t, <<"-", "-", "!">>), "CommentEndDash")
      [] c = ">" -> EmitComment(t)
      [] OTHER   -> Reconsume(Collect(t, <<"-", "-", "!">>), "Comment")

-----------------------------------------------------------------------------
(* DOCTYPEs: after the name the rest is parsed in one go. *)

DocTypeState(t) == Reconsume([t EXCEPT !.doctype.quirks = TRUE], "BeforeDocTypeName")
BeforeDocTypeNameState(t, c) ==
    CASE c \in DocBlank -> t
      [] c = ">"        -> EmitDoctype([t EXCEPT !.doctype.name = None, !.doctype.quirks = TRUE])
      [] OTHER          -> Goto([t EXCEPT !.doctype.name = <<NulFree(ToLower(c))>>], "DocTypeName")
DocTypeNameState(t, c) ==
    CASE c \in DocBlank -> Goto(t, "AfterDocTypeName")
      [] c = ">"        -> EmitDoctypeProper(t)
      [] OTHER          -> [t EXCEPT !.doctype.name = Append(@, NulFree(ToLower(c)))]
BogusDocTypeState(t, c) == IF c = ">" THEN EmitDoctype(t) ELSE t

SkipBlanks(t, blanks) == [t EXCEPT !.pos = RunEnd(t, t.pos, blanks) + 1]
\* What may follow the last identifier.
AfterIdentifier(t) == IF At(t, t.pos) = ">" THEN EmitDoctypeProper(t) ELSE Goto(t, "BogusDocType")
Quotes == {"\"", "'"}
KeywordAt(t, word) ==
    /\ t.pos + 5 <= Len(t.input)
    /\ [i \in 1 .. 6 |-> ToLower(At(t, t.pos + i - 1))] = word
    /\ At(t, t.pos + 6) \in Blank \cup Quotes \cup {""}

\* A quoted identifier at pos, up to the quote or to ">", which ends the DOCTYPE.
QuotedEnd(t) == Min({j \in t.pos + 1 .. Len(t.input) + 1 : At(t, j) \in {At(t, t.pos), ">", ""}})
Quoted(t, clean(_)) == [i \in 1 .. QuotedEnd(t) - t.pos - 1 |-> clean(At(t, t.pos + i))]
BehindQuote(t) == [t EXCEPT !.pos = QuotedEnd(t) + (IF At(t, QuotedEnd(t)) = At(t, t.pos) THEN 1 ELSE 0)]

ParseDoctypeSystemId(at) ==
    LET t == SkipBlanks(at, DocBlank)
        named == [t EXCEPT !.doctype.system = Quoted(t, NulFree)]
    IN  CASE ~More(t) -> EmitDoctype(t)
          [] At(t, t.pos) \in Quotes ->
                IF At(t, QuotedEnd(t)) = ">" THEN EmitDoctype([named EXCEPT !.pos = QuotedEnd(t)])
                ELSE AfterIdentifier(SkipBlanks(BehindQuote(named), DocBlank))
          [] OTHER -> Goto([t EXCEPT !.doctype.system = <<>>], "BogusDocType")

\* A system identifier may follow the public one with or without its keyword; without
\* it, U+0000 stays and a form feed is no blank.
AfterPublicId(at) ==
    LET t == SkipBlanks(at, DocBlank)
        Same(c) == c
        named == [t EXCEPT !.doctype.system = Quoted(t, Same)]
    IN  CASE ~More(t) -> EmitDoctype(t)
          [] KeywordAt(t, <<"s", "y", "s", "t", "e", "m">>) -> ParseDoctypeSystemId([t EXCEPT !.pos = @ + 6])
          [] At(t, t.pos) \in Quotes ->
                IF At(t, QuotedEnd(t)) = ">" THEN EmitDoctype([named EXCEPT !.pos = QuotedEnd(t)])
                ELSE AfterIdentifier(SkipBlanks(BehindQuote(named), Blank))
          [] OTHER -> AfterIdentifier(t)

ParseDoctypePublicId(at) ==
    LET t == SkipBlanks(at, DocBlank)
        named == [t EXCEPT !.doctype.public = Quoted(t, NulFree)]
    IN  CASE ~More(t) -> EmitDoctype(t)
          [] At(t, t.pos) \in Quotes ->
                IF At(t, QuotedEnd(t)) = ">" THEN EmitDoctype([named EXCEPT !.pos = QuotedEnd(t)])
                ELSE AfterPublicId(BehindQuote(named))
          [] OTHER -> Goto([t EXCEPT !.doctype.public = <<>>], "BogusDocType")

AfterDocTypeNameState(at) ==
    LET t == SkipBlanks(at, DocBlank)
    IN  CASE ~More(t) -> EmitDoctype(t)
          [] KeywordAt(t, <<"p", "u", "b", "l", "i", "c">>) -> ParseDoctypePublicId([t EXCEPT !.pos = @ + 6])
          [] KeywordAt(t, <<"s", "y", "s", "t", "e", "m">>) -> ParseDoctypeSystemId([t EXCEPT !.pos = @ + 6])
          [] OTHER -> AfterIdentifier(t)

-----------------------------------------------------------------------------
(* The main loop. *)

ProcessState(t) ==
    LET c == At(t, t.pos)
    IN  CASE t.state = "Data"                       -> DataState(t, c)
          [] t.state = "CharacterReference"         -> CharacterReferenceState(t)
          [] t.state = "TagOpen"                    -> TagOpenState(t, c)
          [] t.state = "EndTagOpen"                 -> EndTagOpenState(t, c)
          [] t.state = "TagName"                    -> TagNameState(t, c)
          [] t.state = "BeforeAttributeName"        -> BeforeAttributeNameState(t, c)
          [] t.state = "AttributeName"              -> AttributeNameState(t, c)
          [] t.state = "AfterAttributeName"         -> AfterAttributeNameState(t, c)
          [] t.state = "BeforeAttributeValue"       -> BeforeAttributeValueState(t, c)
          [] t.state = "AttributeValueDoubleQuoted" -> AttrValueQuotedState(t, c, "\"")
          [] t.state = "AttributeValueSingleQuoted" -> AttrValueQuotedState(t, c, "'")
          [] t.state = "AttributeValueUnquoted"     -> AttrValueUnquotedState(t, c)
          [] t.state = "AfterAttributeValueQuoted"  -> AfterAttrValueQuotedState(t, c)
          [] t.state = "SelfClosingStartTag"        -> SelfClosingStartTagState(t, c)
          [] t.state = "MarkupDeclarationOpen"      -> MarkupDeclarationOpenState(t, c)
          [] t.state = "BogusComment"               -> BogusCommentState(t, c)
          [] t.state = "CommentStart"               -> CommentStartState(t, c)
          [] t.state = "CommentStartDash"           -> CommentStartDashState(t, c)
          [] t.state = "Comment"                    -> CommentState(t, c)
          [] t.state = "CommentEndDash"             -> CommentEndDashState(t, c)
          [] t.state = "CommentEnd"                 -> CommentEndState(t, c)
          [] t.state = "CommentEndBang"             -> CommentEndBangState(t, c)
          [] t.state = "DocType"                    -> DocTypeState(t)
          [] t.state = "BeforeDocTypeName"          -> BeforeDocTypeNameState(t, c)
          [] t.state = "DocTypeName"                -> DocTypeNameState(t, c)
          [] t.state = "AfterDocTypeName"           -> AfterDocTypeNameState(t)
          [] t.state = "BogusDocType"               -> BogusDocTypeState(t, c)

Step(t) == LET s == ProcessState(t) IN [s EXCEPT !.pos = @ + 1]
RECURSIVE Loop(_, _)
Loop(t, fuel) == IF More(t) /\ fuel > 0 THEN Loop(Step(t), fuel - 1) ELSE t

InTag == {"TagName", "BeforeAttributeName", "AttributeName", "AfterAttributeName", "BeforeAttributeValue",
          "AttributeValueDoubleQuoted", "AttributeValueSingleQuoted", "AttributeValueUnquoted",
          "AfterAttributeValueQuoted", "SelfClosingStartTag"}
InComment == {"Comment", "CommentStart", "CommentStartDash", "CommentEndDash", "CommentEnd", "CommentEndBang", "BogusComment"}
InDoctype == {"DocType", "BeforeDocTypeName", "DocTypeName", "AfterDocTypeName", "BogusDocType"}

\* The end of the input in the main loop, where an open tag is dropped; the other
\* loops, which emit it, do not know the states of `unknown`.
AtEof(t, tagTokens, unknown) ==
    CASE t.state \in unknown                 -> t.tokens
      [] t.state \in InComment \ unknown     -> Append(t.tokens, Comment(t.buffer))
      [] t.state \in InTag                   -> t.tokens \o tagTokens
      [] t.state \in InDoctype \ unknown     -> Append(t.tokens, t.doctype)
      [] t.state = "TagOpen"                 -> t.tokens \o Characters(<<"<">>)
      [] t.state = "EndTagOpen"              -> t.tokens \o Characters(<<"<", "/">>)
      [] t.state = "MarkupDeclarationOpen"   -> Append(t.tokens, Comment(<<>>))
      [] OTHER                               -> t.tokens
Fuel(t) == 3 * (Len(t.input) + 1)
Finish(t) ==
    LET s == IF t.state = "CharacterReference" THEN ProcessState(t) ELSE t
    IN  Append(AtEof(s, <<>>, {}), Eof)
Tokenize(input) == Finish(Loop(Fresh(input), Fuel(Fresh(input))))

-----------------------------------------------------------------------------
(* The loops of the other initial states. *)

TokenizePlaintext(input) == Append(Characters([i \in DOMAIN input |-> NulFree(input[i])]), Eof)

\* The rest of the input in the Data state, with the end that these loops have.
Resume(t, unknown) ==
    LET s == Loop(Goto(t, "Data"), Fuel(t))
    IN  Append(AtEof(s, IF s.tag = NoTag THEN <<>> ELSE <<s.tag>>, unknown), Eof)

\* The tag name behind "</" at pos, and whether it is the end of the last start tag.
EndName(t) == LET last == RunEnd(t, t.pos + 2, Alpha)
              IN  [i \in 1 .. last - t.pos - 1 |-> ToLower(At(t, t.pos + 1 + i))]
BehindName(t) == t.pos + 2 + Len(EndName(t))
IsEndTag(t, lastStart) ==
    /\ At(t, t.pos) = "<" /\ At(t, t.pos + 1) = "/"
    /\ EndName(t) = lastStart
    /\ At(t, BehindName(t)) \in {">", "/"} \cup DocBlank
\* The position of the ">" from i on, or the end of the input.
CloseAt(t, i) == Min({j \in i .. Len(t.input) + 1 : At(t, j) \in {">", ""}})

\* tokenize_rcdata and tokenize_rawtext.  What was collected before an end tag that is
\* never closed is kept, and the tag itself skipped.
RECURSIVE TextLoop(_, _, _, _)
TextLoop(t, lastStart, decodes, fuel) ==
    LET close == CloseAt(t, BehindName(t))
    IN  CASE ~More(t) \/ fuel = 0 -> Append(t.tokens, Eof)
          [] More(t) /\ fuel > 0 /\ decodes /\ At(t, t.pos) = "&" ->
                TextLoop(ParseEntityInRcdata(t), lastStart, decodes, fuel - 1)
          [] More(t) /\ fuel > 0 /\ IsEndTag(t, lastStart) ->
                IF close <= Len(t.input)
                THEN Resume([Emit(t, <<EndTag(lastStart)>>) EXCEPT !.pos = close + 1], {"CommentEndBang", "DocType"})
                ELSE TextLoop([t EXCEPT !.pos = close], lastStart, decodes, fuel - 1)
          [] OTHER ->
                TextLoop([Emit(t, <<Character(NulFree(At(t, t.pos)))>>) EXCEPT !.pos = @ + 1], lastStart, decodes, fuel - 1)
TokenizeRcdata(input, lastStart) == TextLoop(Fresh(input), lastStart, TRUE, Fuel(Fresh(input)))
TokenizeRawtext(input, lastStart) == TextLoop(Fresh(input), lastStart, FALSE, Fuel(Fresh(input)))

\* tokenize_scriptdata stays in script data behind an end tag.
RECURSIVE ScriptLoop(_, _)
ScriptLoop(t, lastStart) ==
    CASE ~More(t) -> Append(t.tokens, Eof)
      [] More(t) /\ IsEndTag(t, lastStart) ->
            ScriptLoop([Emit(t, <<EndTag(lastStart)>>) EXCEPT !.pos = CloseAt(t, BehindName(t)) + 1], lastStart)
      [] OTHER -> ScriptLoop([Emit(t, <<Character(NulFree(At(t, t.pos)))>>) EXCEPT !.pos = @ + 1], lastStart)
TokenizeScriptdata(input, lastStart) == ScriptLoop(Fresh(input), lastStart)

\* tokenize_cdata: up to "]]>", U+0000 kept.
TokenizeCdata(input) ==
    LET ends == {i \in 1 .. Len(input) - 2 : SubSeq(input, i, i + 2) = <<"]", "]", ">">>}
        t == Fresh(input)
    IN  IF ends = {} THEN Append(Characters(input), Eof)
        ELSE Resume([t EXCEPT !.tokens = Characters(SubSeq(input, 1, Min(ends) - 1)), !.pos = Min(ends) + 3],
                    {"CommentEndBang"})
=============================================================================

------------------------------ MODULE HtmlTree ------------------------------
(***************************************************************************)
(* Documents of otter-html: the forgiving tree builder (tree.rs), the      *)
(* queries on a document (lib.rs), the renderer that turns it into blocks  *)
(* of styled spans (render.rs) and their layout as text (text.rs).  Tag    *)
(* names and text are sequences of characters; the tables of tag names are *)
(* constants, and so is the resolution of a link against its base.         *)
(***************************************************************************)
EXTENDS HtmlTokenizer

CONSTANTS
    VOID_ELEMENTS, BLOCK_ELEMENTS, TEXT_ELEMENTS, RAW_ELEMENTS, HEAD_ELEMENTS,
    HIDDEN_ELEMENTS, PARAGRAPH_ELEMENTS, CODE_ELEMENTS,
    HEADINGS,           \* function from heading tags to their levels
    UNESCAPES,          \* what raw contents are unescaped with, in order: <<text, character>>
    NUMBERS,            \* function from the texts that parse as numbers to their values
    Resolve(_, _)       \* Url::resolve, <<>> if there is no such link

HtmlTag == <<"h", "t", "m", "l">>
HeadTag == <<"h", "e", "a", "d">>
BodyTag == <<"b", "o", "d", "y">>
PTag == <<"p">>
LiTag == <<"l", "i">>
DefinitionTags == {<<"d", "t">>, <<"d", "d">>}
TitleTag == <<"t", "i", "t", "l", "e">>
BaseTag == <<"b", "a", "s", "e">>
BrTag == <<"b", "r">>
Href == <<"h", "r", "e", "f">>
Start == <<"s", "t", "a", "r", "t">>
Alt == <<"a", "l", "t">>
ListTags == {<<"u", "l">>, <<"o", "l">>}

-----------------------------------------------------------------------------
(* Document *)

Node(kind, tag, attrs, content) ==
    [kind |-> kind, tag |-> tag, attrs |-> attrs, content |-> content, children |-> <<>>, parent |-> 0]
Element(tag, attrs) == Node("element", tag, attrs, <<>>)
TextNode(content) == Node("text", <<>>, <<>>, content)
\* create_element or create_text, and append_child
Added(nodes, parent, node) ==
    [Append(nodes, [node EXCEPT !.parent = parent]) EXCEPT ![parent].children = Append(@, Len(nodes) + 1)]
ChildElements(nodes, parent, tag) ==
    {c \in Range(nodes[parent].children) : nodes[c].kind = "element" /\ nodes[c].tag = tag}
Root(nodes) == LET html == ChildElements(nodes, 1, HtmlTag) IN IF html = {} THEN 0 ELSE Min(html)

RECURSIVE TextContent(_, _)
TextContent(nodes, n) ==
    nodes[n].content \o FlattenSeq([i \in DOMAIN nodes[n].children |-> TextContent(nodes, nodes[n].children[i])])
\* The elements of a subtree in document order: find_element_by_tag takes the first that
\* fits, collect_links all that do.
RECURSIVE Elements(_, _)
Elements(nodes, n) ==
    (IF nodes[n].kind = "element" THEN <<n>> ELSE <<>>)
    \o FlattenSeq([i \in DOMAIN nodes[n].children |-> Elements(nodes, nodes[n].children[i])])
FindElementByTag(nodes, n, tag) ==
    LET found == IF n = 0 THEN <<>> ELSE SelectSeq(Elements(nodes, n), LAMBDA e : nodes[e].tag = tag)
    IN  IF found = <<>> THEN 0 ELSE Head(found)
InHead(nodes, tag) == FindElementByTag(nodes, FindElementByTag(nodes, Root(nodes), HeadTag), tag)

\* Blanks at the ends are gone and runs of them are one (title).
Collapsed(s) == LET kept == {i \in DOMAIN s : s[i] # " " \/ (i > 1 /\ s[i - 1] # " " /\ \E j \in i .. Len(s) : s[j] # " ")}
                IN  [k \in 1 .. Cardinality(kept) |-> s[CHOOSE i \in kept : Cardinality({j \in kept : j <= i}) = k]]
Title(nodes) == LET title == InHead(nodes, TitleTag) IN IF title = 0 THEN <<>> ELSE Collapsed(TextContent(nodes, title))
HrefOf(node) == IF Href \in DOMAIN node.attrs THEN node.attrs[Href] ELSE None
Links(nodes) ==
    LET anchors == SelectSeq(Elements(nodes, Root(nodes)), LAMBDA e : nodes[e].tag = <<"a">> /\ HrefOf(nodes[e]) # None)
    IN  IF Root(nodes) = 0 THEN <<>> ELSE [i \in DOMAIN anchors |-> <<TextContent(nodes, anchors[i]), HrefOf(nodes[anchors[i]])>>]
BaseHref(nodes) ==
    LET base == InHead(nodes, BaseTag) IN IF base = 0 THEN None ELSE HrefOf(nodes[base])

-----------------------------------------------------------------------------
(* TreeBuilder: the document, the open elements, the text that raw elements are cut    *)
(* from, and whether the code indexed an empty stack.                                  *)

Open(tag, n) == [tag |-> tag, node |-> n]
NewBuilder(html) ==
    [nodes |-> Added(<<Node("document", <<>>, <<>>, <<>>)>>, 1, Element(HtmlTag, <<>>)),
     stack |-> <<Open(HtmlTag, 2)>>, html |-> html, inHead |-> TRUE, body |-> FALSE, panicked |-> FALSE]

\* insert_element and add_text go below the innermost open element, or nowhere.
Inserted(b, node) ==
    [b EXCEPT !.nodes = IF b.stack = <<>> THEN (IF node.kind = "text" THEN @ ELSE Append(@, node))
                        ELSE Added(@, Last(b.stack).node, node)]
InsertElement(b, tag, attrs) ==
    LET in == Inserted(b, Element(tag, attrs))
    IN  IF tag \in VOID_ELEMENTS THEN in ELSE [in EXCEPT !.stack = Append(@, Open(tag, Len(in.nodes)))]
AddText(b, text) == IF text = <<>> THEN b ELSE Inserted(b, TextNode(text))

\* close_p, close_li, close_dt_dd take one element out of the middle; close_to all above.
CloseOne(b, tags) ==
    LET open == {i \in DOMAIN b.stack : b.stack[i].tag \in tags}
    IN  IF open = {} THEN b ELSE [b EXCEPT !.stack = RemoveAt(@, Max(open))]
CloseTo(b, tag) ==
    LET open == {i \in DOMAIN b.stack : b.stack[i].tag = tag}
    IN  IF open = {} THEN b ELSE [b EXCEPT !.stack = SubSeq(@, 1, Max(open) - 1)]

\* ensure_head, ensure_body
Pushed(b, tag, n) == [b EXCEPT !.stack = Append(@, Open(tag, n))]
EnsureHead(b) ==
    LET html == b.stack[1].node
        heads == ChildElements(b.nodes, html, HeadTag)
        with == [b EXCEPT !.nodes = Added(@, html, Element(HeadTag, <<>>))]
    IN  CASE b.stack = <<>> -> [b EXCEPT !.panicked = TRUE]
          [] b.stack # <<>> /\ heads = {} ->
                IF Len(b.stack) = 1 THEN Pushed(with, HeadTag, Len(with.nodes)) ELSE with
          [] OTHER -> IF Len(b.stack) = 1 \/ b.stack[2].tag # HeadTag THEN Pushed(b, HeadTag, Min(heads)) ELSE b
EnsureBody(b) ==
    LET html == b.stack[1].node
        with == [b EXCEPT !.nodes = Added(@, html, Element(BodyTag, <<>>))]
    IN  CASE b.stack = <<>> -> [b EXCEPT !.panicked = TRUE]
          [] b.stack # <<>> /\ ChildElements(b.nodes, html, BodyTag) = {} -> Pushed(with, BodyTag, Len(with.nodes))
          [] OTHER -> b

\* The first place of a text in another, or 0.
Find(s, text, from) ==
    LET at == {i \in from .. Len(s) - Len(text) + 1 : SubSeq(s, i, i + Len(text) - 1) = text}
    IN  IF at = {} THEN 0 ELSE Min(at)
\* The contents of title, style, script and their like are cut out of the source, from
\* its first such tag to the first end of one.
Unescaped(s) == FoldLeft(LAMBDA text, u : ReplaceAllSubSeqs(<<u[2]>>, u[1], text), s, UNESCAPES)
WithRawContent(b, tag) ==
    LET closing == <<"<", "/">> \o tag \o <<">">>
        close == Find(b.html, closing, 1)
        opening == Find(b.html, <<"<">> \o tag, 1)
        start == Find(b.html, <<">">>, opening) + 1
        raw == SubSeq(b.html, start, close - 1)
        kept == IF raw = <<>> THEN b
                ELSE [b EXCEPT !.nodes = Added(@, Last(b.stack).node, TextNode(Unescaped(raw)))]
    IN  IF close = 0 \/ opening = 0 \/ start = 1 \/ start > close THEN b
        ELSE [kept EXCEPT !.html = SubSeq(@, 1, opening - 1) \o SubSeq(@, close + Len(closing), Len(@))]

\* The token that ends the skipping of a raw element's own tokens: its end tag, or the end.
RECURSIVE Skipped(_, _, _, _)
Skipped(tokens, i, tag, depth) ==
    IF i > Len(tokens) \/ depth = 0 THEN i - 1
    ELSE Skipped(tokens, i + 1, tag,
                 depth + (CASE tokens[i].kind = "start" /\ tokens[i].name = tag -> 1
                            [] tokens[i].kind = "end" /\ tokens[i].name = tag -> -1
                            [] OTHER -> 0))

OnStartTag(b, token) ==
    LET tag == token.name
        switches == b.inHead /\ tag \notin TEXT_ELEMENTS \cup HEAD_ELEMENTS /\ ~b.body
        at == IF switches THEN [EnsureBody(b) EXCEPT !.body = TRUE, !.inHead = FALSE] ELSE b
        p == IF tag \in BLOCK_ELEMENTS \ {PTag} THEN CloseOne(at, {PTag}) ELSE at
        li == IF tag = LiTag THEN CloseOne(p, {LiTag}) ELSE p
        closed == IF tag \in DefinitionTags THEN CloseOne(li, DefinitionTags) ELSE li
    IN  InsertElement(IF tag \in VOID_ELEMENTS THEN at ELSE closed, tag, token.attrs)
OnRawTag(b, token) ==
    LET head == IF b.inHead /\ token.name \in TEXT_ELEMENTS \cup HEAD_ELEMENTS THEN EnsureHead(b) ELSE b
    IN  WithRawContent(InsertElement(head, token.name, token.attrs), token.name)

IsRaw(token) == token.kind = "start" /\ ~token.closing /\ token.name \in TEXT_ELEMENTS \cup RAW_ELEMENTS
RECURSIVE BuildFrom(_, _, _, _)
BuildFrom(b, tokens, i, text) ==
    LET t == tokens[i]
        f == AddText(b, text)
    IN  CASE b.panicked -> b
          [] ~b.panicked /\ t.kind = "eof" -> IF f.body THEN f ELSE EnsureBody(f)
          [] ~b.panicked /\ t.kind = "char" -> BuildFrom(b, tokens, i + 1, Append(text, t.char))
          [] ~b.panicked /\ IsRaw(t) -> BuildFrom(OnRawTag(f, t), tokens, Skipped(tokens, i + 1, t.name, 1), <<>>)
          [] ~b.panicked /\ t.kind = "start" /\ ~IsRaw(t) -> BuildFrom(OnStartTag(f, t), tokens, i + 1, <<>>)
          [] ~b.panicked /\ t.kind = "end" -> BuildFrom(CloseTo(f, t.name), tokens, i + 1, <<>>)
          [] OTHER -> BuildFrom(f, tokens, i + 1, <<>>)
Parse(html) == BuildFrom(NewBuilder(html), Tokenize(html), 1, <<>>)

-----------------------------------------------------------------------------
(* Renderer *)

Plain == [link |-> <<>>, bold |-> FALSE, italic |-> FALSE, code |-> FALSE]
Span(text, style) == [text |-> text, style |-> style]
Block(kind, level, marker, spans) == [kind |-> kind, level |-> level, marker |-> marker, spans |-> spans]
NewRenderer(base) == [base |-> base, blocks |-> <<>>, spans |-> <<>>, style |-> Plain, lists |-> <<>>]

Merged(spans, span) ==
    IF spans # <<>> /\ Last(spans).style = span.style
    THEN [spans EXCEPT ![Len(spans)].text = @ \o span.text]
    ELSE Append(spans, span)
AddTextToSpans(r, text) == [r EXCEPT !.spans = Merged(@, Span(text, r.style))]
HasText(span) == \E i \in DOMAIN span.text : span.text[i] # " "
Push(r, block) == [r EXCEPT !.blocks = Append(@, block)]
FlushCurrentBlock(r) ==
    LET empty == [r EXCEPT !.spans = <<>>]
    IN  IF \E i \in DOMAIN r.spans : HasText(r.spans[i]) THEN Push(empty, Block("paragraph", 0, <<>>, r.spans)) ELSE empty

\* render_inline_children, after the children: runs of blanks become one, also across
\* spans, none starts the block and none ends its last span; "BR" stands for a line break.
RECURSIVE Squeezed(_, _)
Squeezed(text, blank) ==
    IF text = <<>> THEN <<>>
    ELSE (IF Head(text) = " " /\ blank THEN <<>> ELSE <<Head(text)>>) \o Squeezed(Tail(text), Head(text) = " ")
EndsBlank(text, blank) == IF text = <<>> THEN blank ELSE Last(text) = " "
RECURSIVE SqueezedSpans(_, _, _)
SqueezedSpans(spans, blank, out) ==
    IF spans = <<>> THEN out
    ELSE LET text == Squeezed(Head(spans).text, blank)
         IN  SqueezedSpans(Tail(spans), EndsBlank(Head(spans).text, blank),
                           IF text = <<>> THEN out ELSE Merged(out, Span(text, Head(spans).style)))
Trimmed(spans) ==
    LET text == Last(spans).text
    IN  CASE spans = <<>> -> spans
          [] spans # <<>> /\ text = <<" ">> -> Front(spans)
          [] OTHER -> IF Last(text) = " " THEN [spans EXCEPT ![Len(spans)].text = Front(@)] ELSE spans
Inline(spans) == Trimmed(SqueezedSpans(spans, TRUE, <<>>))

\* extract_pre_text: one line break at the start goes.
RECURSIVE PreText(_, _, _)
PreText(nodes, children, first) ==
    IF children = <<>> THEN <<>>
    ELSE LET c == nodes[Head(children)]
             cut == first /\ c.kind = "text" /\ Head(c.content) = "BR"
         IN  (CASE c.kind = "text" -> IF cut THEN Tail(c.content) ELSE c.content
                [] c.kind = "element" /\ c.tag = BrTag -> <<"BR">>
                [] OTHER -> <<>>)
             \o PreText(nodes, Tail(children), first /\ ~cut)

\* The inline style an element gives to what is in it.
Styled(style, tag, href, base) ==
    CASE tag = <<"a">> -> IF href = None THEN style ELSE [style EXCEPT !.link = Resolve(base, href)]
      [] tag \in {<<"b">>, <<"s", "t", "r", "o", "n", "g">>} -> [style EXCEPT !.bold = TRUE]
      [] tag \in {<<"i">>, <<"e", "m">>} -> [style EXCEPT !.italic = TRUE]
      [] tag \in CODE_ELEMENTS -> [style EXCEPT !.code = TRUE]
      [] OTHER -> style

RECURSIVE RenderNode(_, _, _)
RenderAll(nodes, r, children) == FoldLeft(LAMBDA acc, c : RenderNode(nodes, acc, c), r, children)
RenderInline(nodes, r, children) ==
    LET in == RenderAll(nodes, [r EXCEPT !.spans = <<>>], children)
    IN  [r |-> [in EXCEPT !.spans = r.spans], out |-> Inline(in.spans)]
RenderBlock(nodes, r, children, kind, level) ==
    LET in == RenderInline(nodes, FlushCurrentBlock(r), children)
    IN  IF in.out = <<>> THEN in.r ELSE Push(in.r, Block(kind, level, <<>>, in.out))

\* The spans of a list item are taken as they are; its blocks follow it.
RenderItem(nodes, r, children) ==
    LET isBlock(c) == nodes[c].kind = "element" /\ nodes[c].tag \in BLOCK_ELEMENTS
        in == RenderAll(nodes, FlushCurrentBlock(r), SelectSeq(children, LAMBDA c : ~isBlock(c)))
        blocks == SelectSeq(children, isBlock)
        marker == IF in.lists = <<>> \/ Last(in.lists).tag = <<"u", "l">> THEN <<"bullet">>
                  ELSE <<ToString(Last(in.lists).counter), ".">>
        item == Block("item", IF in.lists = <<>> THEN 0 ELSE Len(in.lists) - 1, marker, in.spans)
        counted == IF in.lists = <<>> THEN in ELSE [in EXCEPT !.lists[Len(in.lists)].counter = @ + 1]
        listed == IF in.spans = <<>> /\ blocks = <<>> THEN in ELSE Push(counted, item)
    IN  RenderAll(nodes, [listed EXCEPT !.spans = <<>>], blocks)

RenderList(nodes, r, node) ==
    LET start == IF node.tag = <<"o", "l">> /\ Start \in DOMAIN node.attrs /\ node.attrs[Start] \in DOMAIN NUMBERS
                 THEN NUMBERS[node.attrs[Start]] ELSE 1
        f == FlushCurrentBlock(r)
        in == RenderAll(nodes, [f EXCEPT !.lists = Append(@, [tag |-> node.tag, counter |-> start])], node.children)
    IN  [in EXCEPT !.lists = Front(@)]

\* render_table: a paragraph per row, the texts of its cells between bars.
RECURSIVE RenderTable(_, _, _)
RenderTable(nodes, r, children) ==
    LET Cell(acc, c) ==
            LET in == RenderInline(nodes, acc.r, nodes[c].children)
                text == FlattenSeq([i \in DOMAIN in.out |-> in.out[i].text])
            IN  IF nodes[c].tag \notin {<<"t", "d">>, <<"t", "h">>} THEN acc
                ELSE [r |-> in.r, text |-> acc.text \o (IF text = <<>> \/ acc.text = <<>> THEN text ELSE <<" ", "|", " ">> \o text)]
        Row(acc, c) ==
            LET cells == FoldLeft(Cell, [r |-> acc, text |-> <<>>], nodes[c].children)
            IN  CASE nodes[c].kind # "element" -> acc
                  [] nodes[c].kind = "element" /\ nodes[c].tag = <<"t", "r">> ->
                        IF cells.text = <<>> THEN cells.r
                        ELSE Push(cells.r, Block("paragraph", 0, <<>>, <<Span(cells.text, Plain)>>))
                  [] OTHER -> RenderTable(nodes, acc, nodes[c].children)
    IN  FoldLeft(Row, r, children)

RenderElement(nodes, r, node) ==
    LET inside == RenderAll(nodes, [r EXCEPT !.style = Styled(@, node.tag, HrefOf(node), r.base)], node.children)
        pre == PreText(nodes, node.children, TRUE)
    IN  CASE node.tag = BaseTag -> IF HrefOf(node) = None THEN r ELSE [r EXCEPT !.base = HrefOf(node)]
          [] node.tag \in HIDDEN_ELEMENTS -> r
          [] node.tag \in DOMAIN HEADINGS -> RenderBlock(nodes, r, node.children, "heading", HEADINGS[node.tag])
          [] node.tag \in PARAGRAPH_ELEMENTS -> RenderBlock(nodes, r, node.children, "paragraph", 0)
          [] node.tag = LiTag -> RenderItem(nodes, r, node.children)
          [] node.tag \in ListTags -> RenderList(nodes, r, node)
          [] node.tag = <<"p", "r", "e">> ->
                IF pre = <<>> THEN FlushCurrentBlock(r)
                ELSE Push(FlushCurrentBlock(r), Block("pre", 0, <<>>, <<Span(pre, Plain)>>))
          [] node.tag = <<"h", "r">> -> Push(FlushCurrentBlock(r), Block("rule", 0, <<>>, <<>>))
          [] node.tag = <<"t", "a", "b", "l", "e">> -> RenderTable(nodes, FlushCurrentBlock(r), node.children)
          [] node.tag = BrTag -> AddTextToSpans(r, <<"BR">>)
          [] node.tag = <<"i", "m", "g">> ->
                IF Alt \notin DOMAIN node.attrs \/ node.attrs[Alt] = <<>> THEN r
                ELSE AddTextToSpans(r, <<"[">> \o node.attrs[Alt] \o <<"]">>)
          [] OTHER -> [inside EXCEPT !.style = r.style]
RenderNode(nodes, r, n) ==
    CASE nodes[n].kind = "text" -> IF nodes[n].content = <<>> THEN r ELSE AddTextToSpans(r, nodes[n].content)
      [] nodes[n].kind = "element" -> RenderElement(nodes, r, nodes[n])
      [] OTHER -> RenderAll(nodes, r, nodes[n].children)
Render(nodes, base) ==
    LET r == NewRenderer(IF BaseHref(nodes) = None THEN base ELSE BaseHref(nodes))
    IN  FlushCurrentBlock(IF Root(nodes) = 0 THEN r ELSE RenderNode(nodes, r, Root(nodes))).blocks

-----------------------------------------------------------------------------
(* to_text: wrap_text, as lines of words behind an indentation. *)

\* A line takes a word unless it would pass the width; the first word always.
WordsLength(words) == FoldLeft(LAMBDA n, w : n + Len(w), Len(words) - 1, words)
Wrapped(words, first, indent, width) ==
    FoldLeft(LAMBDA lines, w :
                LET line == Last(lines)
                    left == IF Len(lines) = 1 THEN first ELSE indent
                IN  IF line = <<>> \/ left + WordsLength(line) + 1 + Len(w) <= width
                    THEN [lines EXCEPT ![Len(lines)] = Append(@, w)]
                    ELSE Append(lines, <<w>>),
             <<<<>>>>, words)
\* spans_to_text: each link has one number, in the order of first use.
References(spans) ==
    LET linked == SelectSeq(spans, LAMBDA s : s.style.link # <<>>)
        first == {i \in DOMAIN linked : \A j \in 1 .. i - 1 : linked[j].style.link # linked[i].style.link}
    IN  [k \in 1 .. Cardinality(first) |-> linked[CHOOSE i \in first : Cardinality({j \in first : j <= i}) = k].style.link]
=============================================================================

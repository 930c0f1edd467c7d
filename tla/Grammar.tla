------------------------------ MODULE Grammar ------------------------------
(***************************************************************************)
(* otter-grammar: the schemas of tools compiled, and the matcher that lets *)
(* the model's bytes pass only if they go on towards a tool call.  A byte  *)
(* is a number; a JSON value is a tuple whose first part names its kind,   *)
(* as in Json, where schemas have their keywords as strings and names as   *)
(* bytes.  The frames are a stack with its top first; a limit of -1 is     *)
(* none, an Option the set of what it holds.                               *)
(***************************************************************************)
EXTENDS Integers, Sequences, SequencesExt, FiniteSetsExt

CONSTANT MAX_DIGITS     \* of an integer (18)

-----------------------------------------------------------------------------
(* Schemas *)

Lookup(entries, key) ==
    LET at == {i \in DOMAIN entries : entries[i][1] = key} IN IF at = {} THEN {} ELSE {entries[Max(at)][2]}
Strings(values) == {v[2] : v \in {w \in values : w[1] = "string"}}
Elements(values) == {v[2] : v \in {w \in values : w[1] = "array"}}
OnlyStrings(items) == LET s == SelectSeq(items, LAMBDA v : v[1] = "string") IN [i \in DOMAIN s |-> s[i][2]]
\* A negative limit becomes a very large one.
Limit(values) == LET n == {v[3] : v \in {w \in values : w[1] = "number"}} IN IF n = {} THEN -1 ELSE IF Max(n) < 0 THEN -1 ELSE Max(n)

Ok(node) == [ok |-> TRUE, node |-> node]
Err(kind) == [ok |-> FALSE, kind |-> kind]
Uses(entries, keywords) == \E i \in DOMAIN entries : entries[i][1] \in keywords

RECURSIVE CompileSchema(_), CompileProperties(_, _)
\* The properties in their order, each with whether it is required.
CompileProperties(properties, required) ==
    LET first == CompileSchema(properties[1][2])
        others == CompileProperties(Tail(properties), required)
    IN  IF properties = <<>> THEN Ok(<<>>)
        ELSE IF ~first.ok THEN first
        ELSE IF ~others.ok THEN others
        ELSE Ok(<<<<properties[1][1], first.node, properties[1][1] \in required>>>> \o others.node)

CompileSchema(val) ==
    LET obj == val[2]
        const == Lookup(obj, "const")
        type == Strings(Lookup(obj, "type"))
        properties == {v[2] : v \in {w \in Lookup(obj, "properties") : w[1] = "object"}}
        required == UNION {ToSet(OnlyStrings(items)) : items \in Elements(Lookup(obj, "required"))}
        enum == {OnlyStrings(items) : items \in Elements(Lookup(obj, "enum"))}
        compiled == CompileProperties(CHOOSE p \in properties : TRUE, required)
        items == CompileSchema(CHOOSE v \in Lookup(obj, "items") : TRUE)
        Plain(keywords, node) == IF Uses(obj, keywords) THEN Err("UnsupportedKeyword") ELSE Ok(node)
    IN  CASE val[1] # "object" -> Err("InvalidSchema")
          [] val[1] = "object" /\ const # {} -> IF Strings(const) = {} THEN Err("InvalidSchema") ELSE Ok(<<"string", -1, {<<s>> : s \in Strings(const)}>>)
          [] val[1] = "object" /\ const = {} /\ type = {"object"} ->
                IF properties = {} THEN Err("InvalidSchema") ELSE IF compiled.ok THEN Ok(<<"object", compiled.node>>) ELSE compiled
          [] val[1] = "object" /\ const = {} /\ type = {"string"} -> Plain({"pattern", "minLength", "format"}, <<"string", Limit(Lookup(obj, "maxLength")), enum>>)
          [] val[1] = "object" /\ const = {} /\ type = {"integer"} ->
                Plain({"minimum", "maximum", "exclusiveMinimum", "exclusiveMaximum", "multipleOf"}, <<"integer">>)
          [] val[1] = "object" /\ const = {} /\ type = {"boolean"} -> Ok(<<"boolean">>)
          [] val[1] = "object" /\ const = {} /\ type = {"null"} -> Ok(<<"null">>)
          [] val[1] = "object" /\ const = {} /\ type = {"array"} ->
                IF Uses(obj, {"minItems", "uniqueItems"}) THEN Err("UnsupportedKeyword")
                ELSE IF Lookup(obj, "items") = {} THEN Err("InvalidSchema")
                ELSE IF items.ok THEN Ok(<<"array", items.node, Limit(Lookup(obj, "maxItems"))>>) ELSE items
          [] OTHER -> Err(IF Uses(obj, {"pattern", "minLength", "minimum", "maximum", "exclusiveMinimum", "exclusiveMaximum", "minItems", "uniqueItems",
                                        "minProperties", "maxProperties", "dependencies", "allOf", "oneOf"}) THEN "UnsupportedKeyword" ELSE "InvalidSchema")

\* tools: a sequence of names and schemas.  The first that fails decides.
ToolCallGrammar(tools, prefix, suffix) ==
    LET isObject(v) == v[1] = "object" /\ Strings(Lookup(v[2], "type")) = {"object"}
        compiled == [i \in DOMAIN tools |-> IF isObject(tools[i][2]) THEN CompileSchema(tools[i][2]) ELSE Err("InvalidSchema")]
        bad == {i \in DOMAIN tools : ~compiled[i].ok}
    IN  IF bad # {} THEN compiled[Min(bad)]
        ELSE Ok([prefix |-> prefix, suffix |-> suffix, names |-> [i \in DOMAIN tools |-> tools[i][1]], schemas |-> [i \in DOMAIN tools |-> compiled[i].node]])

-----------------------------------------------------------------------------
(* Frames *)

Space == 32
Quote == 34
Comma == 44
Minus == 45
Zero == 48
Colon == 58
OpenArray == 91
Backslash == 92
CloseArray == 93
OpenObject == 123
CloseObject == 125
Digit == 48 .. 57
NameKey == <<34, 110, 97, 109, 101, 34>>                \* "name"
InputKey == <<34, 105, 110, 112, 117, 116, 34>>         \* "input"
TrueWord == <<116, 114, 117, 101>>
FalseWord == <<102, 97, 108, 115, 101>>
NullWord == <<110, 117, 108, 108>>

Literal(which, pos) == [t |-> "Literal", which |-> which, pos |-> pos]
ToolCall(phase, tool) == [t |-> "ToolCall", phase |-> phase, pos |-> 0, tool |-> tool, space |-> FALSE]
ObjectFrame(node) == [t |-> "Object", node |-> node, next |-> 0, phase |-> "Start", cands |-> {}, key |-> <<>>, space |-> FALSE]
StringFrame(max, values) == [t |-> "String", max |-> max, chars |-> 0, values |-> values, buf |-> <<>>, esc |-> "None", n |-> 0, first |-> 0,
                             need |-> 0, range |-> 128 .. 191, phase |-> "Start"]
Integer(st, n) == [t |-> "Integer", st |-> st, n |-> n]
Word(bytes, pos) == [t |-> "Word", bytes |-> bytes, pos |-> pos]
Boolean == [t |-> "Boolean"]
ArrayFrame(node, max) == [t |-> "Array", node |-> node, count |-> 0, max |-> max, phase |-> "Start", space |-> FALSE]

ValueFrame(node) ==
    CASE node[1] = "string" -> StringFrame(node[2], node[3])
      [] node[1] = "integer" -> Integer("Start", 0)
      [] node[1] = "boolean" -> Boolean
      [] node[1] = "null" -> Word(NullWord, 0)
      [] node[1] = "array" -> ArrayFrame(node[2], node[3])
      [] node[1] = "object" -> ObjectFrame(node)

NewMatcher(grammar) == [g |-> grammar, frames |-> <<Literal("prefix", 0)>>, done |-> FALSE, last |-> {}]
IsComplete(m) == m.done /\ m.frames = <<>>

Push(m, f) == [m EXCEPT !.frames = <<f>> \o @]
Accept(m) == [ok |-> TRUE, m |-> m]
\* A byte that is rejected leaves the matcher without the frames it popped.
Reject(m) == [ok |-> FALSE, m |-> m]
AcceptIf(condition, m, left) == IF condition THEN Accept(m) ELSE Reject(left)
\* One space, and then the rest.
OneSpace(m, f, byte, otherwise) ==
    IF byte # Space THEN otherwise ELSE IF f.space THEN Reject(m) ELSE Accept(Push(m, [f EXCEPT !.space = TRUE]))
To(f, phase) == [f EXCEPT !.phase = phase, !.space = FALSE, !.pos = 1]
\* The byte is looked at again by what is on top then.
RECURSIVE Step(_, _)

-----------------------------------------------------------------------------
(* The frames' steps: m is the matcher without the frame f *)

Finish(m) == IF m.g.suffix = <<>> THEN [m EXCEPT !.done = TRUE] ELSE Push(m, Literal("suffix", 0))
BehindLiteral(m, which) == IF which = "prefix" THEN Push(m, ToolCall("Open", {})) ELSE [m EXCEPT !.done = TRUE]
LiteralStep(m, f, byte) ==
    LET expected == IF f.which = "prefix" THEN m.g.prefix ELSE m.g.suffix
    IN  IF f.pos >= Len(expected) THEN IF f.which = "prefix" THEN Step(BehindLiteral(m, f.which), byte) ELSE Accept(BehindLiteral(m, f.which))
        ELSE IF byte # expected[f.pos + 1] THEN Reject(m)
        ELSE Accept(IF f.pos + 1 >= Len(expected) THEN BehindLiteral(m, f.which) ELSE Push(m, [f EXCEPT !.pos = @ + 1]))

KeyStep(m, f, byte, key, after) ==
    AcceptIf(byte = key[f.pos + 1], Push(m, IF f.pos + 1 = Len(key) THEN [f EXCEPT !.phase = after] ELSE [f EXCEPT !.pos = @ + 1]), m)
ToolCallStep(m, f, byte) ==
    LET Goes(expected, phase) == AcceptIf(byte = expected, Push(m, To(f, phase)), m)
        tool == CHOOSE t \in f.tool : TRUE
    IN  CASE f.phase = "Open" -> Goes(OpenObject, "AfterOpen")
          [] f.phase = "AfterOpen" -> OneSpace(m, f, byte, Goes(Quote, "NameKey"))
          [] f.phase = "NameKey" -> KeyStep(m, f, byte, NameKey, "NameColon")
          [] f.phase = "NameColon" -> Goes(Colon, "AfterNameColon")
          [] f.phase = "AfterNameColon" -> OneSpace(m, f, byte,
                IF byte # Quote THEN Reject(m) ELSE Step(Push(Push(m, To(f, "NameValue")), StringFrame(-1, {m.g.names})), byte))
          [] f.phase = "NameValue" -> IF m.last = {} THEN Reject(m) ELSE Step(Push([m EXCEPT !.last = {}], ToolCall("AfterName", m.last)), byte)
          [] f.phase = "AfterName" -> OneSpace(m, f, byte, Goes(Comma, "AfterComma"))
          [] f.phase = "AfterComma" -> OneSpace(m, f, byte, Goes(Quote, "InputKey"))
          [] f.phase = "InputKey" -> KeyStep(m, f, byte, InputKey, "InputColon")
          [] f.phase = "InputColon" -> Goes(Colon, "AfterInputColon")
          [] f.phase = "AfterInputColon" -> OneSpace(m, f, byte,
                IF byte # OpenObject \/ f.tool = {} THEN Reject(m)
                ELSE Step(Push(Push(m, To(f, "AfterInput")), ObjectFrame(m.g.schemas[tool])), byte))
          [] f.phase = "AfterInput" -> OneSpace(m, f, byte, AcceptIf(byte = CloseObject, Finish(m), m))

\* The properties that may come next: none that is required is passed over.
ComputeCandidates(props, next) == {i \in next + 1 .. Len(props) : \A j \in next + 1 .. i - 1 : ~props[j][3]}
Props(node) == IF node[1] = "object" THEN node[2] ELSE <<>>
IsToolObject(props) == Len(props) = 2 /\ props[1][1] = SubSeq(NameKey, 2, 5) /\ props[2][1] = SubSeq(InputKey, 2, 6)
\* An object whose properties are name and input is taken for the tool call itself.
CloseStep(m, f) ==
    IF \E i \in f.next + 1 .. Len(Props(f.node)) : Props(f.node)[i][3] THEN Reject(m)
    ELSE Accept(IF IsToolObject(Props(f.node)) THEN Finish(m) ELSE m)
OpenKey(m, f) ==
    LET cands == ComputeCandidates(Props(f.node), f.next)
    IN  AcceptIf(cands # {}, Push(m, [f EXCEPT !.phase = "Key", !.cands = cands, !.key = <<>>, !.space = FALSE]), m)
ObjectStep(m, f, byte) ==
    LET props == Props(f.node)
        matching == {i \in f.cands : props[i][1] = f.key}
        key == Append(f.key, byte)
    IN  CASE f.phase = "Start" -> AcceptIf(byte = OpenObject, Push(m, [f EXCEPT !.phase = "AfterOpen"]), m)
          [] f.phase = "AfterOpen" -> OneSpace(m, f, byte,
                IF byte = Quote THEN OpenKey(m, f) ELSE IF byte = CloseObject THEN CloseStep(m, f) ELSE Reject(m))
          [] f.phase = "AfterComma" -> OneSpace(m, f, byte, IF byte = Quote THEN OpenKey(m, f) ELSE Reject(m))
          [] f.phase = "Key" /\ byte = Quote -> IF matching = {} THEN Reject(m) ELSE Accept(Push(m, [f EXCEPT !.next = Min(matching), !.phase = "AfterKey"]))
          [] f.phase = "Key" /\ byte # Quote ->
                AcceptIf(byte >= 32 /\ \E i \in f.cands : IsPrefix(key, props[i][1]), Push(m, [f EXCEPT !.key = key]), m)
          [] f.phase = "AfterKey" -> AcceptIf(byte = Colon, Push(m, [f EXCEPT !.phase = "AfterColon", !.space = FALSE]), m)
          [] f.phase = "AfterColon" -> OneSpace(m, f, byte,
                Step(Push(Push(m, [f EXCEPT !.phase = "AfterValue"]), ValueFrame(props[f.next][2])), byte))
          [] f.phase = "AfterValue" ->
                IF byte = Comma THEN AcceptIf(ComputeCandidates(props, f.next) # {}, Push(m, [f EXCEPT !.phase = "AfterComma", !.space = FALSE]), m)
                ELSE IF byte = CloseObject THEN CloseStep(m, f) ELSE Reject(m)

\* What follows a first byte of UTF-8: how many bytes, and the range of the next.
Lead(byte) ==
    CASE byte < 128 -> <<0, 128 .. 191>>
      [] byte \in 194 .. 223 -> <<1, 128 .. 191>>
      [] byte \in 224 .. 239 -> <<2, IF byte = 224 THEN 160 .. 191 ELSE IF byte = 237 THEN 128 .. 159 ELSE 128 .. 191>>
      [] byte \in 240 .. 244 -> <<3, IF byte = 240 THEN 144 .. 191 ELSE IF byte = 244 THEN 128 .. 143 ELSE 128 .. 191>>
      [] OTHER -> <<-1, {}>>
HexDigit(byte) == CASE byte \in Digit -> byte - 48 [] byte \in 97 .. 102 -> byte - 87 [] byte \in 65 .. 70 -> byte - 55 [] OTHER -> -1
Simple == {34, 92, 47, 98, 102, 110, 114, 116}
Fits(f) == f.max < 0 \/ f.chars + 1 <= f.max
\* An enum value is followed byte by byte, without the later bytes of a character.
ContentStep(m, f, byte) ==
    LET values == UNION {ToSet(v) : v \in f.values}
        found == {i \in UNION {DOMAIN v : v \in f.values} : \A v \in f.values : v[i] = f.buf}
        buf == IF f.values = {} THEN f.buf ELSE Append(f.buf, byte)
        follows == f.values = {} \/ \E v \in values : IsPrefix(buf, v)
    IN  IF byte = Quote THEN IF f.values = {} THEN Accept(m) ELSE AcceptIf(found # {}, [m EXCEPT !.last = {Min(found)}], m)
        ELSE IF byte = Backslash THEN AcceptIf(f.values = {} /\ Fits(f), Push(m, [f EXCEPT !.esc = "Backslash", !.chars = @ + 1]), m)
        ELSE AcceptIf(byte >= 32 /\ follows /\ Lead(byte)[1] >= 0 /\ Fits(f),
                      Push(m, [f EXCEPT !.buf = buf, !.chars = @ + 1, !.need = Lead(byte)[1], !.range = Lead(byte)[2]]), m)
\* Of four hexadecimal digits the first two are looked at.
HexStep(m, f, byte) ==
    LET digit == HexDigit(byte)
        half == f.n = 3 /\ f.first >= 13 /\ digit >= 8
    IN  AcceptIf(digit >= 0 /\ ~half,
                 Push(m, [f EXCEPT !.first = IF f.n = 4 THEN digit ELSE @, !.n = @ - 1, !.esc = IF f.n = 1 THEN "None" ELSE "Hex"]), m)
StringStep(m, f, byte) ==
    CASE f.phase = "Start" -> AcceptIf(byte = Quote, Push(m, [f EXCEPT !.phase = "Content"]), m)
      [] f.phase = "Content" /\ f.need > 0 -> AcceptIf(byte \in f.range, Push(m, [f EXCEPT !.need = @ - 1, !.range = 128 .. 191]), m)
      [] f.phase = "Content" /\ f.need = 0 /\ f.esc = "None" -> ContentStep(m, f, byte)
      [] f.phase = "Content" /\ f.need = 0 /\ f.esc = "Backslash" ->
            AcceptIf(byte \in Simple \cup {117}, Push(m, IF byte = 117 THEN [f EXCEPT !.esc = "Hex", !.n = 4] ELSE [f EXCEPT !.esc = "None"]), m)
      [] f.phase = "Content" /\ f.need = 0 /\ f.esc = "Hex" -> HexStep(m, f, byte)

\* A byte behind a number is for the frame below.
IntegerStep(m, f, byte) ==
    CASE f.st \in {"Start", "Minus"} /\ byte = Zero -> Accept(Push(m, Integer("Zero", 0)))
      [] f.st \in {"Start", "Minus"} /\ byte \in Digit \ {Zero} -> Accept(Push(m, Integer("Digits", 1)))
      [] f.st = "Start" /\ byte = Minus -> Accept(Push(m, Integer("Minus", 0)))
      [] f.st = "Zero" -> IF byte \in Digit THEN Reject(m) ELSE Step(m, byte)
      [] f.st = "Digits" -> IF byte \in Digit THEN AcceptIf(f.n + 1 <= MAX_DIGITS, Push(m, Integer("Digits", f.n + 1)), m) ELSE Step(m, byte)
      [] OTHER -> Reject(m)

WordStep(m, f, byte) == AcceptIf(byte = f.bytes[f.pos + 1], IF f.pos + 1 = Len(f.bytes) THEN m ELSE Push(m, [f EXCEPT !.pos = @ + 1]), m)
BooleanStep(m, byte) ==
    IF byte = TrueWord[1] THEN Accept(Push(m, Word(TrueWord, 1))) ELSE IF byte = FalseWord[1] THEN Accept(Push(m, Word(FalseWord, 1))) ELSE Reject(m)

\* count is the number of commas; the first item is not counted against the limit.
ArrayStep(m, f, byte) ==
    LET item == Step(Push(Push(m, [f EXCEPT !.phase = "AfterItem", !.space = FALSE]), ValueFrame(f.node)), byte)
    IN  CASE f.phase = "Start" -> AcceptIf(byte = OpenArray, Push(m, [f EXCEPT !.phase = "AfterOpen"]), m)
          [] f.phase = "AfterOpen" -> OneSpace(m, f, byte, IF byte = CloseArray THEN Accept(m) ELSE item)
          [] f.phase = "AfterComma" -> OneSpace(m, f, byte, item)
          [] f.phase = "AfterItem" ->
                IF byte = Comma THEN AcceptIf(f.max < 0 \/ f.count + 1 < f.max, Push(m, [f EXCEPT !.count = @ + 1, !.phase = "AfterComma", !.space = FALSE]), m)
                ELSE AcceptIf(byte = CloseArray, m, m)

Step(m, byte) ==
    LET f == Head(m.frames)
        popped == [m EXCEPT !.frames = Tail(@)]
    IN  IF m.frames = <<>> THEN Reject(m)
        ELSE CASE f.t = "Literal" -> LiteralStep(popped, f, byte)
               [] f.t = "ToolCall" -> ToolCallStep(popped, f, byte)
               [] f.t = "Object" -> ObjectStep(popped, f, byte)
               [] f.t = "String" -> StringStep(popped, f, byte)
               [] f.t = "Integer" -> IntegerStep(popped, f, byte)
               [] f.t = "Word" -> WordStep(popped, f, byte)
               [] f.t = "Boolean" -> BooleanStep(popped, byte)
               [] f.t = "Array" -> ArrayStep(popped, f, byte)

AcceptBytes(m, bytes) == FoldLeft(LAMBDA r, b : IF r.ok THEN Step(r.m, b) ELSE r, Accept(m), bytes)

-----------------------------------------------------------------------------
(* Tokens.  The vocabulary has the bytes of each, the end token and the special ones. *)

AcceptToken(m, vocab, id) == IF id \in DOMAIN vocab.bytes THEN AcceptBytes(m, vocab.bytes[id]) ELSE Reject(m)
AllowedTokens(m, vocab) ==
    {id \in DOMAIN vocab.bytes : IF id = vocab.end THEN IsComplete(m) ELSE id \notin vocab.special /\ AcceptBytes(m, vocab.bytes[id]).ok}
=============================================================================

-------------------------------- MODULE Json --------------------------------
(***************************************************************************)
(* otter-json: the parser with its depth limit and error offsets, the two  *)
(* writers, the numbers and the ordered object.  A text is a sequence of   *)
(* code points; BAD stands for bytes that are not UTF-8.  A value is a     *)
(* tuple whose first part names its kind.  A float is a decimal: its sign, *)
(* its digits without zeros at either end and the exponent of the first;   *)
(* rounding to 53 bits is left out of parsing, RoundF is the one of casts. *)
(***************************************************************************)
EXTENDS Integers, Sequences, SequencesExt, FiniteSetsExt

CONSTANTS
    MAX_DEPTH,      \* arrays and objects inside one another
    INT_MAX,        \* i64::MAX
    UINT_MAX,       \* u64::MAX
    MAX_EXP,        \* the largest decimal exponent of a finite f64
    MIN_EXP,        \* the smallest one that is not rounded to zero
    MANTISSA        \* 2^53: casts of larger integers to f64 are rounded

BAD == -1
Eof == -2
Blank == {9, 10, 13, 32}
Digit == 48 .. 57
HexValue(c) == CASE c \in Digit -> c - 48 [] c \in 97 .. 102 -> c - 87 [] c \in 65 .. 70 -> c - 55 [] OTHER -> BAD

Null == <<"null">>
Bool(b) == <<"bool", b>>
Str(s) == <<"string", s>>
Arr(items) == <<"array", items>>
Obj(entries) == <<"object", entries>>
Num(kind, n) == <<"number", kind, n>>
Float(negative, digits, exp) == Num("float", <<negative, digits, exp>>)
Infinite(negative) == Float(negative, <<1>>, MAX_EXP + 1)

At(in, pos) == IF pos \in DOMAIN in THEN in[pos] ELSE Eof
\* The first position from pos on where the text has left the set.
Skip(in, pos, set) == CHOOSE p \in pos .. Len(in) + 1 : At(in, p) \notin set /\ \A q \in pos .. p - 1 : in[q] \in set
SkipWs(in, pos) == Skip(in, pos, Blank)

Ok(v, pos, depth) == [ok |-> TRUE, v |-> v, pos |-> pos, depth |-> depth]
Err(kind, pos) == [ok |-> FALSE, kind |-> kind, pos |-> pos]

ParseLit(in, pos, lit, v, depth) ==
    IF \A i \in DOMAIN lit : At(in, pos + i - 1) = lit[i] THEN Ok(v, pos + Len(lit), depth) ELSE Err("InvalidLiteral", pos)

-----------------------------------------------------------------------------
(* Strings *)

ParseHex4(in, pos, escape) ==
    LET d == [i \in 1 .. 4 |-> HexValue(At(in, pos + i - 1))]
    IN  IF \E i \in 1 .. 4 : d[i] = BAD THEN Err("InvalidUnicodeEscape", escape)
        ELSE Ok(4096 * d[1] + 256 * d[2] + 16 * d[3] + d[4], pos + 4, 0)

High == 55296 .. 56319
Low == 56320 .. 57343
Replacement == 65533
\* A high half takes a low half that follows; alone, each is replaced.
ParseUnicodeEscape(in, pos, escape) ==
    LET first == ParseHex4(in, pos, escape)
        paired == At(in, first.pos) = 92 /\ At(in, first.pos + 1) = 117
        low == ParseHex4(in, first.pos + 2, first.pos)
    IN  IF ~first.ok THEN first
        ELSE IF first.v \in High /\ paired /\ ~low.ok THEN low
        ELSE IF first.v \in High /\ paired /\ low.v \in Low THEN Ok(65536 + (first.v - 55296) * 1024 + (low.v - 56320), low.pos, 0)
        ELSE IF first.v \in High \cup Low THEN Ok(Replacement, first.pos, 0)
        ELSE first

Escapes == [c \in {34, 92, 47, 98, 102, 110, 114, 116} |->
    CASE c = 98 -> 8 [] c = 102 -> 12 [] c = 110 -> 10 [] c = 114 -> 13 [] c = 116 -> 9 [] OTHER -> c]

RECURSIVE StringRest(_, _, _, _)
StringRest(in, start, from, out) ==
    LET pos == CHOOSE p \in from .. Len(in) + 1 : /\ At(in, p) \in {Eof, 34, 92} \cup 0 .. 31
                                                   /\ \A q \in from .. p - 1 : in[q] \notin {34, 92} \cup 0 .. 31
        run == SubSeq(in, from, pos - 1)
        e == At(in, pos + 1)
        u == ParseUnicodeEscape(in, pos + 2, pos)
    IN  IF BAD \in ToSet(run) THEN Err("InvalidUtf8", from)
        ELSE CASE At(in, pos) = Eof -> Err("UnterminatedString", start)
               [] At(in, pos) = 34 -> Ok(out \o run, pos + 1, 0)
               [] At(in, pos) = 92 /\ e = Eof -> Err("UnterminatedString", start)
               [] At(in, pos) = 92 /\ e \in DOMAIN Escapes -> StringRest(in, start, pos + 2, Append(out \o run, Escapes[e]))
               [] At(in, pos) = 92 /\ e = 117 -> IF u.ok THEN StringRest(in, start, u.pos, Append(out \o run, u.v)) ELSE u
               [] At(in, pos) = 92 -> Err("InvalidEscape", pos)
               [] OTHER -> Err("ControlCharacterInString", pos)
ParseString(in, pos) == StringRest(in, pos, pos + 1, <<>>)

-----------------------------------------------------------------------------
(* Numbers *)

Digits(in, from, to) == [i \in 1 .. to - from |-> in[from + i - 1] - 48]
ToNat(ds) == FoldLeft(LAMBDA n, d : 10 * n + d, 0, ds)
\* The decimal whose first digit has the exponent exp, brought to its normal form.
Decimal(negative, ds, exp) ==
    LET used == {i \in DOMAIN ds : ds[i] # 0}
    IN  IF used = {} \/ exp - Min(used) + 1 < MIN_EXP THEN Float(negative, <<>>, 0)
        ELSE IF exp - Min(used) + 1 > MAX_EXP THEN Infinite(negative)
        ELSE Float(negative, SubSeq(ds, Min(used), Max(used)), exp - Min(used) + 1)

ParseNumber(in, start, depth) ==
    LET negative == At(in, start) = 45
        whole == IF negative THEN start + 1 ELSE start
        wholeEnd == IF At(in, whole) = 48 THEN whole + 1 ELSE Skip(in, whole, Digit)
        dotted == At(in, wholeEnd) = 46
        fraction == IF dotted THEN wholeEnd + 1 ELSE wholeEnd
        fractionEnd == IF dotted THEN Skip(in, fraction, Digit) ELSE wholeEnd
        scaled == At(in, fractionEnd) \in {69, 101}
        signed == scaled /\ At(in, fractionEnd + 1) \in {43, 45}
        exponent == IF ~scaled THEN fractionEnd ELSE IF signed THEN fractionEnd + 2 ELSE fractionEnd + 1
        end == IF scaled THEN Skip(in, exponent, Digit) ELSE fractionEnd
        value == ToNat(Digits(in, whole, wholeEnd))
        power == (IF signed /\ in[exponent - 1] = 45 THEN -1 ELSE 1) * ToNat(Digits(in, exponent, end))
        float == Decimal(negative, Digits(in, whole, wholeEnd) \o Digits(in, fraction, fractionEnd), wholeEnd - whole - 1 + power)
        number == CASE dotted \/ scaled -> float
                    [] negative /\ value <= INT_MAX + 1 -> Num("int", -value)
                    [] ~negative /\ value <= INT_MAX -> Num("int", value)
                    [] ~negative /\ value <= UINT_MAX -> Num("uint", value)
                    [] OTHER -> float
    IN  IF wholeEnd = whole \/ (dotted /\ fractionEnd = fraction) \/ (scaled /\ end = exponent)
        THEN Err("InvalidNumber", start) ELSE Ok(number, end, depth)

-----------------------------------------------------------------------------
(* Values *)

RECURSIVE ParseValue(_, _, _), ArrayRest(_, _, _, _), ObjectRest(_, _, _, _)
ParseValue(in, from, depth) ==
    LET pos == SkipWs(in, from)
        c == At(in, pos)
        inside == SkipWs(in, pos + 1)
        s == ParseString(in, pos)
    IN  CASE c = Eof -> Err("UnexpectedEof", pos)
          [] c = 34 -> IF s.ok THEN Ok(Str(s.v), s.pos, depth) ELSE s
          [] c \in {91, 123} /\ depth + 1 > MAX_DEPTH -> Err("DepthLimitExceeded", pos + 1)
          [] c = 123 -> IF At(in, inside) = 125 THEN Ok(Obj(<<>>), inside + 1, depth) ELSE ObjectRest(in, inside, depth + 1, <<>>)
          [] c = 91 -> IF At(in, inside) = 93 THEN Ok(Arr(<<>>), inside + 1, depth) ELSE ArrayRest(in, inside, depth + 1, <<>>)
          [] c = 116 -> ParseLit(in, pos, <<116, 114, 117, 101>>, Bool(TRUE), depth)
          [] c = 102 -> ParseLit(in, pos, <<102, 97, 108, 115, 101>>, Bool(FALSE), depth)
          [] c = 110 -> ParseLit(in, pos, <<110, 117, 108, 108>>, Null, depth)
          [] c = 45 \/ c \in Digit -> ParseNumber(in, pos, depth)
          [] OTHER -> Err("UnexpectedByte", pos)

\* What follows an element: a comma and another one, or the end.
Closed(in, pos, close) ==
    LET c == At(in, pos)
        next == SkipWs(in, pos + 1)
    IN  CASE c = 44 /\ At(in, next) = close -> Err("TrailingComma", next)
          [] c = 44 -> Ok("more", next, 0)
          [] c = close -> Ok("end", pos + 1, 0)
          [] c = Eof -> Err("UnexpectedEof", pos)
          [] OTHER -> Err("UnexpectedByte", pos)

ArrayRest(in, pos, depth, items) ==
    LET item == ParseValue(in, pos, depth)
        then == Closed(in, SkipWs(in, item.pos), 93)
    IN  IF ~item.ok THEN item
        ELSE IF ~then.ok THEN then
        ELSE IF then.v = "end" THEN Ok(Arr(Append(items, item.v)), then.pos, item.depth - 1)
        ELSE ArrayRest(in, then.pos, item.depth, Append(items, item.v))

Push(entries, key, value) == Append(entries, <<key, value>>)

ObjectRest(in, pos, depth, entries) ==
    LET key == ParseString(in, pos)
        colon == SkipWs(in, key.pos)
        value == ParseValue(in, colon + 1, depth)
        then == Closed(in, SkipWs(in, value.pos), 125)
        Missing(p, kind) == Err(IF At(in, p) = Eof THEN "UnexpectedEof" ELSE kind, p)
    IN  IF At(in, pos) # 34 THEN Missing(pos, "ExpectedString")
        ELSE IF ~key.ok THEN key
        ELSE IF At(in, colon) # 58 THEN Missing(colon, "ExpectedColon")
        ELSE IF ~value.ok THEN value
        ELSE IF ~then.ok THEN then
        ELSE IF then.v = "end" THEN Ok(Obj(Push(entries, key.v, value.v)), then.pos, value.depth - 1)
        ELSE ObjectRest(in, then.pos, value.depth, Push(entries, key.v, value.v))

Parse(in) ==
    LET r == ParseValue(in, 1, 0)
        end == SkipWs(in, r.pos)
    IN  IF r.ok /\ end <= Len(in) THEN Err("TrailingCharacters", end) ELSE r

-----------------------------------------------------------------------------
(* Writing *)

RECURSIVE IntText(_)
IntText(n) == IF n < 0 THEN <<45>> \o IntText(-n) ELSE IF n < 10 THEN <<48 + n>> ELSE Append(IntText(n \div 10), 48 + (n % 10))

Zeros(n) == [i \in 1 .. n |-> 48]
WriteF64(f) ==
    LET ds == IF f[2] = <<>> THEN <<48>> ELSE [i \in DOMAIN f[2] |-> f[2][i] + 48]
        exp == f[3]
        fixed == CASE exp < 0 -> <<48, 46>> \o Zeros(-exp - 1) \o ds
                   [] exp >= Len(ds) - 1 -> ds \o Zeros(exp - Len(ds) + 1) \o <<46, 48>>
                   [] OTHER -> SubSeq(ds, 1, exp + 1) \o <<46>> \o SubSeq(ds, exp + 2, Len(ds))
        sci == <<ds[1]>> \o (IF Len(ds) > 1 THEN <<46>> \o Tail(ds) ELSE <<>>) \o <<101>> \o IntText(exp)
    IN  IF exp > MAX_EXP THEN <<110, 117, 108, 108>>
        ELSE (IF f[1] THEN <<45>> ELSE <<>>) \o (IF exp \in -4 .. 16 THEN fixed ELSE sci)
WriteNumber(v) == IF v[2] = "float" THEN WriteF64(v[3]) ELSE IntText(v[3])

HexDigit(n) == IF n < 10 THEN 48 + n ELSE 87 + n
EscapedChar(c) ==
    CASE \E e \in DOMAIN Escapes \ {47} : Escapes[e] = c -> <<92, CHOOSE e \in DOMAIN Escapes \ {47} : Escapes[e] = c>>
      [] c < 32 -> <<92, 117, 48, 48, HexDigit(c \div 16), HexDigit(c % 16)>>
      [] OTHER -> <<c>>
WriteEscapedStr(s) == <<34>> \o FlattenSeq([i \in DOMAIN s |-> EscapedChar(s[i])]) \o <<34>>

Separated(parts, separator) == FlattenSeq([i \in DOMAIN parts |-> IF i = 1 THEN parts[i] ELSE separator \o parts[i]])

RECURSIVE WriteCompact(_), WritePrettyInner(_, _, _)
WriteCompact(v) ==
    CASE v[1] = "null" -> <<110, 117, 108, 108>>
      [] v[1] = "bool" -> IF v[2] THEN <<116, 114, 117, 101>> ELSE <<102, 97, 108, 115, 101>>
      [] v[1] = "number" -> WriteNumber(v)
      [] v[1] = "string" -> WriteEscapedStr(v[2])
      [] v[1] = "array" -> <<91>> \o Separated([i \in DOMAIN v[2] |-> WriteCompact(v[2][i])], <<44>>) \o <<93>>
      [] v[1] = "object" -> <<123>> \o Separated([i \in DOMAIN v[2] |-> WriteEscapedStr(v[2][i][1]) \o <<58>> \o WriteCompact(v[2][i][2])], <<44>>) \o <<125>>

WritePrettyInner(v, indent, level) ==
    LET Line(n) == <<10>> \o FlattenSeq([i \in 1 .. n |-> indent])
        Item(i) == IF v[1] = "array" THEN WritePrettyInner(v[2][i], indent, level + 1)
                   ELSE WriteEscapedStr(v[2][i][1]) \o <<58, 32>> \o WritePrettyInner(v[2][i][2], indent, level + 1)
        body == Separated([i \in DOMAIN v[2] |-> Line(level + 1) \o Item(i)], <<44>>) \o Line(level)
    IN  IF v[1] \notin {"array", "object"} \/ v[2] = <<>> THEN WriteCompact(v)
        ELSE IF v[1] = "array" THEN <<91>> \o body \o <<93>> ELSE <<123>> \o body \o <<125>>
WritePretty(v, indent) == WritePrettyInner(v, indent, 0)

-----------------------------------------------------------------------------
(* Numbers and objects *)

\* An integer cast to f64: to the nearest with a mantissa that fits, ties to even.
RECURSIVE RoundF(_)
RoundF(n) ==
    LET down == 2 * RoundF(n \div 2)
        up == 2 * RoundF(n \div 2 + 1)
        even == IF (n \div 2) % 2 = 0 THEN n - 1 ELSE n + 1
    IN  CASE n < 0 -> -RoundF(-n)
          [] n <= MANTISSA -> n
          [] n % 2 = 0 -> down
          [] n < 2 * MANTISSA -> even
          [] OTHER -> IF n - down < up - n THEN down ELSE up

Saturate(n, low, high) == IF n < low THEN low ELSE IF n > high THEN high ELSE n
\* An Option is the set of what it holds.
Some(n, condition) == IF condition THEN {n} ELSE {}
\* as_i64 of an integer in f64: the bounds are cast to f64, the number back and forth.
FloatTo(n, low, high) == LET cast == Saturate(n, low, high) IN Some(cast, n >= RoundF(low) /\ n <= RoundF(high) /\ RoundF(cast) = n)
AsI64(kind, n) == CASE kind = "int" -> {n}
                    [] kind = "uint" -> Some(n, n <= INT_MAX)
                    [] kind = "float" -> FloatTo(n, -INT_MAX - 1, INT_MAX)
AsU64(kind, n) == CASE kind = "int" -> Some(n, n >= 0)
                    [] kind = "uint" -> {n}
                    [] kind = "float" -> FloatTo(n, 0, UINT_MAX)
FromU64(n) == IF n <= INT_MAX THEN Num("int", n) ELSE Num("uint", n)

Places(entries, key) == {i \in DOMAIN entries : entries[i][1] = key}
ContainsKey(entries, key) == Places(entries, key) # {}
Get(entries, key) == {entries[i][2] : i \in {j \in Places(entries, key) : \A k \in Places(entries, key) : k <= j}}
Insert(entries, key, value) ==
    IF ContainsKey(entries, key) THEN [entries EXCEPT ![Max(Places(entries, key))][2] = value] ELSE Push(entries, key, value)
RemoveKey(entries, key) ==
    IF ContainsKey(entries, key) THEN RemoveAt(entries, Min(Places(entries, key))) ELSE entries
=============================================================================

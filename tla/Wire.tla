-------------------------------- MODULE Wire --------------------------------
(***************************************************************************)
(* otter-wire: the messages between applications and the compositor.  Each *)
(* kind has a number and a sequence of typed fields; encode writes them in *)
(* order, decode reads them back and checks each.  A message is its kind   *)
(* and the values of its fields; a u32 is the sequence of its four bytes,  *)
(* lowest first.                                                           *)
(***************************************************************************)
EXTENDS Integers, Sequences, SequencesExt

CONSTANTS
    MAX_STR,        \* bytes of a string
    IsUtf8(_)       \* which sequences of bytes are UTF-8

ClientKinds ==
    [k \in 1 .. 7 |->
        CASE k = 1 -> <<"u16">>                                             \* Hello: version
          [] k = 2 -> <<"u32", "u16", "u16", "u32", "u32", "string">>       \* CreateWindow: req, width, height, stride, flags, title
          [] k = 3 -> <<"u32", "u16", "u16", "u16", "u16">>                 \* Damage: window, x, y, w, h
          [] k = 4 -> <<"u32", "string">>                                   \* SetTitle: window, title
          [] k = 5 -> <<"u32">>                                             \* Close: window
          [] k = 6 -> <<"u32", "u16", "u16", "u32">>                        \* AttachBuffer: window, width, height, stride
          [] k = 7 -> <<"cursor">>]                                         \* SetCursor: shape
ServerKinds ==
    [k \in 101 .. 110 |->
        CASE k = 101 -> <<"u16", "u16", "u16">>                             \* Welcome: version, screen_w, screen_h
          [] k = 102 -> <<"u32", "u32">>                                    \* WindowCreated: req, window
          [] k = 103 -> <<"u32", "u16", "u16">>                             \* Configure: window, width, height
          [] k = 104 -> <<"u32", "bool">>                                   \* Focus: window, focused
          [] k = 105 -> <<"u32", "u16", "bool", "u8", "char">>              \* Key: window, code, pressed, mods, ch
          [] k = 106 -> <<"u32", "i16", "i16", "u8">>                       \* Pointer: window, x, y, buttons
          [] k = 107 -> <<"u32", "u8", "bool", "i16", "i16">>               \* Button: window, button, pressed, x, y
          [] k = 108 -> <<"u32", "i16">>                                    \* Wheel: window, delta
          [] k = 109 -> <<"u32">>                                           \* CloseRequested: window
          [] k = 110 -> <<"u32", "u16", "string">>]                         \* Error: req, code, message

Le16(n) == <<n % 256, n \div 256>>
U16(b) == b[1] + 256 * b[2]
I16(n) == IF n < 32768 THEN n ELSE n - 65536
\* The code points a char may be: no half of a pair, nothing above the last plane.
IsChar(b) == /\ b[4] = 0 /\ b[3] <= 16
             /\ ~(b[3] = 0 /\ b[2] \in 216 .. 223)

-----------------------------------------------------------------------------
(* The writer *)

Written(type, v) ==
    CASE type = "u16" -> Le16(v)
      [] type = "i16" -> Le16(v % 65536)
      [] type \in {"u32", "char"} -> v
      [] type = "bool" -> <<IF v THEN 1 ELSE 0>>
      [] type \in {"u8", "cursor"} -> <<v>>
      [] type = "string" -> Le16(Len(v)) \o v
TooLong(type, v) == type = "string" /\ Len(v) > MAX_STR

\* A message that cannot be sent encodes to nothing.
Encode(kinds, kind, fields) ==
    IF \E i \in DOMAIN fields : TooLong(kinds[kind][i], fields[i]) THEN <<>>
    ELSE Le16(kind) \o FlattenSeq([i \in DOMAIN fields |-> Written(kinds[kind][i], fields[i])])

EncodeClient(kind, fields) == Encode(ClientKinds, kind, fields)
EncodeServer(kind, fields) == Encode(ServerKinds, kind, fields)

-----------------------------------------------------------------------------
(* The reader *)

Got(v, pos) == [ok |-> TRUE, v |-> v, pos |-> pos]
Error(kind) == [ok |-> FALSE, kind |-> kind]
Width(type) == CASE type \in {"u8", "bool", "cursor"} -> 1 [] type \in {"u16", "i16", "string"} -> 2 [] OTHER -> 4

ReadString(b, pos, len) ==
    LET s == SubSeq(b, pos, pos + len - 1)
    IN  IF len > MAX_STR THEN Error("TooLong")
        ELSE IF pos + len - 1 > Len(b) THEN Error("Truncated")
        ELSE IF ~IsUtf8(s) THEN Error("BadUtf8")
        ELSE Got(s, pos + len)

Read(type, b, pos) ==
    LET next == pos + Width(type)
        raw == SubSeq(b, pos, next - 1)
    IN  IF next - 1 > Len(b) THEN Error("Truncated")
        ELSE CASE type = "u8" -> Got(raw[1], next)
               [] type = "u16" -> Got(U16(raw), next)
               [] type = "i16" -> Got(I16(U16(raw)), next)
               [] type = "u32" -> Got(raw, next)
               [] type = "bool" -> IF raw[1] \in {0, 1} THEN Got(raw[1] = 1, next) ELSE Error("BadValue")
               [] type = "cursor" -> IF raw[1] \in 0 .. 5 THEN Got(raw[1], next) ELSE Error("BadValue")
               [] type = "char" -> IF IsChar(raw) THEN Got(raw, next) ELSE Error("BadValue")
               [] type = "string" -> ReadString(b, next, U16(raw))

Decode(kinds, b) ==
    LET kind == U16(b)
        types == kinds[kind]
        Field(r, type) == LET f == Read(type, b, r.pos) IN IF ~r.ok THEN r ELSE IF f.ok THEN Got(Append(r.v, f.v), f.pos) ELSE f
        fields == FoldLeft(Field, Got(<<>>, 3), types)
    IN  IF Len(b) < 2 THEN Error("Truncated")
        ELSE IF kind \notin DOMAIN kinds THEN Error("UnknownKind")
        ELSE IF fields.ok /\ fields.pos <= Len(b) THEN Error("Trailing")
        ELSE fields

DecodeClient(b) == Decode(ClientKinds, b)
DecodeServer(b) == Decode(ServerKinds, b)

\* The memory objects that travel with a message.
Handles(kind) == IF kind \in {2, 6} THEN 1 ELSE 0
=============================================================================

------------------------------ MODULE Terminal ------------------------------
(***************************************************************************)
(* The terminal emulator, otter-term: the UTF-8 decoder, the parser of     *)
(* escape sequences, the screen with its scroll region, scrollback,        *)
(* alternate screen and damage report.  A byte is a name: an ASCII         *)
(* character, a control ("ESC", "BEL", ...) or a byte of a longer sequence *)
(* whose class is in Class.  Rows and columns count from 0, as in the      *)
(* code.  panicked says that the code indexed outside of a vector or that  *)
(* a subtraction went below zero.                                          *)
(***************************************************************************)
EXTENDS Integers, Sequences, SequencesExt, FiniteSetsExt

CONSTANTS
    Class,          \* function from the bytes above 0x7f to "tail", "two", "three", "four" (the first of so many) or "bad"
    Decoded,        \* function from the well-formed sequences to their characters
    Truncated,      \* function from characters above 0xff to the byte `as u8` makes of them
    Value,          \* function from the digits to their values
    Capacity,       \* lines of scrollback (5000)
    Checked         \* whether the build checks arithmetic for overflow

Invalid == "FFFD"
Controls == {"NUL", "BEL", "BS", "HT", "LF", "CR", "OTHER"}

Attributes == [fg |-> <<7>>, bg |-> <<0>>, bold |-> FALSE, underline |-> FALSE, inverse |-> FALSE]
Cell(ch, attrs) == [ch |-> ch, attrs |-> attrs]
Blank == Cell(" ", Attributes)
BlankLine(t) == [c \in 1 .. t.cols |-> Blank]
Home == [row |-> 0, col |-> 0, visible |-> TRUE]
NewDecoder == [buffer |-> <<>>, needed |-> 0, pending |-> <<>>]
Rows(t) == 0 .. t.rows - 1

NewTerminal(cols, rows) ==
    [cols |-> cols, rows |-> rows, grid |-> [r \in 1 .. rows |-> [c \in 1 .. cols |-> Blank]],
     cur |-> Home, saved |-> Home, attrs |-> Attributes, decoder |-> NewDecoder,
     lines |-> <<>>, start |-> 0, dirty |-> 0 .. rows - 1, top |-> 0, bottom |-> rows - 1,
     alt |-> <<>>, state |-> "Normal", params |-> <<>>, private |-> FALSE, content |-> <<>>,
     reply |-> <<>>, title |-> <<>>, newline |-> FALSE, panicked |-> FALSE]

Panic(t) == [t EXCEPT !.panicked = TRUE]
Touched(t, rows) == [t EXCEPT !.dirty = @ \cup rows]
Repeated(n, Op(_), t) == FoldLeft(LAMBDA s, i : IF s.panicked THEN s ELSE Op(s), t, [i \in 1 .. n |-> i])

\* Content is kept where it fits; the top of the region, the saved cursor and the
\* alternate screen are left as they are.
Resize(t, cols, rows) ==
    IF cols = t.cols /\ rows = t.rows THEN t
    ELSE [t EXCEPT !.cur.col = Min({@, cols - 1}), !.cur.row = Min({@, rows - 1}),
                   !.grid = [r \in 1 .. rows |-> [c \in 1 .. cols |->
                                IF r <= t.rows /\ c <= t.cols THEN t.grid[r][c] ELSE Blank]],
                   !.cols = cols, !.rows = rows, !.dirty = 0 .. rows - 1, !.bottom = rows - 1]

-----------------------------------------------------------------------------
(* Scrollback::push_line and get_line, a ring once it is full. *)

PushLine(t, line) ==
    IF Len(t.lines) < Capacity THEN [t EXCEPT !.lines = Append(@, line)]
    ELSE [t EXCEPT !.lines[t.start + 1] = line, !.start = (@ + 1) % Capacity]
GetLine(t, idx) == t.lines[((t.start + idx) % Capacity) + 1]

-----------------------------------------------------------------------------
(* The screen *)

InGrid(t, row, col) == row < Len(t.grid) /\ col < Len(t.grid[row + 1])
\* The cells of a set of <<row, col>> become blank.
Blanked(t, cells) ==
    IF \E c \in cells : c[1] >= t.rows \/ ~InGrid(t, c[1], c[2]) THEN Panic(t)
    ELSE [t EXCEPT !.grid = [r \in DOMAIN @ |-> [c \in DOMAIN @[r] |-> IF <<r - 1, c - 1>> \in cells THEN Blank ELSE @[r][c]]],
                   !.dirty = @ \cup {c[1] : c \in cells}]

\* The number of lines a scroll of n moves: min(n, bottom - top + 1).
Inverted(t) == t.top > t.bottom
Height(t, n) == CASE ~Inverted(t) -> Min({n, t.bottom - t.top + 1})
                  [] Inverted(t) /\ t.top = t.bottom + 1 -> 0
                  [] OTHER -> n
Scrolled(t, n, Op(_)) ==
    CASE Inverted(t) /\ Checked -> Panic(t)
      [] Height(t, n) > 0 /\ (t.top >= Len(t.grid) \/ t.bottom >= Len(t.grid)) -> Panic(t)
      [] OTHER -> Repeated(Height(t, n), Op, t)

\* scroll_up keeps the line that leaves; delete_lines and insert_lines do not, and both
\* take the first line of the region away.
ScrollUp(t, n) ==
    Scrolled(t, n, LAMBDA s :
        [PushLine(s, s.grid[s.top + 1]) EXCEPT
            !.grid = [r \in DOMAIN @ |-> CASE r = s.bottom + 1 -> BlankLine(s)
                                          [] r # s.bottom + 1 /\ r - 1 \in s.top .. s.bottom -> @[r + 1]
                                          [] OTHER -> @[r]],
            !.dirty = @ \cup (s.top .. s.bottom) \cup {s.bottom}])
Moved(t, n, from, to) ==
    Scrolled(t, n, LAMBDA s : Touched([s EXCEPT !.grid = InsertAt(RemoveAt(@, from + 1), to + 1, BlankLine(s))], s.top .. s.bottom))
DeleteLines(t, n) == Moved(t, n, t.top, t.bottom)
InsertLines(t, n) == Moved(t, n, t.top, t.bottom)
ScrollDown(t, n) == Moved(t, n, t.bottom, t.top)

\* One row down, or a scroll at the bottom of the region.
Down(t) == IF t.cur.row + 1 > t.bottom THEN ScrollUp([t EXCEPT !.cur.row = t.bottom], 1)
           ELSE [t EXCEPT !.cur.row = @ + 1]
NextLine(t) == LET s == Down(t) IN [s EXCEPT !.cur.col = 0]
ReverseIndex(t) == IF t.cur.row = t.top THEN ScrollDown(t, 1) ELSE [t EXCEPT !.cur.row = Max({@ - 1, 0})]
HandleLf(t) == IF t.newline THEN NextLine(t) ELSE Down(t)
HandleTab(t) == [t EXCEPT !.cur.col = Min({((@ \div 8) + 1) * 8, t.cols - 1})]

\* A character at the right margin wraps when the next one comes.
PutChar(t, ch) ==
    LET s == IF t.cur.col >= t.cols THEN NextLine(t) ELSE t
    IN  CASE s.panicked \/ s.cur.row >= s.rows -> s
          [] ~s.panicked /\ s.cur.row < s.rows /\ ~InGrid(s, s.cur.row, s.cur.col) -> Panic(s)
          [] OTHER -> Touched([s EXCEPT !.grid[s.cur.row + 1][s.cur.col + 1] = Cell(ch, s.attrs), !.cur.col = @ + 1], {s.cur.row})

EraseLine(t, mode) ==
    LET cols == CASE mode = 0 -> t.cur.col .. t.cols - 1
                  [] mode = 1 -> 0 .. t.cur.col
                  [] mode = 2 -> 0 .. t.cols - 1
                  [] OTHER -> {}
    IN  Blanked(t, {t.cur.row} \X cols)
EraseDisplay(t, mode) ==
    LET Whole(rows) == rows \X (0 .. t.cols - 1)
        line == EraseLine(t, mode)
    IN  CASE mode = 0 -> IF line.panicked THEN line ELSE Blanked(line, Whole(t.cur.row + 1 .. t.rows - 1))
          [] mode = 1 -> IF line.panicked THEN line ELSE Blanked(line, Whole(0 .. t.cur.row - 1))
          [] mode \in {2, 3} -> Blanked(t, Whole(Rows(t)))
          [] OTHER -> t

\* insert_chars, delete_chars and erase_chars change n cells from the cursor on; reach is
\* how far into the line they index.
FromCursor(t, n) == IF t.cur.col > t.cols THEN n ELSE Min({n, t.cols - t.cur.col})
WithLine(t, n, reach, Op(_)) ==
    IF \/ t.cur.row >= Min({t.rows, Len(t.grid)})
       \/ Checked /\ t.cur.col > t.cols
       \/ FromCursor(t, n) > 0 /\ reach > Len(t.grid[t.cur.row + 1])
    THEN Panic(t)
    ELSE Touched([t EXCEPT !.grid[t.cur.row + 1] = SubSeq(Op(@), 1, Len(@))], {t.cur.row})
Blanks(n) == [i \in 1 .. n |-> Blank]
InsertChars(t, n) ==
    WithLine(t, n, t.cur.col, LAMBDA line :
        SubSeq(line, 1, t.cur.col) \o Blanks(FromCursor(t, n)) \o SubSeq(line, t.cur.col + 1, Len(line)))
DeleteChars(t, n) ==
    WithLine(t, n, t.cur.col + 1, LAMBDA line :
        SubSeq(line, 1, t.cur.col) \o SubSeq(line, t.cur.col + FromCursor(t, n) + 1, Len(line)) \o Blanks(FromCursor(t, n)))
EraseChars(t, n) ==
    WithLine(t, n, t.cur.col + FromCursor(t, n), LAMBDA line :
        [c \in DOMAIN line |-> IF c - 1 - t.cur.col \in 0 .. FromCursor(t, n) - 1 THEN Blank ELSE line[c]])

CursorTo(t, row, col) == [t EXCEPT !.cur.row = Max({0, Min({row, t.rows - 1})}), !.cur.col = Max({0, Min({col, t.cols - 1})})]
MoveRow(t, n) == [t EXCEPT !.cur.row = IF n < 0 THEN Max({0, @ + n}) ELSE Min({@ + n, t.rows - 1})]
MoveCol(t, n) == [t EXCEPT !.cur.col = IF n < 0 THEN Max({0, @ + n}) ELSE Min({@ + n, t.cols - 1})]
SetScrollRegion(t, top, bottom) == [t EXCEPT !.top = Min({top, t.rows - 1}), !.bottom = Min({bottom, t.rows - 1})]

Cleared(t) == [Blanked(t, Rows(t) \X (0 .. t.cols - 1)) EXCEPT !.cur = Home, !.attrs = Attributes]
Reset(t) == [Cleared(t) EXCEPT !.top = 0, !.bottom = t.rows - 1]
AltScreenOn(t) ==
    IF t.alt # <<>> THEN t
    ELSE [Cleared(t) EXCEPT !.alt = <<[grid |-> t.grid, cur |-> t.cur, attrs |-> t.attrs]>>]
AltScreenOff(t) ==
    IF t.alt = <<>> THEN t
    ELSE [t EXCEPT !.grid = t.alt[1].grid, !.cur = t.alt[1].cur, !.attrs = t.alt[1].attrs, !.alt = <<>>, !.dirty = Rows(t)]

TakeDamage(t) == [t EXCEPT !.dirty = {}]

-----------------------------------------------------------------------------
(* Graphic rendition: each number on its own, then the extended colours. *)

FromPalette(idx) == <<IF idx % 256 < 16 THEN idx % 256 ELSE 7>>
Rendition(attrs, p) ==
    CASE p = 0 -> Attributes
      [] p = 1 -> [attrs EXCEPT !.bold = TRUE]
      [] p = 4 -> [attrs EXCEPT !.underline = TRUE]
      [] p = 7 -> [attrs EXCEPT !.inverse = TRUE]
      [] p = 22 -> [attrs EXCEPT !.bold = FALSE]
      [] p = 24 -> [attrs EXCEPT !.underline = FALSE]
      [] p = 27 -> [attrs EXCEPT !.inverse = FALSE]
      [] p \in 30 .. 37 -> [attrs EXCEPT !.fg = FromPalette(p - 30)]
      [] p = 39 -> [attrs EXCEPT !.fg = <<7>>]
      [] p \in 40 .. 47 -> [attrs EXCEPT !.bg = FromPalette(p - 40)]
      [] p = 49 -> [attrs EXCEPT !.bg = <<0>>]
      [] p \in 90 .. 97 -> [attrs EXCEPT !.fg = FromPalette(p - 82)]
      [] p \in 100 .. 107 -> [attrs EXCEPT !.bg = FromPalette(p - 92)]
      [] OTHER -> attrs
RECURSIVE Extended(_, _, _)
Extended(attrs, params, i) ==
    LET kind == IF i + 1 <= Len(params) THEN params[i + 1] ELSE -1
        Set(color) == IF params[i] = 38 THEN [attrs EXCEPT !.fg = color] ELSE [attrs EXCEPT !.bg = color]
        Low(j) == params[j] % 256
    IN  CASE i > Len(params) -> attrs
          [] i <= Len(params) /\ params[i] \in {38, 48} /\ kind = 5 /\ i + 2 <= Len(params) ->
                Extended(Set(FromPalette(params[i + 2])), params, i + 3)
          [] i <= Len(params) /\ params[i] \in {38, 48} /\ kind = 2 /\ i + 4 <= Len(params) ->
                Extended(Set(<<Low(i + 2), Low(i + 3), Low(i + 4)>>), params, i + 5)
          [] OTHER -> Extended(attrs, params, i + 1)
HandleSgr(t, params) == [t EXCEPT !.attrs = Extended(FoldLeft(Rendition, @, params), params, 1)]

-----------------------------------------------------------------------------
(* Escape sequences *)

Param(params, i) == IF Len(params) < i THEN 0 ELSE params[i]
DeviceStatusReport(t) == [t EXCEPT !.reply = Append(@, <<t.cur.row + 1, t.cur.col + 1>>)]
SetMode(t, p, private, on) ==
    CASE private /\ p = 25   -> [t EXCEPT !.cur.visible = on]
      [] private /\ p = 1049 -> IF on THEN AltScreenOn(t) ELSE AltScreenOff(t)
      [] ~private /\ p = 20  -> [t EXCEPT !.newline = on]
      [] OTHER -> t
HandleCsiCommand(t, cmd, params, private) ==
    LET p == Param(params, 1)
        p1 == Max({p, 1})
        Bottom == IF Param(params, 2) > 0 THEN Param(params, 2) - 1 ELSE t.rows - 1
    IN  CASE cmd \in {"h", "l"} -> SetMode(t, p, private, cmd = "h")
          [] private /\ cmd \notin {"h", "l"} -> t
          [] ~private /\ cmd = "A" -> MoveRow(t, -p1)
          [] ~private /\ cmd = "B" -> MoveRow(t, p1)
          [] ~private /\ cmd = "C" -> MoveCol(t, p1)
          [] ~private /\ cmd = "D" -> MoveCol(t, -p1)
          [] ~private /\ cmd = "E" -> [MoveRow(t, p1) EXCEPT !.cur.col = 0]
          [] ~private /\ cmd = "F" -> [MoveRow(t, -p1) EXCEPT !.cur.col = 0]
          [] ~private /\ cmd = "G" -> [t EXCEPT !.cur.col = Min({p1 - 1, t.cols - 1})]
          [] ~private /\ cmd \in {"H", "f"} -> CursorTo(t, p - 1, Param(params, 2) - 1)
          [] ~private /\ cmd = "J" -> EraseDisplay(t, p)
          [] ~private /\ cmd = "K" -> EraseLine(t, p)
          [] ~private /\ cmd = "L" -> InsertLines(t, p1)
          [] ~private /\ cmd = "M" -> DeleteLines(t, p1)
          [] ~private /\ cmd = "@" -> InsertChars(t, p1)
          [] ~private /\ cmd = "P" -> DeleteChars(t, p1)
          [] ~private /\ cmd = "X" -> EraseChars(t, p1)
          [] ~private /\ cmd = "S" -> ScrollUp(t, p1)
          [] ~private /\ cmd = "T" -> ScrollDown(t, p1)
          [] ~private /\ cmd = "r" -> SetScrollRegion(t, Max({p - 1, 0}), Bottom)
          [] ~private /\ cmd = "m" -> IF params = <<>> THEN [t EXCEPT !.attrs = Attributes] ELSE HandleSgr(t, params)
          [] ~private /\ cmd = "n" -> IF p = 6 THEN DeviceStatusReport(t) ELSE t
          [] OTHER -> t

HandleCsiByte(t, b) ==
    LET some == IF t.params = <<>> THEN <<0>> ELSE t.params
    IN  CASE b = "?" -> [t EXCEPT !.private = TRUE]
          [] b \in DOMAIN Value -> [t EXCEPT !.params = [some EXCEPT ![Len(some)] = @ * 10 + Value[b]]]
          [] b = ";" -> [t EXCEPT !.params = Append(@, 0)]
          [] OTHER -> HandleCsiCommand([t EXCEPT !.state = "Normal"], b, t.params, t.private)

\* The title is the part behind the first ";"; ESC never gets here, so only BEL ends it.
ProcessOsc(t, content) ==
    LET semi == {i \in DOMAIN content : content[i] = ";"}
        first == Min(semi)
        next == IF semi \ {first} = {} THEN Len(content) + 1 ELSE Min(semi \ {first})
    IN  IF semi = {} THEN t
        ELSE IF SubSeq(content, 1, first - 1) \in {<<"0">>, <<"2">>}
             THEN [t EXCEPT !.title = SubSeq(content, first + 1, next - 1)] ELSE t
HandleOscByte(t, b) ==
    IF b = "BEL" THEN [ProcessOsc(t, t.content) EXCEPT !.state = "Normal"]
    ELSE [t EXCEPT !.content = Append(@, b)]

\* Only the introducers and the unknown characters leave the Escape state.
HandleEscape(t, ch) ==
    CASE ch = "7" -> [t EXCEPT !.saved = t.cur]
      [] ch = "8" -> [t EXCEPT !.cur = t.saved]
      [] ch = "c" -> Reset(t)
      [] ch = "D" -> Down(t)
      [] ch = "M" -> ReverseIndex(t)
      [] ch = "E" -> NextLine(t)
      [] ch = "[" -> [t EXCEPT !.state = "Csi", !.params = <<>>, !.private = FALSE]
      [] ch = "]" -> [t EXCEPT !.state = "Osc", !.content = <<>>]
      [] OTHER -> [t EXCEPT !.state = "Normal"]

AsByte(ch) == IF ch \in DOMAIN Truncated THEN Truncated[ch] ELSE ch
HandleChar(t, ch) ==
    CASE ch = "ESC" -> [t EXCEPT !.state = "Escape"]
      [] ch = "BEL" -> IF t.state = "Osc" THEN HandleOscByte(t, ch) ELSE t
      [] ch = "BS" -> MoveCol(t, -1)
      [] ch = "HT" -> HandleTab(t)
      [] ch = "LF" -> HandleLf(t)
      [] ch = "CR" -> [t EXCEPT !.cur.col = 0]
      [] ch \in {"NUL", "OTHER"} -> t
      [] ch \notin Controls \cup {"ESC"} ->
            CASE t.state = "Normal" -> PutChar(t, ch)
              [] t.state = "Escape" -> HandleEscape(t, ch)
              [] t.state = "Csi" -> HandleCsiByte(t, AsByte(ch))
              [] t.state = "Osc" -> HandleOscByte(t, AsByte(ch))

-----------------------------------------------------------------------------
(* UTF-8: a byte that ends a sequence too early is put off until the next byte comes. *)

ClassOf(b) == IF b \in DOMAIN Class THEN Class[b] ELSE "ascii"
\* The decoder after a byte, and the characters that come out.
Decode(d, b) ==
    LET class == ClassOf(b)
        buffer == Append(d.buffer, b)
    IN  CASE d.needed = 0 /\ class = "ascii" -> [d |-> NewDecoder, out |-> <<b>>]
          [] d.needed = 0 /\ class \in {"tail", "bad"} -> [d |-> NewDecoder, out |-> <<Invalid>>]
          [] d.needed = 0 /\ class \in {"two", "three", "four"} ->
                [d |-> [buffer |-> <<b>>, pending |-> <<>>,
                        needed |-> CASE class = "two" -> 2 [] class = "three" -> 3 [] class = "four" -> 4], out |-> <<>>]
          [] d.needed > 0 /\ class # "tail" -> [d |-> [NewDecoder EXCEPT !.pending = <<b>>], out |-> <<Invalid>>]
          [] OTHER ->
                IF Len(buffer) < d.needed THEN [d |-> [d EXCEPT !.buffer = buffer], out |-> <<>>]
                ELSE [d |-> NewDecoder, out |-> <<IF buffer \in DOMAIN Decoded THEN Decoded[buffer] ELSE Invalid>>]

FeedDecoded(t, b) ==
    LET fed == Decode([t.decoder EXCEPT !.pending = <<>>], b)
        s == [t EXCEPT !.decoder = fed.d]
    IN  IF fed.out = <<>> THEN s ELSE HandleChar(s, fed.out[1])
FeedByte(t, b) ==
    LET s == IF t.decoder.pending = <<>> THEN t ELSE FeedDecoded(t, t.decoder.pending[1])
    IN  IF s.panicked THEN s ELSE FeedDecoded(s, b)
FeedBytes(t, bytes) == FoldLeft(LAMBDA s, b : IF s.panicked THEN s ELSE FeedByte(s, b), t, bytes)
=============================================================================

-------------------------------- MODULE Shell --------------------------------
(***************************************************************************)
(* What a user of the machine meets first, as operators: the line editor   *)
(* and the shell, the console and the serial line their output goes to,    *)
(* the ring that keeps the boot log, and the allocator of the programs.    *)
(* Bytes are numbers; limits are parameters so that they can be reached.   *)
(***************************************************************************)
EXTENDS Integers, Sequences, SequencesExt, FiniteSetsExt

CONSTANTS
    HISTORY, PROMPT,                     \* lines the history keeps; the bytes of the prompt
    Builtins,                            \* a word -> the name of the command it is
    CODE_MAX, PID_MAX,                   \* the largest exit code and process number that are read
    MAX_ARGS, MAX_IO_LEN, ERRNO_MAX,     \* arguments of spawn, bytes of one write, the largest errno
    ENTRY_SIZE, WORD, NAME_LEN,          \* layout of an entry of proc_list: its size, that of a u32, of a name
    MAX_PARAMS, PARAM_MAX, TAB_STOP,     \* parameters of an escape sequence, their largest value
    CAPACITY, REPLAY_CHUNK,              \* bytes of the boot ring, and of a piece of its replay
    FONT_W, FONT_H, WIDE, CELL_BYTES, RGB_BYTES, FRAME_SIZE,
    CLASS_SIZES, SLAB_SIZE, PAGE         \* the program allocator

ESC == 27
IsBlank(b) == b \in {9, 10, 11, 12, 13, 32}
IsDigit(b) == b \in 48 .. 57
At(s, i, default) == IF i \in DOMAIN s THEN s[i] ELSE default
RoundUp(n, unit) == ((n + unit - 1) \div unit) * unit
RECURSIVE Decimal(_)
Decimal(n) == IF n < 10 THEN <<48 + n>> ELSE Append(Decimal(n \div 10), 48 + (n % 10))

-----------------------------------------------------------------------------
(* The line editor: history_index is the entry shown, 0 for none *)

NewEditor == [line |-> <<>>, cursor |-> 0, history |-> <<>>, index |-> 0, escape |-> "Normal"]

CsiAction(byte) ==
    CASE byte = 65 -> "HistoryUp" [] byte = 66 -> "HistoryDown" [] byte = 67 -> "CursorRight" [] byte = 68 -> "CursorLeft"
      [] byte = 72 -> "CursorHome" [] byte = 70 -> "CursorEnd" [] OTHER -> "None"
\* The next escape state and the action for the shell.
FeedByte(e, byte) ==
    LET To(state, action) == [e |-> [e EXCEPT !.escape = state], action |-> action]
    IN  CASE e.escape = "Normal" -> IF byte = ESC THEN To("AfterEsc", "None") ELSE To("Normal", "Byte")
          [] e.escape = "AfterEsc" -> To(IF byte = 91 THEN "InCsi" ELSE "Normal", "None")
          [] e.escape = "InCsi" -> IF byte = 51 THEN To("AfterDelete3", "None") ELSE To("Normal", CsiAction(byte))
          [] OTHER -> To("Normal", IF byte = 126 THEN "Delete" ELSE "None")

AddToHistory(e, cmd) ==
    LET kept == IF Len(e.history) >= HISTORY THEN Tail(e.history) ELSE e.history
    IN  [e EXCEPT !.history = IF cmd = <<>> THEN @ ELSE Append(kept, cmd), !.index = 0]
CtrlU(e) == [e EXCEPT !.line = <<>>, !.cursor = 0, !.index = 0]
InsertChar(e, ch) == [e EXCEPT !.line = InsertAt(@, e.cursor + 1, ch), !.cursor = @ + 1, !.index = 0]
Backspace(e) == IF e.cursor = 0 THEN e ELSE [e EXCEPT !.line = RemoveAt(@, e.cursor), !.cursor = @ - 1, !.index = 0]
Delete(e) == IF e.cursor >= Len(e.line) THEN e ELSE [e EXCEPT !.line = RemoveAt(@, e.cursor + 1), !.index = 0]
CursorLeft(e) == IF e.cursor = 0 THEN e ELSE [e EXCEPT !.cursor = @ - 1]
CursorRight(e) == IF e.cursor >= Len(e.line) THEN e ELSE [e EXCEPT !.cursor = @ + 1]
CursorHome(e) == [e EXCEPT !.cursor = 0]
CursorEnd(e) == [e EXCEPT !.cursor = Len(e.line)]
Recall(e, i) == [e EXCEPT !.index = i, !.line = e.history[i], !.cursor = Len(e.history[i])]
HistoryUp(e) ==
    IF e.history = <<>> THEN e
    ELSE Recall(e, IF e.index = 0 THEN Len(e.history) ELSE IF e.index > 1 THEN e.index - 1 ELSE e.index)
HistoryDown(e) ==
    IF e.index = 0 THEN e
    ELSE IF e.index < Len(e.history) THEN Recall(e, e.index + 1)
    ELSE CtrlU(e)

\* from_utf8_lossy, of bytes that are ASCII or can be part of no character.
Lossy(bytes) == FlattenSeq([i \in DOMAIN bytes |-> IF bytes[i] < 128 THEN <<bytes[i]>> ELSE <<239, 191, 189>>])

-----------------------------------------------------------------------------
(* The shell: one byte of input, the editor after it, what is printed, and whether a line is complete *)

\* Print the prompt and the line again and go back to the cursor.
RedrawLine(e) ==
    LET text  == Lossy(e.line)
        moves == e.cursor - Len(text)
    IN  <<13>> \o PROMPT \o text \o <<ESC, 91, 75>> \o
        (IF moves < 0 THEN <<ESC, 91>> \o Decimal(-moves) \o <<68>> ELSE IF moves > 0 THEN <<ESC, 91>> \o Decimal(moves) \o <<67>> ELSE <<>>)

ControlKey(e, byte) ==
    LET Redrawn(x, before) == [e |-> x, out |-> before \o RedrawLine(x), done |-> FALSE]
    IN  CASE byte = 1 -> Redrawn(CursorHome(e), <<>>)
          [] byte = 5 -> Redrawn(CursorEnd(e), <<>>)
          [] byte = 21 -> Redrawn(CtrlU(e), <<>>)
          [] byte = 12 -> Redrawn(e, <<ESC, 91, 50, 74, ESC, 91, 72>> \o PROMPT)
          [] OTHER -> [e |-> e, out |-> <<>>, done |-> FALSE]
Apply(e, action, byte) ==
    CASE action = "Byte" -> InsertChar(e, byte)
      [] action = "HistoryUp" -> HistoryUp(e) [] action = "HistoryDown" -> HistoryDown(e)
      [] action = "CursorRight" -> CursorRight(e) [] action = "CursorLeft" -> CursorLeft(e)
      [] action = "CursorHome" -> CursorHome(e) [] action = "CursorEnd" -> CursorEnd(e)
      [] OTHER -> Delete(e)
\* A turn of the loop of read_line_with_editor: the editor sees only what is no key of the shell's own.
ReadByte(e, byte) ==
    IF byte = 10 THEN [e |-> e, out |-> <<10>>, done |-> TRUE]
    ELSE IF byte = 127 THEN [e |-> Backspace(e), out |-> RedrawLine(Backspace(e)), done |-> FALSE]
    ELSE IF byte \in 1 .. 26 THEN ControlKey(e, byte)
    ELSE LET fed == FeedByte(e, byte)
             x   == Apply(fed.e, fed.action, byte)
         IN  IF fed.action = "None" THEN [e |-> fed.e, out |-> <<>>, done |-> FALSE]
             ELSE [e |-> x, out |-> RedrawLine(x), done |-> FALSE]

\* The words between blanks.
SplitWhitespace(line) ==
    LET Next(acc, b) == IF IsBlank(b) THEN [words |-> IF acc.word = <<>> THEN acc.words ELSE Append(acc.words, acc.word), word |-> <<>>]
                        ELSE [acc EXCEPT !.word = Append(@, b)]
    IN  FoldLeft(Next, [words |-> <<>>, word |-> <<>>], Append(line, 32)).words
Trim(line) ==
    LET ink == {i \in DOMAIN line : ~IsBlank(line[i])}
    IN  IF ink = {} THEN <<>> ELSE SubSeq(line, Min(ink), Max(ink))

\* A number of at most max, or none; a plus sign may stand before it, and a minus sign if it may be negative.
ParseNumber(word, max, signed) ==
    LET sign   == word # <<>> /\ word[1] \in (IF signed THEN {43, 45} ELSE {43})
        digits == IF sign THEN Tail(word) ELSE word
        limit  == IF sign /\ word[1] = 45 THEN max + 1 ELSE max
        n      == FoldLeft(LAMBDA a, b : IF a < 0 \/ ~IsDigit(b) \/ 10 * a + (b - 48) > limit THEN -1 ELSE 10 * a + (b - 48), 0, digits)
    IN  IF digits = <<>> \/ n < 0 THEN [ok |-> FALSE, n |-> 0] ELSE [ok |-> TRUE, n |-> IF sign /\ word[1] = 45 THEN -n ELSE n]

\* Run a program and wait: os answers spawn and wait, each [ok, n].
RunExternal(path, args, os) ==
    LET spawned == IF Len(args) > MAX_ARGS THEN [ok |-> FALSE, n |-> 0] ELSE os.spawn
    IN  [do |-> "spawn", arg |-> <<path, args>>,
         says |-> IF ~spawned.ok THEN "command not found"
                  ELSE IF ~os.wait.ok THEN "wait failed"
                  ELSE IF os.wait.n >= 128 THEN "killed" ELSE IF os.wait.n # 0 THEN "exited with code" ELSE ""]
CmdKill(args, os) ==
    IF args = <<>> THEN [do |-> "kill", arg |-> <<>>, says |-> "missing pid"]
    ELSE LET pid == ParseNumber(args[1], PID_MAX, FALSE)
         IN  IF ~pid.ok THEN [do |-> "kill", arg |-> <<>>, says |-> "invalid pid"]
             ELSE [do |-> "kill", arg |-> <<pid.n>>, says |-> IF os.kill.ok THEN "" ELSE "error"]
CmdRun(args, os) == IF args = <<>> THEN [do |-> "run", arg |-> <<>>, says |-> "missing program name"] ELSE RunExternal(args[1], Tail(args), os)
\* The command a line is, and the editor with the line in its history.
ProcessInput(e, line, os) ==
    LET parts == SplitWhitespace(Trim(line))
        rest  == Tail(parts)
        name  == IF parts[1] \in DOMAIN Builtins THEN Builtins[parts[1]] ELSE "external"
    IN  IF parts = <<>> THEN [e |-> e, effect |-> [do |-> "nothing", arg |-> <<>>, says |-> ""]]
        ELSE [e |-> AddToHistory(e, Trim(line)),
              effect |-> CASE name = "kill" -> CmdKill(rest, os)
                           [] name = "run" -> CmdRun(rest, os)
                           [] name = "exit" -> [do |-> "exit", arg |-> <<IF rest = <<>> THEN 0 ELSE ParseNumber(rest[1], CODE_MAX, TRUE).n>>, says |-> ""]
                           [] name = "external" -> RunExternal(parts[1], rest, os)
                           [] OTHER -> [do |-> name, arg |-> rest, says |-> ""]]

\* The loop of main, for the bytes that come: prompt, line, command.
NewShell == [e |-> NewEditor, out |-> PROMPT, effects |-> <<>>]
IsOver(sh) == sh.effects # <<>> /\ Last(sh.effects).do \in {"exit", "reboot"}
Type(sh, byte, os) ==
    LET read == ReadByte(sh.e, byte)
        ran  == ProcessInput(read.e, Lossy(read.e.line), os)
    IN  IF IsOver(sh) THEN sh
        ELSE IF ~read.done THEN [sh EXCEPT !.e = read.e, !.out = @ \o read.out]
        ELSE [e |-> CtrlU(ran.e), out |-> sh.out \o read.out \o PROMPT, effects |-> Append(sh.effects, ran.effect)]
Session(bytes, os) == FoldLeft(LAMBDA sh, b : Type(sh, b, os), NewShell, bytes)

-----------------------------------------------------------------------------
(* System calls as programs see them *)

\* A small negative answer is an errno.
Result(raw) == IF raw \in -ERRNO_MAX .. -1 THEN [ok |-> FALSE, n |-> -raw] ELSE [ok |-> TRUE, n |-> raw]
\* The pieces a text is written in.
RECURSIVE WriteFd(_)
WriteFd(bytes) == IF bytes = <<>> THEN <<>>
                  ELSE LET n == Min({Len(bytes), MAX_IO_LEN}) IN <<SubSeq(bytes, 1, n)>> \o WriteFd(SubSeq(bytes, n + 1, Len(bytes)))

\* sys_proc_list: entries of fixed size, as many as fit; an entry is pid, ppid, state, a name and ticks.
ProcEntry(p) ==
    LET Zeros(k) == [i \in 1 .. k |-> 0]
        field(v, k) == <<v>> \o Zeros(k - 1)
    IN  field(p.pid, 2 * WORD) \o field(p.ppid, 2 * WORD) \o field(p.state, WORD) \o Zeros(WORD) \o
        [i \in 1 .. NAME_LEN |-> At(p.name, i, 0)] \o Zeros(2 * WORD) \o field(p.ticks, 2 * WORD)
SysProcList(processes, cap) ==
    IF cap < ENTRY_SIZE THEN [ok |-> FALSE, bytes |-> <<>>]
    ELSE [ok |-> TRUE, bytes |-> FlattenSeq([i \in 1 .. Min({Len(processes), cap \div ENTRY_SIZE}) |-> ProcEntry(processes[i])])]
\* cmd_ps: what it reads there.
CmdPs(bytes) ==
    [i \in 1 .. Len(bytes) \div ENTRY_SIZE |->
        LET at   == (i - 1) * ENTRY_SIZE
            name == SubSeq(bytes, at + 6 * WORD + 1, at + 6 * WORD + NAME_LEN)
            ends == {k \in DOMAIN name : name[k] = 0}
        IN  [pid |-> bytes[at + 1], ppid |-> bytes[at + 2 * WORD + 1], state |-> bytes[at + 4 * WORD + 1],
             name |-> IF ends = {} THEN name ELSE SubSeq(name, 1, Min(ends) - 1)]]

-----------------------------------------------------------------------------
(* The console.  A colour is its place in the palettes, 0 .. 7 and 8 .. 15 for the bright ones *)

DEFAULT_FG == 16
DEFAULT_BG == 17
PANIC_FG == 18
BRIGHT_DEFAULT_FG == 15
DefaultAttrs == [fg |-> DEFAULT_FG, bg |-> DEFAULT_BG, bold |-> FALSE]
Cell(glyph, attrs) == [glyph |-> glyph, fg |-> attrs.fg, bg |-> attrs.bg]
Blank(attrs) == Cell(32, attrs)
\* The pixels of a cell: of a blank only the background is seen.
Pixels(cell) == IF cell.glyph = 32 THEN [cell EXCEPT !.fg = cell.bg] ELSE cell

ApplySgr(attrs, code) ==
    CASE code = 0 -> DefaultAttrs
      [] code = 1 -> [attrs EXCEPT !.bold = TRUE, !.fg = IF @ = DEFAULT_FG THEN BRIGHT_DEFAULT_FG ELSE @]
      [] code \in 30 .. 37 -> [attrs EXCEPT !.fg = code - 30 + IF attrs.bold THEN 8 ELSE 0]
      [] code \in 90 .. 97 -> [attrs EXCEPT !.fg = code - 90 + 8]
      [] code \in 40 .. 47 -> [attrs EXCEPT !.bg = code - 40]
      [] OTHER -> attrs

\* The parser: state, params, how many of them but one, attrs.  It answers an action [do, n].
NewParser == [state |-> "Normal", params |-> [i \in 1 .. MAX_PARAMS |-> 0], count |-> 0, attrs |-> DefaultAttrs]
Silent(p) == [p |-> p, do |-> "None", n |-> 0]
Dispatch(p, final) ==
    LET Does(do) == [p |-> p, do |-> do, n |-> IF p.params[1] > 0 THEN p.params[1] ELSE 1]
    IN  CASE final = 109 -> [Does("SetAttrs") EXCEPT !.p.attrs = FoldLeft(ApplySgr, @, SubSeq(p.params, 1, p.count + 1))]
          [] final = 74 /\ p.params[1] = 2 -> Does("ClearScreen")
          [] final = 72 -> Does("Home")
          [] final = 75 -> Does("EraseToEndOfLine")
          [] final = 67 -> Does("CursorRight")
          [] final = 68 -> Does("CursorLeft")
          [] final = 71 -> Does("CursorToColumn")
          [] OTHER -> Silent(p)
FeedCsi(p, byte) ==
    CASE IsDigit(byte) -> Silent([p EXCEPT !.params[p.count + 1] = Min({10 * @ + byte - 48, PARAM_MAX})])
      [] byte = 59 -> Silent([p EXCEPT !.count = IF @ + 1 < MAX_PARAMS THEN @ + 1 ELSE @])
      [] byte \in 64 .. 126 -> Dispatch([p EXCEPT !.state = "Normal"], byte)
      [] OTHER -> Silent([p EXCEPT !.state = "Normal"])
FeedParser(p, byte) ==
    CASE p.state = "Normal" -> IF byte = ESC THEN Silent([p EXCEPT !.state = "Escape"]) ELSE [p |-> p, do |-> "Emit", n |-> byte]
      [] p.state = "Escape" -> Silent(IF byte = 91 THEN [NewParser EXCEPT !.state = "Csi", !.attrs = p.attrs] ELSE [p EXCEPT !.state = "Normal"])
      [] OTHER -> FeedCsi(p, byte)

\* The grid and what is on the screen of each cell: its pixels, and the colour of the line under it, -1 for none.
Bare(cell) == [pixels |-> Pixels(cell), under |-> -1]
Index(c) == c.row * c.cols + c.col
Attrs(c) == c.parser.attrs
Draw(c, i, cell) == [c EXCEPT !.cells[i] = cell, !.shown[i] = Bare(cell)]

Scroll(c) ==
    LET last == (c.rows - 1) * c.cols
        Up(f, new) == [i \in DOMAIN f |-> IF i < last THEN f[i + c.cols] ELSE new]
    IN  [c EXCEPT !.cells = Up(@, Blank(Attrs(c))), !.shown = Up(@, Bare(Blank(Attrs(c))))]
AdvanceRow(c) == IF c.row + 1 >= c.rows THEN [Scroll(c) EXCEPT !.row = c.rows - 1] ELSE [c EXCEPT !.row = @ + 1]
Newline(c) == AdvanceRow([c EXCEPT !.col = 0])
PrintChar(c, byte) ==
    LET d == [Draw(c, Index(c), Cell(byte, Attrs(c))) EXCEPT !.col = @ + 1]
    IN  IF d.col >= c.cols THEN Newline(d) ELSE d
Tab(c) == [c EXCEPT !.col = Min({(@ \div TAB_STOP + 1) * TAB_STOP, c.cols - 1})]
Rubout(c) == IF c.col = 0 THEN c ELSE LET d == [c EXCEPT !.col = @ - 1] IN Draw(d, Index(d), Blank(Attrs(d)))
PutVisibleByte(c, byte) ==
    CASE byte = 10 -> Newline(c) [] byte = 13 -> [c EXCEPT !.col = 0] [] byte = 9 -> Tab(c)
      [] byte \in {8, 127} -> Rubout(c) [] OTHER -> PrintChar(c, byte)
\* The screen is cleared and the cursor stays.
ClearScreen(c) == [c EXCEPT !.cells = [i \in DOMAIN @ |-> Blank(Attrs(c))], !.shown = [i \in DOMAIN @ |-> Bare(Blank(Attrs(c)))]]
EraseToEndOfLine(c) == FoldLeft(LAMBDA d, col : Draw(d, c.row * c.cols + col, Cell(32, Attrs(c))), c, [k \in 1 .. c.cols - c.col |-> c.col + k - 1])

FeedConsole(c0, byte) ==
    LET fed == FeedParser(c0.parser, byte)
        c   == [c0 EXCEPT !.parser = fed.p]
    IN  CASE fed.do = "Emit" -> PutVisibleByte(c, fed.n)
          [] fed.do = "ClearScreen" -> ClearScreen(c)
          [] fed.do = "Home" -> [c EXCEPT !.col = 0, !.row = 0]
          [] fed.do = "EraseToEndOfLine" -> EraseToEndOfLine(c)
          [] fed.do = "CursorRight" -> [c EXCEPT !.col = Min({@ + fed.n, c.cols - 1})]
          [] fed.do = "CursorLeft" -> [c EXCEPT !.col = Max({@ - fed.n, 0})]
          [] fed.do = "CursorToColumn" -> [c EXCEPT !.col = Min({fed.n - 1, c.cols - 1})]
          [] OTHER -> c
HideCursor(c) == [c EXCEPT !.shown[Index(c)] = Bare(c.cells[Index(c)])]
DrawCursor(c) == [c EXCEPT !.shown[Index(c)] = [Bare(c.cells[Index(c)]) EXCEPT !.under = Attrs(c).fg]]
WriteBytes(c, bytes) == DrawCursor(FoldLeft(FeedConsole, HideCursor(c), bytes))

NewConsole(cols, rows) ==
    LET blank == Blank(DefaultAttrs)
    IN  DrawCursor([cols |-> cols, rows |-> rows, col |-> 0, row |-> 0, parser |-> NewParser,
                    cells |-> [i \in 0 .. cols * rows - 1 |-> blank], shown |-> [i \in 0 .. cols * rows - 1 |-> Bare(blank)]])
\* panic_print: its own colours, whatever was set; text has the message.
PanicPrint(c, text) == WriteBytes([c EXCEPT !.parser.attrs = [fg |-> PANIC_FG, bg |-> DEFAULT_BG, bold |-> TRUE]], <<10>> \o text \o <<10>>)

\* The console's size: the first scale whose buffers take at most half of the free frames.
BytesNeeded(cols, rows, w, h) == cols * rows * CELL_BYTES + cols * w * rows * h * RGB_BYTES
TryAlloc(width, height, scale, budget) ==
    LET w    == FONT_W * scale
        h    == FONT_H * scale
        cols == Max({width \div w, 1})
        rows == Max({height \div h, 1})
    IN  [ok |-> BytesNeeded(cols, rows, w, h) <= budget, cols |-> cols, rows |-> rows, scale |-> scale]
TryNew(width, height, wish, free) ==
    LET scale  == IF wish = 0 THEN (IF width < WIDE THEN 1 ELSE 2) ELSE wish
        budget == (free \div 2) * FRAME_SIZE
        first  == TryAlloc(width, height, scale, budget)
    IN  IF first.ok \/ scale = 1 THEN first ELSE TryAlloc(width, height, 1, budget)

-----------------------------------------------------------------------------
(* The serial line, where escape sequences are left out; and the boot log *)

FilterAnsi(state, byte) ==
    CASE state = "Normal" -> IF byte = ESC THEN "Escape" ELSE "Normal"
      [] state = "Escape" -> IF byte = 91 THEN "Csi" ELSE "Normal"
      [] OTHER -> IF byte \in 64 .. 126 THEN "Normal" ELSE "Csi"
SerialWrite(port, bytes) ==
    LET Send(s, b) == [state |-> FilterAnsi(s.state, b),
                       sent |-> IF s.state # "Normal" \/ b = ESC THEN s.sent ELSE s.sent \o (IF b = 10 THEN <<13, 10>> ELSE <<b>>)]
    IN  FoldLeft(Send, port, bytes)

NewRing == [buf |-> [i \in 0 .. CAPACITY - 1 |-> 0], pos |-> 0, wrapped |-> FALSE]
RingWrite(r, bytes) ==
    LET Keep(x, b) == [buf |-> [x.buf EXCEPT ![x.pos] = b], pos |-> (x.pos + 1) % CAPACITY, wrapped |-> x.wrapped \/ x.pos + 1 = CAPACITY]
    IN  FoldLeft(Keep, r, bytes)
ForEachSegment(r) ==
    LET old == [i \in 1 .. CAPACITY - r.pos |-> r.buf[r.pos + i - 1]]
        new == [i \in 1 .. r.pos |-> r.buf[i - 1]]
    IN  IF r.wrapped THEN old \o new ELSE new
\* Every message goes to the serial line, and to the console once it is there, to the ring before.
NewLog == [port |-> [state |-> "Normal", sent |-> <<>>], ring |-> NewRing, up |-> FALSE, console |-> NewConsole(1, 1)]
KPrint(log, bytes) ==
    LET sent == [log EXCEPT !.port = SerialWrite(@, bytes)]
    IN  IF log.up THEN [sent EXCEPT !.console = WriteBytes(@, bytes)] ELSE [sent EXCEPT !.ring = RingWrite(@, bytes)]
\* init: without memory for the buffers a message says so.
InitConsole(log, shape) == IF shape.ok THEN [log EXCEPT !.up = TRUE, !.console = NewConsole(shape.cols, shape.rows)] ELSE KPrint(log, <<33, 10>>)
RECURSIVE Chunks(_)
Chunks(s) == IF Len(s) <= REPLAY_CHUNK THEN <<s>> ELSE <<SubSeq(s, 1, REPLAY_CHUNK)>> \o Chunks(SubSeq(s, REPLAY_CHUNK + 1, Len(s)))
ReplayBootLog(log) == IF log.up THEN [log EXCEPT !.console = FoldLeft(WriteBytes, @, Chunks(ForEachSegment(log.ring)))] ELSE log

-----------------------------------------------------------------------------
(* The allocator of a program: a free list for each class, the memory that is mapped, the next      *)
(* address of map_anon and the bytes the kernel will still give.  0 is the null pointer.            *)

NewHeap(bytes) == [heads |-> [k \in DOMAIN CLASS_SIZES |-> <<>>], mapped |-> {}, next |-> PAGE, left |-> bytes]
\* map_anon: fresh pages, or an error.
MapAnon(h, len) ==
    IF len > h.left THEN [h |-> h, ptr |-> 0]
    ELSE [h |-> [h EXCEPT !.mapped = @ \cup (h.next .. h.next + len - 1), !.next = @ + len, !.left = @ - len], ptr |-> h.next]
Unmap(h, ptr, len) == [h EXCEPT !.mapped = @ \ (ptr .. ptr + len - 1), !.left = @ + len]

\* The class for a size and an alignment, 0 for none.
ClassFor(size, align) == SelectInSeq(CLASS_SIZES, LAMBDA c : c >= Max({size, align}))
Refill(h, class) ==
    LET map  == MapAnon(h, SLAB_SIZE)
        size == CLASS_SIZES[class]
    IN  IF map.ptr = 0 THEN h
        ELSE [map.h EXCEPT !.heads[class] = [i \in 1 .. SLAB_SIZE \div size |-> map.ptr + (i - 1) * size] \o @]
AllocSmall(h, class) ==
    LET g == IF h.heads[class] = <<>> THEN Refill(h, class) ELSE h
    IN  IF g.heads[class] = <<>> THEN [h |-> h, ptr |-> 0]
        ELSE [h |-> [g EXCEPT !.heads[class] = Tail(@)], ptr |-> Head(g.heads[class])]
DeallocSmall(h, ptr, class) == [h EXCEPT !.heads[class] = <<ptr>> \o @]
Alloc(h, size, align) ==
    IF size = 0 \/ align > PAGE THEN [h |-> h, ptr |-> 0]
    ELSE IF ClassFor(size, align) # 0 THEN AllocSmall(h, ClassFor(size, align))
    ELSE MapAnon(h, RoundUp(size, PAGE))
Dealloc(h, ptr, size, align) ==
    IF ClassFor(size, align) # 0 THEN DeallocSmall(h, ptr, ClassFor(size, align)) ELSE Unmap(h, ptr, RoundUp(size, PAGE))

=============================================================================

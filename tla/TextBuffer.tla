----------------------------- MODULE TextBuffer -----------------------------
(***************************************************************************)
(* The editor's text (crates/otter-textbuf) under the editor application   *)
(* (crates/otter-apps): typing, deleting, moving the cursor, undo and redo *)
(* with the grouping of consecutive typing, loading and saving.  No        *)
(* application selects text yet (nothing calls extend_selection or cut),   *)
(* so the anchor is the cursor throughout.                                 *)
(*                                                                         *)
(* Text is a sequence of bytes, of which "+" is the second byte of a       *)
(* two-byte character and "n" the newline.                                 *)
(***************************************************************************)
EXTENDS Naturals, Sequences, SequencesExt, FiniteSetsExt

CONSTANTS
    Typed,      \* what one key press types
    Files,      \* files that are loaded
    MaxText,    \* bound: bytes of text
    MaxEdits    \* bound: entries of the two stacks together

\* The bytes of those, and the ones insert_newline puts in.
Bytes == {" ", "n"} \cup UNION {Range(s) : s \in Typed \cup Files}

ASSUME BufAssumption == Typed \cup Files \subseteq Seq(Bytes) /\ MaxText \in Nat /\ MaxEdits \in Nat

VARIABLES
    text, cursor,   \* data and cursor (0 .. Len(text))
    undos, redos,   \* undo_stack and redo_stack, newest last
    dirty,          \* EditorApp::modified
    onDisk,         \* history: the text last loaded or saved
    before, after   \* history: the text each entry of the stacks leads back to

bufVars == <<text, cursor, undos, redos, dirty, onDisk, before, after>>

BufInit ==
    /\ text = <<>> /\ cursor = 0 /\ undos = <<>> /\ redos = <<>>
    /\ dirty = FALSE /\ onDisk = <<>> /\ before = <<>> /\ after = <<>>

-----------------------------------------------------------------------------
(* Positions.  A position is the number of bytes before it. *)

Leads(b) == b # "+"
Splice(s, pos, t) == SubSeq(s, 1, pos) \o t \o SubSeq(s, pos + 1, Len(s))
Drain(s, from, to) == SubSeq(s, 1, from) \o SubSeq(s, to + 1, Len(s))

\* rebuild_line_index: where lines start.
LineStarts == {0} \cup {i \in 1 .. Len(text) : text[i] = "n"}
LineStart == Max({s \in LineStarts : s <= cursor})
NextStarts(start) == {s \in LineStarts : s > start}
LineEnd(start) == IF NextStarts(start) = {} THEN Len(text) ELSE Min(NextStarts(start)) - 1

\* byte_to_line_col's column, and line_col_to_byte in the line that begins at start: the
\* walk stops as soon as it has counted the column's characters.
Column == Len(SelectSeq(SubSeq(text, LineStart + 1, cursor), Leads))
AtColumn(start, col) ==
    Min({p \in start .. LineEnd(start) :
            p = LineEnd(start) \/ Len(SelectSeq(SubSeq(text, start + 1, p), Leads)) >= col})

\* delete_char and delete_forward: the character before and the one after the cursor.
PrevChar == Max({0} \cup {p \in 0 .. cursor - 1 : Leads(text[p + 1])})
NextChar == Min({Len(text)} \cup {p \in cursor + 1 .. Len(text) - 1 : Leads(text[p + 1])})

WordChar(b) == b = "a"
\* move_word_right: past the word, then to the next one or the end of the line.
WordRight ==
    LET word == Min({Len(text)} \cup {p \in cursor .. Len(text) - 1 : ~WordChar(text[p + 1])})
    IN  Min({Len(text)} \cup {p \in word .. Len(text) - 1 : WordChar(text[p + 1]) \/ text[p + 1] = "n"})

\* move_word_left: back to a word or a newline, then to the start of the word.
WordLeft ==
    LET end == Max({0} \cup {p \in 0 .. cursor - 1 : WordChar(text[p + 1]) \/ text[p + 1] = "n"})
    IN  IF cursor = 0 THEN 0
        ELSE Min({p \in 0 .. end : \A q \in p .. end - 1 : WordChar(text[q + 1])})

\* move_up and move_down by one line.
LineUp ==
    IF LineStart = 0 THEN 0
    ELSE AtColumn(Max({s \in LineStarts : s < LineStart}), Column)
LineDown ==
    IF NextStarts(LineStart) = {} THEN Len(text)
    ELSE AtColumn(Min(NextStarts(LineStart)), Column)

\* move_to_line_start, move_to_line_end, move_to_start, move_to_end, move_up, move_down,
\* move_word_right, move_word_left: set_cursor to where they lead.
Move ==
    /\ cursor' \in {LineStart, LineEnd(LineStart), 0, Len(text), LineUp, LineDown, WordRight, WordLeft}
    /\ UNCHANGED <<text, undos, redos, dirty, onDisk, before, after>>

-----------------------------------------------------------------------------
(* Edits.  An edit is [insert, at, what]; every new one forgets redo_stack. *)

Room == Len(undos) + Len(redos) < MaxEdits

RecordEdit(edit) ==
    /\ undos' = Append(undos, edit) /\ before' = Append(before, text)
    /\ redos' = <<>> /\ after' = <<>>

\* insert that merges with any insertion, wherever it was.
ShouldMerge_Anywhere(soon) == undos # <<>> /\ soon /\ Last(undos).insert

\* insert's should_merge: less than a second after the last edit, an insertion that
\* ended where the cursor is.
ShouldMerge(soon) ==
    /\ undos # <<>> /\ soon
    /\ LET last == Last(undos) IN last.insert /\ last.at + Len(last.what) = cursor

\* insert: a single byte extends the edit it merges with, anything else is a new edit.
Insert(what, soon) ==
    /\ Len(text) + Len(what) <= MaxText
    /\ IF ShouldMerge(soon) /\ Len(what) = 1
       THEN /\ undos' = [undos EXCEPT ![Len(undos)].what = @ \o what]
            /\ redos' = <<>> /\ after' = <<>> /\ UNCHANGED before
       ELSE Room /\ RecordEdit([insert |-> TRUE, at |-> cursor, what |-> what])
    /\ text' = Splice(text, cursor, what) /\ cursor' = cursor + Len(what)
    /\ dirty' = TRUE /\ UNCHANGED onDisk

\* insert_newline: with the indentation of the line.
InsertNewline(soon) ==
    LET indent == SelectInSeq(SubSeq(text, LineStart + 1, Len(text)), LAMBDA b : b # " ")
        width  == IF indent = 0 THEN Len(text) - LineStart ELSE indent - 1
    IN  Insert(<<"n">> \o [i \in 1 .. width |-> " "], soon)

Delete(from, to) ==
    /\ from < to /\ Room
    /\ RecordEdit([insert |-> FALSE, at |-> from, what |-> SubSeq(text, from + 1, to)])
    /\ text' = Drain(text, from, to) /\ cursor' = from
    /\ dirty' = TRUE /\ UNCHANGED onDisk

DeleteChar    == cursor > 0 /\ Delete(PrevChar, cursor)
DeleteForward == cursor < Len(text) /\ Delete(cursor, NextChar)

Apply(edit, s) ==
    IF edit.insert THEN Splice(s, edit.at, edit.what)
    ELSE Drain(s, edit.at, edit.at + Len(edit.what))
Reversed(edit) == [edit EXCEPT !.insert = ~@]
CursorAfter(edit) == IF edit.insert THEN edit.at + Len(edit.what) ELSE edit.at

\* undo and redo, as the editor's Ctrl+Z and Ctrl+Y call them.
Undo ==
    /\ undos # <<>>
    /\ text' = Apply(Reversed(Last(undos)), text) /\ cursor' = CursorAfter(Reversed(Last(undos)))
    /\ undos' = Front(undos) /\ redos' = Append(redos, Last(undos))
    /\ before' = Front(before) /\ after' = Append(after, text)
    /\ dirty' = TRUE /\ UNCHANGED onDisk

Redo ==
    /\ redos # <<>>
    /\ text' = Apply(Last(redos), text) /\ cursor' = CursorAfter(Last(redos))
    /\ redos' = Front(redos) /\ undos' = Append(undos, Last(redos))
    /\ after' = Front(after) /\ before' = Append(before, text)
    /\ dirty' = TRUE /\ UNCHANGED onDisk

\* EditorApp::load_file (invalid text is refused before anything changes) and save.
Load(file) ==
    /\ text' = file /\ onDisk' = file /\ cursor' = 0 /\ dirty' = FALSE
    /\ undos' = <<>> /\ redos' = <<>> /\ before' = <<>> /\ after' = <<>>

Save ==
    /\ dirty /\ onDisk' = text /\ dirty' = FALSE
    /\ UNCHANGED <<text, cursor, undos, redos, before, after>>

BufNext ==
    \/ \E what \in Typed, soon \in BOOLEAN : Insert(what, soon)
    \/ \E soon \in BOOLEAN : InsertNewline(soon)
    \/ DeleteChar \/ DeleteForward \/ Move \/ Undo \/ Redo
    \/ \E file \in Files : Load(file)
    \/ Save

BufSpec == BufInit /\ [][BufNext]_bufVars

-----------------------------------------------------------------------------
\* One undo gives back exactly the text from before the group of edits it undoes, one
\* redo the text from before the undo, whatever was typed, merged, deleted and undone
\* since; and a text that is not marked as modified is the one on the disk
\* (TextBuffer::insert, delete_char, undo, redo; EditorApp::modified).
UndoIsExact ==
    /\ undos # <<>> => Apply(Reversed(Last(undos)), text) = Last(before)
    /\ redos # <<>> => Apply(Last(redos), text) = Last(after)
    /\ ~dirty => text = onDisk
    /\ cursor \in 0 .. Len(text)
=============================================================================

--------------------------- MODULE WindowManager ---------------------------
(***************************************************************************)
(* The window manager (crates/otter-wm): windows are created, focused,     *)
(* moved, resized, minimised, restored and maximised by calls and by the   *)
(* pointer and the Tab key.  Where a window is does not matter to who has  *)
(* the focus, so rectangles are left out: a press hits any part of any     *)
(* window that is not minimised, or none, and a move only damages the      *)
(* screen.  The pointer's shape, the titles and the pixels are left out.   *)
(***************************************************************************)
EXTENDS Queues, SequencesExt

CONSTANT Ids    \* ids given to create_window, each at most once

VARIABLES
    stack,      \* windows: ids from the bottom to the top
    wins,       \* window_data: state and mark of each window
    focus,      \* focused_window, or NoWindow
    drag,       \* dragging_window, and whether resize_edge is set
    damaged,    \* damage_rects is not empty
    strayed,    \* history: the last call of focus_window named a window there was not
    created     \* history: the ids used so far

wmVars == <<stack, wins, focus, drag, damaged, strayed, created>>

NoWindow == "none"
ASSUME WmAssumption == NoWindow \notin Ids

NoDrag == [win |-> NoWindow, edge |-> FALSE]

WmInit ==
    /\ stack = <<>> /\ wins = << >> /\ focus = NoWindow /\ drag = NoDrag
    /\ damaged = FALSE /\ strayed = FALSE /\ created = {}

-----------------------------------------------------------------------------
(* Calls.  The record s carries the windows through a call made of calls. *)

Desk == [stack |-> stack, wins |-> wins, focus |-> focus, damaged |-> damaged, strayed |-> strayed]
Becomes(s) ==
    /\ stack' = s.stack /\ wins' = s.wins /\ focus' = s.focus
    /\ damaged' = s.damaged /\ strayed' = s.strayed
Has(s, id) == id \in DOMAIN s.wins
Damage(s, id) == [s EXCEPT !.damaged = @ \/ Has(s, id)]
Enter(s, id, state) ==
    IF Has(s, id) THEN [s EXCEPT !.wins[id].state = state, !.damaged = TRUE] ELSE s

\* focus_window: the old window loses its mark; the new one is marked, raised and
\* remembered.  If there is no such window the old one goes on being the focused one,
\* without its mark.
Unmarked(s) ==
    IF Has(s, s.focus) THEN [s EXCEPT !.wins[s.focus].focused = FALSE, !.damaged = TRUE] ELSE s
FocusWindow(s, id) ==
    LET u == Unmarked(s)
    IN  IF id = NoWindow THEN [u EXCEPT !.focus = NoWindow, !.strayed = FALSE]
        ELSE IF ~Has(s, id) THEN [u EXCEPT !.strayed = TRUE]
        ELSE [u EXCEPT !.wins[id].focused = TRUE, !.focus = id, !.damaged = TRUE, !.strayed = FALSE,
                       !.stack = Append(Kept(@, Ids \ {id}), id)]

CreateWindow(id) ==
    LET new == [state |-> "normal", focused |-> FALSE]
        all == [i \in DOMAIN wins \cup {id} |-> IF i = id THEN new ELSE wins[i]]
    IN  /\ id \notin created
        /\ Becomes(FocusWindow([Desk EXCEPT !.wins = all, !.stack = Append(@, id)], id))
        /\ created' = created \cup {id}
        /\ UNCHANGED drag

\* minimise_window: the focus is given up and goes to no other window.
Minimised(s, id) ==
    LET m == Enter(s, id, "minimised")
    IN  IF s.focus = id THEN FocusWindow(m, NoWindow) ELSE m
Restored(s, id) == FocusWindow(Enter(s, id, "normal"), id)
\* maximise_window neither focuses nor raises.
Maximised(s, id) == Enter(s, id, "maximised")

\* The calls a program makes, with the id of any window, also one that was closed or
\* never created: focus_window, minimise_window, restore_window, maximise_window;
\* move_window and resize_window.
Call(id) ==
    /\ \/ Becomes(FocusWindow(Desk, id))
       \/ Becomes(Minimised(Desk, id))
       \/ Becomes(Restored(Desk, id))
       \/ Becomes(Maximised(Desk, id))
       \/ Becomes(Damage(Desk, id))
    /\ UNCHANGED <<drag, created>>
Unfocus == Becomes(FocusWindow(Desk, NoWindow)) /\ UNCHANGED <<drag, created>>

-----------------------------------------------------------------------------
(* Input. *)

\* hit_test passes over minimised windows, whatever the stack says.
HitTest == {id \in DOMAIN wins : wins[id].state # "minimised"}

\* PointerMove while a window is dragged moves or resizes it; the window may have been
\* closed meanwhile, with another button.
PointerMove ==
    /\ drag.win # NoWindow
    /\ Becomes(Damage(Desk, drag.win))
    /\ UNCHANGED <<drag, created>>

PressClient(id) == Becomes(FocusWindow(Desk, id)) /\ UNCHANGED <<drag, created>>
\* A press on the title focuses and starts a drag.  It does not reset resize_edge: after
\* a press on an edge that was not released, the drag resizes.
PressTitle(id) ==
    /\ Becomes(FocusWindow(Desk, id))
    /\ drag' = [drag EXCEPT !.win = id]
    /\ UNCHANGED created
\* A press on an edge or a corner does not focus.
PressEdge(id) ==
    /\ drag' = [win |-> id, edge |-> TRUE]
    /\ UNCHANGED <<stack, wins, focus, damaged, strayed, created>>

Removed(s, id) ==
    [s EXCEPT !.stack = Kept(@, Ids \ {id}),
              !.wins = [i \in DOMAIN @ \ {id} |-> @[i]]]
\* A plausible slip: focused_window goes on naming the closed window unless another one
\* takes over.
Closed_Keeps(s, id) ==
    LET r == Removed(s, id)
    IN  IF s.focus = id /\ r.stack # <<>> THEN FocusWindow(r, Last(r.stack)) ELSE r
\* The close button: the top window of those left takes over a focus that goes with it,
\* minimised or not.
Closed(s, id) ==
    LET r == [Removed(s, id) EXCEPT !.focus = IF @ = id THEN NoWindow ELSE @]
    IN  IF s.focus = id /\ r.stack # <<>> THEN FocusWindow(r, Last(r.stack)) ELSE r
PressClose(id) == Becomes(Closed(Desk, id)) /\ UNCHANGED <<drag, created>>
PressMinimise(id) == Becomes(Minimised(Desk, id)) /\ UNCHANGED <<drag, created>>

PointerDown ==
    \E id \in HitTest :
        PressClient(id) \/ PressTitle(id) \/ PressEdge(id) \/ PressClose(id) \/ PressMinimise(id)
PointerUp == drag' = NoDrag /\ UNCHANGED <<stack, wins, focus, damaged, strayed, created>>

\* Tab, cycle_focus_forward: the window above the focused one in the stack, else the
\* bottom one.
CycleFocusForward ==
    /\ stack # <<>>
    /\ LET next == IF focus = NoWindow THEN 1
                   ELSE (SelectInSeq(stack, LAMBDA w : w = focus) % Len(stack)) + 1
       IN  Becomes(FocusWindow(Desk, stack[next]))
    /\ UNCHANGED <<drag, created>>

\* update_clock with a new text, and composite_frame, which paints everything.
UpdateClock == damaged' = TRUE /\ UNCHANGED <<stack, wins, focus, drag, strayed, created>>
CompositeFrame == damaged' = FALSE /\ UNCHANGED <<stack, wins, focus, drag, strayed, created>>

WmNext ==
    \/ \E id \in Ids : CreateWindow(id) \/ Call(id)
    \/ Unfocus \/ PointerMove \/ PointerDown \/ PointerUp
    \/ CycleFocusForward \/ UpdateClock \/ CompositeFrame

WmSpec == WmInit /\ [][WmNext]_wmVars

-----------------------------------------------------------------------------
\* After any sequence of calls and events the records of who has the focus agree: the
\* window focused_window names is there and on top of the stack, so that it is painted
\* over the others and is hit first; no other window is marked as focused, and it is, too,
\* unless the last call of focus_window (or restore_window) named a window there was not:
\* then none is.  And the stack and window_data hold the same windows, each once.  They
\* are updated apart by focus_window, by create_window and by the close button, which
\* takes the window out of both and goes round focus_window.
FocusOnTop ==
    /\ ToSet(stack) = DOMAIN wins /\ Len(stack) = Cardinality(DOMAIN wins)
    /\ \A id \in DOMAIN wins : wins[id].focused <=> focus = id /\ ~strayed
    /\ focus # NoWindow => stack # <<>> /\ Last(stack) = focus

-----------------------------------------------------------------------------
(* The inductive invariant behind FocusOnTop (proved in UserProofs), as a  *)
(* predicate of the record that a call made of calls hands on.             *)

Window == [state : {"normal", "minimised", "maximised"}, focused : BOOLEAN]
DeskType ==
    [stack : Seq(Ids), wins : UNION {[D -> Window] : D \in SUBSET Ids},
     focus : Ids \cup {NoWindow}, damaged : BOOLEAN, strayed : BOOLEAN]

\* The stack and window_data have the same windows, each once, and the marked one is the
\* one the focus names, if it was not lost: what focus_window is called with.
Agreed(s) ==
    /\ s \in DeskType
    /\ Distinct(s.stack) /\ \A id \in Ids : In(id, s.stack) <=> Has(s, id)
    /\ \A id \in DOMAIN s.wins : s.wins[id].focused <=> s.focus = id /\ ~s.strayed
\* Besides, the focused window is on top: what it leaves.
Topped(s) == s.focus # NoWindow => s.stack # <<>> /\ s.stack[Len(s.stack)] = s.focus

WmInv ==
    /\ Agreed(Desk) /\ Topped(Desk)
    /\ drag \in [win : Ids \cup {NoWindow}, edge : BOOLEAN]
    /\ created \subseteq Ids /\ DOMAIN wins \subseteq created
=============================================================================

----------------------------- MODULE UserProofs -----------------------------
(***************************************************************************)
(* Proofs about what is between the user and the kernel.  The window       *)
(* manager: whatever calls and events come, the focus, the marks and the   *)
(* stacking order agree, for any set of windows.  The calls are made of    *)
(* calls, so the lemmas are about the record they hand on.  The editor's   *)
(* text: undo and redo are exact, for any keys, any files and stacks of    *)
(* any depth.  The keyboard: what is read is what the scancodes spell, for *)
(* a ring of any size and an interrupt at any time.  The agent: consent    *)
(* comes first and every call is answered truly, for any calls, any blocks *)
(* and turns, and an answer that is cut off anywhere.                      *)
(***************************************************************************)
EXTENDS WindowManager, TextBuffer, Keyboard, Agent, QueueLemmas

-----------------------------------------------------------------------------
(* focus_window. *)

\* The type of the record, spelled out for the steps that take it apart.
LEMMA DeskParts ==
    ASSUME NEW s \in DeskType
    PROVE  /\ s = [stack |-> s.stack, wins |-> s.wins, focus |-> s.focus, damaged |-> s.damaged,
                   strayed |-> s.strayed]
           /\ s.stack \in Seq(Ids) /\ DOMAIN s.wins \subseteq Ids
           /\ s.wins \in [DOMAIN s.wins -> Window]
           /\ s.focus \in Ids \cup {NoWindow} /\ s.damaged \in BOOLEAN /\ s.strayed \in BOOLEAN
BY DEF DeskType

\* A record put together from parts of the right kind.
LEMMA DeskMade ==
    ASSUME NEW st \in Seq(Ids), NEW D \in SUBSET Ids, NEW w \in [D -> Window],
           NEW f \in Ids \cup {NoWindow}, NEW d \in BOOLEAN, NEW l \in BOOLEAN
    PROVE  [stack |-> st, wins |-> w, focus |-> f, damaged |-> d, strayed |-> l] \in DeskType
BY DEF DeskType

LEMMA DeskMadeDamaged ==
    ASSUME NEW st \in Seq(Ids), NEW D \in SUBSET Ids, NEW w \in [D -> Window],
           NEW f \in Ids \cup {NoWindow}, NEW l \in BOOLEAN
    PROVE  [stack |-> st, wins |-> w, focus |-> f, damaged |-> TRUE, strayed |-> l] \in DeskType
BY DEF DeskType

\* The old window loses its mark and nothing else changes.
LEMMA UnmarkedProperties ==
    ASSUME NEW s, Agreed(s)
    PROVE  /\ Unmarked(s) \in DeskType
           /\ Unmarked(s).stack = s.stack /\ Unmarked(s).focus = s.focus
           /\ Unmarked(s).strayed = s.strayed
           /\ DOMAIN Unmarked(s).wins = DOMAIN s.wins
           /\ \A id \in DOMAIN s.wins : ~Unmarked(s).wins[id].focused
<1>1. s \in DeskType /\ \A id \in DOMAIN s.wins : s.wins[id].focused <=> s.focus = id /\ ~s.strayed
  BY DEF Agreed
<1>2. /\ s = [stack |-> s.stack, wins |-> s.wins, focus |-> s.focus, damaged |-> s.damaged,
                   strayed |-> s.strayed]
      /\ s.stack \in Seq(Ids) /\ DOMAIN s.wins \subseteq Ids
      /\ s.wins \in [DOMAIN s.wins -> Window]
      /\ s.focus \in Ids \cup {NoWindow} /\ s.damaged \in BOOLEAN /\ s.strayed \in BOOLEAN
  BY <1>1, DeskParts
<1>3. CASE ~Has(s, s.focus)
  <2>1. Unmarked(s) = s
    BY <1>3 DEF Unmarked
  <2> QED BY <1>1, <1>3, <2>1 DEF Has
<1>4. CASE Has(s, s.focus)
  <2> DEFINE w == [s.wins EXCEPT ![s.focus].focused = FALSE]
  <2>1. Unmarked(s) = [stack |-> s.stack, wins |-> w, focus |-> s.focus, damaged |-> TRUE,
                     strayed |-> s.strayed]
    BY <1>2, <1>4 DEF Unmarked
  <2>2. /\ w \in [DOMAIN s.wins -> Window] /\ DOMAIN w = DOMAIN s.wins
        /\ \A id \in DOMAIN s.wins : w[id].focused <=> id # s.focus /\ s.wins[id].focused
    BY <1>2, <1>4 DEF Has, Window
  <2> HIDE DEF w
  <2>3. Unmarked(s) \in DeskType
    BY <1>2, <2>1, <2>2, DeskMadeDamaged
  <2> QED BY <1>1, <2>1, <2>2, <2>3
<1> QED BY <1>3, <1>4

\* A window taken out of the stack and put on top of it.
LEMMA Raised ==
    ASSUME NEW st \in Seq(Ids), NEW id \in Ids, Distinct(st)
    PROVE  LET r == Append(Kept(st, Ids \ {id}), id)
           IN  /\ r \in Seq(Ids) /\ Distinct(r) /\ r # <<>> /\ r[Len(r)] = id
               /\ \A x \in Ids : In(x, r) <=> In(x, st) \/ x = id
<1> DEFINE k == Kept(st, Ids \ {id})
<1>1. /\ k \in Seq(Ids) /\ Distinct(k)
      /\ \A x : In(x, k) <=> In(x, st) /\ x \in Ids \ {id}
  BY KeptProperties
<1> HIDE DEF k
<1>2. Distinct(Append(k, id)) /\ \A x : In(x, Append(k, id)) <=> In(x, k) \/ x = id
  BY <1>1, DistinctAppend, InAppend
<1>3. /\ Append(k, id) \in Seq(Ids) /\ Append(k, id) # <<>>
      /\ Append(k, id)[Len(Append(k, id))] = id
  BY <1>1, AppendProperties, LenProperties
<1> QED BY <1>1, <1>2, <1>3 DEF k

\* focus_window of a window there is, or of none, leaves everything in agreement.
LEMMA FocusAgrees ==
    ASSUME NEW s, Agreed(s), NEW id \in DOMAIN s.wins \cup {NoWindow}
    PROVE  /\ Agreed(FocusWindow(s, id)) /\ Topped(FocusWindow(s, id))
           /\ DOMAIN FocusWindow(s, id).wins = DOMAIN s.wins
<1> DEFINE u == Unmarked(s)
<1>1. /\ u \in DeskType /\ u.stack = s.stack /\ u.focus = s.focus
      /\ DOMAIN u.wins = DOMAIN s.wins
      /\ \A i \in DOMAIN s.wins : ~u.wins[i].focused
  BY UnmarkedProperties
<1>2. /\ s \in DeskType /\ Distinct(s.stack)
      /\ \A i \in Ids : In(i, s.stack) <=> i \in DOMAIN s.wins
  BY DEF Agreed, Has
<1>3. /\ u = [stack |-> u.stack, wins |-> u.wins, focus |-> u.focus, damaged |-> u.damaged,
              strayed |-> u.strayed]
      /\ u.stack \in Seq(Ids) /\ DOMAIN u.wins \subseteq Ids
      /\ u.wins \in [DOMAIN u.wins -> Window]
      /\ u.damaged \in BOOLEAN
  BY <1>1, DeskParts
<1>4. NoWindow \notin Ids
  BY WmAssumption
<1>5. CASE id = NoWindow
  <2>1. FocusWindow(s, id) = [stack |-> s.stack, wins |-> u.wins, focus |-> NoWindow, damaged |-> u.damaged,
                              strayed |-> FALSE]
    BY <1>1, <1>3, <1>5 DEF FocusWindow
  <2>2. FocusWindow(s, id) \in DeskType
    <3> HIDE DEF u
    <3> QED BY <1>1, <1>3, <2>1, DeskMade
  <2>3. Distinct(s.stack) /\ \A i \in Ids : In(i, s.stack) <=> i \in DOMAIN u.wins
    BY <1>1, <1>2
  <2> HIDE DEF u
  <2> QED BY <1>1, <1>3, <1>4, <2>1, <2>2, <2>3 DEF Agreed, Topped, Has
<1>6. CASE id # NoWindow
  <2> DEFINE r == Append(Kept(s.stack, Ids \ {id}), id)
             w == [u.wins EXCEPT ![id].focused = TRUE]
  <2>1. id \in DOMAIN u.wins /\ id \in Ids
    BY <1>1, <1>3, <1>6
  <2>2. FocusWindow(s, id) = [stack |-> r, wins |-> w, focus |-> id, damaged |-> TRUE, strayed |-> FALSE]
    <3>1. Has(s, id)
      BY <1>1, <2>1 DEF Has
    <3>2. FocusWindow(s, id) = [u EXCEPT !.wins[id].focused = TRUE, !.focus = id, !.damaged = TRUE,
                                         !.strayed = FALSE, !.stack = Append(Kept(@, Ids \ {id}), id)]
      BY <1>6, <3>1 DEF FocusWindow
    <3> HIDE DEF u
    <3> QED BY <1>1, <1>3, <3>2
  <2>3. /\ r \in Seq(Ids) /\ Distinct(r) /\ r # <<>> /\ r[Len(r)] = id
        /\ \A x \in Ids : In(x, r) <=> In(x, s.stack) \/ x = id
    BY <1>1, <1>2, <1>3, <2>1, Raised
  <2>4. /\ w \in [DOMAIN u.wins -> Window] /\ DOMAIN w = DOMAIN u.wins
        /\ \A i \in DOMAIN u.wins : w[i].focused <=> i = id
    <3>1. \A i \in DOMAIN u.wins : ~u.wins[i].focused
      BY <1>1
    <3> HIDE DEF u
    <3> QED BY <1>3, <2>1, <3>1 DEF Window
  <2> HIDE DEF r, w, u
  <2>5. FocusWindow(s, id) \in DeskType
    BY <1>3, <2>1, <2>2, <2>3, <2>4, DeskMade
  <2> DEFINE f == FocusWindow(s, id)
  <2>6. f.stack = r /\ f.wins = w /\ f.focus = id /\ ~f.strayed
    BY <2>2
  <2> HIDE DEF f
  <2>7. \A x \in Ids : In(x, r) <=> x \in DOMAIN w
    BY <1>1, <1>2, <2>1, <2>3, <2>4
  <2>8. Agreed(f) /\ Topped(f) /\ DOMAIN f.wins = DOMAIN s.wins
    BY <1>1, <2>3, <2>4, <2>5, <2>6, <2>7 DEF Agreed, Topped, Has, f
  <2> QED BY <2>8 DEF f
<1> QED BY <1>5, <1>6


-----------------------------------------------------------------------------
(* The other calls. *)

\* A record put together anew, and one field of it replaced.
Plain(s) == s = [stack |-> s.stack, wins |-> s.wins, focus |-> s.focus, damaged |-> s.damaged,
                   strayed |-> s.strayed]

LEMMA FieldSet ==
    ASSUME NEW s, Plain(s), NEW x
    PROVE  /\ [s EXCEPT !.stack = x] =
                [stack |-> x, wins |-> s.wins, focus |-> s.focus, damaged |-> s.damaged,
                   strayed |-> s.strayed]
           /\ [s EXCEPT !.wins = x] =
                [stack |-> s.stack, wins |-> x, focus |-> s.focus, damaged |-> s.damaged,
                   strayed |-> s.strayed]
           /\ [s EXCEPT !.focus = x] =
                [stack |-> s.stack, wins |-> s.wins, focus |-> x, damaged |-> s.damaged,
                   strayed |-> s.strayed]
           /\ [s EXCEPT !.damaged = x] =
                [stack |-> s.stack, wins |-> s.wins, focus |-> s.focus, damaged |-> x,
                   strayed |-> s.strayed]
           /\ [s EXCEPT !.strayed = x] =
                [stack |-> s.stack, wins |-> s.wins, focus |-> s.focus, damaged |-> s.damaged,
            strayed |-> x]
BY DEF Plain

LEMMA FieldsSet ==
    ASSUME NEW a, NEW b, NEW c, NEW d, NEW e
    PROVE  LET s == [stack |-> a, wins |-> b, focus |-> c, damaged |-> d, strayed |-> e]
           IN  Plain(s) /\ s.stack = a /\ s.wins = b /\ s.focus = c /\ s.damaged = d /\ s.strayed = e
BY DEF Plain

\* A change of a window's state is none of the focus.
LEMMA EnterAgrees ==
    ASSUME NEW s, Agreed(s), NEW id,
           NEW state \in {"normal", "minimised", "maximised"}
    PROVE  /\ Agreed(Enter(s, id, state)) /\ (Topped(s) => Topped(Enter(s, id, state)))
           /\ DOMAIN Enter(s, id, state).wins = DOMAIN s.wins
           /\ Enter(s, id, state).focus = s.focus
<1> DEFINE w == [s.wins EXCEPT ![id].state = state]
<1>1. /\ s \in DeskType /\ Distinct(s.stack)
      /\ \A i \in Ids : In(i, s.stack) <=> i \in DOMAIN s.wins
      /\ \A i \in DOMAIN s.wins : s.wins[i].focused <=> s.focus = i /\ ~s.strayed
  BY DEF Agreed, Has
<1>2. /\ s = [stack |-> s.stack, wins |-> s.wins, focus |-> s.focus, damaged |-> s.damaged,
                   strayed |-> s.strayed]
      /\ s.stack \in Seq(Ids) /\ DOMAIN s.wins \subseteq Ids
      /\ s.wins \in [DOMAIN s.wins -> Window]
      /\ s.focus \in Ids \cup {NoWindow} /\ s.damaged \in BOOLEAN /\ s.strayed \in BOOLEAN
  BY <1>1, DeskParts
<1>0. CASE ~Has(s, id)
  BY <1>0 DEF Enter
<1> SUFFICES ASSUME Has(s, id)
             PROVE  /\ Agreed(Enter(s, id, state)) /\ (Topped(s) => Topped(Enter(s, id, state)))
                    /\ DOMAIN Enter(s, id, state).wins = DOMAIN s.wins
                    /\ Enter(s, id, state).focus = s.focus
  BY <1>0
<1>3. Enter(s, id, state) = [stack |-> s.stack, wins |-> w, focus |-> s.focus, damaged |-> TRUE,
                             strayed |-> s.strayed]
  <2> DEFINE t == [s EXCEPT !.wins = w]
  <2>1. Enter(s, id, state) = [t EXCEPT !.damaged = TRUE]
    BY DEF Enter
  <2> HIDE DEF w
  <2>2. t = [stack |-> s.stack, wins |-> w, focus |-> s.focus, damaged |-> s.damaged,
                   strayed |-> s.strayed]
    BY <1>2, FieldSet DEF Plain
  <2> HIDE DEF t
  <2>3. Plain(t) /\ t.wins = w /\ t.focus = s.focus /\ t.stack = s.stack /\ t.strayed = s.strayed
    BY <2>2, FieldsSet
  <2>4. [t EXCEPT !.damaged = TRUE] =
          [stack |-> t.stack, wins |-> t.wins, focus |-> t.focus, damaged |-> TRUE, strayed |-> t.strayed]
    BY <2>3, FieldSet
  <2> QED BY <2>1, <2>3, <2>4
<1>4. /\ w \in [DOMAIN s.wins -> Window] /\ DOMAIN w = DOMAIN s.wins
      /\ \A i \in DOMAIN s.wins : w[i].focused <=> s.wins[i].focused
  BY <1>2 DEF Window, Has
<1> HIDE DEF w
<1>5. Enter(s, id, state) \in DeskType
  BY <1>2, <1>3, <1>4, DeskMadeDamaged
<1> DEFINE e == Enter(s, id, state)
<1>6. e.stack = s.stack /\ e.wins = w /\ e.focus = s.focus /\ e.strayed = s.strayed
  BY <1>3
<1> HIDE DEF e
<1>7. Agreed(e) /\ (Topped(s) => Topped(e)) /\ DOMAIN e.wins = DOMAIN s.wins /\ e.focus = s.focus
  BY <1>1, <1>4, <1>5, <1>6 DEF Agreed, Topped, Has, e
<1> QED BY <1>7 DEF e

\* focus_window of a window there is not: the focused one is on top still.
LEMMA StrayAgrees ==
    ASSUME NEW s, Agreed(s), Topped(s), NEW id, id # NoWindow, ~Has(s, id)
    PROVE  /\ Agreed(FocusWindow(s, id)) /\ Topped(FocusWindow(s, id))
           /\ DOMAIN FocusWindow(s, id).wins = DOMAIN s.wins
<1> DEFINE u == Unmarked(s)
           f == FocusWindow(s, id)
<1>1. /\ u \in DeskType /\ u.stack = s.stack /\ u.focus = s.focus
      /\ DOMAIN u.wins = DOMAIN s.wins
      /\ \A i \in DOMAIN s.wins : ~u.wins[i].focused
  BY UnmarkedProperties
<1>2. Distinct(s.stack) /\ \A i \in Ids : In(i, s.stack) <=> i \in DOMAIN s.wins
  BY DEF Agreed, Has
<1>3. f = [u EXCEPT !.strayed = TRUE]
  BY DEF FocusWindow
<1> HIDE DEF u, f
<1>4. /\ Plain(u) /\ u.stack \in Seq(Ids) /\ DOMAIN u.wins \subseteq Ids /\ u.wins \in [DOMAIN u.wins -> Window]
      /\ u.focus \in Ids \cup {NoWindow} /\ u.damaged \in BOOLEAN
  BY <1>1, DeskParts DEF Plain
<1>5. f = [stack |-> u.stack, wins |-> u.wins, focus |-> u.focus, damaged |-> u.damaged, strayed |-> TRUE]
  BY <1>3, <1>4, FieldSet
<1>6. f \in DeskType
  BY <1>4, <1>5, DeskMade
<1>7. f.stack = s.stack /\ f.wins = u.wins /\ f.focus = s.focus /\ f.strayed
  BY <1>1, <1>5
<1>8. Agreed(f) /\ Topped(f) /\ DOMAIN f.wins = DOMAIN s.wins
  BY <1>1, <1>2, <1>6, <1>7 DEF Agreed, Topped, Has
<1> QED BY <1>8 DEF f

\* focus_window of any window.
LEMMA AnyFocusAgrees ==
    ASSUME NEW s, Agreed(s), Topped(s), NEW id \in Ids \cup {NoWindow}
    PROVE  /\ Agreed(FocusWindow(s, id)) /\ Topped(FocusWindow(s, id))
           /\ DOMAIN FocusWindow(s, id).wins = DOMAIN s.wins
<1>1. CASE id \in DOMAIN s.wins \cup {NoWindow}
  BY <1>1, FocusAgrees
<1>2. CASE id \notin DOMAIN s.wins \cup {NoWindow}
  BY <1>2, StrayAgrees DEF Has
<1> QED BY <1>1, <1>2

\* minimise_window, restore_window and maximise_window.
LEMMA StateCallsAgree ==
    ASSUME NEW s, Agreed(s), Topped(s), NEW id \in Ids,
           NEW r \in {Minimised(s, id), Restored(s, id), Maximised(s, id)}
    PROVE  Agreed(r) /\ Topped(r) /\ DOMAIN r.wins = DOMAIN s.wins
<1>1. ASSUME NEW state \in {"normal", "minimised", "maximised"}
      PROVE  /\ Agreed(Enter(s, id, state)) /\ Topped(Enter(s, id, state))
             /\ DOMAIN Enter(s, id, state).wins = DOMAIN s.wins
             /\ \A i \in Ids \cup {NoWindow} :
                  /\ Agreed(FocusWindow(Enter(s, id, state), i))
                  /\ Topped(FocusWindow(Enter(s, id, state), i))
                  /\ DOMAIN FocusWindow(Enter(s, id, state), i).wins = DOMAIN s.wins
  <2>1. /\ Agreed(Enter(s, id, state)) /\ Topped(Enter(s, id, state))
        /\ DOMAIN Enter(s, id, state).wins = DOMAIN s.wins
    BY EnterAgrees
  <2> QED BY <2>1, AnyFocusAgrees
<1>2. CASE r = Minimised(s, id)
  BY <1>1, <1>2 DEF Minimised
<1>3. CASE r = Restored(s, id)
  BY <1>1, <1>3 DEF Restored
<1>4. CASE r = Maximised(s, id)
  BY <1>1, <1>4 DEF Maximised
<1> QED BY <1>2, <1>3, <1>4

\* A move damages the screen.
LEMMA DamageAgrees ==
    ASSUME NEW s, Agreed(s), Topped(s), NEW id
    PROVE  Agreed(Damage(s, id)) /\ Topped(Damage(s, id)) /\ DOMAIN Damage(s, id).wins = DOMAIN s.wins
<1> DEFINE d == Damage(s, id)
<1>1. s \in DeskType
  BY DEF Agreed
<1>2. /\ s = [stack |-> s.stack, wins |-> s.wins, focus |-> s.focus, damaged |-> s.damaged,
                   strayed |-> s.strayed]
      /\ s.stack \in Seq(Ids) /\ DOMAIN s.wins \subseteq Ids
      /\ s.wins \in [DOMAIN s.wins -> Window]
      /\ s.focus \in Ids \cup {NoWindow} /\ s.damaged \in BOOLEAN /\ s.strayed \in BOOLEAN
  BY <1>1, DeskParts
<1>3. d = [stack |-> s.stack, wins |-> s.wins, focus |-> s.focus, damaged |-> s.damaged \/ Has(s, id),
           strayed |-> s.strayed]
  BY <1>2 DEF Damage
<1>4. d \in DeskType
  <2> DEFINE b == s.damaged \/ Has(s, id)
  <2>1. b \in BOOLEAN
    BY DEF Has
  <2> HIDE DEF b
  <2>2. d = [stack |-> s.stack, wins |-> s.wins, focus |-> s.focus, damaged |-> b, strayed |-> s.strayed]
    BY <1>3 DEF b
  <2> HIDE DEF d
  <2> QED BY <1>2, <2>1, <2>2, DeskMade
<1>5. d.stack = s.stack /\ d.wins = s.wins /\ d.focus = s.focus /\ d.strayed = s.strayed
  BY <1>3
<1> HIDE DEF d
<1>6. Agreed(d) /\ Topped(d) /\ DOMAIN d.wins = DOMAIN s.wins
  BY <1>4, <1>5 DEF Agreed, Topped, Has
<1> QED BY <1>6 DEF d

\* The close button: who is left stays in agreement, and the focus goes to the top one.
LEMMA ClosedAgrees ==
    ASSUME NEW s, Agreed(s), Topped(s), NEW id \in DOMAIN s.wins
    PROVE  Agreed(Closed(s, id)) /\ Topped(Closed(s, id)) /\ DOMAIN Closed(s, id).wins \subseteq DOMAIN s.wins
<1> DEFINE k == Kept(s.stack, Ids \ {id})
           w == [i \in DOMAIN s.wins \ {id} |-> s.wins[i]]
           f == IF s.focus = id THEN NoWindow ELSE s.focus
           r == [Removed(s, id) EXCEPT !.focus = IF @ = id THEN NoWindow ELSE @]
<1>1. /\ s \in DeskType /\ Distinct(s.stack)
      /\ \A i \in Ids : In(i, s.stack) <=> i \in DOMAIN s.wins
      /\ \A i \in DOMAIN s.wins : s.wins[i].focused <=> s.focus = i /\ ~s.strayed
  BY DEF Agreed, Has
<1>2. /\ s = [stack |-> s.stack, wins |-> s.wins, focus |-> s.focus, damaged |-> s.damaged,
                   strayed |-> s.strayed]
      /\ s.stack \in Seq(Ids) /\ DOMAIN s.wins \subseteq Ids
      /\ s.wins \in [DOMAIN s.wins -> Window]
      /\ s.focus \in Ids \cup {NoWindow} /\ s.damaged \in BOOLEAN /\ s.strayed \in BOOLEAN
  BY <1>1, DeskParts
<1>3. r = [stack |-> k, wins |-> w, focus |-> f, damaged |-> s.damaged, strayed |-> s.strayed]
  <2> DEFINE t == [s EXCEPT !.stack = k]
             v == [t EXCEPT !.wins = w]
  <2>1. Removed(s, id) = v
    BY DEF Removed
  <2>2. t = [stack |-> k, wins |-> s.wins, focus |-> s.focus, damaged |-> s.damaged,
                   strayed |-> s.strayed]
    BY <1>2, FieldSet DEF Plain
  <2> HIDE DEF k, w, t
  <2>3. Plain(t) /\ t.stack = k /\ t.focus = s.focus /\ t.damaged = s.damaged /\ t.strayed = s.strayed
    BY <2>2, FieldsSet
  <2>4. v = [stack |-> t.stack, wins |-> w, focus |-> t.focus, damaged |-> t.damaged, strayed |-> t.strayed]
    BY <2>3, FieldSet
  <2> HIDE DEF v
  <2>5. Plain(v) /\ v.stack = k /\ v.wins = w /\ v.focus = s.focus /\ v.damaged = s.damaged
      /\ v.strayed = s.strayed
    BY <2>3, <2>4, FieldsSet
  <2>6. r = [v EXCEPT !.focus = f]
    BY <2>1, <2>5
  <2> HIDE DEF f, r
  <2>7. r = [stack |-> v.stack, wins |-> v.wins, focus |-> f, damaged |-> v.damaged, strayed |-> v.strayed]
    BY <2>5, <2>6, FieldSet
  <2> QED BY <2>5, <2>7
<1>4. /\ k \in Seq(Ids) /\ Distinct(k)
      /\ \A x : In(x, k) <=> In(x, s.stack) /\ x \in Ids \ {id}
  BY <1>1, <1>2, KeptProperties
<1>5. /\ w \in [DOMAIN w -> Window] /\ DOMAIN w = DOMAIN s.wins \ {id}
      /\ \A i \in DOMAIN w : w[i] = s.wins[i]
  BY <1>2
<1>6. f \in Ids \cup {NoWindow} /\ NoWindow \notin Ids
  BY <1>2, WmAssumption
<1>7. f # NoWindow => k # <<>> /\ k[Len(k)] = f
  <2>1. SUFFICES ASSUME f # NoWindow PROVE k # <<>> /\ k[Len(k)] = f
    OBVIOUS
  <2>2. s.focus = f /\ f # id
    BY <1>2, <2>1
  <2>3. s.stack # <<>> /\ s.stack[Len(s.stack)] = f /\ f \in Ids \ {id}
    BY <1>6, <2>1, <2>2 DEF Topped
  <2>4. Len(k) \in Nat \ {0} /\ k[Len(k)] = f
    BY <1>2, <2>3, KeptLast
  <2> HIDE DEF k
  <2> QED BY <2>4
<1> HIDE DEF k, w
<1>8. r \in DeskType
  <2>1. DOMAIN w \subseteq Ids
    BY <1>2, <1>5
  <2> HIDE DEF r, f
  <2> QED BY <1>2, <1>3, <1>4, <1>5, <1>6, <2>1, DeskMade
<1>9. r.stack = k /\ r.wins = w /\ r.focus = f /\ r.strayed = s.strayed
  BY <1>3
<1> HIDE DEF r
<1>10. Agreed(r) /\ Topped(r) /\ DOMAIN r.wins = DOMAIN s.wins \ {id}
  <2>1. \A i \in Ids : In(i, k) <=> i \in DOMAIN w
    BY <1>1, <1>4, <1>5
  <2>2. \A i \in DOMAIN w : w[i].focused <=> f = i /\ ~s.strayed
    BY <1>1, <1>2, <1>5, <1>6
  <2> HIDE DEF f
  <2> QED BY <1>4, <1>5, <1>7, <1>8, <1>9, <2>1, <2>2 DEF Agreed, Topped, Has
<1>11. CASE s.focus = id /\ r.stack # <<>>
  <2>1. Closed(s, id) = FocusWindow(r, Last(r.stack))
    BY <1>11 DEF Closed, r
  <2>2. Last(r.stack) \in DOMAIN r.wins
    <3>1. Len(r.stack) \in Nat \ {0} /\ r.stack \in Seq(Ids)
      BY <1>4, <1>9, <1>11, LenProperties, EmptySeq
    <3>2. Last(r.stack) = r.stack[Len(r.stack)] /\ Last(r.stack) \in Ids /\ In(Last(r.stack), r.stack)
      BY <3>1, ElementOfSeq DEF Last, In
    <3> QED BY <1>10, <3>2 DEF Agreed, Has
  <2> QED BY <1>10, <2>1, <2>2, FocusAgrees
<1>12. CASE ~(s.focus = id /\ r.stack # <<>>)
  <2>1. Closed(s, id) = r
    BY <1>12 DEF Closed, r
  <2> QED BY <1>10, <2>1
<1> QED BY <1>11, <1>12

\* A new window enters both records and is focused.
LEMMA CreatedAgrees ==
    ASSUME NEW s, Agreed(s), Topped(s), NEW id \in Ids, id \notin DOMAIN s.wins
    PROVE  LET w == [i \in DOMAIN s.wins \cup {id} |->
                       IF i = id THEN [state |-> "normal", focused |-> FALSE] ELSE s.wins[i]]
               r == FocusWindow([s EXCEPT !.wins = w, !.stack = Append(@, id)], id)
           IN  Agreed(r) /\ Topped(r) /\ DOMAIN r.wins = DOMAIN s.wins \cup {id}
<1> DEFINE w == [i \in DOMAIN s.wins \cup {id} |->
                   IF i = id THEN [state |-> "normal", focused |-> FALSE] ELSE s.wins[i]]
           a == Append(s.stack, id)
           n == [s EXCEPT !.wins = w, !.stack = Append(@, id)]
<1>1. /\ s \in DeskType /\ Distinct(s.stack)
      /\ \A i \in Ids : In(i, s.stack) <=> i \in DOMAIN s.wins
      /\ \A i \in DOMAIN s.wins : s.wins[i].focused <=> s.focus = i /\ ~s.strayed
  BY DEF Agreed, Has
<1>2. /\ s = [stack |-> s.stack, wins |-> s.wins, focus |-> s.focus, damaged |-> s.damaged,
                   strayed |-> s.strayed]
      /\ s.stack \in Seq(Ids) /\ DOMAIN s.wins \subseteq Ids
      /\ s.wins \in [DOMAIN s.wins -> Window]
      /\ s.focus \in Ids \cup {NoWindow} /\ s.damaged \in BOOLEAN /\ s.strayed \in BOOLEAN
  BY <1>1, DeskParts
<1>3. n = [stack |-> a, wins |-> w, focus |-> s.focus, damaged |-> s.damaged,
                   strayed |-> s.strayed]
  <2> DEFINE t == [s EXCEPT !.wins = w]
  <2>1. n = [t EXCEPT !.stack = Append(@, id)]
    OBVIOUS
  <2> HIDE DEF w, n
  <2>2. t = [stack |-> s.stack, wins |-> w, focus |-> s.focus, damaged |-> s.damaged,
                   strayed |-> s.strayed]
    BY <1>2, FieldSet DEF Plain
  <2> HIDE DEF t
  <2>3. Plain(t) /\ t.wins = w /\ t.focus = s.focus /\ t.stack = s.stack /\ t.damaged = s.damaged
      /\ t.strayed = s.strayed
    BY <2>2, FieldsSet
  <2>4. n = [t EXCEPT !.stack = a]
    BY <2>1, <2>3
  <2> HIDE DEF a
  <2>5. n = [stack |-> a, wins |-> t.wins, focus |-> t.focus, damaged |-> t.damaged, strayed |-> t.strayed]
    BY <2>3, <2>4, FieldSet
  <2> QED BY <2>3, <2>5
<1>4. a \in Seq(Ids) /\ Distinct(a) /\ \A x : In(x, a) <=> In(x, s.stack) \/ x = id
  BY <1>1, <1>2, DistinctAppend, InAppend, AppendProperties
<1>5. /\ w \in [DOMAIN w -> Window] /\ DOMAIN w = DOMAIN s.wins \cup {id}
      /\ \A i \in DOMAIN s.wins : w[i] = s.wins[i]
      /\ ~w[id].focused
  BY <1>2 DEF Window
<1>6. s.focus # id
  <2>1. SUFFICES ASSUME s.focus = id PROVE FALSE
    OBVIOUS
  <2>2. s.stack # <<>> /\ s.stack[Len(s.stack)] = id
    BY <2>1, WmAssumption DEF Topped
  <2>3. Len(s.stack) \in 1 .. Len(s.stack)
    BY <1>2, <2>2, LenProperties, EmptySeq
  <2> QED BY <1>1, <2>2, <2>3 DEF In
<1> HIDE DEF n, w, a
<1>7. n \in DeskType
  <2>1. DOMAIN w \subseteq Ids
    BY <1>2, <1>5
  <2> QED BY <1>2, <1>3, <1>4, <1>5, <2>1, DeskMade
<1>8. n.stack = a /\ n.wins = w /\ n.focus = s.focus /\ n.strayed = s.strayed
  BY <1>3
<1>9. Agreed(n) /\ DOMAIN n.wins = DOMAIN s.wins \cup {id}
  <2>1. \A i \in Ids : In(i, a) <=> i \in DOMAIN w
    BY <1>1, <1>4, <1>5
  <2>2. \A i \in DOMAIN w : w[i].focused <=> s.focus = i /\ ~s.strayed
    BY <1>1, <1>5, <1>6
  <2> QED BY <1>4, <1>5, <1>7, <1>8, <2>1, <2>2 DEF Agreed, Has
<1>10. /\ Agreed(FocusWindow(n, id)) /\ Topped(FocusWindow(n, id))
       /\ DOMAIN FocusWindow(n, id).wins = DOMAIN s.wins \cup {id}
  BY <1>9, FocusAgrees
<1> QED BY <1>10 DEF n, w


-----------------------------------------------------------------------------
(* The steps of the window manager. *)

\* What a call leaves is the next state of the windows.
LEMMA BecomesAgreed ==
    ASSUME NEW s, Agreed(s), Topped(s), Becomes(s), WmInv, DOMAIN s.wins \subseteq created',
           drag' \in [win : Ids \cup {NoWindow}, edge : BOOLEAN], created' \subseteq Ids
    PROVE  WmInv'
<1>1. s = [stack |-> s.stack, wins |-> s.wins, focus |-> s.focus, damaged |-> s.damaged,
                   strayed |-> s.strayed]
  BY DeskParts DEF Agreed
<1>2. Desk' = s
  BY <1>1 DEF Desk, Becomes
<1>3. Agreed(Desk') /\ Topped(Desk')
  BY <1>2
<1> QED BY <1>3 DEF WmInv, Becomes

\* The windows there are have ids, and the record of them agrees.
LEMMA DeskNow ==
    ASSUME WmInv
    PROVE  /\ Agreed(Desk) /\ Topped(Desk) /\ Desk.wins = wins /\ Desk.stack = stack /\ Desk.focus = focus
           /\ Desk.strayed = strayed /\ DOMAIN wins \subseteq created /\ created \subseteq Ids /\ DOMAIN wins \subseteq Ids
           /\ drag \in [win : Ids \cup {NoWindow}, edge : BOOLEAN]
BY DEF WmInv, Desk

\* Events and calls that change the windows only.
LEMMA QuietStep ==
    ASSUME WmInv, NEW s, Agreed(s), Topped(s), Becomes(s), DOMAIN s.wins \subseteq DOMAIN wins,
           drag' \in [win : Ids \cup {NoWindow}, edge : BOOLEAN], created' = created
    PROVE  WmInv'
<1>1. DOMAIN wins \subseteq created /\ created \subseteq Ids
  BY DeskNow
<1> QED BY <1>1, BecomesAgreed

LEMMA CreateStep ==
    ASSUME WmInv, NEW id \in Ids, CreateWindow(id)
    PROVE  WmInv'
<1> DEFINE w == [i \in DOMAIN wins \cup {id} |->
                   IF i = id THEN [state |-> "normal", focused |-> FALSE] ELSE wins[i]]
           r == FocusWindow([Desk EXCEPT !.wins = w, !.stack = Append(@, id)], id)
<1>1. /\ id \notin created /\ Becomes(r) /\ created' = created \cup {id} /\ drag' = drag
  BY DEF CreateWindow
<1>2. /\ Agreed(Desk) /\ Topped(Desk) /\ Desk.wins = wins /\ id \notin DOMAIN Desk.wins
      /\ DOMAIN wins \subseteq created /\ created \subseteq Ids
      /\ drag \in [win : Ids \cup {NoWindow}, edge : BOOLEAN]
  BY <1>1, DeskNow
<1>3. Agreed(r) /\ Topped(r) /\ DOMAIN r.wins = DOMAIN wins \cup {id}
  <2>1. w = [i \in DOMAIN Desk.wins \cup {id} |->
               IF i = id THEN [state |-> "normal", focused |-> FALSE] ELSE Desk.wins[i]]
    BY <1>2
  <2> HIDE DEF w
  <2> QED BY <1>2, <2>1, CreatedAgrees
<1> HIDE DEF r
<1> QED BY <1>1, <1>2, <1>3, BecomesAgreed

LEMMA CallStep ==
    ASSUME WmInv, NEW id \in Ids, Call(id)
    PROVE  WmInv'
<1>1. PICK s \in {FocusWindow(Desk, id), Minimised(Desk, id), Restored(Desk, id),
                  Maximised(Desk, id), Damage(Desk, id)} : Becomes(s)
  BY DEF Call
<1>2. /\ Agreed(Desk) /\ Topped(Desk) /\ Desk.wins = wins
      /\ drag' \in [win : Ids \cup {NoWindow}, edge : BOOLEAN] /\ created' = created
  BY DeskNow DEF Call
<1>3. Agreed(s) /\ Topped(s) /\ DOMAIN s.wins = DOMAIN wins
  <2>1. CASE s = FocusWindow(Desk, id)
    BY <1>2, <2>1, AnyFocusAgrees
  <2>2. CASE s \in {Minimised(Desk, id), Restored(Desk, id), Maximised(Desk, id)}
    BY <1>2, <2>2, StateCallsAgree
  <2>3. CASE s = Damage(Desk, id)
    BY <1>2, <2>3, DamageAgrees
  <2> QED BY <1>1, <2>1, <2>2, <2>3
<1> QED BY <1>1, <1>2, <1>3, QuietStep

LEMMA PressStep ==
    ASSUME WmInv, PointerDown
    PROVE  WmInv'
<1>1. PICK id \in HitTest :
        PressClient(id) \/ PressTitle(id) \/ PressEdge(id) \/ PressClose(id) \/ PressMinimise(id)
  BY DEF PointerDown
<1>2. /\ Agreed(Desk) /\ Topped(Desk) /\ Desk.wins = wins /\ id \in DOMAIN Desk.wins /\ id \in Ids
      /\ drag \in [win : Ids \cup {NoWindow}, edge : BOOLEAN]
  BY <1>1, DeskNow DEF HitTest
<1>3. CASE PressClient(id) \/ PressTitle(id)
  <2>1. /\ Becomes(FocusWindow(Desk, id)) /\ created' = created
        /\ drag' \in [win : Ids \cup {NoWindow}, edge : BOOLEAN]
    BY <1>2, <1>3 DEF PressClient, PressTitle
  <2> QED BY <1>2, <2>1, FocusAgrees, QuietStep
<1>4. CASE PressEdge(id)
  <2>1. /\ Desk' = Desk /\ wins' = wins /\ created' = created
        /\ drag' \in [win : Ids \cup {NoWindow}, edge : BOOLEAN]
    BY <1>2, <1>4 DEF PressEdge, Desk
  <2> QED BY <2>1 DEF WmInv
<1>5. CASE PressClose(id)
  <2>1. Becomes(Closed(Desk, id)) /\ created' = created /\ drag' = drag
    BY <1>5 DEF PressClose
  <2> QED BY <1>2, <2>1, ClosedAgrees, QuietStep
<1>6. CASE PressMinimise(id)
  <2>1. Becomes(Minimised(Desk, id)) /\ created' = created /\ drag' = drag
    BY <1>6 DEF PressMinimise
  <2> QED BY <1>2, <2>1, StateCallsAgree, QuietStep
<1> QED BY <1>1, <1>3, <1>4, <1>5, <1>6

\* Tab leads to a window of the stack.
LEMMA CycleStep ==
    ASSUME WmInv, CycleFocusForward
    PROVE  WmInv'
<1> DEFINE next == IF focus = NoWindow THEN 1
                   ELSE (SelectInSeq(stack, LAMBDA w : w = focus) % Len(stack)) + 1
<1>1. /\ Agreed(Desk) /\ Topped(Desk) /\ Desk.wins = wins /\ Desk.stack = stack
      /\ drag \in [win : Ids \cup {NoWindow}, edge : BOOLEAN]
      /\ stack \in Seq(Ids) /\ \A id \in Ids : In(id, stack) <=> id \in DOMAIN wins
  BY DeskNow, DeskParts DEF Agreed, Has
<1>2. stack # <<>> /\ Becomes(FocusWindow(Desk, stack[next])) /\ created' = created /\ drag' = drag
  BY DEF CycleFocusForward
<1>3. Len(stack) \in Nat \ {0}
  BY <1>1, <1>2, LenProperties, EmptySeq
<1>4. next \in 1 .. Len(stack)
  <2> DEFINE I == {i \in 1 .. Len(stack) : stack[i] = focus}
  <2>1. SelectInSeq(stack, LAMBDA w : w = focus) \in Nat
    <3>1. CASE I = {}
      BY <3>1 DEF SelectInSeq
    <3>2. CASE I # {}
      <4>1. SelectInSeq(stack, LAMBDA w : w = focus) = Min(I)
        BY <3>2 DEF SelectInSeq
      <4>2. I \subseteq Nat
        BY <1>3
      <4> HIDE DEF I
      <4>3. \E x \in I : \A y \in I : x <= y
        BY <3>2, <4>2, LeastNat
      <4>4. Min(I) \in I
        BY <4>3 DEF Min
      <4> QED BY <4>1, <4>2, <4>4
    <3> QED BY <3>1, <3>2
  <2> DEFINE k == SelectInSeq(stack, LAMBDA w : w = focus)
  <2>2. k % Len(stack) \in 0 .. Len(stack) - 1
    <3> HIDE DEF k
    <3> QED BY <1>3, <2>1 DEF k
  <2> QED BY <1>3, <2>2
<1> HIDE DEF next
<1>5. stack[next] \in DOMAIN wins
  BY <1>1, <1>4, ElementOfSeq DEF In
<1> QED BY <1>1, <1>2, <1>5, FocusAgrees, QuietStep


LEMMA WmInit_Inv == WmInit => WmInv
<1> SUFFICES ASSUME WmInit PROVE WmInv
  OBVIOUS
<1>1. /\ stack = <<>> /\ DOMAIN wins = {} /\ focus = NoWindow /\ damaged = FALSE /\ strayed = FALSE
      /\ drag = [win |-> NoWindow, edge |-> FALSE] /\ created = {} /\ wins \in [{} -> Window]
  BY DEF WmInit, NoDrag
<1>2. Desk \in DeskType
  BY <1>1, DeskMade, EmptySeq DEF Desk
<1>3. Desk.stack = <<>> /\ Desk.wins = wins /\ Desk.focus = NoWindow
  BY <1>1 DEF Desk
<1>4. Agreed(Desk) /\ Topped(Desk)
  BY <1>1, <1>2, <1>3 DEF Agreed, Topped, Distinct, In, Has
<1> QED BY <1>1, <1>4 DEF WmInv

LEMMA WmNext_Inv == WmInv /\ [WmNext]_wmVars => WmInv'
<1> SUFFICES ASSUME WmInv, [WmNext]_wmVars PROVE WmInv'
  OBVIOUS
<1>1. CASE \E id \in Ids : CreateWindow(id) \/ Call(id)
  BY <1>1, CreateStep, CallStep
<1>2. CASE Unfocus
  <2>1. Becomes(FocusWindow(Desk, NoWindow)) /\ created' = created /\ drag' = drag
    BY <1>2 DEF Unfocus
  <2> QED BY <2>1, DeskNow, FocusAgrees, QuietStep
<1>3. CASE PointerMove
  <2>1. Becomes(Damage(Desk, drag.win)) /\ created' = created /\ drag' = drag
    BY <1>3 DEF PointerMove
  <2> QED BY <2>1, DeskNow, DamageAgrees, QuietStep
<1>4. CASE PointerDown
  BY <1>4, PressStep
<1>5. CASE PointerUp
  <2>1. Desk' = Desk /\ wins' = wins /\ created' = created /\ drag' = [win |-> NoWindow, edge |-> FALSE]
    BY <1>5 DEF PointerUp, NoDrag, Desk
  <2> QED BY <2>1 DEF WmInv
<1>6. CASE CycleFocusForward
  BY <1>6, CycleStep
<1>7. CASE UpdateClock \/ CompositeFrame
  <2> DEFINE d == [Desk EXCEPT !.damaged = damaged']
  <2>1. /\ damaged' \in BOOLEAN /\ UNCHANGED <<stack, wins, focus, drag, strayed, created>>
    BY <1>7 DEF UpdateClock, CompositeFrame
  <2>2. Agreed(Desk) /\ Topped(Desk)
    BY DEF WmInv
  <2>3. Desk = [stack |-> stack, wins |-> wins, focus |-> focus, damaged |-> damaged, strayed |-> strayed]
        /\ Desk.stack = stack /\ Desk.wins = wins /\ Desk.focus = focus /\ Desk.strayed = strayed
    BY DEF Desk
  <2>4. Plain(Desk)
    BY <2>3 DEF Plain
  <2>5. d = [stack |-> stack, wins |-> wins, focus |-> focus, damaged |-> damaged', strayed |-> strayed]
    <3>1. d = [stack |-> Desk.stack, wins |-> Desk.wins, focus |-> Desk.focus, damaged |-> damaged',
               strayed |-> Desk.strayed]
      BY <2>4, FieldSet
    <3> QED BY <2>3, <3>1
  <2>6. d \in DeskType
    <3>1. stack \in Seq(Ids) /\ DOMAIN wins \subseteq Ids /\ wins \in [DOMAIN wins -> Window]
          /\ focus \in Ids \cup {NoWindow} /\ strayed \in BOOLEAN
      <4>1. Desk \in DeskType
        BY <2>2 DEF Agreed
      <4>2. /\ Desk.stack \in Seq(Ids) /\ DOMAIN Desk.wins \subseteq Ids
            /\ Desk.wins \in [DOMAIN Desk.wins -> Window] /\ Desk.focus \in Ids \cup {NoWindow}
            /\ Desk.strayed \in BOOLEAN
        BY <4>1, DeskParts
      <4> QED BY <2>3, <4>2
    <3> HIDE DEF d
    <3> QED BY <2>1, <2>5, <3>1, DeskMade
  <2> HIDE DEF d
  <2>7. d.stack = stack /\ d.wins = wins /\ d.focus = focus /\ d.damaged = damaged' /\ d.strayed = strayed
    BY <2>5, FieldsSet
  <2>8. Agreed(d) /\ Topped(d)
    BY <2>2, <2>3, <2>6, <2>7 DEF Agreed, Topped, Has
  <2>9. Becomes(d)
    BY <2>1, <2>7 DEF Becomes
  <2> QED BY <2>1, <2>7, <2>8, <2>9, DeskNow, QuietStep
<1>8. CASE UNCHANGED wmVars
  <2>1. Desk' = Desk /\ wins' = wins /\ created' = created /\ drag' = drag
    BY <1>8 DEF wmVars, Desk
  <2> QED BY <2>1 DEF WmInv
<1> QED BY <1>1, <1>2, <1>3, <1>4, <1>5, <1>6, <1>7, <1>8 DEF WmNext

\* The window manager's calls and events keep its records in agreement.
THEOREM WmInvariant == WmSpec => []WmInv
BY WmInit_Inv, WmNext_Inv, PTL DEF WmSpec

\* focus_window, create_window and the close button keep the focused window on top, and
\* it, and only it, marked until a call names a window there is not; and the stack and
\* window_data the same set of windows.
THEOREM FocusStaysOnTop == WmSpec => []FocusOnTop
<1>1. ASSUME WmInv PROVE FocusOnTop
  <2>1. /\ Agreed(Desk) /\ Topped(Desk) /\ Desk.stack = stack /\ Desk.wins = wins /\ Desk.focus = focus
        /\ Desk.strayed = strayed /\ stack \in Seq(Ids) /\ DOMAIN wins \subseteq Ids
    BY <1>1, DeskNow, DeskParts DEF Agreed
  <2>2. /\ Distinct(stack) /\ \A id \in Ids : In(id, stack) <=> id \in DOMAIN wins
        /\ \A id \in DOMAIN wins : wins[id].focused <=> focus = id /\ ~strayed
        /\ focus # NoWindow => stack # <<>> /\ stack[Len(stack)] = focus
    BY <2>1 DEF Agreed, Topped, Has
  <2>3. /\ Len(stack) \in Nat /\ \A i \in 1 .. Len(stack) : stack[i] \in Ids
        /\ DOMAIN stack = 1 .. Len(stack)
    BY <2>1, LenProperties, ElementOfSeq
  <2>4. ToSet(stack) = DOMAIN wins
    <3>1. \A x : x \in ToSet(stack) <=> \E i \in 1 .. Len(stack) : stack[i] = x
      BY <2>3 DEF ToSet
    <3>2. \A x : x \in ToSet(stack) <=> x \in DOMAIN wins
      BY <2>1, <2>2, <2>3, <3>1 DEF In
    <3> QED BY <3>2
  <2>5. Len(stack) = Cardinality(DOMAIN wins)
    <3>1. stack \in Surjection(1 .. Len(stack), DOMAIN wins)
      BY <2>1, <2>2, <2>3 DEF Surjection, In
    <3>2. stack \in Injection(1 .. Len(stack), DOMAIN wins)
      <4>1. stack \in [1 .. Len(stack) -> DOMAIN wins]
        BY <3>1 DEF Surjection
      <4>2. \A i, j \in 1 .. Len(stack) : stack[i] = stack[j] => i = j
        BY <2>2 DEF Distinct
      <4> QED BY <4>1, <4>2 DEF Injection, IsInjective
    <3>3. IsFiniteSet(1 .. Len(stack)) /\ Cardinality(1 .. Len(stack)) = Len(stack)
      BY <2>3, FS_Interval, SMTT(30)
    <3> QED BY <3>1, <3>2, <3>3, FS_Surjection
  <2> QED BY <2>2, <2>4, <2>5 DEF FocusOnTop, Last
<1> QED BY <1>1, WmInvariant, PTL

-----------------------------------------------------------------------------
(* The editor's text: what an edit does and how it is taken back. *)

\* Sequences of the same length with the same members are the same.
LEMMA SameSeq ==
    ASSUME NEW B, NEW s \in Seq(B), NEW t \in Seq(B), Len(s) = Len(t),
           \A i \in 1 .. Len(s) : s[i] = t[i]
    PROVE  s = t
OBVIOUS

\* Text with t spliced in.
LEMMA SpliceProperties ==
    ASSUME NEW B, NEW s \in Seq(B), NEW t \in Seq(B), NEW p \in 0 .. Len(s)
    PROVE  /\ Splice(s, p, t) \in Seq(B) /\ Len(Splice(s, p, t)) = Len(s) + Len(t)
           /\ \A i \in 1 .. Len(s) + Len(t) :
                  Splice(s, p, t)[i] = IF i <= p THEN s[i]
                                       ELSE IF i <= p + Len(t) THEN t[i - p] ELSE s[i - Len(t)]
<1> DEFINE a == SubSeq(s, 1, p)
           c == SubSeq(s, p + 1, Len(s))
<1>1. Len(s) \in Nat /\ Len(t) \in Nat
  BY LenProperties
<1>2. a \in Seq(B) /\ Len(a) = p /\ \A i \in 1 .. p : a[i] = s[i]
  BY <1>1
<1>3. c \in Seq(B) /\ Len(c) = Len(s) - p /\ \A i \in 1 .. Len(s) - p : c[i] = s[p + i]
  BY <1>1
<1>4. Splice(s, p, t) = (a \o t) \o c
  BY DEF Splice
<1> HIDE DEF a, c
<1>5. /\ a \o t \in Seq(B) /\ Len(a \o t) = p + Len(t)
      /\ \A i \in 1 .. p + Len(t) : (a \o t)[i] = IF i <= p THEN a[i] ELSE t[i - p]
  BY <1>2, ConcatProperties
<1>6. /\ (a \o t) \o c \in Seq(B) /\ Len((a \o t) \o c) = Len(s) + Len(t)
      /\ \A i \in 1 .. Len(s) + Len(t) :
             ((a \o t) \o c)[i] = IF i <= p + Len(t) THEN (a \o t)[i] ELSE c[i - (p + Len(t))]
  <2>1. /\ (a \o t) \o c \in Seq(B) /\ Len((a \o t) \o c) = Len(a \o t) + Len(c)
        /\ \A i \in 1 .. Len(a \o t) + Len(c) :
               ((a \o t) \o c)[i] = IF i <= Len(a \o t) THEN (a \o t)[i] ELSE c[i - Len(a \o t)]
    BY <1>3, <1>5, ConcatProperties
  <2>2. Len(a \o t) + Len(c) = Len(s) + Len(t)
    BY <1>1, <1>3, <1>5
  <2> QED BY <1>5, <2>1, <2>2
<1>7. ASSUME NEW i \in 1 .. Len(s) + Len(t)
      PROVE  ((a \o t) \o c)[i] = IF i <= p THEN s[i]
                                  ELSE IF i <= p + Len(t) THEN t[i - p] ELSE s[i - Len(t)]
  <2>1. CASE i <= p
    BY <1>1, <1>2, <1>5, <1>6, <2>1
  <2>2. CASE ~(i <= p) /\ i <= p + Len(t)
    BY <1>1, <1>5, <1>6, <2>2
  <2>3. CASE ~(i <= p + Len(t))
    <3>1. i - (p + Len(t)) \in 1 .. Len(s) - p /\ p + (i - (p + Len(t))) = i - Len(t)
      BY <1>1, <2>3
    <3>2. c[i - (p + Len(t))] = s[i - Len(t)]
      BY <1>3, <3>1
    <3>3. ((a \o t) \o c)[i] = c[i - (p + Len(t))]
      BY <1>6, <2>3
    <3>4. ~(i <= p)
      BY <1>1, <2>3
    <3> QED BY <2>3, <3>2, <3>3, <3>4
  <2> QED BY <1>1, <2>1, <2>2, <2>3
<1> QED BY <1>4, <1>6, <1>7

\* Text with a stretch drained.
LEMMA DrainProperties ==
    ASSUME NEW B, NEW s \in Seq(B), NEW m \in 0 .. Len(s), NEW n \in m .. Len(s)
    PROVE  /\ Drain(s, m, n) \in Seq(B) /\ Len(Drain(s, m, n)) = Len(s) - (n - m)
           /\ \A i \in 1 .. Len(s) - (n - m) :
                  Drain(s, m, n)[i] = IF i <= m THEN s[i] ELSE s[i + (n - m)]
<1> DEFINE a == SubSeq(s, 1, m)
           c == SubSeq(s, n + 1, Len(s))
<1>1. Len(s) \in Nat
  BY LenProperties
<1>2. a \in Seq(B) /\ Len(a) = m /\ \A i \in 1 .. m : a[i] = s[i]
  BY <1>1
<1>3. c \in Seq(B) /\ Len(c) = Len(s) - n /\ \A i \in 1 .. Len(s) - n : c[i] = s[n + i]
  BY <1>1
<1>4. Drain(s, m, n) = a \o c
  BY DEF Drain
<1> HIDE DEF a, c
<1>5. /\ a \o c \in Seq(B) /\ Len(a \o c) = m + (Len(s) - n)
      /\ \A i \in 1 .. m + (Len(s) - n) : (a \o c)[i] = IF i <= m THEN a[i] ELSE c[i - m]
  <2>1. /\ a \o c \in Seq(B) /\ Len(a \o c) = Len(a) + Len(c)
        /\ \A i \in 1 .. Len(a) + Len(c) : (a \o c)[i] = IF i <= Len(a) THEN a[i] ELSE c[i - Len(a)]
    BY <1>2, <1>3, ConcatProperties
  <2> QED BY <1>2, <1>3, <2>1
<1>6. m + (Len(s) - n) = Len(s) - (n - m)
  BY <1>1
<1>7. ASSUME NEW i \in 1 .. m + (Len(s) - n)
      PROVE  (a \o c)[i] = IF i <= m THEN s[i] ELSE s[i + (n - m)]
  <2>1. CASE i <= m
    BY <1>1, <1>2, <1>5, <2>1
  <2>2. CASE ~(i <= m)
    <3>1. i - m \in 1 .. Len(s) - n /\ n + (i - m) = i + (n - m)
      BY <1>1, <2>2
    <3>2. c[i - m] = s[i + (n - m)]
      BY <1>3, <3>1
    <3> QED BY <1>5, <2>2, <3>2
  <2> QED BY <2>1, <2>2
<1> QED BY <1>4, <1>5, <1>6, <1>7

\* Draining what was spliced in gives the text back.
LEMMA DrainSplice ==
    ASSUME NEW B, NEW s \in Seq(B), NEW t \in Seq(B), NEW p \in 0 .. Len(s)
    PROVE  Drain(Splice(s, p, t), p, p + Len(t)) = s
<1> DEFINE u == Splice(s, p, t)
           n == Len(t)
<1>1. Len(s) \in Nat /\ n \in Nat
  BY LenProperties
<1>2. /\ u \in Seq(B) /\ Len(u) = Len(s) + n
      /\ \A i \in 1 .. Len(s) + n :
             u[i] = IF i <= p THEN s[i] ELSE IF i <= p + n THEN t[i - p] ELSE s[i - n]
  BY SpliceProperties
<1> HIDE DEF u, n
<1>3. p \in 0 .. Len(u) /\ p + n \in p .. Len(u) /\ (p + n) - p = n /\ Len(u) - n = Len(s)
  BY <1>1, <1>2
<1>4. /\ Drain(u, p, p + n) \in Seq(B) /\ Len(Drain(u, p, p + n)) = Len(s)
      /\ \A i \in 1 .. Len(s) : Drain(u, p, p + n)[i] = IF i <= p THEN u[i] ELSE u[i + n]
  <2>1. /\ Drain(u, p, p + n) \in Seq(B) /\ Len(Drain(u, p, p + n)) = Len(u) - ((p + n) - p)
        /\ \A i \in 1 .. Len(u) - ((p + n) - p) :
               Drain(u, p, p + n)[i] = IF i <= p THEN u[i] ELSE u[i + ((p + n) - p)]
    BY <1>2, <1>3, DrainProperties
  <2> QED BY <1>3, <2>1
<1>5. ASSUME NEW i \in 1 .. Len(s) PROVE Drain(u, p, p + n)[i] = s[i]
  <2>1. i \in 1 .. Len(s) + n /\ i + n \in 1 .. Len(s) + n /\ (i + n) - n = i
    BY <1>1
  <2>2. ~(i <= p) => ~(i + n <= p) /\ ~(i + n <= p + n)
    BY <1>1
  <2> QED BY <1>2, <1>4, <2>1, <2>2
<1>6. Drain(u, p, p + n) = s
  BY <1>4, <1>5, SameSeq
<1> QED BY <1>6 DEF u, n

\* Splicing in what was drained gives the text back.
LEMMA SpliceDrain ==
    ASSUME NEW B, NEW s \in Seq(B), NEW m \in 0 .. Len(s), NEW n \in m .. Len(s)
    PROVE  /\ SubSeq(s, m + 1, n) \in Seq(B) /\ m \in 0 .. Len(Drain(s, m, n))
           /\ Splice(Drain(s, m, n), m, SubSeq(s, m + 1, n)) = s
<1> DEFINE d == Drain(s, m, n)
           t == SubSeq(s, m + 1, n)
<1>1. Len(s) \in Nat
  BY LenProperties
<1>2. /\ d \in Seq(B) /\ Len(d) = Len(s) - (n - m)
      /\ \A i \in 1 .. Len(s) - (n - m) : d[i] = IF i <= m THEN s[i] ELSE s[i + (n - m)]
  BY DrainProperties
<1>3. t \in Seq(B) /\ Len(t) = n - m /\ \A i \in 1 .. n - m : t[i] = s[m + i]
  BY <1>1
<1> HIDE DEF d, t
<1>4. m \in 0 .. Len(d) /\ Len(d) + Len(t) = Len(s) /\ m + Len(t) = n
  BY <1>1, <1>2, <1>3
<1>5. /\ Splice(d, m, t) \in Seq(B) /\ Len(Splice(d, m, t)) = Len(s)
      /\ \A i \in 1 .. Len(s) :
             Splice(d, m, t)[i] = IF i <= m THEN d[i] ELSE IF i <= n THEN t[i - m] ELSE d[i - (n - m)]
  <2>0. d \in Seq(B) /\ t \in Seq(B) /\ m \in 0 .. Len(d)
    BY <1>2, <1>3, <1>4
  <2>1. /\ Splice(d, m, t) \in Seq(B) /\ Len(Splice(d, m, t)) = Len(d) + Len(t)
        /\ \A i \in 1 .. Len(d) + Len(t) :
               Splice(d, m, t)[i] = IF i <= m THEN d[i]
                                    ELSE IF i <= m + Len(t) THEN t[i - m] ELSE d[i - Len(t)]
    BY <2>0, SpliceProperties
  <2> QED BY <1>3, <1>4, <2>1
<1>6. ASSUME NEW i \in 1 .. Len(s) PROVE Splice(d, m, t)[i] = s[i]
  <2>1. CASE i <= m
    <3>1. Splice(d, m, t)[i] = d[i]
      BY <1>5, <2>1
    <3>2. i \in 1 .. Len(s) - (n - m)
      BY <1>1, <2>1
    <3> QED BY <1>2, <2>1, <3>1, <3>2
  <2>2. CASE ~(i <= m) /\ i <= n
    <3>1. i - m \in 1 .. n - m /\ m + (i - m) = i
      BY <1>1, <2>2
    <3> QED BY <1>3, <1>5, <2>2, <3>1
  <2>3. CASE ~(i <= n)
    <3>1. /\ i - (n - m) \in 1 .. Len(s) - (n - m) /\ (i - (n - m)) + (n - m) = i
          /\ ~(i - (n - m) <= m) /\ ~(i <= m)
      BY <1>1, <2>3
    <3> QED BY <1>2, <1>5, <2>3, <3>1
  <2> QED BY <2>1, <2>2, <2>3
<1>7. Splice(d, m, t) = s
  BY <1>5, <1>6, SameSeq
<1> QED BY <1>3, <1>4, <1>7 DEF d, t

\* Splicing in c right behind what was spliced in is splicing in both at once.
LEMMA SpliceSplice ==
    ASSUME NEW B, NEW s \in Seq(B), NEW w \in Seq(B), NEW c \in Seq(B), NEW p \in 0 .. Len(s)
    PROVE  Splice(Splice(s, p, w), p + Len(w), c) = Splice(s, p, w \o c)
<1> DEFINE u == Splice(s, p, w)
           n == Len(w)
           v == Splice(u, p + n, c)
           x == w \o c
<1>1. Len(s) \in Nat /\ n \in Nat /\ Len(c) \in Nat
  BY LenProperties
<1>2. /\ u \in Seq(B) /\ Len(u) = Len(s) + n
      /\ \A i \in 1 .. Len(s) + n :
             u[i] = IF i <= p THEN s[i] ELSE IF i <= p + n THEN w[i - p] ELSE s[i - n]
  BY SpliceProperties
<1>3. /\ x \in Seq(B) /\ Len(x) = n + Len(c)
      /\ \A i \in 1 .. n + Len(c) : x[i] = IF i <= n THEN w[i] ELSE c[i - n]
  BY ConcatProperties
<1> HIDE DEF u, n, x
<1>4. p + n \in 0 .. Len(u)
  BY <1>1, <1>2
<1>5. /\ v \in Seq(B) /\ Len(v) = Len(u) + Len(c)
      /\ \A i \in 1 .. Len(u) + Len(c) :
             v[i] = IF i <= p + n THEN u[i] ELSE IF i <= (p + n) + Len(c) THEN c[i - (p + n)] ELSE u[i - Len(c)]
  BY <1>2, <1>4, SpliceProperties
<1>6. /\ Splice(s, p, x) \in Seq(B) /\ Len(Splice(s, p, x)) = Len(s) + Len(x)
      /\ \A i \in 1 .. Len(s) + Len(x) :
             Splice(s, p, x)[i] = IF i <= p THEN s[i] ELSE IF i <= p + Len(x) THEN x[i - p] ELSE s[i - Len(x)]
  BY <1>3, SpliceProperties
<1> HIDE DEF v
<1>7. Len(v) = Len(Splice(s, p, x)) /\ Len(v) = Len(s) + n + Len(c)
  BY <1>1, <1>2, <1>3, <1>5, <1>6
<1>8. ASSUME NEW i \in 1 .. Len(v) PROVE v[i] = Splice(s, p, x)[i]
  <2>1. i \in 1 .. Len(u) + Len(c) /\ i \in 1 .. Len(s) + Len(x)
    BY <1>1, <1>2, <1>3, <1>7
  <2>2. CASE i <= p
    BY <1>1, <1>2, <1>5, <1>6, <2>1, <2>2
  <2>3. CASE ~(i <= p) /\ i <= p + n
    <3>1. i \in 1 .. Len(s) + n /\ i - p \in 1 .. n + Len(c) /\ i - p <= n /\ i <= p + Len(x)
      BY <1>1, <1>3, <2>3
    <3>2. v[i] = w[i - p]
      BY <1>2, <1>5, <2>1, <2>3, <3>1
    <3>3. Splice(s, p, x)[i] = x[i - p] /\ x[i - p] = w[i - p]
      BY <1>3, <1>6, <2>1, <2>3, <3>1
    <3> QED BY <3>2, <3>3
  <2>4. CASE ~(i <= p + n) /\ i <= (p + n) + Len(c)
    <3>1. i - p \in 1 .. n + Len(c) /\ ~(i - p <= n) /\ i <= p + Len(x) /\ (i - p) - n = i - (p + n) /\ ~(i <= p)
      BY <1>1, <1>3, <2>4
    <3>2. v[i] = c[i - (p + n)]
      BY <1>5, <2>1, <2>4
    <3>3. Splice(s, p, x)[i] = x[i - p] /\ x[i - p] = c[i - (p + n)]
      BY <1>3, <1>6, <2>1, <3>1
    <3> QED BY <3>2, <3>3
  <2>5. CASE ~(i <= (p + n) + Len(c))
    <3>1. /\ i - Len(c) \in 1 .. Len(s) + n /\ ~(i - Len(c) <= p) /\ ~(i - Len(c) <= p + n)
          /\ (i - Len(c)) - n = i - Len(x) /\ ~(i <= p) /\ ~(i <= p + Len(x)) /\ ~(i <= p + n)
      BY <1>1, <1>3, <1>7, <2>5, SMTT(30)
    <3>2. v[i] = s[i - Len(x)]
      BY <1>2, <1>5, <2>1, <2>5, <3>1
    <3>3. Splice(s, p, x)[i] = s[i - Len(x)]
      BY <1>6, <2>1, <3>1
    <3> QED BY <3>2, <3>3
  <2> QED BY <2>2, <2>3, <2>4, <2>5
<1>9. v = Splice(s, p, x)
  BY <1>5, <1>6, <1>7, <1>8, SameSeq
<1> QED BY <1>9 DEF v, u, n, x

-----------------------------------------------------------------------------
(* Edits. *)

Edit == [insert : BOOLEAN, at : Nat, what : Seq(Bytes)]

\* e makes t of s: an insertion is spliced into s, a deletion is what t lacks of s.
Makes(e, s, t) ==
    IF e.insert THEN e.at \in 0 .. Len(s) /\ t = Splice(s, e.at, e.what)
    ELSE e.at \in 0 .. Len(t) /\ s = Splice(t, e.at, e.what)

\* apply does and undoes it, and leaves the cursor within the text.
LEMMA MakesProperties ==
    ASSUME NEW e \in Edit, NEW s \in Seq(Bytes), NEW t \in Seq(Bytes), Makes(e, s, t)
    PROVE  /\ Apply(e, s) = t /\ Apply(Reversed(e), t) = s
           /\ CursorAfter(e) \in 0 .. Len(t) /\ CursorAfter(Reversed(e)) \in 0 .. Len(s)
<1>1. /\ e.insert \in BOOLEAN /\ e.at \in Nat /\ e.what \in Seq(Bytes) /\ Len(e.what) \in Nat
      /\ Len(s) \in Nat /\ Len(t) \in Nat
  BY LenProperties DEF Edit
<1>2. Reversed(e).insert = ~e.insert /\ Reversed(e).at = e.at /\ Reversed(e).what = e.what
  BY DEF Edit, Reversed
<1>3. CASE e.insert
  <2>1. e.at \in 0 .. Len(s) /\ t = Splice(s, e.at, e.what)
    BY <1>3 DEF Makes
  <2>2. Len(t) = Len(s) + Len(e.what)
    BY <1>1, <2>1, SpliceProperties
  <2>3. Drain(t, e.at, e.at + Len(e.what)) = s
    BY <1>1, <2>1, DrainSplice
  <2>4. Apply(e, s) = t /\ CursorAfter(e) = e.at + Len(e.what)
    BY <1>3, <2>1 DEF Apply, CursorAfter
  <2>5. Apply(Reversed(e), t) = s /\ CursorAfter(Reversed(e)) = e.at
    BY <1>2, <1>3, <2>3 DEF Apply, CursorAfter
  <2> QED BY <1>1, <2>1, <2>2, <2>4, <2>5
<1>4. CASE ~e.insert
  <2>1. e.at \in 0 .. Len(t) /\ s = Splice(t, e.at, e.what)
    BY <1>4 DEF Makes
  <2>2. Len(s) = Len(t) + Len(e.what)
    BY <1>1, <2>1, SpliceProperties
  <2>3. Drain(s, e.at, e.at + Len(e.what)) = t
    BY <1>1, <2>1, DrainSplice
  <2>4. Apply(e, s) = t /\ CursorAfter(e) = e.at
    BY <1>4, <2>3 DEF Apply, CursorAfter
  <2>5. Apply(Reversed(e), t) = s /\ CursorAfter(Reversed(e)) = e.at + Len(e.what)
    BY <1>2, <1>4, <2>1 DEF Apply, CursorAfter
  <2> QED BY <1>1, <2>1, <2>2, <2>4, <2>5
<1> QED BY <1>1, <1>3, <1>4

\* A link of a stack: what the entry leads back to and where from.  The entries of
\* undo_stack were made going forward, those of redo_stack are to be made again.
Link(back, e, s, t) == IF back THEN Makes(e, s, t) ELSE Makes(e, t, s)

\* The texts ts that the entries es of a stack lead back to, one after the other, from t.
Chain(back, es, ts, t) ==
    /\ es \in Seq(Edit) /\ ts \in Seq(Seq(Bytes)) /\ Len(ts) = Len(es)
    /\ \A i \in 1 .. Len(es) : Link(back, es[i], ts[i], IF i = Len(es) THEN t ELSE ts[i + 1])

LEMMA NoChain == \A back, t : Chain(back, <<>>, <<>>, t)
<1>1. <<>> \in Seq(Edit) /\ <<>> \in Seq(Seq(Bytes)) /\ Len(<<>>) = 0
  BY EmptySeq
<1> QED BY <1>1 DEF Chain

\* push.
LEMMA ChainPush ==
    ASSUME NEW back, NEW es, NEW ts, NEW t \in Seq(Bytes), NEW u, NEW e \in Edit,
           Chain(back, es, ts, t), Link(back, e, t, u)
    PROVE  Chain(back, Append(es, e), Append(ts, t), u)
<1> DEFINE n == Len(es)
           fs == Append(es, e)
           us == Append(ts, t)
<1>1. /\ es \in Seq(Edit) /\ ts \in Seq(Seq(Bytes)) /\ Len(ts) = n /\ n \in Nat
      /\ \A i \in 1 .. n : Link(back, es[i], ts[i], IF i = n THEN t ELSE ts[i + 1])
  BY LenProperties DEF Chain
<1> HIDE DEF n
<1>2. /\ fs \in Seq(Edit) /\ Len(fs) = n + 1 /\ fs[n + 1] = e
      /\ \A i \in 1 .. n : fs[i] = es[i]
  BY <1>1, AppendProperties DEF n
<1>3. /\ us \in Seq(Seq(Bytes)) /\ Len(us) = n + 1 /\ us[n + 1] = t
      /\ \A i \in 1 .. n : us[i] = ts[i]
  BY <1>1, AppendProperties
<1> HIDE DEF fs, us
<1>4. ASSUME NEW i \in 1 .. n + 1
      PROVE  Link(back, fs[i], us[i], IF i = n + 1 THEN u ELSE us[i + 1])
  <2>1. CASE i = n + 1
    BY <1>2, <1>3, <2>1
  <2>2. CASE i = n /\ i # n + 1
    BY <1>1, <1>2, <1>3, <2>2
  <2>3. CASE i # n /\ i # n + 1
    <3>1. i \in 1 .. n /\ i + 1 \in 1 .. n
      BY <1>1, <2>3
    <3>2. us[i + 1] = ts[i + 1] /\ us[i] = ts[i] /\ fs[i] = es[i]
      BY <1>2, <1>3, <3>1
    <3> QED BY <1>1, <2>3, <3>1, <3>2
  <2> QED BY <2>1, <2>2, <2>3
<1>5. Chain(back, fs, us, u)
  BY <1>2, <1>3, <1>4 DEF Chain
<1> QED BY <1>5 DEF fs, us

\* pop.
LEMMA ChainPop ==
    ASSUME NEW back, NEW es, NEW ts, NEW t, Chain(back, es, ts, t), es # <<>>
    PROVE  /\ ts # <<>> /\ Last(es) \in Edit /\ Last(ts) \in Seq(Bytes)
           /\ Link(back, Last(es), Last(ts), t)
           /\ Chain(back, Front(es), Front(ts), Last(ts))
<1> DEFINE n == Len(es)
           fs == SubSeq(es, 1, n - 1)
           us == SubSeq(ts, 1, n - 1)
<1>1. /\ es \in Seq(Edit) /\ ts \in Seq(Seq(Bytes)) /\ Len(ts) = n /\ n \in Nat
      /\ \A i \in 1 .. n : Link(back, es[i], ts[i], IF i = n THEN t ELSE ts[i + 1])
  BY LenProperties DEF Chain
<1>2. n > 0 /\ Len(es) = n
  BY <1>1, EmptySeq
<1>3. fs \in Seq(Edit) /\ Len(fs) = n - 1 /\ \A i \in 1 .. n - 1 : fs[i] = es[i]
  BY <1>1, <1>2
<1>4. us \in Seq(Seq(Bytes)) /\ Len(us) = n - 1 /\ \A i \in 1 .. n - 1 : us[i] = ts[i]
  BY <1>1, <1>2
<1>5. Front(es) = fs /\ Front(ts) = us /\ Last(es) = es[n] /\ Last(ts) = ts[n]
  BY <1>1 DEF Front, Last
<1> HIDE DEF n, fs, us
<1>6. es[n] \in Edit /\ ts[n] \in Seq(Bytes) /\ Link(back, es[n], ts[n], t)
  <2>1. n \in 1 .. Len(es) /\ n \in 1 .. Len(ts) /\ n \in 1 .. n
    BY <1>1, <1>2
  <2>2. es[n] \in Edit /\ ts[n] \in Seq(Bytes)
    BY <1>1, <2>1, ElementOfSeq
  <2> QED BY <1>1, <2>1, <2>2
<1>7. ASSUME NEW i \in 1 .. n - 1
      PROVE  Link(back, fs[i], us[i], IF i = n - 1 THEN ts[n] ELSE us[i + 1])
  <2>1. i \in 1 .. n /\ i # n /\ (i # n - 1 => i + 1 \in 1 .. n - 1) /\ (i = n - 1 => i + 1 = n)
    BY <1>1, <1>2
  <2>2. Link(back, es[i], ts[i], ts[i + 1])
    BY <1>1, <2>1
  <2>3. fs[i] = es[i] /\ us[i] = ts[i] /\ (i # n - 1 => us[i + 1] = ts[i + 1])
    BY <1>3, <1>4, <2>1
  <2> QED BY <2>1, <2>2, <2>3
<1>8. Chain(back, fs, us, ts[n])
  BY <1>3, <1>4, <1>7 DEF Chain
<1>9. ts # <<>>
  BY <1>1, <1>2, EmptySeq
<1> QED BY <1>5, <1>6, <1>8, <1>9

\* The newest entry replaced by one that leads to the same text from another one.
LEMMA ChainMerge ==
    ASSUME NEW back, NEW es, NEW ts, NEW t, NEW u, NEW e \in Edit,
           Chain(back, es, ts, t), es # <<>>, Link(back, e, Last(ts), u)
    PROVE  Chain(back, [es EXCEPT ![Len(es)] = e], ts, u)
<1> DEFINE n == Len(es)
           fs == [es EXCEPT ![n] = e]
<1>1. /\ es \in Seq(Edit) /\ ts \in Seq(Seq(Bytes)) /\ Len(ts) = n /\ n \in Nat
      /\ \A i \in 1 .. n : Link(back, es[i], ts[i], IF i = n THEN t ELSE ts[i + 1])
  BY LenProperties DEF Chain
<1>2. n > 0 /\ Last(ts) = ts[n]
  BY <1>1, EmptySeq DEF Last
<1>3. fs \in Seq(Edit) /\ Len(fs) = n /\ \A i \in 1 .. n : fs[i] = IF i = n THEN e ELSE es[i]
  BY <1>1, <1>2
<1> HIDE DEF n, fs
<1>4. \A i \in 1 .. n : Link(back, fs[i], ts[i], IF i = n THEN u ELSE ts[i + 1])
  BY <1>1, <1>2, <1>3
<1>5. Chain(back, fs, ts, u)
  BY <1>1, <1>3, <1>4 DEF Chain
<1> QED BY <1>5 DEF fs, n

-----------------------------------------------------------------------------
(* Positions: wherever the cursor is sent, it is in the text. *)

LEMMA GreatestOf ==
    ASSUME NEW n \in Nat, NEW T, T \subseteq 0 .. n, T # {}
    PROVE  Max(T) \in T /\ \A y \in T : y <= Max(T)
<1> DEFINE U == {x \in Nat : x <= n /\ n - x \in T}
<1>1. U # {}
  <2>1. PICK y \in T : TRUE
    OBVIOUS
  <2>2. y \in Nat /\ y <= n /\ n - y \in Nat /\ n - y <= n /\ n - (n - y) = y
    BY <2>1
  <2>3. n - y \in U
    BY <2>1, <2>2
  <2> QED BY <2>3
<1>2. PICK x \in U : \A z \in U : x <= z
  BY <1>1, LeastNat
<1>3. n - x \in T /\ x \in Nat /\ x <= n
  BY <1>2
<1>4. ASSUME NEW y \in T PROVE n - x >= y
  <2>1. y \in Nat /\ y <= n /\ n - y \in Nat /\ n - (n - y) = y
    BY <1>4
  <2>2. n - y \in U
    BY <2>1
  <2>3. x <= n - y
    BY <1>2, <2>2
  <2> QED BY <1>3, <2>1, <2>3
<1>5. \E g \in T : \A y \in T : g >= y
  BY <1>3, <1>4
<1>6. Max(T) \in T /\ \A y \in T : Max(T) >= y
  BY <1>5 DEF Max
<1>7. \A y \in T : y \in Nat
  OBVIOUS
<1> QED BY <1>6, <1>7

LEMMA LeastOf ==
    ASSUME NEW T, T \subseteq Nat, T # {}
    PROVE  Min(T) \in T /\ \A y \in T : Min(T) <= y
<1>1. \E x \in T : \A y \in T : x <= y
  BY LeastNat
<1> QED BY <1>1 DEF Min

\* Where a line starts and where it ends.
LEMMA Lines ==
    ASSUME text \in Seq(Bytes), cursor \in 0 .. Len(text)
    PROVE  /\ Len(text) \in Nat /\ LineStarts \subseteq 0 .. Len(text)
           /\ LineStart \in LineStarts /\ LineStart <= cursor
           /\ \A start \in LineStarts : LineEnd(start) \in start .. Len(text)
<1>1. Len(text) \in Nat
  BY LenProperties
<1>2. LineStarts \subseteq 0 .. Len(text) /\ 0 \in LineStarts
  BY <1>1 DEF LineStarts
<1> DEFINE T == {s \in LineStarts : s <= cursor}
<1>3. T \subseteq 0 .. Len(text) /\ 0 \in T
  <2>1. T \subseteq LineStarts
    OBVIOUS
  <2>2. 0 <= cursor
    BY <1>1
  <2>3. 0 \in T
    BY <1>2, <2>2
  <2> QED BY <1>2, <2>1, <2>3
<1>4. LineStart = Max(T)
  BY DEF LineStart
<1>5. Max(T) \in T
  BY <1>1, <1>3, GreatestOf
<1>6. ASSUME NEW start \in LineStarts PROVE LineEnd(start) \in start .. Len(text)
  <2>1. start \in Nat /\ start <= Len(text)
    BY <1>1, <1>2
  <2>2. CASE NextStarts(start) = {}
    BY <1>1, <2>1, <2>2 DEF LineEnd
  <2>3. CASE NextStarts(start) # {}
    <3>1. NextStarts(start) \subseteq 0 .. Len(text) /\ \A y \in NextStarts(start) : y > start
      BY <1>2 DEF NextStarts
    <3>2. Min(NextStarts(start)) \in NextStarts(start)
      BY <2>3, <3>1, LeastOf
    <3>3. Min(NextStarts(start)) \in 0 .. Len(text) /\ Min(NextStarts(start)) > start
      BY <3>1, <3>2
    <3>4. LineEnd(start) = Min(NextStarts(start)) - 1
      BY <2>3 DEF LineEnd
    <3> QED BY <1>1, <2>1, <3>3, <3>4
  <2> QED BY <2>2, <2>3
<1> QED BY <1>1, <1>2, <1>4, <1>5, <1>6

LEMMA AtColumnInText ==
    ASSUME text \in Seq(Bytes), cursor \in 0 .. Len(text), NEW start \in LineStarts, NEW col
    PROVE  AtColumn(start, col) \in 0 .. Len(text)
<1> DEFINE T == {p \in start .. LineEnd(start) :
                    p = LineEnd(start) \/ Len(SelectSeq(SubSeq(text, start + 1, p), Leads)) >= col}
<1>1. Len(text) \in Nat /\ start \in 0 .. Len(text) /\ LineEnd(start) \in start .. Len(text)
  BY Lines
<1>2. AtColumn(start, col) = Min(T)
  BY DEF AtColumn
<1>3. LineEnd(start) \in T /\ T \subseteq start .. LineEnd(start)
  BY <1>1
<1> HIDE DEF T
<1>4. T \subseteq 0 .. Len(text) /\ T \subseteq Nat /\ T # {}
  BY <1>1, <1>3
<1>5. Min(T) \in T
  BY <1>4, LeastOf
<1> QED BY <1>2, <1>4, <1>5

LEMMA LineMovesInText ==
    ASSUME text \in Seq(Bytes), cursor \in 0 .. Len(text)
    PROVE  LineUp \in 0 .. Len(text) /\ LineDown \in 0 .. Len(text)
<1>1. /\ Len(text) \in Nat /\ LineStarts \subseteq 0 .. Len(text) /\ LineStart \in LineStarts
      /\ 0 \in LineStarts
  BY Lines DEF LineStarts
<1>2. LineUp \in 0 .. Len(text)
  <2>1. CASE LineStart = 0
    BY <1>1, <2>1 DEF LineUp
  <2>2. CASE LineStart # 0
    <3> DEFINE T == {s \in LineStarts : s < LineStart}
    <3>1. T \subseteq 0 .. Len(text) /\ 0 \in T
      <4>1. T \subseteq LineStarts
        OBVIOUS
      <4>2. 0 < LineStart
        BY <1>1, <2>2
      <4>3. 0 \in T
        BY <1>1, <4>2
      <4> QED BY <1>1, <4>1, <4>3
    <3>2. Max(T) \in T
      BY <1>1, <3>1, GreatestOf
    <3>3. Max(T) \in LineStarts
      BY <3>2
    <3>4. LineUp = AtColumn(Max(T), Column)
      BY <2>2 DEF LineUp
    <3> HIDE DEF T
    <3> QED BY <3>3, <3>4, AtColumnInText
  <2> QED BY <2>1, <2>2
<1>3. LineDown \in 0 .. Len(text)
  <2> DEFINE T == NextStarts(LineStart)
  <2>1. CASE T = {}
    BY <1>1, <2>1 DEF LineDown
  <2>2. CASE T # {}
    <3>1. T \subseteq LineStarts /\ T \subseteq Nat
      <4>1. T \subseteq LineStarts
        BY DEF NextStarts
      <4>2. 0 .. Len(text) \subseteq Nat
        BY <1>1
      <4> QED BY <1>1, <4>1, <4>2
    <3>2. LineDown = AtColumn(Min(T), Column)
      BY <2>2 DEF LineDown
    <3> HIDE DEF T
    <3>3. Min(T) \in LineStarts
      BY <2>2, <3>1, LeastOf
    <3> QED BY <3>2, <3>3, AtColumnInText
  <2> QED BY <2>1, <2>2
<1> QED BY <1>2, <1>3

LEMMA WordMovesInText ==
    ASSUME text \in Seq(Bytes), cursor \in 0 .. Len(text)
    PROVE  WordRight \in 0 .. Len(text) /\ WordLeft \in 0 .. Len(text)
<1>1. Len(text) \in Nat
  BY LenProperties
<1>2. WordRight \in 0 .. Len(text)
  <2> DEFINE A == {Len(text)} \cup {p \in cursor .. Len(text) - 1 : ~WordChar(text[p + 1])}
             word == Min(A)
             T == {Len(text)} \cup {p \in word .. Len(text) - 1 : WordChar(text[p + 1]) \/ text[p + 1] = "n"}
  <2>1. WordRight = Min(T)
    BY DEF WordRight
  <2>2. A \subseteq 0 .. Len(text) /\ A \subseteq Nat /\ A # {}
    BY <1>1
  <2>3. word \in A
    BY <2>2, LeastOf
  <2>4. word \in 0 .. Len(text)
    BY <2>2, <2>3
  <2> HIDE DEF word, A
  <2>5. T \subseteq 0 .. Len(text) /\ T \subseteq Nat /\ T # {}
    BY <1>1, <2>4
  <2>6. Min(T) \in T
    BY <2>5, LeastOf
  <2> QED BY <2>1, <2>5, <2>6
<1>3. WordLeft \in 0 .. Len(text)
  <2> DEFINE A == {0} \cup {p \in 0 .. cursor - 1 : WordChar(text[p + 1]) \/ text[p + 1] = "n"}
             end == Max(A)
             T == {p \in 0 .. end : \A q \in p .. end - 1 : WordChar(text[q + 1])}
  <2>1. WordLeft = IF cursor = 0 THEN 0 ELSE Min(T)
    BY DEF WordLeft
  <2>2. A \subseteq 0 .. Len(text) /\ A # {}
    BY <1>1
  <2>3. end \in A
    BY <1>1, <2>2, GreatestOf
  <2>4. end \in 0 .. Len(text)
    BY <2>2, <2>3
  <2> HIDE DEF end, A
  <2>5. end \in T
    BY <1>1, <2>4
  <2>6. T \subseteq 0 .. Len(text) /\ T \subseteq Nat
    BY <1>1, <2>4
  <2> HIDE DEF T
  <2>7. Min(T) \in T
    BY <2>5, <2>6, LeastOf
  <2> QED BY <1>1, <2>1, <2>6, <2>7
<1> QED BY <1>2, <1>3

\* The neighbours of the cursor.
LEMMA CharsInText ==
    ASSUME text \in Seq(Bytes), cursor \in 0 .. Len(text)
    PROVE  PrevChar \in 0 .. cursor /\ (cursor < Len(text) => NextChar \in cursor .. Len(text))
<1>1. Len(text) \in Nat
  BY LenProperties
<1>2. PrevChar \in 0 .. cursor
  <2> DEFINE T == {0} \cup {p \in 0 .. cursor - 1 : Leads(text[p + 1])}
  <2>1. PrevChar = Max(T)
    BY DEF PrevChar
  <2>2. T \subseteq 0 .. cursor /\ T # {} /\ cursor \in Nat
    BY <1>1
  <2>3. Max(T) \in T
    BY <2>2, GreatestOf
  <2> QED BY <2>1, <2>2, <2>3
<1>3. ASSUME cursor < Len(text) PROVE NextChar \in cursor .. Len(text)
  <2> DEFINE T == {Len(text)} \cup {p \in cursor + 1 .. Len(text) - 1 : Leads(text[p + 1])}
  <2>1. NextChar = Min(T)
    BY DEF NextChar
  <2>2. T \subseteq cursor .. Len(text) /\ T \subseteq Nat /\ T # {}
    BY <1>1, <1>3
  <2>3. Min(T) \in T
    BY <2>2, LeastOf
  <2> QED BY <2>1, <2>2, <2>3
<1> QED BY <1>2, <1>3

-----------------------------------------------------------------------------
(* The editor. *)

\* Every text a stack leads back to makes the next one by its entry, up to the text
\* that is there; redo_stack leads forward in the same way.
BufInv ==
    /\ text \in Seq(Bytes) /\ cursor \in 0 .. Len(text)
    /\ Chain(TRUE, undos, before, text)
    /\ Chain(FALSE, redos, after, text)
    /\ ~dirty => text = onDisk

LEMMA BufInit_Inv == BufInit => BufInv
<1> SUFFICES ASSUME BufInit PROVE BufInv
  OBVIOUS
<1>1. <<>> \in Seq(Bytes) /\ Len(<<>>) = 0
  BY EmptySeq
<1>2. Chain(TRUE, <<>>, <<>>, <<>>) /\ Chain(FALSE, <<>>, <<>>, <<>>)
  BY NoChain
<1>3. /\ text = <<>> /\ cursor = 0 /\ undos = <<>> /\ redos = <<>>
      /\ onDisk = <<>> /\ before = <<>> /\ after = <<>>
  BY DEF BufInit
<1>4. Chain(TRUE, undos, before, text) /\ Chain(FALSE, redos, after, text)
  BY <1>2, <1>3
<1>5. text \in Seq(Bytes) /\ Len(text) = 0 /\ cursor = 0 /\ text = onDisk
  BY <1>1, <1>3
<1>6. cursor \in 0 .. Len(text)
  BY <1>5
<1> QED BY <1>4, <1>5, <1>6 DEF BufInv

\* A new entry, which forgets what was undone.
LEMMA RecordKeeps ==
    ASSUME BufInv, NEW e \in Edit, RecordEdit(e),
           text' \in Seq(Bytes), cursor' \in 0 .. Len(text'), Makes(e, text, text'), dirty'
    PROVE  BufInv'
<1>1. text \in Seq(Bytes) /\ Chain(TRUE, undos, before, text)
  BY DEF BufInv
<1>2. /\ undos' = Append(undos, e) /\ before' = Append(before, text)
      /\ redos' = <<>> /\ after' = <<>>
  BY DEF RecordEdit
<1>3. Link(TRUE, e, text, text')
  BY DEF Link
<1>4. Chain(TRUE, Append(undos, e), Append(before, text), text')
  BY <1>1, <1>3, ChainPush
<1>5. Chain(FALSE, <<>>, <<>>, text')
  BY NoChain
<1> QED BY <1>2, <1>4, <1>5 DEF BufInv

\* insert: the byte that merges and the edit of its own.
LEMMA InsertKeeps ==
    ASSUME BufInv, NEW what \in Seq(Bytes), NEW soon \in BOOLEAN, Insert(what, soon)
    PROVE  BufInv'
<1>1. /\ text \in Seq(Bytes) /\ cursor \in 0 .. Len(text)
      /\ Chain(TRUE, undos, before, text)
  BY DEF BufInv
<1>2. /\ text' = Splice(text, cursor, what) /\ cursor' = cursor + Len(what) /\ dirty'
  BY DEF Insert
<1>3. Len(text) \in Nat /\ Len(what) \in Nat /\ cursor \in Nat
  BY <1>1, LenProperties
<1>4. text' \in Seq(Bytes) /\ cursor' \in 0 .. Len(text')
  <2>1. Splice(text, cursor, what) \in Seq(Bytes) /\ Len(Splice(text, cursor, what)) = Len(text) + Len(what)
    BY <1>1, SpliceProperties
  <2>2. text' \in Seq(Bytes) /\ Len(text') = Len(text) + Len(what)
    BY <1>2, <2>1
  <2> QED BY <1>1, <1>2, <1>3, <2>2
<1>5. CASE ShouldMerge(soon) /\ Len(what) = 1
  <2> DEFINE last == Last(undos)
             e == [last EXCEPT !.what = last.what \o what]
             base == Last(before)
  <2>1. /\ undos' = [undos EXCEPT ![Len(undos)].what = undos[Len(undos)].what \o what]
        /\ redos' = <<>> /\ after' = <<>> /\ before' = before
    BY <1>5 DEF Insert
  <2>2. undos # <<>> /\ last.insert /\ last.at + Len(last.what) = cursor
    BY <1>5 DEF ShouldMerge
  <2>3. last \in Edit /\ base \in Seq(Bytes) /\ Link(TRUE, last, base, text)
    BY <1>1, <2>2, ChainPop
  <2>4. undos' = [undos EXCEPT ![Len(undos)] = e]
    BY <2>1 DEF Last
  <2>5. last.at \in Nat /\ last.what \in Seq(Bytes) /\ last.insert
    BY <2>2, <2>3 DEF Edit
  <2>6. last.what \o what \in Seq(Bytes)
    BY <2>5, ConcatProperties
  <2>7. e \in Edit /\ e.insert = last.insert /\ e.at = last.at /\ e.what = last.what \o what
    BY <2>3, <2>6 DEF Edit
  <2>8. last.at \in 0 .. Len(base) /\ text = Splice(base, last.at, last.what)
    BY <2>3, <2>5 DEF Link, Makes
  <2> HIDE DEF e, base, last
  <2>9. Splice(text, cursor, what) = Splice(base, last.at, last.what \o what)
    <3>1. Splice(Splice(base, last.at, last.what), last.at + Len(last.what), what)
            = Splice(base, last.at, last.what \o what)
      <4>1. base \in Seq(Bytes) /\ last.what \in Seq(Bytes) /\ last.at \in 0 .. Len(base)
        BY <2>3, <2>5, <2>8
      <4>2. \A s, w, c \in Seq(Bytes) : \A p \in 0 .. Len(s) :
               Splice(Splice(s, p, w), p + Len(w), c) = Splice(s, p, w \o c)
        BY SpliceSplice
      <4> QED BY <4>1, <4>2
    <3> QED BY <2>2, <2>8, <3>1
  <2>10. Link(TRUE, e, base, text')
    BY <1>2, <2>5, <2>7, <2>8, <2>9 DEF Link, Makes
  <2>11. Chain(TRUE, [undos EXCEPT ![Len(undos)] = e], before, text')
    BY <1>1, <2>2, <2>7, <2>10, ChainMerge DEF base
  <2>12. Chain(FALSE, <<>>, <<>>, text')
    BY NoChain
  <2> QED BY <1>2, <1>4, <2>1, <2>4, <2>11, <2>12 DEF BufInv
<1>6. CASE ~(ShouldMerge(soon) /\ Len(what) = 1)
  <2> DEFINE e == [insert |-> TRUE, at |-> cursor, what |-> what]
  <2>1. RecordEdit(e)
    BY <1>6 DEF Insert
  <2>2. e \in Edit /\ Makes(e, text, text')
    BY <1>1, <1>2, <1>3 DEF Edit, Makes
  <2> HIDE DEF e
  <2> QED BY <1>2, <1>4, <2>1, <2>2, RecordKeeps
<1> QED BY <1>5, <1>6

\* A byte by itself and a byte over and over are text.
LEMMA Repeats ==
    ASSUME NEW B, NEW x \in B, NEW n \in Nat
    PROVE  <<x>> \in Seq(B) /\ [i \in 1 .. n |-> x] \in Seq(B)
<1>1. [i \in 1 .. n |-> x] \in [1 .. n -> B]
  OBVIOUS
<1> QED BY <1>1, SeqDef

\* insert_newline is an insert.
LEMMA NewlineKeeps ==
    ASSUME BufInv, NEW soon \in BOOLEAN, InsertNewline(soon)
    PROVE  BufInv'
<1> DEFINE line == SubSeq(text, LineStart + 1, Len(text))
           I == {i \in 1 .. Len(line) : line[i] # " "}
           indent == IF I # {} THEN Min(I) ELSE 0
           width == IF indent = 0 THEN Len(text) - LineStart ELSE indent - 1
           what == <<"n">> \o [i \in 1 .. width |-> " "]
<1>1. text \in Seq(Bytes) /\ cursor \in 0 .. Len(text)
  BY DEF BufInv
<1>2. Insert(what, soon)
  BY DEF InsertNewline, SelectInSeq
<1>3. Len(text) \in Nat /\ LineStart \in 0 .. Len(text)
  BY <1>1, Lines
<1>4. indent \in Nat
  <2>1. CASE I = {}
    BY <2>1
  <2>2. CASE I # {}
    <3>1. I \subseteq Nat
      <4>1. line \in Seq(Bytes)
        BY <1>1, <1>3
      <4>2. Len(line) \in Nat
        BY <4>1, LenProperties
      <4>3. I \subseteq 1 .. Len(line)
        OBVIOUS
      <4> HIDE DEF line, I
      <4> QED BY <4>2, <4>3
    <3>2. Min(I) \in I
      BY <2>2, <3>1, LeastOf
    <3> QED BY <2>2, <3>1, <3>2
  <2> QED BY <2>1, <2>2
<1> HIDE DEF indent
<1>5. width \in Nat
  BY <1>3, <1>4
<1> HIDE DEF width
<1>6. <<"n">> \in Seq(Bytes) /\ [i \in 1 .. width |-> " "] \in Seq(Bytes)
  <2>1. "n" \in Bytes /\ " " \in Bytes
    BY DEF Bytes
  <2> QED BY <1>5, <2>1, Repeats
<1>7. what \in Seq(Bytes)
  BY <1>6, ConcatProperties
<1> HIDE DEF what
<1> QED BY <1>2, <1>7, InsertKeeps

\* delete_char and delete_forward.
LEMMA DeleteKeeps ==
    ASSUME BufInv, NEW from \in 0 .. Len(text), NEW to \in 0 .. Len(text), Delete(from, to)
    PROVE  BufInv'
<1> DEFINE gone == SubSeq(text, from + 1, to)
           e == [insert |-> FALSE, at |-> from, what |-> gone]
<1>1. text \in Seq(Bytes) /\ cursor \in 0 .. Len(text) /\ Len(text) \in Nat
  BY LenProperties DEF BufInv
<1>2. /\ from < to /\ RecordEdit(e)
      /\ text' = Drain(text, from, to) /\ cursor' = from /\ dirty'
  BY DEF Delete
<1>3. to \in from .. Len(text)
  BY <1>1, <1>2
<1>4. /\ gone \in Seq(Bytes) /\ from \in 0 .. Len(Drain(text, from, to))
      /\ Splice(Drain(text, from, to), from, gone) = text
  BY <1>1, <1>3, SpliceDrain
<1>5. Drain(text, from, to) \in Seq(Bytes)
  BY <1>1, <1>3, DrainProperties
<1> HIDE DEF gone
<1>6. e \in Edit /\ Makes(e, text, text')
  BY <1>1, <1>2, <1>4 DEF Edit, Makes
<1> HIDE DEF e
<1> QED BY <1>2, <1>4, <1>5, <1>6, RecordKeeps

\* What undo and redo take from one stack they put on the other.
LEMMA UndoKeeps ==
    ASSUME BufInv, Undo
    PROVE  BufInv'
<1> DEFINE e == Last(undos)
           base == Last(before)
<1>1. /\ text \in Seq(Bytes) /\ undos # <<>> /\ Chain(FALSE, redos, after, text)
      /\ Chain(TRUE, undos, before, text)
  BY DEF BufInv, Undo
<1>2. /\ e \in Edit /\ base \in Seq(Bytes) /\ Link(TRUE, e, base, text)
      /\ Chain(TRUE, Front(undos), Front(before), base)
  BY <1>1, ChainPop
<1>3. /\ text' = Apply(Reversed(e), text) /\ cursor' = CursorAfter(Reversed(e))
      /\ undos' = Front(undos) /\ redos' = Append(redos, e)
      /\ before' = Front(before) /\ after' = Append(after, text) /\ dirty'
  BY DEF Undo
<1> HIDE DEF e, base
<1>4. Makes(e, base, text)
  BY <1>2 DEF Link
<1>5. text' = base /\ cursor' \in 0 .. Len(base)
  BY <1>1, <1>2, <1>3, <1>4, MakesProperties
<1>6. Chain(FALSE, Append(redos, e), Append(after, text), base)
  BY <1>1, <1>2, <1>4, ChainPush DEF Link
<1> QED BY <1>2, <1>3, <1>5, <1>6 DEF BufInv

LEMMA RedoKeeps ==
    ASSUME BufInv, Redo
    PROVE  BufInv'
<1> DEFINE e == Last(redos)
           next == Last(after)
<1>1. /\ text \in Seq(Bytes) /\ redos # <<>> /\ Chain(FALSE, redos, after, text)
      /\ Chain(TRUE, undos, before, text)
  BY DEF BufInv, Redo
<1>2. /\ e \in Edit /\ next \in Seq(Bytes) /\ Link(FALSE, e, next, text)
      /\ Chain(FALSE, Front(redos), Front(after), next)
  BY <1>1, ChainPop
<1>3. /\ text' = Apply(e, text) /\ cursor' = CursorAfter(e)
      /\ redos' = Front(redos) /\ undos' = Append(undos, e)
      /\ after' = Front(after) /\ before' = Append(before, text) /\ dirty'
  BY DEF Redo
<1> HIDE DEF e, next
<1>4. Makes(e, text, next)
  BY <1>2 DEF Link
<1>5. text' = next /\ cursor' \in 0 .. Len(next)
  BY <1>1, <1>2, <1>3, <1>4, MakesProperties
<1>6. Chain(TRUE, Append(undos, e), Append(before, text), next)
  BY <1>1, <1>2, <1>4, ChainPush DEF Link
<1> QED BY <1>2, <1>3, <1>5, <1>6 DEF BufInv

LEMMA BufNext_Inv == BufInv /\ [BufNext]_bufVars => BufInv'
<1> SUFFICES ASSUME BufInv, [BufNext]_bufVars PROVE BufInv'
  OBVIOUS
<1>1. text \in Seq(Bytes) /\ cursor \in 0 .. Len(text) /\ Len(text) \in Nat
  BY LenProperties DEF BufInv
<1>2. ASSUME NEW what \in Typed, NEW soon \in BOOLEAN, Insert(what, soon) PROVE BufInv'
  <2>1. what \in Seq(Bytes)
    BY BufAssumption
  <2> QED BY <1>2, <2>1, InsertKeeps
<1>3. ASSUME NEW soon \in BOOLEAN, InsertNewline(soon) PROVE BufInv'
  BY <1>3, NewlineKeeps
<1>4. CASE DeleteChar
  <2>1. Delete(PrevChar, cursor) /\ PrevChar \in 0 .. Len(text)
    BY <1>1, <1>4, CharsInText DEF DeleteChar
  <2> QED BY <1>1, <2>1, DeleteKeeps
<1>5. CASE DeleteForward
  <2>1. Delete(cursor, NextChar) /\ NextChar \in 0 .. Len(text)
    BY <1>1, <1>5, CharsInText DEF DeleteForward
  <2> QED BY <1>1, <2>1, DeleteKeeps
<1>6. CASE Move
  <2>1. /\ cursor' \in {LineStart, LineEnd(LineStart), 0, Len(text), LineUp, LineDown, WordRight, WordLeft}
        /\ UNCHANGED <<text, undos, redos, dirty, onDisk, before, after>>
    BY <1>6 DEF Move
  <2>2. LineStart \in 0 .. Len(text) /\ LineEnd(LineStart) \in 0 .. Len(text)
    BY <1>1, Lines
  <2>3. cursor' \in 0 .. Len(text)
    BY <1>1, <2>1, <2>2, LineMovesInText, WordMovesInText
  <2> QED BY <2>1, <2>3 DEF BufInv
<1>7. CASE Undo
  BY <1>7, UndoKeeps
<1>8. CASE Redo
  BY <1>8, RedoKeeps
<1>9. ASSUME NEW file \in Files, Load(file) PROVE BufInv'
  <2>1. file \in Seq(Bytes) /\ Len(file) \in Nat
    BY BufAssumption, LenProperties
  <2>2. Chain(TRUE, <<>>, <<>>, file) /\ Chain(FALSE, <<>>, <<>>, file)
    BY NoChain
  <2>3. /\ text' = file /\ onDisk' = file /\ cursor' = 0
        /\ undos' = <<>> /\ redos' = <<>> /\ before' = <<>> /\ after' = <<>>
    BY <1>9 DEF Load
  <2>4. Chain(TRUE, undos', before', text') /\ Chain(FALSE, redos', after', text')
    BY <2>2, <2>3
  <2>5. text' \in Seq(Bytes) /\ Len(text') \in Nat /\ cursor' = 0 /\ text' = onDisk'
    BY <2>1, <2>3
  <2>6. cursor' \in 0 .. Len(text')
    BY <2>5
  <2> QED BY <2>4, <2>5, <2>6 DEF BufInv
<1>10. CASE Save
  BY <1>10 DEF Save, BufInv
<1>11. CASE UNCHANGED bufVars
  BY <1>11 DEF bufVars, BufInv
<1> QED BY <1>2, <1>3, <1>4, <1>5, <1>6, <1>7, <1>8, <1>9, <1>10, <1>11 DEF BufNext

THEOREM BufInvariant == BufSpec => []BufInv
BY BufInit_Inv, BufNext_Inv, PTL DEF BufSpec

\* Whatever is typed, merged, deleted, undone, loaded and saved, one undo gives back
\* exactly the text from before, one redo the text from before the undo, and a text
\* that is not marked as modified is the one on the disk (TextBuffer::insert, undo, redo).
THEOREM UndoStaysExact == BufSpec => []UndoIsExact
<1>1. ASSUME BufInv PROVE UndoIsExact
  <2>1. /\ text \in Seq(Bytes) /\ cursor \in 0 .. Len(text) /\ (~dirty => text = onDisk)
        /\ Chain(TRUE, undos, before, text) /\ Chain(FALSE, redos, after, text)
    BY <1>1 DEF BufInv
  <2>2. ASSUME undos # <<>> PROVE Apply(Reversed(Last(undos)), text) = Last(before)
    <3>1. Last(undos) \in Edit /\ Last(before) \in Seq(Bytes) /\ Link(TRUE, Last(undos), Last(before), text)
      BY <2>1, <2>2, ChainPop
    <3>2. Makes(Last(undos), Last(before), text)
      BY <3>1 DEF Link
    <3> QED BY <2>1, <3>1, <3>2, MakesProperties
  <2>3. ASSUME redos # <<>> PROVE Apply(Last(redos), text) = Last(after)
    <3>1. Last(redos) \in Edit /\ Last(after) \in Seq(Bytes) /\ Link(FALSE, Last(redos), Last(after), text)
      BY <2>1, <2>3, ChainPop
    <3>2. Makes(Last(redos), text, Last(after))
      BY <3>1 DEF Link
    <3> QED BY <2>1, <3>1, <3>2, MakesProperties
  <2> QED BY <2>1, <2>2, <2>3 DEF UndoIsExact
<1> QED BY <1>1, BufInvariant, PTL

-----------------------------------------------------------------------------
(* The keyboard: what scancodes spell, one after the other. *)

\* f spells the first n codes.
Spells(f, codes, n) ==
    f = [i \in 0 .. n |-> IF i = 0 THEN NothingSpelled ELSE SpellNext(f[i - 1], codes[i])]

\* The recursive function of Spelled exists.
LEMMA SpellsExists ==
    ASSUME NEW codes, Len(codes) \in Nat
    PROVE  \E f : Spells(f, codes, Len(codes))
<1> DEFINE T == {n \in Nat : \E f : Spells(f, codes, n)}
<1>1. 0 \in T
  <2>1. Spells([i \in 0 .. 0 |-> NothingSpelled], codes, 0)
    BY DEF Spells
  <2> QED BY <2>1
<1>2. ASSUME NEW n \in Nat, n \in T PROVE n + 1 \in T
  <2>1. PICK f : Spells(f, codes, n)
    BY <1>2
  <2> DEFINE g == [i \in 0 .. n + 1 |-> IF i <= n THEN f[i] ELSE SpellNext(f[n], codes[n + 1])]
             Step(h, i) == IF i = 0 THEN NothingSpelled ELSE SpellNext(h[i - 1], codes[i])
  <2>2. \A i \in 0 .. n : f[i] = Step(f, i)
    BY <2>1 DEF Spells
  <2>3. \A i \in 0 .. n : g[i] = f[i]
    OBVIOUS
  <2>4. g[n + 1] = SpellNext(f[n], codes[n + 1])
    OBVIOUS
  <2>5. ASSUME NEW i \in 0 .. n + 1 PROVE g[i] = Step(g, i)
    <3> HIDE DEF g
    <3>1. CASE i \in 0 .. n
      <4>1. i # 0 => i - 1 \in 0 .. n
        OBVIOUS
      <4> QED BY <3>1, <2>2, <2>3, <4>1
    <3>2. CASE i = n + 1
      <4>1. n \in 0 .. n /\ i # 0 /\ i - 1 = n
        BY <3>2
      <4> QED BY <3>2, <2>4, <2>3, <4>1
    <3> QED BY <3>1, <3>2
  <2>6. Spells(g, codes, n + 1)
    BY <2>5 DEF Spells
  <2> HIDE DEF g
  <2> QED BY <2>6
<1> HIDE DEF T
<1>3. Nat \subseteq T
  BY <1>1, <1>2, NatInductionSet
<1> QED BY <1>3 DEF T

\* Nothing at first, then a code at a time.
LEMMA SpelledSteps ==
    ASSUME NEW codes, Len(codes) \in Nat
    PROVE  /\ Spelled(codes)[0] = NothingSpelled
           /\ \A i \in 1 .. Len(codes) : Spelled(codes)[i] = SpellNext(Spelled(codes)[i - 1], codes[i])
<1> DEFINE f == CHOOSE h : Spells(h, codes, Len(codes))
<1>1. Spells(f, codes, Len(codes))
  BY SpellsExists
<1>2. Spelled(codes) = f
  BY DEF Spelled, Spells
<1> HIDE DEF f
<1>3. \A i \in 0 .. Len(codes) :
        f[i] = IF i = 0 THEN NothingSpelled ELSE SpellNext(f[i - 1], codes[i])
  BY <1>1 DEF Spells
<1> QED BY <1>2, <1>3

\* One more code changes nothing about the ones before.
LEMMA SpelledAppend ==
    ASSUME NEW S, NEW codes \in Seq(S), NEW byte \in S
    PROVE  \A i \in 0 .. Len(codes) : Spelled(Append(codes, byte))[i] = Spelled(codes)[i]
<1> DEFINE all == Append(codes, byte)
           T == {i \in Nat : i <= Len(codes) => Spelled(all)[i] = Spelled(codes)[i]}
<1>1. /\ Len(codes) \in Nat /\ Len(all) = Len(codes) + 1
      /\ \A i \in 1 .. Len(codes) : all[i] = codes[i]
  BY LenProperties, AppendProperties
<1> HIDE DEF all
<1>2. /\ Spelled(codes)[0] = NothingSpelled /\ Spelled(all)[0] = NothingSpelled
      /\ \A i \in 1 .. Len(codes) : Spelled(codes)[i] = SpellNext(Spelled(codes)[i - 1], codes[i])
      /\ \A i \in 1 .. Len(all) : Spelled(all)[i] = SpellNext(Spelled(all)[i - 1], all[i])
  BY <1>1, SpelledSteps
<1>3. 0 \in T
  BY <1>2
<1>4. ASSUME NEW i \in Nat, i \in T PROVE i + 1 \in T
  <2>1. SUFFICES ASSUME i + 1 <= Len(codes) PROVE Spelled(all)[i + 1] = Spelled(codes)[i + 1]
    OBVIOUS
  <2>2. Spelled(all)[i] = Spelled(codes)[i]
    BY <1>1, <1>4, <2>1
  <2>3. i + 1 \in 1 .. Len(codes) /\ i + 1 \in 1 .. Len(all) /\ (i + 1) - 1 = i
    BY <1>1, <2>1
  <2> QED BY <1>1, <1>2, <2>2, <2>3
<1> HIDE DEF T
<1>5. Nat \subseteq T
  BY <1>3, <1>4, NatInductionSet
<1> QED BY <1>1, <1>5 DEF T, all

\* What keys spell.
Chars == {"^X", "X", "x", "ESC", "[", "A"}

LEMMA OneOrThree ==
    ASSUME NEW B, NEW x \in B, NEW y \in B, NEW z \in B
    PROVE  <<x>> \in Seq(B) /\ Len(<<x>>) = 1 /\ <<x, y, z>> \in Seq(B) /\ Len(<<x, y, z>>) = 3
OBVIOUS

\* A key spells at most three bytes.
LEMMA KeyBytes ==
    ASSUME NEW event
    PROVE  KeyEventToBytes(event) \in Seq(Chars) /\ Len(KeyEventToBytes(event)) <= 3
<1>1. KeyEventToBytes(event) \in {<<>>, <<"^X">>, <<"X">>, <<"x">>, <<"ESC", "[", "A">>}
  BY DEF KeyEventToBytes
<1>2. /\ "^X" \in Chars /\ "X" \in Chars /\ "x" \in Chars
      /\ "ESC" \in Chars /\ "[" \in Chars /\ "A" \in Chars
  BY DEF Chars
<1>3. <<>> \in Seq(Chars) /\ Len(<<>>) = 0
  BY EmptySeq
<1>4. <<"^X">> \in Seq(Chars) /\ Len(<<"^X">>) = 1
  BY <1>2, OneOrThree
<1>5. <<"X">> \in Seq(Chars) /\ Len(<<"X">>) = 1
  BY <1>2, OneOrThree
<1>6. <<"x">> \in Seq(Chars) /\ Len(<<"x">>) = 1
  BY <1>2, OneOrThree
<1>7. <<"ESC", "[", "A">> \in Seq(Chars) /\ Len(<<"ESC", "[", "A">>) = 3
  BY <1>2, OneOrThree
<1> DEFINE b == KeyEventToBytes(event)
<1> HIDE DEF b
<1>8. b = <<>> \/ b = <<"^X">> \/ b = <<"X">> \/ b = <<"x">> \/ b = <<"ESC", "[", "A">>
  BY <1>1 DEF b
<1>9. CASE b = <<>>
  BY <1>3, <1>9 DEF b
<1>10. CASE b = <<"^X">>
  BY <1>4, <1>10 DEF b
<1>11. CASE b = <<"X">>
  BY <1>5, <1>11 DEF b
<1>12. CASE b = <<"x">>
  BY <1>6, <1>12 DEF b
<1>13. CASE b = <<"ESC", "[", "A">>
  BY <1>7, <1>13 DEF b
<1> QED BY <1>8, <1>9, <1>10, <1>11, <1>12, <1>13

LEMMA SpellNextFields ==
    ASSUME NEW so, NEW byte
    PROVE  /\ SpellNext(so, byte).d = Feed(so.d, byte).d
           /\ SpellNext(so, byte).out = so.out \o KeyEventToBytes(Feed(so.d, byte).event)
BY DEF SpellNext

\* What was spelled is spelled.
LEMMA SpelledGrows ==
    ASSUME NEW S, NEW codes \in Seq(S), NEW j \in 0 .. Len(codes)
    PROVE  /\ Spelled(codes)[j].out \in Seq(Chars)
           /\ IsPrefix(Spelled(codes)[j].out, Spelled(codes)[Len(codes)].out)
<1> DEFINE out(i) == Spelled(codes)[i].out
           T == {i \in Nat : i <= Len(codes) => out(i) \in Seq(Chars)}
           U == {i \in Nat : j + i <= Len(codes) =>
                   Len(out(j)) <= Len(out(j + i)) /\ \A k \in 1 .. Len(out(j)) : out(j)[k] = out(j + i)[k]}
<1>1. Len(codes) \in Nat
  BY LenProperties
<1>2. out(0) = <<>>
  BY <1>1, SpelledSteps DEF NothingSpelled
<1>3. ASSUME NEW i \in Nat, i + 1 <= Len(codes)
      PROVE  \E b \in Seq(Chars) : out(i + 1) = out(i) \o b
  <2>1. i + 1 \in 1 .. Len(codes) /\ (i + 1) - 1 = i
    BY <1>1, <1>3
  <2>2. Spelled(codes)[i + 1] = SpellNext(Spelled(codes)[i], codes[i + 1])
    BY <1>1, <2>1, SpelledSteps
  <2>3. out(i + 1) = out(i) \o KeyEventToBytes(Feed(Spelled(codes)[i].d, codes[i + 1]).event)
    <3>1. SpellNext(Spelled(codes)[i], codes[i + 1]).out
            = Spelled(codes)[i].out \o KeyEventToBytes(Feed(Spelled(codes)[i].d, codes[i + 1]).event)
      BY SpellNextFields
    <3> QED BY <2>2, <3>1
  <2> QED BY <2>3, KeyBytes
<1>4. 0 \in T
  BY <1>2, EmptySeq
<1>5. ASSUME NEW i \in Nat, i \in T PROVE i + 1 \in T
  <2>1. SUFFICES ASSUME i + 1 <= Len(codes) PROVE out(i + 1) \in Seq(Chars)
    OBVIOUS
  <2>2. out(i) \in Seq(Chars)
    BY <1>1, <1>5, <2>1
  <2>3. PICK b \in Seq(Chars) : out(i + 1) = out(i) \o b
    BY <1>3, <2>1
  <2> HIDE DEF out
  <2> QED BY <2>2, <2>3, ConcatProperties
<1>6. \A i \in 0 .. Len(codes) : out(i) \in Seq(Chars)
  <2> HIDE DEF T
  <2>1. Nat \subseteq T
    BY <1>4, <1>5, NatInductionSet
  <2> QED BY <1>1, <2>1 DEF T
<1>7. 0 \in U
  BY <1>6, LenProperties
<1>8. ASSUME NEW i \in Nat, i \in U PROVE i + 1 \in U
  <2>1. SUFFICES ASSUME j + (i + 1) <= Len(codes)
                 PROVE  /\ Len(out(j)) <= Len(out(j + (i + 1)))
                        /\ \A k \in 1 .. Len(out(j)) : out(j)[k] = out(j + (i + 1))[k]
    OBVIOUS
  <2>2. j + i \in Nat /\ j + i <= Len(codes) /\ (j + i) + 1 = j + (i + 1) /\ (j + i) + 1 <= Len(codes)
    BY <1>1, <2>1
  <2>3. Len(out(j)) <= Len(out(j + i)) /\ \A k \in 1 .. Len(out(j)) : out(j)[k] = out(j + i)[k]
    BY <1>8, <2>2
  <2>4. PICK b \in Seq(Chars) : out((j + i) + 1) = out(j + i) \o b
    BY <1>3, <2>2
  <2>5. out(j) \in Seq(Chars) /\ out(j + i) \in Seq(Chars)
    BY <1>6, <2>2
  <2> HIDE DEF out
  <2>6. /\ Len(out(j + i) \o b) = Len(out(j + i)) + Len(b)
        /\ \A k \in 1 .. Len(out(j + i)) : (out(j + i) \o b)[k] = out(j + i)[k]
    BY <2>5, ConcatProperties
  <2>7. Len(out(j)) \in Nat /\ Len(out(j + i)) \in Nat /\ Len(b) \in Nat
    BY <2>5, LenProperties
  <2> QED BY <2>2, <2>3, <2>4, <2>6, <2>7
<1>9. Len(codes) - j \in U
  <2> HIDE DEF U
  <2>1. Nat \subseteq U
    BY <1>7, <1>8, NatInductionSet
  <2> QED BY <1>1, <2>1
<1>10. /\ Len(out(j)) <= Len(out(Len(codes)))
       /\ \A k \in 1 .. Len(out(j)) : out(j)[k] = out(Len(codes))[k]
  <2>1. j + (Len(codes) - j) = Len(codes)
    BY <1>1
  <2> QED BY <1>1, <1>9, <2>1
<1>11. out(j) \in Seq(Chars) /\ out(Len(codes)) \in Seq(Chars)
  BY <1>1, <1>6
<1> HIDE DEF out
<1>12. IsPrefix(out(j), out(Len(codes)))
  <2> DEFINE s == out(j)
             t == out(Len(codes))
  <2>1. Len(s) \in Nat /\ Len(t) \in Nat /\ Len(s) <= Len(t) /\ s \in Seq(Chars) /\ t \in Seq(Chars)
    BY <1>10, <1>11, LenProperties
  <2>2. SubSeq(s, 1, Len(s)) \in Seq(Chars) /\ Len(SubSeq(s, 1, Len(s))) = Len(s)
        /\ \A k \in 1 .. Len(s) : SubSeq(s, 1, Len(s))[k] = s[k]
    BY <2>1
  <2>3. SubSeq(t, 1, Len(s)) \in Seq(Chars) /\ Len(SubSeq(t, 1, Len(s))) = Len(s)
        /\ \A k \in 1 .. Len(s) : SubSeq(t, 1, Len(s))[k] = t[k]
    BY <2>1
  <2>4. \A k \in 1 .. Len(s) : s[k] = t[k]
    BY <1>10
  <2> DEFINE a == SubSeq(s, 1, Len(s))
             b == SubSeq(t, 1, Len(s))
  <2> HIDE DEF s, t
  <2>5. \A k \in 1 .. Len(a) : a[k] = b[k]
    BY <2>2, <2>3, <2>4
  <2>6. a \in Seq(Chars) /\ b \in Seq(Chars) /\ Len(a) = Len(b) /\ Len(a) = Len(s)
    BY <2>2, <2>3
  <2> HIDE DEF a, b
  <2>7. a = b
    BY <2>5, <2>6, SameSeq
  <2> QED BY <2>1, <2>7 DEF IsPrefix, a, b, s, t
<1> QED BY <1>11, <1>12 DEF out

-----------------------------------------------------------------------------
(* The keyboard: the ring. *)

\* Indices that went round at most once.
Wrapped(a) == IF a < RingSlots THEN a ELSE a - RingSlots

LEMMA WrapOnce ==
    ASSUME NEW t \in Nat, NEW n \in Nat, t + n < 2 * RingSlots
    PROVE  (t + n) % RingSlots = Wrapped(t + n)
<1> DEFINE a == t + n
<1>1. RingSlots \in Nat \ {0} /\ a \in Nat /\ a < 2 * RingSlots
  BY KeyboardAssumption
<1> HIDE DEF a
<1>2. a % RingSlots = IF a < RingSlots THEN a ELSE a - RingSlots
  BY <1>1, ModOnce
<1> QED BY <1>2 DEF a, Wrapped

LEMMA RingArith ==
    ASSUME NEW t \in 0 .. RingSlots - 1, NEW n \in 0 .. RingSlots - 1
    PROVE  /\ (t + n) % RingSlots \in 0 .. RingSlots - 1
           /\ (t + n) % RingSlots = t <=> n = 0
           /\ (((t + n) % RingSlots) + 1) % RingSlots = (t + (n + 1)) % RingSlots
           /\ (t + (n + 1)) % RingSlots = t <=> n = RingSlots - 1
           /\ \A i \in 0 .. n - 1 : (t + i) % RingSlots # (t + n) % RingSlots
           /\ \A i \in 0 .. n - 1 : (((t + 1) % RingSlots) + i) % RingSlots = (t + (i + 1)) % RingSlots
<1>1. RingSlots \in Nat \ {0, 1} /\ t \in Nat /\ n \in Nat
  BY KeyboardAssumption
<1>2. (t + n) % RingSlots = Wrapped(t + n)
  BY <1>1, WrapOnce
<1>3. (t + (n + 1)) % RingSlots = Wrapped(t + (n + 1))
  <2>1. n + 1 \in Nat /\ t + (n + 1) < 2 * RingSlots
    BY <1>1
  <2> QED BY <1>1, <2>1, WrapOnce
<1>4. Wrapped(t + n) \in 0 .. RingSlots - 1
  BY <1>1 DEF Wrapped
<1>5. (Wrapped(t + n) + 1) % RingSlots = Wrapped(Wrapped(t + n) + 1)
  <2>1. Wrapped(t + n) \in Nat /\ Wrapped(t + n) + 1 < 2 * RingSlots
    BY <1>1, <1>4
  <2> QED BY <1>1, <2>1, WrapOnce
<1>6. Wrapped(Wrapped(t + n) + 1) = Wrapped(t + (n + 1))
  BY <1>1 DEF Wrapped
<1>7. (Wrapped(t + n) = t <=> n = 0) /\ (Wrapped(t + (n + 1)) = t <=> n = RingSlots - 1)
  BY <1>1 DEF Wrapped
<1>8. ASSUME NEW i \in 0 .. n - 1
      PROVE  /\ (t + i) % RingSlots # (t + n) % RingSlots
             /\ (((t + 1) % RingSlots) + i) % RingSlots = (t + (i + 1)) % RingSlots
  <2>1. i \in Nat /\ i < n /\ n < RingSlots /\ t < RingSlots
    BY <1>1
  <2>2. (t + i) % RingSlots = Wrapped(t + i)
    BY <1>1, <2>1, WrapOnce
  <2>3. (t + (i + 1)) % RingSlots = Wrapped(t + (i + 1))
    <3>1. i + 1 \in Nat /\ t + (i + 1) < 2 * RingSlots
      BY <1>1, <2>1
    <3> QED BY <1>1, <3>1, WrapOnce
  <2>4. (t + 1) % RingSlots = Wrapped(t + 1)
    BY <1>1, <2>1, WrapOnce
  <2>5. Wrapped(t + 1) \in 0 .. RingSlots - 1
    BY <1>1, <2>1 DEF Wrapped
  <2>6. (Wrapped(t + 1) + i) % RingSlots = Wrapped(Wrapped(t + 1) + i)
    <3>1. i \in Nat /\ Wrapped(t + 1) \in Nat /\ Wrapped(t + 1) + i < 2 * RingSlots
      BY <1>1, <2>1, <2>5
    <3> QED BY <1>1, <3>1, WrapOnce
  <2>7. Wrapped(Wrapped(t + 1) + i) = Wrapped(t + (i + 1))
    BY <1>1, <2>1 DEF Wrapped
  <2>8. Wrapped(t + i) # Wrapped(t + n)
    BY <1>1, <2>1 DEF Wrapped
  <2> QED BY <1>2, <2>2, <2>3, <2>4, <2>6, <2>7, <2>8
<1> QED BY <1>2, <1>3, <1>4, <1>5, <1>6, <1>7, <1>8

Codes == Scancodes \cup {AckByte}
FreshPending == [bytes |-> <<>>, pos |-> 0]
Points == {"user", "poll", "copy", "advance", "decode", "wait", "parked"}

KbdTypes ==
    /\ slots \in [0 .. RingSlots - 1 -> Codes] /\ tail \in 0 .. RingSlots - 1
    /\ accepted \in Seq(Codes) /\ given \in Seq(Chars)
    /\ reader \in [at : Points, index : 0 .. RingSlots - 1, byte : Codes]
    /\ pending \in [bytes : Seq(Chars), pos : Nat]

\* The ring holds the scancodes behind the first k.
InRing(k) ==
    /\ Len(accepted) - k < RingSlots
    /\ head = (tail + (Len(accepted) - k)) % RingSlots
    /\ \A i \in 0 .. Len(accepted) - k - 1 : slots[(tail + i) % RingSlots] = accepted[k + (i + 1)]

\* The first j have been decoded, and read or kept.
Decoded(j) == decoder = Spelled(accepted)[j].d /\ given \o Unread = Spelled(accepted)[j].out

\* Where the reader is when k scancodes have left the ring: with the next one in its
\* registers before it advances the tail, with the last one of them after.
ReaderAt(k) ==
    /\ reader.at \in {"copy", "advance"} => k < Len(accepted) /\ reader.index = tail
    /\ reader.at = "advance" => reader.byte = accepted[k + 1]
    /\ reader.at = "decode" => k > 0 /\ reader.byte = accepted[k] /\ Decoded(k - 1)
    /\ reader.at # "decode" => Decoded(k)
    /\ reader.at = "parked" => k = Len(accepted)
    /\ reader.at # "user" => pending = FreshPending
    /\ pending = FreshPending \/ pending.pos < Len(pending.bytes)

KbdInv == KbdTypes /\ \E k \in 0 .. Len(accepted) : InRing(k) /\ ReaderAt(k)

LEMMA KbdInit_Inv == KbdInit => KbdInv
<1> SUFFICES ASSUME KbdInit PROVE KbdInv
  OBVIOUS
<1>1. RingSlots \in Nat \ {0, 1}
  BY KeyboardAssumption
<1>2. /\ slots = [i \in 0 .. RingSlots - 1 |-> AckByte] /\ head = 0 /\ tail = 0
      /\ decoder = FreshDecoder /\ pending = FreshPending
      /\ reader = [at |-> "user", index |-> 0, byte |-> AckByte]
      /\ accepted = <<>> /\ given = <<>>
  BY DEF KbdInit, FreshPending
<1>3. AckByte \in Codes
  BY DEF Codes
<1>4. <<>> \in Seq(Codes) /\ <<>> \in Seq(Chars) /\ Len(<<>>) = 0
  BY EmptySeq
<1>5. KbdTypes
  <2>1. slots \in [0 .. RingSlots - 1 -> Codes] /\ tail \in 0 .. RingSlots - 1
    BY <1>1, <1>2, <1>3
  <2>2. reader \in [at : Points, index : 0 .. RingSlots - 1, byte : Codes]
    BY <1>1, <1>2, <1>3 DEF Points
  <2>3. FreshPending \in [bytes : Seq(Chars), pos : Nat]
    BY <1>4 DEF FreshPending
  <2>4. accepted \in Seq(Codes) /\ given \in Seq(Chars)
    BY <1>2, <1>4
  <2> QED BY <1>2, <2>1, <2>2, <2>3, <2>4 DEF KbdTypes
<1>6. Len(accepted) = 0
  BY <1>2, <1>4
<1>7. InRing(0)
  <2>1. (tail + 0) % RingSlots = 0
    BY <1>1, <1>2, RingArith
  <2>2. Len(accepted) - 0 = 0
    BY <1>6
  <2>3. 0 .. Len(accepted) - 0 - 1 = {}
    BY <1>6
  <2> QED BY <1>1, <1>2, <2>1, <2>2, <2>3 DEF InRing
<1>8. Decoded(0)
  <2>1. Spelled(accepted)[0] = NothingSpelled
    BY <1>6, SpelledSteps
  <2>2. NothingSpelled.d = FreshDecoder /\ NothingSpelled.out = <<>>
    BY DEF NothingSpelled
  <2>3. Unread = <<>>
    BY <1>2, <1>4 DEF Unread, FreshPending
  <2>4. <<>> \o <<>> = <<>>
    OBVIOUS
  <2> QED BY <1>2, <2>1, <2>2, <2>3, <2>4 DEF Decoded
<1>9. ReaderAt(0)
  <2>1. reader.at = "user"
    BY <1>2
  <2> QED BY <1>2, <1>8, <2>1 DEF ReaderAt
<1>10. 0 \in 0 .. Len(accepted)
  BY <1>6
<1> QED BY <1>5, <1>7, <1>9, <1>10 DEF KbdInv

\* What the scancodes have spelled so far does not change when the rest stays.
LEMMA DecodedStays ==
    ASSUME KbdTypes, NEW j \in 0 .. Len(accepted), Decoded(j),
           UNCHANGED <<decoder, given, pending>>,
           accepted' = accepted \/ \E byte \in Codes : accepted' = Append(accepted, byte)
    PROVE  Decoded(j)'
<1>1. Spelled(accepted')[j] = Spelled(accepted)[j]
  <2>1. CASE accepted' = accepted
    BY <2>1
  <2>2. ASSUME NEW byte \in Codes, accepted' = Append(accepted, byte)
        PROVE  Spelled(accepted')[j] = Spelled(accepted)[j]
    <3>1. accepted \in Seq(Codes)
      BY DEF KbdTypes
    <3>2. \A i \in 0 .. Len(accepted) : Spelled(Append(accepted, byte))[i] = Spelled(accepted)[i]
      BY <3>1, SpelledAppend
    <3> QED BY <2>2, <3>2
  <2> QED BY <2>1, <2>2
<1>2. Unread' = Unread
  BY DEF Unread
<1> QED BY <1>1, <1>2 DEF Decoded

\* push_scancode, before any step of the reader.
LEMMA PushKeeps ==
    ASSUME KbdInv, NEW byte \in Codes, PushScancode(byte)
    PROVE  KbdInv'
<1>1. KbdTypes
  BY DEF KbdInv
<1>2. PICK k \in 0 .. Len(accepted) : InRing(k) /\ ReaderAt(k)
  BY DEF KbdInv
<1>3. /\ RingSlots \in Nat \ {0, 1} /\ Len(accepted) \in Nat /\ k \in Nat /\ k <= Len(accepted)
      /\ tail \in 0 .. RingSlots - 1 /\ accepted \in Seq(Codes)
      /\ slots \in [0 .. RingSlots - 1 -> Codes]
  BY <1>1, KeyboardAssumption, LenProperties DEF KbdTypes
<1> DEFINE n == Len(accepted) - k
<1>4. /\ n \in 0 .. RingSlots - 1 /\ head = (tail + n) % RingSlots
      /\ \A i \in 0 .. n - 1 : slots[(tail + i) % RingSlots] = accepted[k + (i + 1)]
  BY <1>2, <1>3 DEF InRing
<1>5. /\ UNCHANGED <<tail, decoder, pending, given>> /\ Push(byte)
      /\ reader' = [reader EXCEPT !.at = IF reader.at = "parked" THEN "wait" ELSE reader.at]
  BY DEF PushScancode
<1>6. /\ reader \in [at : Points, index : 0 .. RingSlots - 1, byte : Codes]
      /\ reader'.index = reader.index /\ reader'.byte = reader.byte
      /\ reader'.at = IF reader.at = "parked" THEN "wait" ELSE reader.at
      /\ reader' \in [at : Points, index : 0 .. RingSlots - 1, byte : Codes]
  BY <1>1, <1>5 DEF KbdTypes, Points
<1> HIDE DEF n
<1>7. CASE (head + 1) % RingSlots = tail
  <2>1. slots' = slots /\ head' = head /\ accepted' = accepted
    BY <1>5, <1>7 DEF Push
  <2>2. KbdTypes'
    BY <1>1, <1>5, <1>6, <2>1 DEF KbdTypes
  <2>3. InRing(k)'
    BY <1>2, <1>5, <2>1 DEF InRing
  <2>4. /\ reader'.at # "decode" => Decoded(k)'
        /\ reader'.at = "decode" => Decoded(k - 1)'
    <3>1. reader'.at = "decode" => k - 1 \in 0 .. Len(accepted) /\ Decoded(k - 1)
      BY <1>2, <1>3, <1>6 DEF ReaderAt
    <3>2. reader'.at # "decode" => Decoded(k)
      BY <1>2, <1>6 DEF ReaderAt
    <3> QED BY <1>1, <1>5, <2>1, <3>1, <3>2, DecodedStays
  <2>5. ReaderAt(k)'
    BY <1>2, <1>5, <1>6, <2>1, <2>4 DEF ReaderAt
  <2> QED BY <2>1, <2>2, <2>3, <2>5 DEF KbdInv
<1>8. CASE (head + 1) % RingSlots # tail
  <2>1. slots' = [slots EXCEPT ![head] = byte] /\ head' = (head + 1) % RingSlots /\ accepted' = Append(accepted, byte)
    BY <1>5, <1>8 DEF Push
  <2>2. /\ accepted' \in Seq(Codes) /\ Len(accepted') = Len(accepted) + 1
        /\ accepted'[Len(accepted) + 1] = byte /\ \A i \in 1 .. Len(accepted) : accepted'[i] = accepted[i]
    BY <1>3, <2>1, AppendProperties
  <2>3. /\ head \in 0 .. RingSlots - 1 /\ head' = (tail + (n + 1)) % RingSlots /\ n # RingSlots - 1
        /\ \A i \in 0 .. n - 1 : (tail + i) % RingSlots # head
    <3>1. tail \in 0 .. RingSlots - 1 /\ n \in 0 .. RingSlots - 1
      BY <1>3, <1>4
    <3>2. /\ (tail + n) % RingSlots \in 0 .. RingSlots - 1
          /\ (((tail + n) % RingSlots) + 1) % RingSlots = (tail + (n + 1)) % RingSlots
      BY <3>1, RingArith
    <3>3. (tail + (n + 1)) % RingSlots = tail <=> n = RingSlots - 1
      BY <3>1, RingArith
    <3>4. \A i \in 0 .. n - 1 : (tail + i) % RingSlots # (tail + n) % RingSlots
      BY <3>1, RingArith
    <3> QED BY <1>4, <1>8, <2>1, <3>2, <3>3, <3>4
  <2>4. n = Len(accepted) - k /\ Len(accepted') - k = n + 1 /\ n + 1 < RingSlots
    <3>1. n = Len(accepted) - k
      BY DEF n
    <3>2. n + 1 < RingSlots
      BY <1>3, <1>4, <2>3
    <3>3. Len(accepted') - k = n + 1
      BY <1>3, <2>2, <3>1
    <3> QED BY <3>1, <3>2, <3>3
  <2>5. KbdTypes'
    <3>1. slots' \in [0 .. RingSlots - 1 -> Codes]
      BY <1>3, <2>1, <2>3
    <3> QED BY <1>1, <1>5, <1>6, <2>2, <3>1 DEF KbdTypes
  <2>6. ASSUME NEW i \in 0 .. n PROVE slots'[(tail + i) % RingSlots] = accepted'[k + (i + 1)]
    <3>1. CASE i = n
      <4>1. k + (i + 1) = Len(accepted) + 1
        BY <1>3, <2>4, <3>1
      <4>2. slots'[head] = byte
        BY <1>3, <2>1, <2>3
      <4> QED BY <1>4, <2>2, <3>1, <4>1, <4>2
    <3>2. CASE i # n
      <4>1. i \in 0 .. n - 1 /\ i \in 0 .. RingSlots - 1 /\ k + (i + 1) \in 1 .. Len(accepted)
        BY <1>3, <1>4, <2>4, <3>2
      <4>2. (tail + i) % RingSlots \in 0 .. RingSlots - 1
        BY <1>3, <4>1, RingArith
      <4>3. slots'[(tail + i) % RingSlots] = slots[(tail + i) % RingSlots]
        BY <1>3, <2>1, <2>3, <4>1, <4>2
      <4> QED BY <1>4, <2>2, <4>1, <4>3
    <3> QED BY <3>1, <3>2
  <2>7. InRing(k)'
    <3>1. Len(accepted') - k - 1 = n
      BY <1>3, <1>4, <2>4
    <3> QED BY <1>5, <2>3, <2>4, <2>6, <3>1 DEF InRing
  <2>8. /\ reader'.at # "decode" => Decoded(k)'
        /\ reader'.at = "decode" => Decoded(k - 1)'
    <3>1. reader'.at = "decode" => k - 1 \in 0 .. Len(accepted) /\ Decoded(k - 1)
      BY <1>2, <1>3, <1>6 DEF ReaderAt
    <3>2. reader'.at # "decode" => Decoded(k)
      BY <1>2, <1>6 DEF ReaderAt
    <3> QED BY <1>1, <1>5, <2>1, <3>1, <3>2, DecodedStays
  <2>9. ReaderAt(k)'
    <3>1. reader'.at \in {"copy", "advance"} => k < Len(accepted) /\ reader'.index = tail'
      BY <1>2, <1>5, <1>6 DEF ReaderAt
    <3>2. reader'.at = "advance" => reader'.byte = accepted'[k + 1]
      <4>1. reader'.at = "advance" => k + 1 \in 1 .. Len(accepted) /\ reader'.byte = accepted[k + 1]
        BY <1>2, <1>3, <1>6 DEF ReaderAt
      <4> QED BY <2>2, <4>1
    <3>3. reader'.at = "decode" => k > 0 /\ reader'.byte = accepted'[k]
      <4>1. reader'.at = "decode" => k > 0 /\ k \in 1 .. Len(accepted) /\ reader'.byte = accepted[k]
        BY <1>2, <1>3, <1>6 DEF ReaderAt
      <4> QED BY <2>2, <4>1
    <3>4. reader'.at # "parked" /\ (reader'.at # "user" => pending' = FreshPending)
      BY <1>2, <1>5, <1>6 DEF ReaderAt
    <3>5. pending' = FreshPending \/ pending'.pos < Len(pending'.bytes)
      BY <1>2, <1>5 DEF ReaderAt
    <3>6. k < Len(accepted) => k < Len(accepted')
      BY <1>3, <2>2
    <3> QED BY <2>8, <3>1, <3>2, <3>3, <3>4, <3>5, <3>6 DEF ReaderAt
  <2>10. k \in 0 .. Len(accepted')
    BY <1>3, <2>2
  <2> QED BY <2>5, <2>7, <2>9, <2>10 DEF KbdInv
<1> QED BY <1>7, <1>8

\* A step of the reader that reads nothing.
LEMMA ReaderStep ==
    ASSUME KbdTypes, NEW k \in 0 .. Len(accepted), InRing(k),
           UNCHANGED <<slots, head, tail, accepted, decoder, pending, given>>,
           reader' \in [at : Points, index : 0 .. RingSlots - 1, byte : Codes],
           Decoded(k), reader'.at # "decode",
           reader'.at \in {"copy", "advance"} => k < Len(accepted) /\ reader'.index = tail,
           reader'.at = "advance" => reader'.byte = accepted[k + 1],
           reader'.at = "parked" => k = Len(accepted),
           pending = FreshPending
    PROVE  KbdInv'
<1>1. KbdTypes'
  BY DEF KbdTypes
<1>2. InRing(k)'
  BY DEF InRing
<1>3. Decoded(k)'
  BY DecodedStays
<1>4. ReaderAt(k)'
  BY <1>3 DEF ReaderAt
<1> QED BY <1>1, <1>2, <1>4 DEF KbdInv

\* Nothing is left of a fresh buffer.
LEMMA FreshUnread == pending = FreshPending => Unread = <<>>
BY DEF FreshPending, Unread

\* The first member before the others.
LEMMA HeadFirst ==
    ASSUME NEW B, NEW g \in Seq(B), NEW b \in Seq(B), b # <<>>
    PROVE  /\ Append(g, Head(b)) \in Seq(B) /\ Tail(b) \in Seq(B) /\ Head(b) \in B
           /\ Len(Tail(b)) = Len(b) - 1
           /\ Append(g, Head(b)) \o Tail(b) = g \o b
<1>1. Len(g) \in Nat /\ Len(b) \in Nat /\ Len(b) # 0
  BY LenProperties, EmptySeq
<1>2. /\ Head(b) = b[1] /\ b[1] \in B /\ Tail(b) \in Seq(B) /\ Len(Tail(b)) = Len(b) - 1
      /\ \A i \in 1 .. Len(b) - 1 : Tail(b)[i] = b[i + 1]
  BY <1>1, HeadTailProperties, ElementOfSeq
<1> DEFINE h == Append(g, Head(b))
           t == Tail(b)
<1>3. /\ h \in Seq(B) /\ Len(h) = Len(g) + 1 /\ h[Len(g) + 1] = b[1]
      /\ \A i \in 1 .. Len(g) : h[i] = g[i]
  BY <1>2, AppendProperties
<1>4. t \in Seq(B) /\ Len(t) = Len(b) - 1 /\ \A i \in 1 .. Len(b) - 1 : t[i] = b[i + 1]
  BY <1>2
<1> HIDE DEF h, t
<1>5. /\ h \o t \in Seq(B) /\ Len(h \o t) = Len(h) + Len(t)
      /\ \A i \in 1 .. Len(h) + Len(t) : (h \o t)[i] = IF i <= Len(h) THEN h[i] ELSE t[i - Len(h)]
  BY <1>3, <1>4, ConcatProperties
<1>6. /\ g \o b \in Seq(B) /\ Len(g \o b) = Len(g) + Len(b)
      /\ \A i \in 1 .. Len(g) + Len(b) : (g \o b)[i] = IF i <= Len(g) THEN g[i] ELSE b[i - Len(g)]
  BY ConcatProperties
<1>7. Len(h) + Len(t) = Len(g) + Len(b) /\ Len(h) = Len(g) + 1
  BY <1>1, <1>3, <1>4
<1>8. ASSUME NEW i \in 1 .. Len(g) + Len(b) PROVE (h \o t)[i] = (g \o b)[i]
  <2>1. CASE i <= Len(g)
    BY <1>1, <1>3, <1>5, <1>6, <1>7, <2>1
  <2>2. CASE i = Len(g) + 1
    BY <1>1, <1>3, <1>5, <1>6, <1>7, <2>2
  <2>3. CASE i > Len(g) + 1
    <3>1. i - Len(h) \in 1 .. Len(b) - 1 /\ (i - Len(h)) + 1 = i - Len(g)
      BY <1>1, <1>7, <2>3
    <3>2. (h \o t)[i] = t[i - Len(h)]
      BY <1>1, <1>5, <1>7, <2>3
    <3>3. (g \o b)[i] = b[i - Len(g)]
      BY <1>1, <1>6, <2>3
    <3> QED BY <1>4, <3>1, <3>2, <3>3
  <2>4. i <= Len(g) \/ i = Len(g) + 1 \/ i > Len(g) + 1
    BY <1>1
  <2> QED BY <2>1, <2>2, <2>3, <2>4
<1>9. h \o t = g \o b
  <2>1. Len(h \o t) = Len(g \o b) /\ \A i \in 1 .. Len(h \o t) : (h \o t)[i] = (g \o b)[i]
    BY <1>5, <1>6, <1>7, <1>8
  <2> QED BY <1>5, <1>6, <2>1, SameSeq
<1> QED BY <1>2, <1>3, <1>9 DEF h, t

\* sys_read's first byte from the buffer: it moves from what is kept to what was given.
LEMMA PendingKeeps ==
    ASSUME KbdInv, ReadPending
    PROVE  KbdInv'
<1>1. KbdTypes
  BY DEF KbdInv
<1>2. PICK k \in 0 .. Len(accepted) : InRing(k) /\ ReaderAt(k)
  BY DEF KbdInv
<1>3. /\ reader.at = "user" /\ pending.pos < Len(pending.bytes)
      /\ given' = Append(given, pending.bytes[pending.pos + 1]) /\ pending' = PopPending
      /\ UNCHANGED <<slots, head, tail, accepted, decoder, reader>>
  BY DEF ReadPending, At, Ring
<1> DEFINE b == pending.bytes
           p == pending.pos
           L == Len(b)
<1>4. /\ b \in Seq(Chars) /\ p \in Nat /\ given \in Seq(Chars) /\ L \in Nat /\ p < L
      /\ pending \in [bytes : Seq(Chars), pos : Nat]
  BY <1>1, <1>3, LenProperties DEF KbdTypes
<1>5. Unread = SubSeq(b, p + 1, L)
  BY DEF Unread
<1> DEFINE u == SubSeq(b, p + 1, L)
<1>6. u \in Seq(Chars) /\ Len(u) = L - p /\ \A i \in 1 .. L - p : u[i] = b[p + i]
  <2> HIDE DEF b, p
  <2> QED BY <1>4
<1> HIDE DEF u
<1>7. u # <<>> /\ Head(u) = b[p + 1]
  <2>1. Len(u) # 0
    BY <1>4, <1>6
  <2>2. u # <<>>
    BY <2>1, EmptySeq
  <2>3. Head(u) = u[1]
    BY <1>6, <2>2, HeadTailProperties
  <2> QED BY <1>4, <1>6, <2>2, <2>3
<1>8. /\ Append(given, b[p + 1]) \in Seq(Chars) /\ Append(given, b[p + 1]) \o Tail(u) = given \o u
      /\ Tail(u) \in Seq(Chars) /\ Len(Tail(u)) = L - p - 1
  BY <1>4, <1>6, <1>7, HeadFirst
<1>9. /\ pending' \in [bytes : Seq(Chars), pos : Nat] /\ Unread' = Tail(u)
      /\ pending' = FreshPending \/ pending'.pos < Len(pending'.bytes)
  <2>1. CASE p + 1 >= L
    <3>1. pending' = FreshPending
      BY <1>3, <2>1 DEF PopPending, FreshPending
    <3>2. Len(Tail(u)) = 0
      <4>1. L - p - 1 = 0
        <5> HIDE DEF L, p
        <5> QED BY <1>4, <2>1
      <4> QED BY <1>8, <4>1
    <3>3. Tail(u) = <<>>
      BY <1>8, <3>2, EmptySeq
    <3>4. Unread' = <<>>
      BY <3>1 DEF Unread, FreshPending
    <3>5. FreshPending \in [bytes : Seq(Chars), pos : Nat]
      BY EmptySeq DEF FreshPending
    <3> QED BY <3>1, <3>3, <3>4, <3>5
  <2>2. CASE ~(p + 1 >= L)
    <3>1. pending' = [pending EXCEPT !.pos = pending.pos + 1]
      BY <1>3, <2>2 DEF PopPending
    <3>2. pending'.bytes = b /\ pending'.pos = p + 1 /\ pending' \in [bytes : Seq(Chars), pos : Nat]
      BY <1>4, <3>1
    <3>3. Unread' = SubSeq(b, (p + 1) + 1, L)
      BY <3>2 DEF Unread
    <3> DEFINE v == SubSeq(b, (p + 1) + 1, L)
    <3>4. v \in Seq(Chars) /\ Len(v) = L - p - 1 /\ \A i \in 1 .. L - p - 1 : v[i] = b[(p + 1) + i]
      <4> HIDE DEF b, p
      <4> QED BY <1>4, <2>2
    <3> HIDE DEF v
    <3>5. \A i \in 1 .. Len(v) : v[i] = Tail(u)[i]
      <4>1. \A i \in 1 .. Len(u) - 1 : Tail(u)[i] = u[i + 1]
        BY <1>6, <1>7, HeadTailProperties
      <4>2. ASSUME NEW i \in 1 .. Len(v) PROVE v[i] = Tail(u)[i]
        <5>1. i \in 1 .. L - p - 1 /\ i \in 1 .. Len(u) - 1 /\ i + 1 \in 1 .. L - p /\ (p + 1) + i = p + (i + 1)
          BY <1>4, <1>6, <3>4
        <5> QED BY <1>6, <3>4, <4>1, <5>1
      <4> QED BY <4>2
    <3>6. v = Tail(u)
      BY <1>8, <3>4, <3>5, SameSeq
    <3> QED BY <1>4, <2>2, <3>2, <3>3, <3>6 DEF v
  <2> QED BY <2>1, <2>2
<1>10. KbdTypes'
  BY <1>1, <1>3, <1>8, <1>9 DEF KbdTypes
<1>11. InRing(k)'
  BY <1>2, <1>3 DEF InRing
<1>12. Decoded(k)'
  <2>1. Decoded(k)
    BY <1>2, <1>3 DEF ReaderAt
  <2>2. decoder = Spelled(accepted)[k].d /\ given \o u = Spelled(accepted)[k].out
    BY <1>5, <2>1 DEF Decoded, u
  <2> QED BY <1>3, <1>8, <1>9, <2>2 DEF Decoded
<1>13. ReaderAt(k)'
  BY <1>3, <1>9, <1>12 DEF ReaderAt
<1> QED BY <1>3, <1>10, <1>11, <1>13 DEF KbdInv

\* The slot at the tail holds the next scancode, if there is one.
LEMMA NextInRing ==
    ASSUME KbdTypes, NEW k \in 0 .. Len(accepted), InRing(k)
    PROVE  /\ tail = head <=> k = Len(accepted)
           /\ k < Len(accepted) => slots[tail] = accepted[k + 1]
<1> DEFINE n == Len(accepted) - k
<1>1. /\ RingSlots \in Nat \ {0, 1} /\ Len(accepted) \in Nat /\ k \in Nat /\ k <= Len(accepted)
      /\ tail \in 0 .. RingSlots - 1
  BY KeyboardAssumption, LenProperties DEF KbdTypes
<1>2. /\ n \in 0 .. RingSlots - 1 /\ head = (tail + n) % RingSlots
      /\ \A i \in 0 .. n - 1 : slots[(tail + i) % RingSlots] = accepted[k + (i + 1)]
  BY <1>1 DEF InRing
<1>3. n = 0 <=> k = Len(accepted)
  BY <1>1
<1>4. k < Len(accepted) => 0 \in 0 .. n - 1 /\ k + (0 + 1) = k + 1
  BY <1>1
<1> HIDE DEF n
<1>5. (tail + n) % RingSlots = tail <=> n = 0
  BY <1>1, <1>2, RingArith
<1>6. (tail + 0) % RingSlots = tail
  <2>1. 0 \in 0 .. RingSlots - 1
    BY <1>1
  <2> QED BY <1>1, <2>1, RingArith
<1> QED BY <1>2, <1>3, <1>4, <1>5, <1>6

\* sys_read finds nothing kept, and starts to poll.
LEMMA BlocksKeeps ==
    ASSUME KbdInv, ReadBlocks
    PROVE  KbdInv'
<1>1. KbdTypes
  BY DEF KbdInv
<1>2. PICK k \in 0 .. Len(accepted) : InRing(k) /\ ReaderAt(k)
  BY DEF KbdInv
<1>3. /\ reader.at = "user" /\ pending.pos >= Len(pending.bytes)
      /\ reader' = [reader EXCEPT !.at = "poll"]
      /\ UNCHANGED <<slots, head, tail, accepted, decoder, pending, given>>
  BY DEF ReadBlocks, At, GoTo, Ring
<1>4. pending = FreshPending
  <2>1. pending.pos \in Nat /\ Len(pending.bytes) \in Nat
    BY <1>1, LenProperties DEF KbdTypes
  <2>2. ~(pending.pos < Len(pending.bytes))
    BY <1>3, <2>1
  <2> QED BY <1>2, <2>2 DEF ReaderAt
<1>5. Decoded(k)
  BY <1>2, <1>3 DEF ReaderAt
<1>6. /\ reader' \in [at : Points, index : 0 .. RingSlots - 1, byte : Codes] /\ reader'.at = "poll"
  BY <1>1, <1>3 DEF KbdTypes, Points
<1> QED BY <1>1, <1>2, <1>3, <1>4, <1>5, <1>6, ReaderStep

\* SpscRing::pop reads both indices.
LEMMA LoadKeeps ==
    ASSUME KbdInv, PopLoad
    PROVE  KbdInv'
<1>1. KbdTypes
  BY DEF KbdInv
<1>2. PICK k \in 0 .. Len(accepted) : InRing(k) /\ ReaderAt(k)
  BY DEF KbdInv
<1>3. /\ reader.at = "poll"
      /\ reader' = IF tail = head THEN [reader EXCEPT !.at = "wait"]
                   ELSE [reader EXCEPT !.at = "copy", !.index = tail]
      /\ UNCHANGED <<slots, head, tail, accepted, decoder, pending, given>>
  BY DEF PopLoad, At, Ring
<1>4. pending = FreshPending /\ Decoded(k)
  BY <1>2, <1>3 DEF ReaderAt
<1>5. tail \in 0 .. RingSlots - 1 /\ reader \in [at : Points, index : 0 .. RingSlots - 1, byte : Codes]
  BY <1>1 DEF KbdTypes
<1>6. CASE tail = head
  <2>1. reader' \in [at : Points, index : 0 .. RingSlots - 1, byte : Codes] /\ reader'.at = "wait"
    BY <1>3, <1>5, <1>6 DEF Points
  <2> QED BY <1>1, <1>2, <1>3, <1>4, <2>1, ReaderStep
<1>7. CASE tail # head
  <2>1. /\ reader' \in [at : Points, index : 0 .. RingSlots - 1, byte : Codes]
        /\ reader'.at = "copy" /\ reader'.index = tail
    BY <1>3, <1>5, <1>7 DEF Points
  <2>2. k < Len(accepted)
    <3>1. k # Len(accepted)
      BY <1>1, <1>2, <1>7, NextInRing
    <3>2. Len(accepted) \in Nat
      BY <1>1, LenProperties DEF KbdTypes
    <3> QED BY <3>1, <3>2
  <2> QED BY <1>1, <1>2, <1>3, <1>4, <2>1, <2>2, ReaderStep
<1> QED BY <1>6, <1>7

\* SpscRing::pop copies the slot.
LEMMA CopyKeeps ==
    ASSUME KbdInv, PopCopy
    PROVE  KbdInv'
<1>1. KbdTypes
  BY DEF KbdInv
<1>2. PICK k \in 0 .. Len(accepted) : InRing(k) /\ ReaderAt(k)
  BY DEF KbdInv
<1>3. /\ reader.at = "copy"
      /\ reader' = [reader EXCEPT !.at = "advance", !.byte = slots[reader.index]]
      /\ UNCHANGED <<slots, head, tail, accepted, decoder, pending, given>>
  BY DEF PopCopy, At, Ring
<1>4. /\ pending = FreshPending /\ Decoded(k) /\ k < Len(accepted) /\ reader.index = tail
  BY <1>2, <1>3 DEF ReaderAt
<1>5. slots[reader.index] = accepted[k + 1] /\ slots[reader.index] \in Codes
  <2>1. slots[tail] = accepted[k + 1]
    BY <1>1, <1>2, <1>4, NextInRing
  <2>2. slots[tail] \in Codes
    BY <1>1 DEF KbdTypes
  <2> QED BY <1>4, <2>1, <2>2
<1>6. /\ reader' \in [at : Points, index : 0 .. RingSlots - 1, byte : Codes]
      /\ reader'.at = "advance" /\ reader'.index = tail /\ reader'.byte = accepted[k + 1]
  <2>1. reader \in [at : Points, index : 0 .. RingSlots - 1, byte : Codes] /\ "advance" \in Points
    BY <1>1 DEF KbdTypes, Points
  <2> QED BY <1>3, <1>4, <1>5, <2>1
<1> QED BY <1>1, <1>2, <1>3, <1>4, <1>6, ReaderStep

\* WaitQueue::wait_until parks only when the ring is empty.
LEMMA WaitKeeps ==
    ASSUME KbdInv, WaitUntil
    PROVE  KbdInv'
<1>1. KbdTypes
  BY DEF KbdInv
<1>2. PICK k \in 0 .. Len(accepted) : InRing(k) /\ ReaderAt(k)
  BY DEF KbdInv
<1>3. /\ reader.at = "wait"
      /\ reader' = [reader EXCEPT !.at = IF tail = head THEN "parked" ELSE "poll"]
      /\ UNCHANGED <<slots, head, tail, accepted, decoder, pending, given>>
  BY DEF WaitUntil, At, GoTo, Ring
<1>4. pending = FreshPending /\ Decoded(k)
  BY <1>2, <1>3 DEF ReaderAt
<1>5. /\ reader' \in [at : Points, index : 0 .. RingSlots - 1, byte : Codes]
      /\ reader'.at = IF tail = head THEN "parked" ELSE "poll"
  BY <1>1, <1>3 DEF KbdTypes, Points
<1>6. reader'.at = "parked" => k = Len(accepted)
  BY <1>1, <1>2, <1>5, NextInRing
<1>7. reader'.at \in {"parked", "poll"}
  BY <1>5
<1> QED BY <1>1, <1>2, <1>3, <1>4, <1>5, <1>6, <1>7, ReaderStep

\* SpscRing::pop advances the tail: the copied scancode leaves the ring.
LEMMA AdvanceKeeps ==
    ASSUME KbdInv, PopAdvance
    PROVE  KbdInv'
<1>1. KbdTypes
  BY DEF KbdInv
<1>2. PICK k \in 0 .. Len(accepted) : InRing(k) /\ ReaderAt(k)
  BY DEF KbdInv
<1>3. /\ reader.at = "advance" /\ tail' = (reader.index + 1) % RingSlots
      /\ reader' = [reader EXCEPT !.at = "decode"]
      /\ UNCHANGED <<slots, head, accepted, decoder, pending, given>>
  BY DEF PopAdvance, At, GoTo, Ring
<1>4. /\ pending = FreshPending /\ Decoded(k) /\ k < Len(accepted) /\ reader.index = tail
      /\ reader.byte = accepted[k + 1]
  BY <1>2, <1>3 DEF ReaderAt
<1> DEFINE n == Len(accepted) - k
<1>5. /\ RingSlots \in Nat \ {0, 1} /\ Len(accepted) \in Nat /\ k \in Nat /\ k + 1 <= Len(accepted)
      /\ tail \in 0 .. RingSlots - 1
  BY <1>1, <1>4, KeyboardAssumption, LenProperties DEF KbdTypes
<1>6. /\ n \in 1 .. RingSlots - 1 /\ head = (tail + n) % RingSlots
      /\ \A i \in 0 .. n - 1 : slots[(tail + i) % RingSlots] = accepted[k + (i + 1)]
  BY <1>2, <1>5 DEF InRing
<1>7. Len(accepted) - (k + 1) = n - 1
  BY <1>5
<1> HIDE DEF n
<1>8. \A i \in 0 .. n - 1 : (((tail + 1) % RingSlots) + i) % RingSlots = (tail + (i + 1)) % RingSlots
  <2>1. n \in 0 .. RingSlots - 1
    BY <1>5, <1>6
  <2> QED BY <1>5, <2>1, RingArith
<1>9. tail' = (tail + 1) % RingSlots /\ tail' \in 0 .. RingSlots - 1
  <2>1. 1 \in 0 .. RingSlots - 1
    BY <1>5
  <2>2. (tail + 1) % RingSlots \in 0 .. RingSlots - 1
    BY <1>5, <2>1, RingArith
  <2> QED BY <1>3, <1>4, <2>2
<1>10. InRing(k + 1)'
  <2>1. head = (tail' + (n - 1)) % RingSlots
    <3>1. n - 1 \in 0 .. n - 1 /\ (n - 1) + 1 = n
      BY <1>6
    <3>2. (((tail + 1) % RingSlots) + (n - 1)) % RingSlots = (tail + ((n - 1) + 1)) % RingSlots
      BY <1>8, <3>1
    <3> QED BY <1>6, <1>9, <3>1, <3>2
  <2>2. ASSUME NEW i \in 0 .. n - 1 - 1
        PROVE  slots[(tail' + i) % RingSlots] = accepted[(k + 1) + (i + 1)]
    <3>1. /\ i \in 0 .. n - 1 /\ i + 1 \in 0 .. n - 1 /\ k + ((i + 1) + 1) = (k + 1) + (i + 1)
      BY <1>5, <1>6
    <3>2. (((tail + 1) % RingSlots) + i) % RingSlots = (tail + (i + 1)) % RingSlots
      BY <1>8, <3>1
    <3>3. slots[(tail + (i + 1)) % RingSlots] = accepted[k + ((i + 1) + 1)]
      BY <1>6, <3>1
    <3> QED BY <1>9, <3>1, <3>2, <3>3
  <2>3. n - 1 < RingSlots
    BY <1>5, <1>6
  <2> QED BY <1>3, <1>7, <2>1, <2>2, <2>3 DEF InRing
<1>11. /\ reader' \in [at : Points, index : 0 .. RingSlots - 1, byte : Codes]
       /\ reader'.at = "decode" /\ reader'.byte = accepted[k + 1]
  BY <1>1, <1>3, <1>4 DEF KbdTypes, Points
<1>12. ReaderAt(k + 1)'
  <2>1. Decoded(k)'
    BY <1>1, <1>3, <1>4, DecodedStays
  <2>2. (k + 1) - 1 = k /\ k + 1 > 0
    BY <1>5
  <2> QED BY <1>3, <1>4, <1>11, <2>1, <2>2 DEF ReaderAt
<1>13. KbdTypes'
  BY <1>1, <1>3, <1>9, <1>11 DEF KbdTypes
<1>14. k + 1 \in 0 .. Len(accepted')
  BY <1>3, <1>5
<1> QED BY <1>10, <1>12, <1>13, <1>14 DEF KbdInv

\* What a key leaves over fits the buffer.
LEMMA LeftOver ==
    ASSUME pending = FreshPending, NEW rest \in Seq(Chars), Len(rest) <= 2
    PROVE  PushPending(rest) = [bytes |-> rest, pos |-> 0]
<1>1. PendingSlots \in Nat /\ PendingSlots >= 2 /\ Len(rest) \in Nat
  BY KeyboardAssumption, LenProperties
<1>2. pending.bytes \o rest = rest
  <2>1. <<>> \o rest = rest
    BY EmptySeq, ConcatProperties
  <2> QED BY <2>1 DEF FreshPending
<1>3. ~(Len(rest) > PendingSlots)
  BY <1>1
<1>4. PushPending(rest) = [pending EXCEPT !.bytes = rest]
  BY <1>2, <1>3 DEF PushPending
<1> QED BY <1>4 DEF FreshPending

\* poll_event decodes the scancode it popped: what it spells is read, or kept.
LEMMA DecodeKeeps ==
    ASSUME KbdInv, Decode
    PROVE  KbdInv'
<1>1. KbdTypes
  BY DEF KbdInv
<1>2. PICK k \in 0 .. Len(accepted) : InRing(k) /\ ReaderAt(k)
  BY DEF KbdInv
<1> DEFINE event == Feed(decoder, reader.byte).event
           bytes == KeyEventToBytes(event)
<1>3. /\ reader.at = "decode" /\ decoder' = Feed(decoder, reader.byte).d
      /\ IF bytes = <<>> THEN reader' = [reader EXCEPT !.at = "poll"] /\ UNCHANGED <<pending, given>>
         ELSE /\ pending' = PushPending(Tail(bytes)) /\ given' = Append(given, Head(bytes))
              /\ reader' = [reader EXCEPT !.at = "user"]
      /\ UNCHANGED <<slots, head, tail, accepted>>
  BY DEF Decode, At, GoTo, Ring
<1>4. pending = FreshPending /\ Decoded(k - 1) /\ k > 0 /\ reader.byte = accepted[k]
  BY <1>2, <1>3 DEF ReaderAt
<1>5. /\ Len(accepted) \in Nat /\ k \in 1 .. Len(accepted) /\ given \in Seq(Chars)
      /\ reader \in [at : Points, index : 0 .. RingSlots - 1, byte : Codes]
  BY <1>1, <1>4, LenProperties DEF KbdTypes
<1>6. given = Spelled(accepted)[k - 1].out /\ decoder = Spelled(accepted)[k - 1].d
  <2>1. Unread = <<>>
    BY <1>4, FreshUnread
  <2>2. given \o <<>> = given
    BY <1>5, EmptySeq, ConcatProperties
  <2> QED BY <1>4, <2>1, <2>2 DEF Decoded
<1>7. /\ Spelled(accepted)[k].d = Feed(decoder, reader.byte).d
      /\ Spelled(accepted)[k].out = given \o bytes
  <2>1. Spelled(accepted)[k] = SpellNext(Spelled(accepted)[k - 1], accepted[k])
    BY <1>5, SpelledSteps
  <2>2. /\ SpellNext(Spelled(accepted)[k - 1], accepted[k]).d = Feed(Spelled(accepted)[k - 1].d, accepted[k]).d
        /\ SpellNext(Spelled(accepted)[k - 1], accepted[k]).out
             = Spelled(accepted)[k - 1].out
                 \o KeyEventToBytes(Feed(Spelled(accepted)[k - 1].d, accepted[k]).event)
    BY SpellNextFields
  <2> QED BY <1>4, <1>6, <2>1, <2>2
<1>8. bytes \in Seq(Chars) /\ Len(bytes) <= 3
  BY KeyBytes
<1> HIDE DEF event, bytes
<1>9. InRing(k)'
  BY <1>2, <1>3 DEF InRing
<1>10. CASE bytes = <<>>
  <2>1. pending' = FreshPending /\ given' = given /\ reader' = [reader EXCEPT !.at = "poll"]
    BY <1>3, <1>4, <1>10
  <2>2. given \o bytes = given
    BY <1>5, <1>10, EmptySeq, ConcatProperties
  <2>3. Unread' = <<>> /\ given' \o <<>> = given
    <3>1. Unread' = <<>>
      BY <2>1 DEF Unread, FreshPending
    <3> QED BY <1>10, <2>1, <2>2, <3>1
  <2>4. Decoded(k)'
    BY <1>3, <1>7, <2>2, <2>3 DEF Decoded
  <2>5. reader' \in [at : Points, index : 0 .. RingSlots - 1, byte : Codes] /\ reader'.at = "poll"
    BY <1>5, <2>1 DEF Points
  <2>6. KbdTypes'
    BY <1>1, <1>3, <1>4, <2>1, <2>5 DEF KbdTypes
  <2>7. ReaderAt(k)'
    BY <2>1, <2>4, <2>5 DEF ReaderAt
  <2> QED BY <1>3, <1>9, <2>6, <2>7 DEF KbdInv
<1>11. CASE bytes # <<>>
  <2> DEFINE rest == Tail(bytes)
  <2>1. /\ Append(given, Head(bytes)) \in Seq(Chars) /\ rest \in Seq(Chars)
        /\ Len(rest) = Len(bytes) - 1 /\ Append(given, Head(bytes)) \o rest = given \o bytes
    BY <1>5, <1>8, <1>11, HeadFirst
  <2>2. Len(bytes) \in Nat /\ Len(rest) \in Nat /\ Len(rest) <= 2
    BY <1>8, <2>1, LenProperties
  <2> HIDE DEF rest
  <2>3. pending' = [bytes |-> rest, pos |-> 0]
    <3>1. PushPending(rest) = [bytes |-> rest, pos |-> 0]
      BY <1>4, <2>1, <2>2, LeftOver
    <3> QED BY <1>3, <1>11, <3>1 DEF rest
  <2>4. /\ given' = Append(given, Head(bytes)) /\ reader' = [reader EXCEPT !.at = "user"]
    BY <1>3, <1>11
  <2>5. Unread' = rest
    <3>1. pending'.bytes = rest /\ pending'.pos = 0
      BY <2>3
    <3>2. SubSeq(rest, 0 + 1, Len(rest)) = rest
      <4> DEFINE s == SubSeq(rest, 0 + 1, Len(rest))
      <4>1. s \in Seq(Chars) /\ Len(s) = Len(rest) /\ \A i \in 1 .. Len(rest) : s[i] = rest[i]
        BY <2>1, <2>2
      <4> HIDE DEF s
      <4>2. s = rest
        BY <2>1, <4>1, SameSeq
      <4> QED BY <4>2 DEF s
    <3> QED BY <3>1, <3>2 DEF Unread
  <2>6. Decoded(k)'
    BY <1>3, <1>7, <2>1, <2>4, <2>5 DEF Decoded
  <2>7. pending' = FreshPending \/ pending'.pos < Len(pending'.bytes)
    <3>1. CASE Len(rest) = 0
      BY <2>1, <2>3, <3>1, EmptySeq DEF FreshPending
    <3>2. CASE Len(rest) # 0
      BY <2>2, <2>3, <3>2
    <3> QED BY <3>1, <3>2
  <2>8. reader' \in [at : Points, index : 0 .. RingSlots - 1, byte : Codes] /\ reader'.at = "user"
    BY <1>5, <2>4 DEF Points
  <2>9. KbdTypes'
    <3>1. pending' \in [bytes : Seq(Chars), pos : Nat]
      BY <2>1, <2>3
    <3> QED BY <1>1, <1>3, <2>1, <2>4, <2>8, <3>1 DEF KbdTypes
  <2>10. ReaderAt(k)'
    BY <2>6, <2>7, <2>8 DEF ReaderAt
  <2> QED BY <1>3, <1>9, <2>9, <2>10 DEF KbdInv
<1> QED BY <1>10, <1>11

LEMMA KbdNext_Inv == KbdInv /\ [KbdNext]_kbdVars => KbdInv'
<1> SUFFICES ASSUME KbdInv, [KbdNext]_kbdVars PROVE KbdInv'
  OBVIOUS
<1>1. ASSUME NEW byte \in Scancodes, KeyInterrupt(byte) PROVE KbdInv'
  <2>1. byte \in Codes /\ PushScancode(byte)
    BY <1>1 DEF KeyInterrupt, Codes
  <2> QED BY <2>1, PushKeeps
<1>2. CASE AckInterrupt
  <2>1. AckByte \in Codes /\ PushScancode(AckByte)
    BY <1>2 DEF AckInterrupt, Codes
  <2> QED BY <2>1, PushKeeps
<1>3. CASE ReadPending
  BY <1>3, PendingKeeps
<1>4. CASE ReadBlocks
  BY <1>4, BlocksKeeps
<1>5. CASE PopLoad
  BY <1>5, LoadKeeps
<1>6. CASE PopCopy
  BY <1>6, CopyKeeps
<1>7. CASE PopAdvance
  BY <1>7, AdvanceKeeps
<1>8. CASE Decode
  BY <1>8, DecodeKeeps
<1>9. CASE WaitUntil
  BY <1>9, WaitKeeps
<1>10. CASE UNCHANGED kbdVars
  <2>1. UNCHANGED <<slots, head, tail, decoder, pending, reader, accepted, given>>
    BY <1>10 DEF kbdVars
  <2> QED BY <2>1 DEF KbdInv, KbdTypes, InRing, ReaderAt, Decoded, Unread
<1> QED BY <1>1, <1>2, <1>3, <1>4, <1>5, <1>6, <1>7, <1>8, <1>9, <1>10 DEF KbdNext

\* What the scancodes that left the ring spelled begins what all of them spell, and is all
\* of it once none is left.
LEMMA KbdInv_Order == KbdInv => KeysReachReader
<1> SUFFICES ASSUME KbdInv PROVE KeysReachReader
  OBVIOUS
<1>1. KbdTypes
  BY DEF KbdInv
<1>2. PICK k \in 0 .. Len(accepted) : InRing(k) /\ ReaderAt(k)
  BY DEF KbdInv
<1>3. accepted \in Seq(Codes) /\ Len(accepted) \in Nat
  BY <1>1, LenProperties DEF KbdTypes
<1>4. \E j \in 0 .. Len(accepted) : Decoded(j) /\ (At("parked") => j = Len(accepted))
  <2>1. CASE reader.at = "decode"
    <3>1. k - 1 \in 0 .. Len(accepted) /\ Decoded(k - 1)
      BY <1>2, <1>3, <2>1 DEF ReaderAt
    <3> QED BY <2>1, <3>1 DEF At
  <2>2. CASE reader.at # "decode"
    BY <1>2, <2>2 DEF ReaderAt, At
  <2> QED BY <2>1, <2>2
<1>5. PICK j \in 0 .. Len(accepted) : Decoded(j) /\ (At("parked") => j = Len(accepted))
  BY <1>4
<1>6. given \o Unread = Spelled(accepted)[j].out
  BY <1>5 DEF Decoded
<1>7. IsPrefix(Spelled(accepted)[j].out, Spelled(accepted)[Len(accepted)].out)
  BY <1>3, SpelledGrows
<1> QED BY <1>5, <1>6, <1>7 DEF KeysReachReader, Spelling

\* Every byte the process reads or will read next is what the scancodes in the ring spell,
\* in their order, whenever the interrupt comes, and a parked process has read them all:
\* sys_read, SpscRing::push and pop, READ_QUEUE.
THEOREM KeysStayInOrder == KbdSpec => []KeysReachReader
<1>1. KbdInit => KbdInv
  BY KbdInit_Inv
<1>2. KbdInv /\ [KbdNext]_kbdVars => KbdInv'
  BY KbdNext_Inv
<1>3. KbdInv => KeysReachReader
  BY KbdInv_Order
<1> QED BY <1>1, <1>2, <1>3, PTL DEF KbdSpec

-----------------------------------------------------------------------------
(* Recursive functions on the places of a sequence. *)

\* A recursion that goes from place to place within a set is a function into that set.
Recursion(f, S, a, n, step) ==
    f \in [0 .. n -> S] /\ f[0] = a /\ \A i \in 1 .. n : f[i] = step[i][f[i - 1]]
LEMMA RecursionExists ==
    ASSUME NEW S, NEW a \in S, NEW n \in Nat, NEW step \in [1 .. n -> [S -> S]]
    PROVE  \E f : Recursion(f, S, a, n, step)
<1> DEFINE Runs(g, m) == g[0] = a /\ \A i \in 1 .. m : g[i] = step[i][g[i - 1]]
           T == {m \in Nat : m <= n => \E g \in [0 .. m -> S] : Runs(g, m)}
<1>1. 0 \in T
  <2> DEFINE g == [i \in 0 .. 0 |-> a]
  <2>1. g \in [0 .. 0 -> S] /\ Runs(g, 0)
    OBVIOUS
  <2> QED BY <2>1
<1>2. ASSUME NEW m \in Nat, m \in T PROVE m + 1 \in T
  <2>1. SUFFICES ASSUME m + 1 <= n PROVE \E g \in [0 .. m + 1 -> S] : Runs(g, m + 1)
    OBVIOUS
  <2>2. PICK g \in [0 .. m -> S] : Runs(g, m)
    BY <1>2, <2>1
  <2> DEFINE h == [i \in 0 .. m + 1 |-> IF i <= m THEN g[i] ELSE step[m + 1][g[m]]]
  <2>3. m + 1 \in 1 .. n /\ g[m] \in S
    BY <2>1, <2>2
  <2>4. step[m + 1][g[m]] \in S
    BY <2>3
  <2>5. h \in [0 .. m + 1 -> S] /\ h[m + 1] = step[m + 1][g[m]] /\ \A i \in 0 .. m : h[i] = g[i]
    BY <2>2, <2>4
  <2> HIDE DEF h
  <2>6. ASSUME NEW i \in 1 .. m + 1 PROVE h[i] = step[i][h[i - 1]]
    <3>1. CASE i = m + 1
      BY <2>5, <3>1
    <3>2. CASE i \in 1 .. m
      <4>1. i - 1 \in 0 .. m /\ i \in 0 .. m
        BY <3>2
      <4> QED BY <2>2, <2>5, <3>2, <4>1
    <3> QED BY <3>1, <3>2
  <2>7. h[0] = a
    BY <2>2, <2>5
  <2> QED BY <2>5, <2>6, <2>7
<1> HIDE DEF T
<1>3. n \in T
  BY <1>1, <1>2, NatInductionSet
<1> QED BY <1>3 DEF T, Recursion

\* What holds at the start and from each place to the next holds at every place.
LEMMA FromPlaceToPlace ==
    ASSUME NEW n \in Nat, NEW T, 0 \in T, \A i \in 1 .. n : i - 1 \in T => i \in T
    PROVE  \A i \in 0 .. n : i \in T
<1> DEFINE U == {m \in Nat : m <= n => m \in T}
<1>1. 0 \in U
  OBVIOUS
<1>2. ASSUME NEW m \in Nat, m \in U PROVE m + 1 \in U
  <2>1. CASE m + 1 <= n
    <3>1. m + 1 \in 1 .. n /\ (m + 1) - 1 = m /\ m \in T
      BY <1>2, <2>1
    <3> QED BY <3>1
  <2> QED BY <2>1
<1> HIDE DEF U
<1>3. Nat \subseteq U
  BY <1>1, <1>2, NatInductionSet
<1> QED BY <1>3 DEF U

-----------------------------------------------------------------------------
(* Paths. *)

\* normalize keeps a stack of components.
LEMMA NormalizeSteps ==
    ASSUME NEW R, NEW path \in Seq(R)
    PROVE  \E dirs \in [0 .. Len(path) -> Seq(R)] :
              /\ dirs[0] = <<>> /\ Normalize(path) = dirs[Len(path)]
              /\ \A k \in 1 .. Len(path) : dirs[k] = Component(dirs[k - 1], path[k])
<1>1. Len(path) \in Nat /\ \A k \in 1 .. Len(path) : path[k] \in R
  BY LenProperties, ElementOfSeq
<1> DEFINE e == <<>>
           step == [k \in 1 .. Len(path) |-> [d \in Seq(R) |-> Component(d, path[k])]]
           Is(f) == f = [k \in 0 .. Len(path) |-> IF k = 0 THEN e ELSE Component(f[k - 1], path[k])]
<1>2. ASSUME NEW d \in Seq(R), NEW name \in R PROVE Component(d, name) \in Seq(R)
  <2>1. CASE name = ".." /\ d # <<>>
    <3>1. Component(d, name) = SubSeq(d, 1, Len(d) - 1)
      BY <2>1 DEF Component, Front
    <3>2. Len(d) \in Nat \ {0}
      BY <2>1, LenProperties, EmptySeq
    <3> QED BY <3>1, <3>2, SubSeqProperties
  <2>2. CASE (name = ".." /\ d = <<>>) \/ name \in {".", ""}
    BY <2>2 DEF Component
  <2>3. CASE name \notin {"..", ".", ""}
    <3>1. Component(d, name) = Append(d, name)
      BY <2>3 DEF Component
    <3> QED BY <3>1, AppendProperties
  <2> QED BY <2>1, <2>2, <2>3
<1>3. step \in [1 .. Len(path) -> [Seq(R) -> Seq(R)]]
  BY <1>1, <1>2
<1>4. e \in Seq(R)
  BY EmptySeq
<1> HIDE DEF e
<1>5. \E f : Is(f)
  <2>1. PICK f : Recursion(f, Seq(R), e, Len(path), step)
    <3> HIDE DEF step, Is
    <3> QED BY <1>1, <1>3, <1>4, RecursionExists
  <2>2. \A k \in 0 .. Len(path) : f[k] = IF k = 0 THEN e ELSE Component(f[k - 1], path[k])
    <3>1. ASSUME NEW k \in 1 .. Len(path) PROVE f[k] = Component(f[k - 1], path[k])
      <4>1. k - 1 \in 0 .. Len(path) /\ f[k - 1] \in Seq(R) /\ f[k] = step[k][f[k - 1]]
        <5> HIDE DEF step
        <5> QED BY <1>1, <2>1 DEF Recursion
      <4> QED BY <4>1
    <3> HIDE DEF step, Is
    <3> QED BY <1>1, <2>1, <3>1 DEF Recursion
  <2>3. Is(f)
    BY <2>1, <2>2 DEF Recursion
  <2> QED BY <2>3
<1> DEFINE f == CHOOSE g : Is(g)
<1>6. Is(f)
  BY <1>5
<1>7. Normalize(path) = f[Len(path)]
  BY DEF Normalize, e
<1> HIDE DEF f
<1>8. f[0] = e /\ \A k \in 1 .. Len(path) : f[k] = Component(f[k - 1], path[k])
  BY <1>1, <1>6
<1>9. \A k \in 0 .. Len(path) : f[k] \in Seq(R)
  <2> DEFINE T == {k \in Nat : f[k] \in Seq(R)}
  <2>1. 0 \in T
    BY <1>4, <1>8
  <2>2. ASSUME NEW k \in 1 .. Len(path), k - 1 \in T PROVE k \in T
    <3>1. f[k - 1] \in Seq(R) /\ k \in Nat
      BY <2>2
    <3>2. Component(f[k - 1], path[k]) \in Seq(R)
      BY <1>1, <1>2, <3>1
    <3> QED BY <1>8, <3>1, <3>2
  <2> HIDE DEF T
  <2>3. \A k \in 0 .. Len(path) : k \in T
    BY <1>1, <2>1, <2>2, FromPlaceToPlace
  <2> QED BY <2>3 DEF T
<1>10. f \in [0 .. Len(path) -> Seq(R)]
  BY <1>6, <1>9
<1> QED BY <1>7, <1>8, <1>10 DEF e

\* How many names the last n components take back.
TakesBack(path, back, n) ==
    LET name == path[Len(path) - n + 1]
    IN  IF name = ".." THEN back + 1
        ELSE IF name \in {".", ""} \/ back = 0 THEN back
        ELSE back - 1
\* Backs is that count, place by place.
LEMMA BacksSteps ==
    ASSUME NEW path, Len(path) \in Nat
    PROVE  /\ Backs(path) \in [0 .. Len(path) -> Nat] /\ Backs(path)[0] = 0
           /\ \A n \in 1 .. Len(path) : Backs(path)[n] = TakesBack(path, Backs(path)[n - 1], n)
<1> DEFINE step == [n \in 1 .. Len(path) |-> [b \in Nat |-> TakesBack(path, b, n)]]
           Is(f) == f = [n \in 0 .. Len(path) |->
                           IF n = 0 THEN 0
                           ELSE LET name == path[Len(path) - n + 1]
                                IN  IF name = ".." THEN f[n - 1] + 1
                                    ELSE IF name \in {".", ""} \/ f[n - 1] = 0 THEN f[n - 1]
                                    ELSE f[n - 1] - 1]
<1>1. ASSUME NEW b \in Nat, NEW n \in 1 .. Len(path) PROVE TakesBack(path, b, n) \in Nat
  <2> DEFINE name == path[Len(path) - n + 1]
  <2>1. TakesBack(path, b, n) = IF name = ".." THEN b + 1
                                ELSE IF name \in {".", ""} \/ b = 0 THEN b
                                ELSE b - 1
    BY DEF TakesBack
  <2>2. b + 1 \in Nat /\ (b # 0 => b - 1 \in Nat)
    OBVIOUS
  <2> QED BY <2>1, <2>2, Zenon
<1>2. step \in [1 .. Len(path) -> [Nat -> Nat]]
  BY <1>1
<1>3. ASSUME NEW f PROVE Is(f) <=> f = [n \in 0 .. Len(path) |-> IF n = 0 THEN 0 ELSE TakesBack(path, f[n - 1], n)]
  BY DEF TakesBack
<1>4. \E f : Is(f)
  <2>1. PICK f : Recursion(f, Nat, 0, Len(path), step)
    <3> HIDE DEF step, Is
    <3> QED BY <1>2, RecursionExists
  <2>2. \A n \in 0 .. Len(path) : f[n] = IF n = 0 THEN 0 ELSE TakesBack(path, f[n - 1], n)
    <3>1. ASSUME NEW n \in 1 .. Len(path) PROVE f[n] = TakesBack(path, f[n - 1], n)
      <4>1. n - 1 \in 0 .. Len(path) /\ f[n - 1] \in Nat /\ f[n] = step[n][f[n - 1]]
        <5> HIDE DEF step
        <5> QED BY <2>1 DEF Recursion
      <4> QED BY <4>1
    <3> HIDE DEF step, Is
    <3> QED BY <2>1, <3>1 DEF Recursion
  <2> HIDE DEF Is
  <2>3. Is(f)
    BY <1>3, <2>1, <2>2 DEF Recursion
  <2> QED BY <2>3
<1> DEFINE f == CHOOSE g : Is(g)
<1>5. Is(f)
  BY <1>4
<1>6. Backs(path) = f
  BY DEF Backs
<1> HIDE DEF f, Is
<1>7. f[0] = 0 /\ \A n \in 1 .. Len(path) : f[n] = TakesBack(path, f[n - 1], n)
  BY <1>3, <1>5
<1>8. \A n \in 0 .. Len(path) : f[n] \in Nat
  <2> DEFINE T == {n \in Nat : f[n] \in Nat}
  <2>1. 0 \in T
    BY <1>7
  <2>2. ASSUME NEW n \in 1 .. Len(path), n - 1 \in T PROVE n \in T
    <3>1. f[n - 1] \in Nat /\ n \in Nat
      BY <2>2
    <3> QED BY <1>1, <1>7, <3>1
  <2> HIDE DEF T
  <2>3. \A n \in 0 .. Len(path) : n \in T
    BY <2>1, <2>2, FromPlaceToPlace
  <2> QED BY <2>3 DEF T
<1>9. f \in [0 .. Len(path) -> Nat]
  BY <1>3, <1>5, <1>8
<1> QED BY <1>6, <1>7, <1>9

\* The names that count are put down one after the other.
LEMMA LocationSteps ==
    ASSUME NEW R, NEW path \in Seq(R)
    PROVE  \E left \in [0 .. Len(path) -> Seq(R)] :
              /\ left[0] = <<>> /\ Location(path) = LowerCased(left[Len(path)])
              /\ \A k \in 1 .. Len(path) :
                   left[k] = IF Counts(path, k) THEN Append(left[k - 1], path[k]) ELSE left[k - 1]
<1>1. Len(path) \in Nat /\ \A k \in 1 .. Len(path) : path[k] \in R
  BY LenProperties, ElementOfSeq
<1> DEFINE e == <<>>
           With(d, k) == IF Counts(path, k) THEN Append(d, path[k]) ELSE d
           step == [k \in 1 .. Len(path) |-> [d \in Seq(R) |-> With(d, k)]]
           Is(f) == f = [k \in 0 .. Len(path) |-> IF k = 0 THEN e ELSE With(f[k - 1], k)]
<1>2. ASSUME NEW d \in Seq(R), NEW k \in 1 .. Len(path) PROVE With(d, k) \in Seq(R)
  BY <1>1, AppendProperties
<1> DEFINE f == CHOOSE g : Is(g)
<1>3. Location(path) = LowerCased(f[Len(path)])
  BY DEF Location
<1>4. e \in Seq(R)
  BY EmptySeq
<1> HIDE DEF e, With
<1>5. step \in [1 .. Len(path) -> [Seq(R) -> Seq(R)]]
  BY <1>2
<1> HIDE DEF f
<1>6. \E g : Is(g)
  <2>1. PICK g : Recursion(g, Seq(R), e, Len(path), step)
    <3> HIDE DEF step, Is
    <3> QED BY <1>1, <1>4, <1>5, RecursionExists
  <2>2. \A k \in 0 .. Len(path) : g[k] = IF k = 0 THEN e ELSE With(g[k - 1], k)
    <3>1. ASSUME NEW k \in 1 .. Len(path) PROVE g[k] = With(g[k - 1], k)
      <4>1. k - 1 \in 0 .. Len(path) /\ g[k - 1] \in Seq(R) /\ g[k] = step[k][g[k - 1]]
        <5> HIDE DEF step
        <5> QED BY <1>1, <2>1 DEF Recursion
      <4> QED BY <4>1
    <3> HIDE DEF step, Is
    <3> QED BY <1>1, <2>1, <3>1 DEF Recursion
  <2>3. Is(g)
    BY <2>1, <2>2 DEF Recursion
  <2> QED BY <2>3
<1>7. Is(f)
  BY <1>6 DEF f
<1>8. f[0] = e /\ \A k \in 1 .. Len(path) : f[k] = With(f[k - 1], k)
  BY <1>1, <1>7
<1>9. \A k \in 0 .. Len(path) : f[k] \in Seq(R)
  <2> DEFINE T == {k \in Nat : f[k] \in Seq(R)}
  <2>1. 0 \in T
    BY <1>4, <1>8
  <2>2. ASSUME NEW k \in 1 .. Len(path), k - 1 \in T PROVE k \in T
    <3>1. f[k - 1] \in Seq(R) /\ k \in Nat
      BY <2>2
    <3> QED BY <1>2, <1>8, <3>1
  <2> HIDE DEF T
  <2>3. \A k \in 0 .. Len(path) : k \in T
    BY <1>1, <2>1, <2>2, FromPlaceToPlace
  <2> QED BY <2>3 DEF T
<1>10. f \in [0 .. Len(path) -> Seq(R)]
  BY <1>7, <1>9
<1> QED BY <1>3, <1>8, <1>10 DEF e, With

\* The stack of normalize, without the names the rest of the path takes back, is what has
\* been put down so far.
Above(above, name, b) ==
    above = IF name = ".." THEN b + 1 ELSE IF name \in {".", ""} \/ b = 0 THEN b ELSE b - 1
\* The first names of a path, without the last n.
Without(dirs, n) == [i \in 1 .. Len(dirs) - n |-> dirs[i]]
\* What normalize makes of a path is where the path leads, on a disk that does not tell
\* capitals apart: dropping what a ".." takes back from the front, as the code does, and
\* from the end, as Location does, come to the same.
LEMMA NormalizeIsLocation ==
    ASSUME NEW R, NEW path \in Seq(R)
    PROVE  LowerCased(Normalize(path)) = Location(path) /\ Normalize(path) \in Seq(R)
<1>1. Len(path) \in Nat /\ \A k \in 1 .. Len(path) : path[k] \in R
  BY LenProperties, ElementOfSeq
<1>2. PICK dirs \in [0 .. Len(path) -> Seq(R)] :
        /\ dirs[0] = <<>> /\ Normalize(path) = dirs[Len(path)]
        /\ \A k \in 1 .. Len(path) : dirs[k] = Component(dirs[k - 1], path[k])
  BY NormalizeSteps
<1>3. PICK left \in [0 .. Len(path) -> Seq(R)] :
        /\ left[0] = <<>> /\ Location(path) = LowerCased(left[Len(path)])
        /\ \A k \in 1 .. Len(path) :
             left[k] = IF Counts(path, k) THEN Append(left[k - 1], path[k]) ELSE left[k - 1]
  BY LocationSteps
<1> DEFINE L == Len(path)
           back == Backs(path)
<1>4. back \in [0 .. L -> Nat] /\ back[0] = 0 /\ \A n \in 1 .. L : back[n] = TakesBack(path, back[n - 1], n)
  BY <1>1, BacksSteps
\* d is the stack before a component, b how much is taken back behind it.
<1>5. ASSUME NEW d \in Seq(R), NEW b \in Nat, NEW name \in R, NEW above \in Nat,
             Above(above, name, b)
      PROVE  Without(Component(d, name), b) =
                 IF name \notin {"..", ".", ""} /\ b = 0 THEN Append(Without(d, above), name)
                 ELSE Without(d, above)
  <2> DEFINE e == <<>>
  <2>1. e \in Seq(R) /\ Len(e) = 0
    BY EmptySeq
  <2>2. Len(d) \in Nat /\ d = [i \in 1 .. Len(d) |-> d[i]] /\ (d # e => Len(d) # 0)
    BY LenProperties, EmptySeq
  <2> HIDE DEF e
  <2>3. CASE name = ".." /\ d = e
    <3>1. Len(d) - (b + 1) < 1 /\ Len(d) - b < 1
      BY <2>1, <2>3
    <3>2. Without(d, b + 1) = Without(d, b)
      <4>1. 1 .. Len(d) - (b + 1) = 1 .. Len(d) - b
        BY <2>1, <2>3
      <4> QED BY <4>1 DEF Without
    <3>3. Component(d, name) = d
      BY <2>3 DEF Component, e
    <3> QED BY <1>5, <2>3, <3>2, <3>3 DEF Above
  <2>4. CASE name = ".." /\ d # e
    <3>1. Component(d, name) = SubSeq(d, 1, Len(d) - 1)
      BY <2>4 DEF Component, Front, e
    <3> DEFINE f == SubSeq(d, 1, Len(d) - 1)
    <3>2. Len(f) = Len(d) - 1 /\ \A i \in 1 .. Len(d) - 1 : f[i] = d[i]
      BY <2>2, <2>4, SubSeqProperties
    <3> HIDE DEF f
    <3>3. 1 .. Len(f) - b = 1 .. Len(d) - (b + 1) /\ 1 .. Len(f) - b \subseteq 1 .. Len(d) - 1
      BY <2>2, <3>2
    <3>4. Without(f, b) = Without(d, b + 1)
      BY <3>2, <3>3 DEF Without
    <3> QED BY <1>5, <2>4, <3>1, <3>4 DEF f, Above
  <2>5. CASE name \in {".", ""}
    BY <1>5, <2>5 DEF Component, Above
  <2>6. CASE name \notin {"..", ".", ""}
    <3>1. Component(d, name) = Append(d, name)
      BY <2>6 DEF Component
    <3> DEFINE f == Append(d, name)
    <3>2. /\ Len(f) = Len(d) + 1 /\ f[Len(d) + 1] = name
          /\ \A i \in 1 .. Len(d) : f[i] = d[i] /\ f \in Seq(R)
      BY <2>2, AppendProperties
    <3>3. f = [i \in 1 .. Len(f) |-> f[i]]
      BY <2>2, AppendProperties, LenProperties
    <3> HIDE DEF f
    <3>4. CASE b = 0
      <4>1. Without(f, b) = f /\ Without(d, b) = d
        BY <2>2, <3>2, <3>3, <3>4 DEF Without
      <4> QED BY <1>5, <2>6, <3>1, <3>4, <4>1 DEF f, Above
    <3>5. CASE b # 0
      <4>1. 1 .. Len(f) - b = 1 .. Len(d) - (b - 1) /\ 1 .. Len(f) - b \subseteq 1 .. Len(d)
        BY <2>2, <3>2, <3>5
      <4>2. Without(f, b) = Without(d, b - 1)
        BY <3>2, <4>1 DEF Without
      <4> QED BY <1>5, <2>6, <3>1, <3>5, <4>2 DEF f, Above
    <3> QED BY <3>4, <3>5
  <2> QED BY <2>3, <2>4, <2>5, <2>6
<1> DEFINE T == {k \in Nat : left[k] = Without(dirs[k], back[L - k])}
<1>6. 0 \in T
  <2>1. left[0] = Without(dirs[0], back[L])
    <3> DEFINE e == <<>>
    <3>1. Len(e) = 0 /\ e = [i \in 1 .. 0 |-> e[i]]
      OBVIOUS
    <3> HIDE DEF e
    <3>2. 1 .. Len(e) - back[L] = 1 .. 0
      BY <1>1, <1>4, <3>1
    <3>3. Without(e, back[L]) = e
      BY <3>1, <3>2 DEF Without
    <3> QED BY <1>2, <1>3, <3>3 DEF e
  <2>2. L - 0 = L
    BY <1>1
  <2> QED BY <2>1, <2>2
<1>7. ASSUME NEW k \in 1 .. L, k - 1 \in T PROVE k \in T
  <2> DEFINE d == dirs[k - 1]
             b == back[L - k]
             name == path[k]
  <2>1. k - 1 \in 0 .. L /\ L - k \in 0 .. L /\ L - k + 1 \in 1 .. L /\ L - (k - 1) = L - k + 1
        /\ (L - k + 1) - 1 = L - k /\ L - (L - k + 1) + 1 = k
    BY <1>1
  <2>2. d \in Seq(R) /\ b \in Nat /\ name \in R /\ back[L - k + 1] \in Nat
    <3>1. d \in Seq(R) /\ name \in R
      BY <1>1, <1>2, <2>1
    <3>2. L - k + 1 \in 0 .. L
      BY <1>1, <2>1
    <3> HIDE DEF back
    <3>3. b \in Nat /\ back[L - k + 1] \in Nat
      BY <1>4, <2>1, <3>2
    <3> QED BY <3>1, <3>3
  <2>3. back[L - k + 1] = TakesBack(path, b, L - k + 1)
    BY <1>4, <2>1
  <2>4. Above(back[L - k + 1], name, b)
    BY <2>1, <2>3 DEF TakesBack, Above
  <2>5. left[k - 1] = Without(d, back[L - k + 1])
    BY <1>7, <2>1
  <2>6. Counts(path, k) <=> name \notin {"..", ".", ""} /\ b = 0
    BY DEF Counts
  <2>7. left[k] = IF Counts(path, k) THEN Append(left[k - 1], name) ELSE left[k - 1]
    BY <1>3
  <2>8. dirs[k] = Component(d, name)
    BY <1>2
  <2> HIDE DEF d, b, name, T
  <2>9. Without(Component(d, name), b) = left[k]
    <3>1. Without(Component(d, name), b) =
             IF name \notin {"..", ".", ""} /\ b = 0 THEN Append(Without(d, back[L - k + 1]), name)
             ELSE Without(d, back[L - k + 1])
      BY <1>5, <2>2, <2>4, ZenonT(40)
    <3> QED BY <2>5, <2>6, <2>7, <3>1
  <2> QED BY <2>8, <2>9 DEF T, b
<1> HIDE DEF T
<1>8. \A k \in 0 .. L : k \in T
  BY <1>1, <1>6, <1>7, FromPlaceToPlace
<1>9. left[L] = Without(dirs[L], back[L - L])
  BY <1>1, <1>8 DEF T
<1>10. dirs[L] \in Seq(R) /\ back[L - L] = 0
  BY <1>1, <1>2, <1>4
<1>11. Without(dirs[L], 0) = dirs[L]
  <2>1. Len(dirs[L]) \in Nat /\ dirs[L] = [i \in 1 .. Len(dirs[L]) |-> dirs[L][i]]
    BY <1>10, LenProperties
  <2> QED BY <2>1 DEF Without
<1> QED BY <1>2, <1>3, <1>9, <1>10, <1>11

-----------------------------------------------------------------------------
(* The stream of an answer. *)

\* The events of an answer's content and their blocks.
ContentKinds == {"text_delta", "thinking_delta", "tool_start", "input_delta", "block_stop"}
BlockTypes == [kind : {"text", "thinking", "tool"}, id : Nat, call : ToolCalls]
EventTypes == [kind : ContentKinds, block : BlockTypes]
\* What an event does to a tool block: it begins it, keeps it open, or needs it open.
Starts(e) == e.kind = "tool_start"
Opens(e) == e.kind \in {"tool_start", "input_delta"}
Closes(e) == e.kind \in {"input_delta", "block_stop"}
\* A tool block that is begun is gone on with, and the blocks begun are those in Tools,
\* in the order of their ids.
Flows(s, n, Tools) ==
    /\ \A j \in 1 .. n : Opens(s[j]) /\ j < n => Closes(s[j + 1])
    /\ \A j \in 1 .. n : Starts(s[j]) => s[j].block \in Tools
    /\ \A j, l \in 1 .. n : Starts(s[j]) /\ Starts(s[l]) /\ j < l => s[j].block.id < s[l].block.id
\* The tool blocks among the first n.
ToolsAmong(blocks, n) == {b \in BlockTypes : b.kind = "tool" /\ \E i \in 1 .. n : b = blocks[i]}

\* The call of a block that is none is a call.
LEMMA NoCallType == NoCall \in ToolCalls
<1>1. "none" \in Words /\ NoTarget = <<"none">>
  BY DEF Words, NoTarget
<1>2. NoTarget \in Seq(Words)
  <2> DEFINE n == "none"
  <2> HIDE DEF n
  <2>1. n \in Words /\ NoTarget = <<n>>
    BY <1>1 DEF n
  <2> QED BY <2>1
<1> HIDE DEF NoTarget
<1>3. NoCall = [tool |-> "none", target |-> NoTarget, input |-> "none"]
  BY DEF NoCall
<1> QED BY <1>1, <1>2, <1>3 DEF ToolCalls

\* The events of one block.
LEMMA BlockEventsFlow ==
    ASSUME NEW b \in BlockTypes
    PROVE  LET q == BlockEvents(b)
           IN  /\ q \in Seq(EventTypes) /\ Len(q) \in {2, 3}
               /\ \A j \in 1 .. Len(q) : /\ Opens(q[j]) => j < Len(q) /\ Closes(q[j + 1])
                                         /\ Starts(q[j]) => j = 1 /\ q[j].block = b /\ b.kind = "tool"
<1> DEFINE E(kind) == [kind |-> kind, block |-> b]
<1>1. \A kind \in ContentKinds : E(kind) \in EventTypes /\ Sse(kind, b) = E(kind)
  BY DEF EventTypes, Sse
<1>2. CASE b.kind \in {"text", "thinking"}
  <2>1. PICK kind \in {"text_delta", "thinking_delta"} : BlockEvents(b) = <<Sse(kind, b), Sse("block_stop", b)>>
    BY <1>2 DEF BlockEvents
  <2>2. BlockEvents(b) = <<E(kind), E("block_stop")>>
    BY <1>1, <2>1 DEF ContentKinds
  <2>3. E(kind) \in EventTypes /\ E("block_stop") \in EventTypes
    BY <1>1 DEF ContentKinds
  <2> QED BY <2>2, <2>3 DEF Opens, Starts, Closes
<1>3. CASE b.kind = "tool" /\ b.call.input = "empty"
  <2>1. BlockEvents(b) = <<E("tool_start"), E("block_stop")>>
    BY <1>1, <1>3 DEF BlockEvents, ContentKinds
  <2>2. E("tool_start") \in EventTypes /\ E("block_stop") \in EventTypes
    BY <1>1 DEF ContentKinds
  <2> QED BY <1>3, <2>1, <2>2 DEF Opens, Starts, Closes
<1>4. CASE b.kind = "tool" /\ b.call.input # "empty"
  <2>1. BlockEvents(b) = <<E("tool_start"), E("input_delta"), E("block_stop")>>
    BY <1>1, <1>4 DEF BlockEvents, ContentKinds
  <2>2. E("tool_start") \in EventTypes /\ E("input_delta") \in EventTypes /\ E("block_stop") \in EventTypes
    BY <1>1 DEF ContentKinds
  <2> QED BY <1>4, <2>1, <2>2 DEF Opens, Starts, Closes
<1> QED BY <1>2, <1>3, <1>4 DEF BlockTypes

\* The events of one more block.
LEMMA MoreEventsFlow ==
    ASSUME NEW blocks, NEW m \in Nat \ {0}, blocks[m] \in BlockTypes,
           \A i \in 1 .. m - 1 : blocks[i].id < blocks[m].id,
           NEW p \in Seq(EventTypes), Flows(p, Len(p), ToolsAmong(blocks, m - 1)),
           \A j \in 1 .. Len(p) : Opens(p[j]) => j < Len(p)
    PROVE  LET s == p \o BlockEvents(blocks[m])
           IN  /\ s \in Seq(EventTypes) /\ Flows(s, Len(s), ToolsAmong(blocks, m))
               /\ \A j \in 1 .. Len(s) : Opens(s[j]) => j < Len(s)
<1> DEFINE q == BlockEvents(blocks[m])
           s == p \o q
           b == blocks[m]
<1>1. /\ q \in Seq(EventTypes) /\ Len(q) \in {2, 3}
      /\ \A j \in 1 .. Len(q) : /\ Opens(q[j]) => j < Len(q) /\ Closes(q[j + 1])
                                /\ Starts(q[j]) => j = 1 /\ q[j].block = b /\ b.kind = "tool"
  BY BlockEventsFlow
<1> HIDE DEF q
<1>2. /\ s \in Seq(EventTypes) /\ Len(s) = Len(p) + Len(q) /\ Len(p) \in Nat
      /\ \A j \in 1 .. Len(s) : s[j] = IF j <= Len(p) THEN p[j] ELSE q[j - Len(p)]
  BY <1>1, ConcatProperties, LenProperties
<1> HIDE DEF s
<1>3. ASSUME NEW j \in 1 .. Len(s), Opens(s[j]) PROVE j < Len(s) /\ Closes(s[j + 1])
  <2>1. CASE j <= Len(p)
    <3>1. Opens(p[j]) /\ j \in 1 .. Len(p)
      BY <1>2, <1>3, <2>1
    <3>2. j < Len(p) /\ Closes(p[j + 1])
      BY <3>1 DEF Flows
    <3>3. j + 1 \in 1 .. Len(s) /\ j + 1 <= Len(p) /\ j < Len(s)
      BY <1>1, <1>2, <3>2
    <3> QED BY <1>2, <3>2, <3>3
  <2>2. CASE j > Len(p)
    <3> DEFINE i == j - Len(p)
    <3>1. i \in 1 .. Len(q) /\ s[j] = q[i]
      BY <1>1, <1>2, <2>2
    <3>2. i < Len(q) /\ Closes(q[i + 1])
      BY <1>1, <1>3, <3>1
    <3>3. j + 1 \in 1 .. Len(s) /\ ~(j + 1 <= Len(p)) /\ (j + 1) - Len(p) = i + 1 /\ j < Len(s)
      BY <1>1, <1>2, <2>2, <3>2
    <3> QED BY <1>2, <3>2, <3>3
  <2> QED BY <1>2, <2>1, <2>2
\* Where a block begins: in p, or at the first event behind it.
<1>4. ASSUME NEW j \in 1 .. Len(s), Starts(s[j])
      PROVE  \/ j \in 1 .. Len(p) /\ s[j] = p[j] /\ s[j].block \in ToolsAmong(blocks, m - 1)
             \/ j = Len(p) + 1 /\ s[j].block = b /\ b.kind = "tool"
  <2>1. CASE j <= Len(p)
    <3>1. j \in 1 .. Len(p) /\ s[j] = p[j]
      BY <1>2, <2>1
    <3> QED BY <1>4, <3>1 DEF Flows
  <2>2. CASE j > Len(p)
    <3>1. j - Len(p) \in 1 .. Len(q) /\ s[j] = q[j - Len(p)]
      BY <1>1, <1>2, <2>2
    <3>2. j - Len(p) = 1 /\ s[j].block = b /\ b.kind = "tool"
      BY <1>1, <1>4, <3>1
    <3> QED BY <1>2, <3>2
  <2> QED BY <1>2, <2>1, <2>2
<1>5. ASSUME NEW j \in 1 .. Len(s), Starts(s[j]) PROVE s[j].block \in ToolsAmong(blocks, m)
  <2>1. \A i \in 1 .. m - 1 : i \in 1 .. m
    OBVIOUS
  <2>2. m \in 1 .. m
    OBVIOUS
  <2> QED BY <1>4, <1>5, <2>1, <2>2 DEF ToolsAmong
<1>6. ASSUME NEW j \in 1 .. Len(s), NEW l \in 1 .. Len(s), Starts(s[j]), Starts(s[l]), j < l
      PROVE  s[j].block.id < s[l].block.id
  <2>1. CASE l \in 1 .. Len(p)
    <3>1. j \in 1 .. Len(p) /\ s[j] = p[j] /\ s[l] = p[l]
      BY <1>2, <1>6, <2>1
    <3> QED BY <1>6, <2>1, <3>1 DEF Flows
  <2>2. CASE l \notin 1 .. Len(p)
    <3>1. l = Len(p) + 1 /\ s[l].block = b
      BY <1>4, <1>6, <2>2
    <3>2. s[j].block \in ToolsAmong(blocks, m - 1)
      BY <1>2, <1>4, <1>6, <3>1
    <3> QED BY <3>1, <3>2 DEF ToolsAmong
  <2> QED BY <2>1, <2>2
<1>7. Flows(s, Len(s), ToolsAmong(blocks, m))
  BY <1>3, <1>5, <1>6 DEF Flows
<1> QED BY <1>2, <1>3, <1>7 DEF s, q

\* The events of all blocks.
LEMMA ContentFlows ==
    ASSUME NEW blocks \in Seq(BlockTypes),
           \A i, j \in 1 .. Len(blocks) : i < j => blocks[i].id < blocks[j].id
    PROVE  LET s == ContentEvents(blocks)
           IN  /\ s \in Seq(EventTypes) /\ Flows(s, Len(s), ToolsAmong(blocks, Len(blocks)))
               /\ \A j \in 1 .. Len(s) : Opens(s[j]) => j < Len(s)
<1>1. Len(blocks) \in Nat /\ \A i \in 1 .. Len(blocks) : blocks[i] \in BlockTypes
  BY LenProperties, ElementOfSeq
<1> DEFINE e == <<>>
           S == Seq(EventTypes)
           step == [i \in 1 .. Len(blocks) |-> [d \in S |-> d \o BlockEvents(blocks[i])]]
           Is(f) == f = [i \in 0 .. Len(blocks) |-> IF i = 0 THEN e ELSE f[i - 1] \o BlockEvents(blocks[i])]
<1>2. e \in S /\ Len(e) = 0
  BY EmptySeq
<1> DEFINE f == CHOOSE g : Is(g)
<1>3. ContentEvents(blocks) = f[Len(blocks)]
  BY DEF ContentEvents
<1> HIDE DEF e, f
<1>4. step \in [1 .. Len(blocks) -> [S -> S]]
  <2>1. ASSUME NEW i \in 1 .. Len(blocks), NEW d \in S PROVE d \o BlockEvents(blocks[i]) \in S
    <3>1. BlockEvents(blocks[i]) \in S
      BY <1>1, BlockEventsFlow
    <3> QED BY <3>1, ConcatProperties
  <2> HIDE DEF S
  <2> QED BY <2>1
<1>5. \E g : Is(g)
  <2>1. PICK g : Recursion(g, S, e, Len(blocks), step)
    <3> HIDE DEF step, Is, S
    <3> QED BY <1>1, <1>2, <1>4, RecursionExists
  <2> HIDE DEF S
  <2>2. \A i \in 0 .. Len(blocks) : g[i] = IF i = 0 THEN e ELSE g[i - 1] \o BlockEvents(blocks[i])
    <3>1. ASSUME NEW i \in 1 .. Len(blocks) PROVE g[i] = g[i - 1] \o BlockEvents(blocks[i])
      <4>1. i - 1 \in 0 .. Len(blocks) /\ g[i - 1] \in S /\ g[i] = step[i][g[i - 1]]
        <5> HIDE DEF step
        <5> QED BY <1>1, <2>1 DEF Recursion
      <4> QED BY <4>1
    <3>2. g[0] = e
      BY <2>1 DEF Recursion
    <3> HIDE DEF step, Is
    <3> SUFFICES ASSUME NEW i \in 0 .. Len(blocks)
                 PROVE  g[i] = IF i = 0 THEN e ELSE g[i - 1] \o BlockEvents(blocks[i])
      OBVIOUS
    <3>3. CASE i = 0
      BY <3>2, <3>3
    <3>4. CASE i # 0
      <4>1. i \in 1 .. Len(blocks)
        BY <1>1, <3>4
      <4> QED BY <3>1, <3>4, <4>1
    <3> QED BY <3>3, <3>4
  <2>3. Is(g)
    BY <2>1, <2>2 DEF Recursion
  <2> QED BY <2>3
<1>6. Is(f)
  BY <1>5 DEF f
<1>7. f[0] = e /\ \A i \in 1 .. Len(blocks) : f[i] = f[i - 1] \o BlockEvents(blocks[i])
  BY <1>1, <1>6
<1> DEFINE Fine(i) == /\ f[i] \in Seq(EventTypes) /\ Flows(f[i], Len(f[i]), ToolsAmong(blocks, i))
                      /\ \A j \in 1 .. Len(f[i]) : Opens(f[i][j]) => j < Len(f[i])
           T == {i \in Nat : Fine(i)}
<1>8. 0 \in T
  <2>1. 1 .. Len(e) = {} /\ e \in Seq(EventTypes) /\ f[0] = e
    BY <1>2, <1>7
  <2>2. Fine(0)
    BY <2>1 DEF Flows
  <2> QED BY <2>2
<1>9. ASSUME NEW i \in 1 .. Len(blocks), i - 1 \in T PROVE i \in T
  <2>1. Fine(i - 1) /\ i \in Nat \ {0} /\ blocks[i] \in BlockTypes
    BY <1>1, <1>9
  <2>2. \A l \in 1 .. i - 1 : blocks[l].id < blocks[i].id
    <3>1. ASSUME NEW l \in 1 .. i - 1 PROVE l \in 1 .. Len(blocks) /\ l < i
      BY <1>1
    <3> QED BY <3>1
  <2> DEFINE p == f[i - 1]
  <2>3. f[i] = p \o BlockEvents(blocks[i])
    BY <1>7
  <2>4. /\ p \in Seq(EventTypes) /\ Flows(p, Len(p), ToolsAmong(blocks, i - 1))
        /\ \A j \in 1 .. Len(p) : Opens(p[j]) => j < Len(p)
    BY <2>1
  <2> HIDE DEF p
  <2>5. Fine(i)
    BY <2>1, <2>2, <2>3, <2>4, MoreEventsFlow
  <2> QED BY <2>1, <2>5
<1> HIDE DEF T
<1>10. \A i \in 0 .. Len(blocks) : i \in T
  BY <1>1, <1>8, <1>9, FromPlaceToPlace
<1>11. Fine(Len(blocks))
  BY <1>1, <1>10 DEF T
<1> QED BY <1>3, <1>11

\* What goes to the parser before the end: nothing but the content and the reason for the
\* end among the first n events.
Steady(s, n, Tools) ==
    /\ Flows(s, n, Tools)
    /\ \A j \in 1 .. n : s[j].kind \in ContentKinds \/ s[j].kind = "message_delta"
\* The stream the API sends flows, and ends in the reason and the stop, whatever the reason.
LEMMA StreamFlows ==
    ASSUME NEW blocks \in Seq(BlockTypes), NEW reason,
           \A i, j \in 1 .. Len(blocks) : i < j => blocks[i].id < blocks[j].id
    PROVE  LET s == Stream(blocks, reason)
               n == Len(s) - 1
           IN  /\ Len(s) \in Nat /\ n \in Nat \ {0} /\ Steady(s, n, ToolsAmong(blocks, Len(blocks)))
               /\ s[n].kind = "message_delta" /\ s[n + 1].kind = "message_stop"
<1> DEFINE c == ContentEvents(blocks)
           end == <<Sse("message_delta", Block(reason, 0, NoCall)), Sse("message_stop", NoBlock)>>
           s == Stream(blocks, reason)
           Tools == ToolsAmong(blocks, Len(blocks))
<1>1. /\ c \in Seq(EventTypes) /\ Flows(c, Len(c), Tools)
      /\ \A j \in 1 .. Len(c) : Opens(c[j]) => j < Len(c)
  BY ContentFlows
<1>2. Len(end) = 2 /\ end[1].kind = "message_delta" /\ end[2].kind = "message_stop"
  BY DEF Sse
<1>3. Len(c) \in Nat /\ \A j \in 1 .. Len(c) : c[j] \in EventTypes
  BY <1>1, LenProperties, ElementOfSeq
<1>4. /\ s = c \o end /\ Len(s) = Len(c) + 2
      /\ \A j \in 1 .. Len(c) : s[j] = c[j]
      /\ s[Len(c) + 1] = end[1] /\ s[Len(c) + 2] = end[2]
  <2>1. s = c \o end
    BY DEF Stream
  <2> DEFINE E == {c[j] : j \in 1 .. Len(c)} \cup {end[1], end[2]}
  <2>2. c \in Seq(E)
    BY <1>1, <1>3, IsASeq
  <2>3. end \in Seq(E)
    <3> DEFINE a == Sse("message_delta", Block(reason, 0, NoCall))
               b == Sse("message_stop", NoBlock)
    <3>1. end = <<a, b>> /\ a \in E /\ b \in E
      OBVIOUS
    <3> HIDE DEF end, E, a, b
    <3> QED BY <3>1
  <2> HIDE DEF c, end, E
  <2>4. /\ Len(c \o end) = Len(c) + Len(end)
        /\ \A i \in 1 .. Len(c) + Len(end) : (c \o end)[i] = IF i <= Len(c) THEN c[i] ELSE end[i - Len(c)]
    BY <2>2, <2>3, ConcatProperties
  <2>5. Len(c) + 1 \in 1 .. Len(c) + Len(end) /\ ~(Len(c) + 1 <= Len(c)) /\ (Len(c) + 1) - Len(c) = 1
        /\ Len(c) + 2 \in 1 .. Len(c) + Len(end) /\ ~(Len(c) + 2 <= Len(c)) /\ (Len(c) + 2) - Len(c) = 2
    BY <1>2, <1>3
  <2>6. \A j \in 1 .. Len(c) : j \in 1 .. Len(c) + Len(end) /\ j <= Len(c)
    BY <1>2, <1>3
  <2> QED BY <1>2, <2>1, <2>4, <2>5, <2>6
<1> HIDE DEF c, end, s, Tools
<1> DEFINE n == Len(c) + 1
<1>5. n = Len(s) - 1 /\ Len(s) \in Nat /\ n \in Nat \ {0}
  BY <1>3, <1>4
<1>6. s[n].kind = "message_delta" /\ s[n + 1].kind = "message_stop"
  <2>1. n + 1 = Len(c) + 2
    BY <1>3
  <2> QED BY <1>2, <1>4, <2>1
<1>7. ASSUME NEW j \in 1 .. n PROVE (j \in 1 .. Len(c) /\ s[j] = c[j] /\ s[j].kind \in ContentKinds) \/ j = n
  BY <1>3, <1>4 DEF EventTypes
<1>8. ~Opens(s[n]) /\ ~Starts(s[n])
  BY <1>6 DEF Opens, Starts
<1>9. ASSUME NEW j \in 1 .. n, Opens(s[j]), j < n PROVE Closes(s[j + 1])
  <2>1. j \in 1 .. Len(c) /\ Opens(c[j])
    BY <1>7, <1>8, <1>9
  <2>2. j < Len(c) /\ Closes(c[j + 1])
    BY <1>1, <2>1 DEF Flows
  <2>3. j + 1 \in 1 .. Len(c)
    BY <1>3, <2>2
  <2> QED BY <1>4, <2>2, <2>3
<1>10. ASSUME NEW j \in 1 .. n, Starts(s[j]) PROVE s[j].block \in Tools /\ j \in 1 .. Len(c) /\ s[j] = c[j]
  <2>1. j \in 1 .. Len(c) /\ s[j] = c[j]
    BY <1>7, <1>8, <1>10
  <2> QED BY <1>1, <1>10, <2>1 DEF Flows
<1>11. ASSUME NEW j \in 1 .. n, NEW l \in 1 .. n, Starts(s[j]), Starts(s[l]), j < l
       PROVE  s[j].block.id < s[l].block.id
  BY <1>1, <1>10, <1>11 DEF Flows
<1>12. Flows(s, n, Tools)
  BY <1>9, <1>10, <1>11 DEF Flows
<1>13. Steady(s, n, Tools)
  BY <1>6, <1>7, <1>12 DEF Steady
<1> HIDE DEF n
<1> QED BY <1>5, <1>6, <1>13 DEF s, Tools

-----------------------------------------------------------------------------
(* The parser. *)

\* The type of the parser's state.
ParserTypes == [blocks : Seq(BlockTypes), tool : BlockTypes \cup {NoBlock}, delta : BOOLEAN,
                reason : StopReasons, over : {"no", "stop", "error"}]
\* The blocks in hand: each tool block was begun by one of the first n events, and they
\* are in the order of their ids.
FromStarts(blocks, s, n) ==
    /\ \A i \in 1 .. Len(blocks) : blocks[i].kind = "tool" =>
          \E j \in 1 .. n : Starts(s[j]) /\ s[j].block.id = blocks[i].id
    /\ \A i, l \in 1 .. Len(blocks) :
          blocks[i].kind = "tool" /\ blocks[l].kind = "tool" /\ i < l => blocks[i].id < blocks[l].id
\* The parser after n events: a block that is not finished is the last one in hand, and
\* the last event was one of those that keep it open.
ParserAt(p, s, n) ==
    /\ p \in ParserTypes /\ p.over = "no" /\ FromStarts(p.blocks, s, n)
    /\ p.tool # NoBlock => /\ n > 0 /\ Opens(s[n]) /\ Len(p.blocks) > 0
                           /\ p.blocks[Len(p.blocks)].kind = "tool" /\ p.blocks[Len(p.blocks)].id = p.tool.id

\* A sequence of blocks with the last one replaced.
LEMMA LastReplaced ==
    ASSUME NEW S, NEW q \in Seq(S), Len(q) > 0, NEW x \in S
    PROVE  LET r == Append(Front(q), x)
           IN  /\ r \in Seq(S) /\ Len(r) = Len(q) /\ r[Len(q)] = x
               /\ \A i \in 1 .. Len(q) : i # Len(q) => r[i] = q[i]
<1>1. Len(q) \in Nat \ {0}
  BY LenProperties
<1>2. Front(q) = SubSeq(q, 1, Len(q) - 1)
  BY DEF Front
<1>3. /\ Front(q) \in Seq(S) /\ Len(Front(q)) = Len(q) - 1
      /\ \A i \in 1 .. Len(q) - 1 : Front(q)[i] = q[i]
  <2>1. 1 \in 1 .. Len(q) + 1 /\ Len(q) - 1 \in 1 - 1 .. Len(q) /\ Len(q) - 1 - 1 + 1 = Len(q) - 1
    BY <1>1
  <2>2. \A i \in 1 .. Len(q) - 1 : 1 + i - 1 = i
    BY <1>1
  <2> QED BY <1>2, <2>1, <2>2, SubSeqProperties
<1> QED BY <1>1, <1>3, AppendProperties

\* Blocks of the same kinds and ids are as good.
LEMMA FromStartsAlike ==
    ASSUME NEW s, NEW n \in Nat \ {0}, NEW q, FromStarts(q, s, n - 1), NEW r, Len(r) = Len(q),
           \A i \in 1 .. Len(q) : r[i].kind = q[i].kind /\ r[i].id = q[i].id
    PROVE  FromStarts(r, s, n)
<1>1. \A j \in 1 .. n - 1 : j \in 1 .. n
  OBVIOUS
<1> QED BY <1>1 DEF FromStarts

\* One block more: one that is no tool block, or the one the n-th event begins.
LEMMA FromStartsAppend ==
    ASSUME NEW s, NEW n \in Nat \ {0}, NEW N \in Nat, n <= N, NEW Tools, Flows(s, N, Tools),
           NEW q \in Seq(BlockTypes), FromStarts(q, s, n - 1), NEW x \in BlockTypes,
           x.kind # "tool" \/ (Starts(s[n]) /\ s[n].block.id = x.id)
    PROVE  FromStarts(Append(q, x), s, n)
<1> DEFINE r == Append(q, x)
<1>1. /\ Len(q) \in Nat /\ Len(r) = Len(q) + 1 /\ r[Len(q) + 1] = x
      /\ \A i \in 1 .. Len(q) : r[i] = q[i]
  BY AppendProperties, LenProperties
<1> HIDE DEF r
<1>2. \A i \in 1 .. Len(r) : (i \in 1 .. Len(q) /\ r[i] = q[i]) \/ (i = Len(q) + 1 /\ r[i] = x)
  <2>1. \A i \in 1 .. Len(r) : i \in 1 .. Len(q) \/ i = Len(q) + 1
    BY <1>1
  <2> QED BY <1>1, <2>1
<1>3. ASSUME NEW i \in 1 .. Len(r), r[i].kind = "tool" PROVE \E j \in 1 .. n : Starts(s[j]) /\ s[j].block.id = r[i].id
  <2>1. CASE i \in 1 .. Len(q) /\ r[i] = q[i]
    <3>1. \E j \in 1 .. n - 1 : Starts(s[j]) /\ s[j].block.id = r[i].id
      BY <1>3, <2>1 DEF FromStarts
    <3> QED BY <3>1
  <2>2. CASE r[i] = x
    <3>1. n \in 1 .. n
      OBVIOUS
    <3> QED BY <1>3, <2>2, <3>1
  <2> QED BY <1>2, <2>1, <2>2
<1>4. ASSUME NEW i \in 1 .. Len(r), NEW l \in 1 .. Len(r), r[i].kind = "tool", r[l].kind = "tool", i < l
      PROVE  r[i].id < r[l].id
  <2>1. i \in 1 .. Len(q) /\ r[i] = q[i]
    BY <1>1, <1>2, <1>4
  <2>2. CASE l \in 1 .. Len(q) /\ r[l] = q[l]
    BY <1>4, <2>1, <2>2 DEF FromStarts
  <2>3. CASE r[l] = x
    <3>1. PICK j \in 1 .. n - 1 : Starts(s[j]) /\ s[j].block.id = r[i].id
      BY <1>4, <2>1 DEF FromStarts
    <3>2. j \in 1 .. N /\ n \in 1 .. N /\ j < n
      OBVIOUS
    <3>3. Starts(s[n]) /\ s[n].block.id = r[l].id
      BY <1>4, <2>3
    <3> QED BY <3>1, <3>2, <3>3 DEF Flows
  <2> QED BY <1>2, <2>2, <2>3
<1> QED BY <1>3, <1>4 DEF FromStarts, r

\* next_event, event by event.
LEMMA NextEventCases ==
    ASSUME NEW p, NEW e, p.over = "no"
    PROVE  /\ e.kind = "text_delta" => NextEvent(p, e) = Extend(p, "text")
           /\ e.kind = "thinking_delta" => NextEvent(p, e) = Extend(p, "thinking")
           /\ e.kind = "tool_start" =>
                NextEvent(p, e) = [p EXCEPT !.blocks = Append(@, Block("tool", e.block.id, NoCall)),
                                            !.tool = e.block, !.delta = FALSE]
           /\ e.kind = "input_delta" => NextEvent(p, e) = [p EXCEPT !.delta = TRUE]
           /\ e.kind = "block_stop" => NextEvent(p, e) = IF p.tool # NoBlock THEN Ready(p) ELSE p
           /\ e.kind = "message_delta" =>
                NextEvent(p, e) = [p EXCEPT !.reason = IF e.block.kind \in StopReasons THEN e.block.kind ELSE @]
           /\ e.kind = "message_stop" => NextEvent(p, e) = [p EXCEPT !.over = "stop"]
           /\ e.kind = "error" => NextEvent(p, e) = [p EXCEPT !.over = "error"]
BY DEF NextEvent

\* A call whose input never came is a call with empty input.
LEMMA CallStaysCall ==
    ASSUME NEW call \in ToolCalls PROVE [call EXCEPT !.input = "empty"] \in ToolCalls
<1>1. /\ call = [tool |-> call.tool, target |-> call.target, input |-> call.input]
      /\ call.tool \in TOOLS \cup {"unknown", "none"} /\ call.target \in Seq(Words)
  BY DEF ToolCalls
<1>2. [call EXCEPT !.input = "empty"] = [tool |-> call.tool, target |-> call.target, input |-> "empty"]
  BY <1>1
<1> QED BY <1>1, <1>2 DEF ToolCalls

\* A parser with other blocks, tool, delta or reason.
Parser(b, t, d, r, o) == [blocks |-> b, tool |-> t, delta |-> d, reason |-> r, over |-> o]
\* The parts of a parser's state.
LEMMA ParserParts ==
    ASSUME NEW p \in ParserTypes
    PROVE  /\ p = Parser(p.blocks, p.tool, p.delta, p.reason, p.over)
           /\ p.blocks \in Seq(BlockTypes) /\ p.tool \in BlockTypes \cup {NoBlock} /\ p.delta \in BOOLEAN
           /\ p.reason \in StopReasons
BY DEF ParserTypes, Parser
\* A parser made of parts of the right kind.
LEMMA ParserMade ==
    ASSUME NEW b \in Seq(BlockTypes), NEW t \in BlockTypes \cup {NoBlock}, NEW d \in BOOLEAN,
           NEW r \in StopReasons, NEW o \in {"no", "stop", "error"}
    PROVE  LET p == Parser(b, t, d, r, o)
           IN  /\ p \in ParserTypes /\ p.blocks = b /\ p.tool = t /\ p.delta = d /\ p.reason = r /\ p.over = o
BY DEF ParserTypes, Parser

\* What it takes to be the parser after n events.
LEMMA ParserIs ==
    ASSUME NEW s, NEW n \in Nat \ {0}, NEW b \in Seq(BlockTypes), FromStarts(b, s, n),
           NEW t \in BlockTypes \cup {NoBlock}, NEW d \in BOOLEAN, NEW r \in StopReasons,
           t # NoBlock => /\ Opens(s[n]) /\ Len(b) > 0 /\ b[Len(b)].kind = "tool" /\ b[Len(b)].id = t.id
    PROVE  ParserAt(Parser(b, t, d, r, "no"), s, n)
<1> DEFINE p == Parser(b, t, d, r, "no")
<1>1. p \in ParserTypes /\ p.blocks = b /\ p.tool = t /\ p.delta = d /\ p.reason = r /\ p.over = "no"
  BY ParserMade, SMTT(30)
<1> HIDE DEF p
<1>2. ParserAt(p, s, n)
  BY <1>1 DEF ParserAt
<1> QED BY <1>2 DEF p

\* One event more.
LEMMA ParserStep ==
    ASSUME NEW s, NEW n \in Nat \ {0}, NEW N \in Nat, n <= N, NEW Tools,
           \A b \in Tools : b \in BlockTypes /\ b.kind = "tool",
           Steady(s, N, Tools), NEW p, ParserAt(p, s, n - 1)
    PROVE  ParserAt(NextEvent(p, s[n]), s, n)
<1> DEFINE e == s[n]
<1>1. /\ p = Parser(p.blocks, p.tool, p.delta, p.reason, "no") /\ p.over = "no"
      /\ p.blocks \in Seq(BlockTypes) /\ p.tool \in BlockTypes \cup {NoBlock} /\ p.delta \in BOOLEAN
      /\ p.reason \in StopReasons /\ FromStarts(p.blocks, s, n - 1)
  BY ParserParts DEF ParserAt
<1>2. n \in 1 .. N /\ Flows(s, N, Tools)
  BY DEF Steady
<1>3. e.kind \in ContentKinds \/ e.kind = "message_delta"
  BY <1>2 DEF Steady
<1>4. p.tool # NoBlock => Closes(e)
  <2>1. SUFFICES ASSUME p.tool # NoBlock PROVE Closes(e)
    OBVIOUS
  <2>2. n - 1 > 0 /\ Opens(s[n - 1])
    BY <2>1 DEF ParserAt
  <2>3. n - 1 \in 1 .. N /\ n - 1 < N /\ (n - 1) + 1 = n
    BY <2>2
  <2> QED BY <1>2, <2>2, <2>3 DEF Flows
<1>5. FromStarts(p.blocks, s, n)
  BY <1>1, FromStartsAlike
<1> DEFINE B(b) == b \in Seq(BlockTypes) /\ FromStarts(b, s, n)
<1>6. CASE e.kind \in {"text_delta", "thinking_delta"}
  <2>1. PICK k \in {"text", "thinking"} : NextEvent(p, e) = Extend(p, k)
    BY <1>1, <1>6, NextEventCases
  <2>2. p.tool = NoBlock
    BY <1>4, <1>6 DEF Closes
  <2> DEFINE x == Block(k, 0, NoCall)
  <2>3. x \in BlockTypes /\ x.kind # "tool"
    BY NoCallType DEF Block, BlockTypes
  <2>4. Append(p.blocks, x) \in Seq(BlockTypes) /\ FromStarts(Append(p.blocks, x), s, n)
    <3> HIDE DEF x
    <3>1. Append(p.blocks, x) \in Seq(BlockTypes)
      BY <1>1, <2>3, AppendProperties
    <3>2. FromStarts(Append(p.blocks, x), s, n)
      BY <1>1, <1>2, <2>3, FromStartsAppend
    <3> QED BY <3>1, <3>2
  <2>5. \E b : B(b) /\ NextEvent(p, e) = Parser(b, NoBlock, p.delta, p.reason, "no")
    <3>1. CASE NextEvent(p, e) = p
      BY <1>1, <1>5, <2>2, <3>1
    <3>2. CASE NextEvent(p, e) # p
      <4>1. NextEvent(p, e) = [p EXCEPT !.blocks = Append(@, x)]
        BY <2>1, <3>2 DEF Extend
      <4> HIDE DEF x
      <4>2. NextEvent(p, e) = Parser(Append(p.blocks, x), NoBlock, p.delta, p.reason, "no")
        BY <1>1, <2>2, <4>1 DEF Parser
      <4> QED BY <2>4, <4>2
    <3> QED BY <3>1, <3>2
  <2> HIDE DEF x
  <2>6. PICK b : B(b) /\ NextEvent(p, e) = Parser(b, NoBlock, p.delta, p.reason, "no")
    BY <2>5
  <2>7. ParserAt(Parser(b, NoBlock, p.delta, p.reason, "no"), s, n)
    BY <1>1, <2>6, ParserIs
  <2> QED BY <2>6, <2>7
<1>7. CASE e.kind = "tool_start"
  <2> DEFINE x == Block("tool", e.block.id, NoCall)
             b == Append(p.blocks, x)
  <2>1. e.block \in BlockTypes /\ e.block.kind = "tool" /\ Starts(e) /\ Opens(e)
    BY <1>2, <1>7 DEF Starts, Opens, Flows
  <2>2. x \in BlockTypes /\ x.kind = "tool" /\ x.id = e.block.id
    BY <2>1, NoCallType DEF Block, BlockTypes
  <2>3. NextEvent(p, e) = [p EXCEPT !.blocks = b, !.tool = e.block, !.delta = FALSE]
    BY <1>1, <1>7, NextEventCases, ZenonT(40)
  <2> HIDE DEF x
  <2>4. B(b) /\ Len(b) > 0 /\ b[Len(b)] = x
    BY <1>1, <1>2, <2>1, <2>2, FromStartsAppend, AppendProperties, LenProperties
  <2> HIDE DEF b
  <2>5. NextEvent(p, e) = Parser(b, e.block, FALSE, p.reason, "no")
    BY <1>1, <2>3 DEF Parser
  <2>6. ParserAt(Parser(b, e.block, FALSE, p.reason, "no"), s, n)
    BY <1>1, <2>1, <2>2, <2>4, ParserIs
  <2> QED BY <2>5, <2>6
<1>8. CASE e.kind = "input_delta"
  <2>1. NextEvent(p, e) = [p EXCEPT !.delta = TRUE]
    BY <1>1, <1>8, NextEventCases
  <2>2. NextEvent(p, e) = Parser(p.blocks, p.tool, TRUE, p.reason, "no")
    BY <1>1, <2>1 DEF Parser
  <2>3. Opens(e)
    BY <1>8 DEF Opens
  <2>4. p.tool # NoBlock =>
           Len(p.blocks) > 0 /\ p.blocks[Len(p.blocks)].kind = "tool" /\ p.blocks[Len(p.blocks)].id = p.tool.id
    BY DEF ParserAt
  <2>5. ParserAt(Parser(p.blocks, p.tool, TRUE, p.reason, "no"), s, n)
    BY <1>1, <1>5, <2>3, <2>4, ParserIs
  <2> QED BY <2>2, <2>5
<1>9. CASE e.kind = "block_stop" /\ p.tool # NoBlock
  <2> DEFINE call == IF p.delta THEN p.tool.call ELSE [p.tool.call EXCEPT !.input = "empty"]
             x == Block("tool", p.tool.id, call)
             b == Append(Front(p.blocks), x)
  <2>1. p.tool \in BlockTypes /\ p.tool.call \in ToolCalls /\ p.tool.id \in Nat
    BY <1>1, <1>9 DEF BlockTypes
  <2>2. call \in ToolCalls
    BY <2>1, CallStaysCall
  <2>3. NextEvent(p, e) = [p EXCEPT !.blocks = Append(Front(@), x), !.tool = NoBlock, !.delta = FALSE]
    BY <1>1, <1>9, NextEventCases DEF Ready
  <2> HIDE DEF call
  <2>4. x \in BlockTypes /\ x.kind = "tool" /\ x.id = p.tool.id
    BY <2>1, <2>2 DEF Block, BlockTypes
  <2> HIDE DEF x
  <2>5. NextEvent(p, e) = Parser(b, NoBlock, FALSE, p.reason, "no")
    BY <1>1, <2>3 DEF Parser
  <2>6. Len(p.blocks) > 0 /\ p.blocks[Len(p.blocks)].kind = "tool" /\ p.blocks[Len(p.blocks)].id = p.tool.id
    BY <1>9 DEF ParserAt
  <2>7. /\ b \in Seq(BlockTypes) /\ Len(b) = Len(p.blocks) /\ b[Len(p.blocks)] = x
        /\ \A i \in 1 .. Len(p.blocks) : i # Len(p.blocks) => b[i] = p.blocks[i]
    BY <1>1, <2>4, <2>6, LastReplaced
  <2> HIDE DEF b
  <2>8. FromStarts(b, s, n)
    BY <1>1, <2>4, <2>6, <2>7, FromStartsAlike
  <2>9. ParserAt(Parser(b, NoBlock, FALSE, p.reason, "no"), s, n)
    BY <1>1, <2>7, <2>8, ParserIs
  <2> QED BY <2>5, <2>9
<1>10. CASE e.kind = "block_stop" /\ p.tool = NoBlock
  <2>1. NextEvent(p, e) = p
    BY <1>1, <1>10, NextEventCases
  <2> QED BY <1>1, <1>5, <1>10, <2>1 DEF ParserAt
<1>11. CASE e.kind = "message_delta"
  <2> DEFINE r == IF e.block.kind \in StopReasons THEN e.block.kind ELSE p.reason
  <2>1. NextEvent(p, e) = [p EXCEPT !.reason = IF e.block.kind \in StopReasons THEN e.block.kind ELSE @]
    BY <1>1, <1>11, NextEventCases, ZenonT(40)
  <2>2. r \in StopReasons
    BY <1>1
  <2>3. NextEvent(p, e) = [p EXCEPT !.reason = r]
    BY <2>1
  <2> HIDE DEF r
  <2>4. NextEvent(p, e) = Parser(p.blocks, p.tool, p.delta, r, "no")
    BY <1>1, <2>3 DEF Parser
  <2>5. p.tool = NoBlock
    BY <1>4, <1>11 DEF Closes
  <2>6. ParserAt(Parser(p.blocks, p.tool, p.delta, r, "no"), s, n)
    BY <1>1, <1>5, <2>2, <2>5, ParserIs
  <2> QED BY <2>4, <2>6
<1> QED BY <1>3, <1>6, <1>7, <1>8, <1>9, <1>10, <1>11 DEF ContentKinds

\* The parser is fed event by event.
LEMMA ParsedSteps ==
    ASSUME NEW s, Len(s) \in Nat
    PROVE  \E f : /\ f[0] = FreshParser /\ Parsed(s) = f[Len(s)]
                  /\ \A k \in 1 .. Len(s) : f[k] = NextEvent(f[k - 1], s[k])
<1> DEFINE Is(f, n) == f = [k \in 0 .. n |-> IF k = 0 THEN FreshParser ELSE NextEvent(f[k - 1], s[k])]
           T == {n \in Nat : \E f : Is(f, n)}
<1>1. 0 \in T
  <2>1. Is([k \in 0 .. 0 |-> FreshParser], 0)
    OBVIOUS
  <2> QED BY <2>1
<1>2. ASSUME NEW n \in Nat, n \in T PROVE n + 1 \in T
  <2>1. PICK f : Is(f, n)
    BY <1>2
  <2> DEFINE g == [k \in 0 .. n + 1 |-> IF k <= n THEN f[k] ELSE NextEvent(f[n], s[n + 1])]
             Step(h, k) == IF k = 0 THEN FreshParser ELSE NextEvent(h[k - 1], s[k])
  <2>2. \A k \in 0 .. n : f[k] = Step(f, k)
    BY <2>1
  <2>3. (\A k \in 0 .. n : g[k] = f[k]) /\ g[n + 1] = NextEvent(f[n], s[n + 1])
    OBVIOUS
  <2>4. ASSUME NEW k \in 0 .. n + 1 PROVE g[k] = Step(g, k)
    <3> HIDE DEF g
    <3>1. CASE k \in 0 .. n
      <4>1. k # 0 => k - 1 \in 0 .. n
        OBVIOUS
      <4> QED BY <3>1, <2>2, <2>3, <4>1
    <3>2. CASE k = n + 1
      <4>1. n \in 0 .. n /\ k # 0 /\ k - 1 = n
        BY <3>2
      <4> QED BY <3>2, <2>3, <4>1
    <3> QED BY <3>1, <3>2
  <2>5. Is(g, n + 1)
    BY <2>4
  <2> HIDE DEF g, Is
  <2> QED BY <2>5
<1> HIDE DEF T
<1>3. Len(s) \in T
  BY <1>1, <1>2, NatInductionSet
<1> DEFINE f == CHOOSE g : Is(g, Len(s))
<1>4. Is(f, Len(s))
  BY <1>3 DEF T
<1>5. Parsed(s) = f[Len(s)]
  BY DEF Parsed
<1> HIDE DEF f
<1>6. f[0] = FreshParser /\ \A k \in 1 .. Len(s) : f[k] = NextEvent(f[k - 1], s[k])
  BY <1>4
<1> QED BY <1>5, <1>6

\* Before the first event.
LEMMA FreshParserAt ==
    ASSUME NEW s PROVE ParserAt(FreshParser, s, 0)
<1> DEFINE e == <<>>
           d == FALSE
           r == "end_turn"
           t == NoBlock
<1>1. e \in Seq(BlockTypes) /\ Len(e) = 0
  BY EmptySeq
<1>2. FreshParser = Parser(e, t, d, r, "no")
  BY DEF FreshParser, Parser
<1>3. t \in BlockTypes \cup {NoBlock} /\ d \in BOOLEAN /\ r \in StopReasons
  BY DEF StopReasons
<1>4. t = NoBlock
  OBVIOUS
<1> HIDE DEF e, d, r, t
<1> DEFINE p == Parser(e, t, d, r, "no")
<1>5. p \in ParserTypes /\ p.blocks = e /\ p.tool = t /\ p.delta = d /\ p.reason = r /\ p.over = "no"
  <2>1. e \in Seq(BlockTypes)
    BY <1>1
  <2> HIDE DEF p
  <2>2. p = Parser(e, t, d, r, "no")
    BY DEF p
  <2> QED BY <1>3, <2>1, <2>2 DEF Parser, ParserTypes
<1> HIDE DEF p
<1>6. FromStarts(e, s, 0)
  BY <1>1 DEF FromStarts
<1>7. FreshParser = p
  BY <1>2 DEF p
<1>8. ParserAt(p, s, 0)
  BY <1>4, <1>5, <1>6 DEF ParserAt
<1> QED BY <1>7, <1>8

\* The answer that is parsed from n steady events, to which one event was added at most.
LEMMA ParsedAnswer ==
    ASSUME NEW s, NEW n \in Nat, NEW Tools, \A b \in Tools : b \in BlockTypes /\ b.kind = "tool",
           Steady(s, n, Tools), Len(s) \in {n, n + 1}
    PROVE  /\ Len(s) = n => Parsed(s).over = "no"
           /\ Len(s) = n + 1 /\ s[n + 1].kind = "error" => Parsed(s).over = "error"
           /\ Len(s) = n + 1 /\ s[n + 1].kind = "message_stop" /\ n > 0 /\ s[n].kind = "message_delta" =>
                /\ Parsed(s).over = "stop" /\ Parsed(s).reason \in StopReasons
                /\ Parsed(s).blocks \in Seq(BlockTypes) /\ FromStarts(Parsed(s).blocks, s, n)
<1>1. Len(s) \in Nat
  OBVIOUS
<1>2. PICK f : /\ f[0] = FreshParser /\ Parsed(s) = f[Len(s)]
               /\ \A k \in 1 .. Len(s) : f[k] = NextEvent(f[k - 1], s[k])
  BY <1>1, ParsedSteps
<1> DEFINE T == {k \in Nat : ParserAt(f[k], s, k)}
<1>3. 0 \in T
  BY <1>2, FreshParserAt
<1>4. ASSUME NEW k \in 1 .. n, k - 1 \in T PROVE k \in T
  <2>1. k \in Nat \ {0} /\ k <= n /\ k \in 1 .. Len(s) /\ ParserAt(f[k - 1], s, k - 1)
    BY <1>4
  <2>2. f[k] = NextEvent(f[k - 1], s[k])
    BY <1>2, <2>1
  <2>3. ParserAt(f[k], s, k)
    BY <2>1, <2>2, ParserStep
  <2> QED BY <2>1, <2>3
<1> HIDE DEF T
<1>5. n \in T
  <2>1. \A k \in 0 .. n : k \in T
    BY <1>3, <1>4, FromPlaceToPlace
  <2> QED BY <2>1
<1> DEFINE p == f[n]
<1>6. ParserAt(p, s, n)
  BY <1>5 DEF T
<1>7. /\ p = Parser(p.blocks, p.tool, p.delta, p.reason, "no") /\ p.over = "no"
      /\ p.blocks \in Seq(BlockTypes) /\ p.tool \in BlockTypes \cup {NoBlock} /\ p.delta \in BOOLEAN
      /\ p.reason \in StopReasons /\ FromStarts(p.blocks, s, n)
  BY <1>6, ParserParts DEF ParserAt
<1>8. Len(s) = n => Parsed(s) = p
  BY <1>2
<1>9. Len(s) = n + 1 => Parsed(s) = NextEvent(p, s[n + 1])
  <2>1. n + 1 \in 1 .. n + 1 /\ (n + 1) - 1 = n
    OBVIOUS
  <2> QED BY <1>2, <2>1
<1> HIDE DEF p
<1>10. ASSUME NEW o \in {"stop", "error"}
       PROVE  [p EXCEPT !.over = o].over = o /\ [p EXCEPT !.over = o].reason = p.reason
              /\ [p EXCEPT !.over = o].blocks = p.blocks
  <2>1. [p EXCEPT !.over = o] = Parser(p.blocks, p.tool, p.delta, p.reason, o)
    BY <1>7 DEF Parser
  <2> QED BY <2>1 DEF Parser
<1>11. s[n + 1].kind = "error" => NextEvent(p, s[n + 1]) = [p EXCEPT !.over = "error"]
  BY <1>7, NextEventCases
<1>12. s[n + 1].kind = "message_stop" => NextEvent(p, s[n + 1]) = [p EXCEPT !.over = "stop"]
  BY <1>7, NextEventCases
<1>13. Len(s) = n + 1 /\ s[n + 1].kind = "error" => Parsed(s).over = "error"
  BY <1>9, <1>10, <1>11
<1>14. Len(s) = n + 1 /\ s[n + 1].kind = "message_stop" =>
         Parsed(s).over = "stop" /\ Parsed(s).reason = p.reason /\ Parsed(s).blocks = p.blocks
  BY <1>9, <1>10, <1>12
<1> QED BY <1>7, <1>8, <1>13, <1>14

\* What the loop may rely on: an answer it takes as complete ends for a reason it knows,
\* and its tool blocks are some the API sent, in their order.
Honest(p, blocks) ==
    \/ p.over \in {"no", "error"}
    \/ /\ p.over = "stop" /\ p.reason \in StopReasons /\ p.blocks \in Seq(BlockTypes)
       /\ \A i \in 1 .. Len(p.blocks) : p.blocks[i].kind = "tool" =>
             \E j \in 1 .. Len(blocks) : blocks[j].kind = "tool" /\ blocks[j].id = p.blocks[i].id
       /\ \A i, l \in 1 .. Len(p.blocks) : p.blocks[i].kind = "tool" /\ p.blocks[l].kind = "tool" /\ i < l =>
             p.blocks[i].id < p.blocks[l].id

\* So it is for the whole stream, for the stream cut after any event, and with an error
\* in the place of the rest.
LEMMA AnswersHonest ==
    ASSUME NEW blocks \in Seq(BlockTypes), NEW reason,
           \A i, j \in 1 .. Len(blocks) : i < j => blocks[i].id < blocks[j].id
    PROVE  LET s == Stream(blocks, reason)
           IN  /\ Honest(Parsed(s), blocks)
               /\ \A cut \in 0 .. Len(s) - 1 :
                    /\ Honest(Parsed(SubSeq(s, 1, cut)), blocks)
                    /\ Honest(Parsed(Append(SubSeq(s, 1, cut), Sse("error", NoBlock))), blocks)
<1> DEFINE s == Stream(blocks, reason)
           n == Len(s) - 1
           Tools == ToolsAmong(blocks, Len(blocks))
<1>1. /\ Len(s) \in Nat /\ n \in Nat \ {0} /\ Steady(s, n, Tools)
      /\ s[n].kind = "message_delta" /\ s[n + 1].kind = "message_stop"
  BY StreamFlows
<1>2. \A b \in Tools : b \in BlockTypes /\ b.kind = "tool" /\ \E j \in 1 .. Len(blocks) : blocks[j].kind = "tool" /\ blocks[j].id = b.id
  BY DEF ToolsAmong
<1> HIDE DEF s, Tools
<1>3. Honest(Parsed(s), blocks)
  <2>1. /\ Parsed(s).over = "stop" /\ Parsed(s).reason \in StopReasons
        /\ Parsed(s).blocks \in Seq(BlockTypes) /\ FromStarts(Parsed(s).blocks, s, n)
    <3>1. Len(s) = n + 1 /\ n > 0 /\ n \in Nat /\ Len(s) \in {n, n + 1}
      <4>1. PICK k \in Nat : k = Len(s)
        BY <1>1
      <4>2. n = k - 1 /\ n \in Nat \ {0}
        BY <1>1, <4>1
      <4> HIDE DEF n
      <4>3. k = n + 1 /\ n > 0 /\ n \in Nat /\ k \in {n, n + 1}
        BY <4>2
      <4> QED BY <4>1, <4>3
    <3> QED BY <1>1, <1>2, <3>1, ParsedAnswer
  <2> DEFINE q == Parsed(s).blocks
  <2>2. ASSUME NEW i \in 1 .. Len(q), q[i].kind = "tool"
        PROVE  \E j \in 1 .. Len(blocks) : blocks[j].kind = "tool" /\ blocks[j].id = q[i].id
    <3>1. PICK j \in 1 .. n : Starts(s[j]) /\ s[j].block.id = q[i].id
      BY <2>1, <2>2 DEF FromStarts
    <3>2. s[j].block \in Tools
      BY <1>1, <3>1 DEF Steady, Flows
    <3> QED BY <1>2, <3>1, <3>2
  <2>3. \A i, l \in 1 .. Len(q) : q[i].kind = "tool" /\ q[l].kind = "tool" /\ i < l => q[i].id < q[l].id
    BY <2>1 DEF FromStarts
  <2> QED BY <2>1, <2>2, <2>3 DEF Honest
\* The first events of the stream, as they stand in another sequence.
<1>4. ASSUME NEW r, NEW cut \in 0 .. n, \A j \in 1 .. cut : r[j] = s[j]
      PROVE  Steady(r, cut, Tools)
  <2>1. \A j \in 1 .. cut : j \in 1 .. n /\ r[j] = s[j]
    BY <1>1, <1>4
  <2>2. \A j \in 1 .. cut : j < cut => j < n /\ r[j + 1] = s[j + 1]
    <3>1. SUFFICES ASSUME NEW j \in 1 .. cut, j < cut PROVE j < n /\ r[j + 1] = s[j + 1]
      OBVIOUS
    <3>2. j + 1 \in 1 .. cut /\ j < n
      BY <1>1, <3>1
    <3> QED BY <1>4, <3>2
  <2>3. Flows(s, n, Tools)
    BY <1>1 DEF Steady
  <2>4. Flows(r, cut, Tools)
    BY <2>1, <2>2, <2>3 DEF Flows
  <2> QED BY <1>1, <2>1, <2>4 DEF Steady
<1>5. ASSUME NEW cut \in 0 .. Len(s) - 1
      PROVE  /\ Honest(Parsed(SubSeq(s, 1, cut)), blocks)
             /\ Honest(Parsed(Append(SubSeq(s, 1, cut), Sse("error", NoBlock))), blocks)
  <2> DEFINE r == SubSeq(s, 1, cut)
             x == Sse("error", NoBlock)
             e == Append(r, x)
             E == {s[j] : j \in 1 .. cut} \cup {x}
  <2>1. cut \in 0 .. n /\ cut \in Nat
    BY <1>1
  <2>2. r \in Seq(E) /\ Len(r) = cut /\ \A j \in 1 .. cut : r[j] = s[j]
    <3>1. \A j \in 1 .. cut : s[j] \in E
      OBVIOUS
    <3> HIDE DEF E
    <3>2. /\ SubSeq(s, 1, cut) \in Seq(E) /\ Len(SubSeq(s, 1, cut)) = IF 1 <= cut THEN cut - 1 + 1 ELSE 0
          /\ \A i \in 1 .. cut - 1 + 1 : SubSeq(s, 1, cut)[i] = s[1 + i - 1]
      BY <2>1, <3>1, SubSeqProperties
    <3>3. \A i \in 1 .. cut : i \in 1 .. cut - 1 + 1 /\ 1 + i - 1 = i
      BY <2>1
    <3> QED BY <2>1, <3>2, <3>3
  <2>3. x \in E /\ x.kind = "error"
    BY DEF Sse
  <2> HIDE DEF r, x, E
  <2>4. /\ Len(e) = cut + 1 /\ e[cut + 1] = x /\ \A j \in 1 .. cut : e[j] = s[j]
    BY <2>1, <2>2, <2>3, AppendProperties
  <2> HIDE DEF e
  <2>5. Parsed(r).over = "no"
    <3>1. Steady(r, cut, Tools)
      BY <1>4, <2>1, <2>2
    <3> QED BY <1>2, <2>1, <2>2, <3>1, ParsedAnswer
  <2>6. Parsed(e).over = "error"
    <3>1. Steady(e, cut, Tools)
      BY <1>4, <2>1, <2>4
    <3> QED BY <1>2, <2>1, <2>3, <2>4, <3>1, ParsedAnswer
  <2> QED BY <2>5, <2>6 DEF Honest, e, r, x
<1> QED BY <1>3, <1>5 DEF s

\* The filter of a queue with one member more.
LEMMA KeptAppend ==
    ASSUME NEW R, NEW q \in Seq(R), NEW x \in R, NEW S
    PROVE  Kept(Append(q, x), S) = IF x \in S THEN Append(Kept(q, S), x) ELSE Kept(q, S)
<1> DEFINE n == Len(q)
           r == Append(q, x)
           f == CHOOSE h : Filters(h, q, S, Len(q))
           g == CHOOSE h : Filters(h, r, S, Len(r))
<1>1. n \in Nat /\ Len(r) = n + 1 /\ r[n + 1] = x /\ \A i \in 1 .. n : r[i] = q[i]
  BY AppendProperties, LenProperties
<1>2. Filters(f, q, S, n) /\ Filters(g, r, S, Len(r))
  <2> HIDE DEF r
  <2> QED BY <1>1, FilterExists
<1>3. Kept(q, S) = f[n] /\ Kept(r, S) = g[Len(r)]
  BY DEF Kept, Filters
<1> HIDE DEF f, g, r
<1>4. /\ f[0] = <<>> /\ g[0] = <<>>
      /\ \A i \in 1 .. n : f[i] = IF q[i] \in S THEN Append(f[i - 1], q[i]) ELSE f[i - 1]
      /\ \A i \in 1 .. n + 1 : g[i] = IF r[i] \in S THEN Append(g[i - 1], r[i]) ELSE g[i - 1]
  <2>1. \A i \in 0 .. n : f[i] = IF i = 0 THEN <<>> ELSE IF q[i] \in S THEN Append(f[i - 1], q[i]) ELSE f[i - 1]
    BY <1>2 DEF Filters
  <2>2. \A i \in 0 .. n + 1 : g[i] = IF i = 0 THEN <<>> ELSE IF r[i] \in S THEN Append(g[i - 1], r[i]) ELSE g[i - 1]
    BY <1>1, <1>2 DEF Filters
  <2> HIDE DEF n
  <2>3. (\A i \in 1 .. n : i \in 0 .. n /\ i # 0) /\ \A i \in 1 .. n + 1 : i \in 0 .. n + 1 /\ i # 0
    BY <1>1
  <2> QED BY <1>1, <2>1, <2>2, <2>3
<1> DEFINE T == {i \in Nat : i <= n => g[i] = f[i]}
<1>5. 0 \in T
  BY <1>4
<1>6. ASSUME NEW i \in Nat, i \in T PROVE i + 1 \in T
  <2>1. SUFFICES ASSUME i + 1 <= n PROVE g[i + 1] = f[i + 1]
    OBVIOUS
  <2>2. i + 1 \in 1 .. n /\ i + 1 \in 1 .. n + 1 /\ (i + 1) - 1 = i /\ g[i] = f[i]
    BY <1>1, <1>6, <2>1
  <2>3. r[i + 1] = q[i + 1]
    BY <1>1, <2>2
  <2>4. g[i + 1] = IF r[i + 1] \in S THEN Append(g[i], r[i + 1]) ELSE g[i]
    BY <1>4, <2>2
  <2>5. f[i + 1] = IF q[i + 1] \in S THEN Append(f[i], q[i + 1]) ELSE f[i]
    BY <1>4, <2>2
  <2> QED BY <2>2, <2>3, <2>4, <2>5
<1> HIDE DEF T
<1>7. g[n] = f[n]
  <2>1. n \in T
    BY <1>1, <1>5, <1>6, NatInductionSet
  <2> QED BY <1>1, <2>1 DEF T
<1>8. g[n + 1] = IF x \in S THEN Append(g[n], x) ELSE g[n]
  <2>1. n + 1 \in 1 .. n + 1 /\ (n + 1) - 1 = n
    BY <1>1
  <2> QED BY <1>1, <1>4, <2>1
<1> QED BY <1>1, <1>3, <1>7, <1>8 DEF r

\* Of an empty queue nothing is kept.
LEMMA KeptEmpty ==
    ASSUME NEW S PROVE Kept(<<>>, S) = <<>>
<1>1. <<>> \in Seq({}) /\ Len(<<>>) = 0
  BY EmptySeq
<1>2. Kept(<<>>, S) \in Seq({}) /\ Len(Kept(<<>>, S)) <= 0
  BY <1>1, KeptProperties
<1> QED BY <1>2, EmptySeq, LenProperties

-----------------------------------------------------------------------------
(* The invariant of the agent. *)

\* The types of the agent's state.
Outcomes == {"unfit", "Invalid", "Refused", "Denied", "Allowed", "AutoRun", "Failed"}
AnswerTypes == [id : Nat, outcome : Outcomes]
EffectTypes == [id : Nat, tool : TOOLS \cup {"unknown", "none"}, raw : Seq(Words), path : Seq(Words), ok : BOOLEAN]
MessageTypes == [role : {"user", "assistant"}, blocks : Seq(BlockTypes), results : Seq(AnswerTypes),
                 ended : StopReasons \cup {"none"}]
LoopTypes == [at : {"idle", "send", "tools", "ask", "execute"}, turn : Nat, blocks : Seq(BlockTypes),
              next : Nat \ {0}, results : Seq(AnswerTypes)]
\* While the tools of an answer run, the answer is the last message; a call that is asked
\* about or run has passed the session's checks, and is run only after the yes it needs.
Working(l) == l.at \in {"tools", "ask", "execute"}
Passes(call) == ~Malformed(Fitted(call)) /\ ~Forbidden(Fitted(call))
InHand(c, l, yes) ==
    /\ Working(l) =>
         /\ Len(c) > 0 /\ c[Len(c)].role = "assistant" /\ c[Len(c)].blocks = l.blocks
         /\ l.next <= Len(l.blocks) + 1
    /\ ~Working(l) => l.next = 1 /\ l.results = <<>>
    /\ l.at \in {"ask", "execute"} =>
         l.next <= Len(l.blocks) /\ l.blocks[l.next].kind = "tool" /\ Passes(l.blocks[l.next].call)
    /\ l.at = "execute" /\ l.blocks[l.next].call.tool \in NeedsApproval => l.blocks[l.next].id \in yes

\* The calls of answers that did not end in tool_use.
LeftIn(msg, id) ==
    msg.ended # "tool_use" /\ \E k \in 1 .. Len(msg.blocks) : msg.blocks[k].kind = "tool" /\ msg.blocks[k].id = id
IsLeft(c, id) == \E i \in 1 .. Len(c) : LeftIn(c[i], id)
\* The ids of the calls to come are larger than all that were answered, logged or run, and
\* than those left.
UpTo(s, n) == \A k \in 1 .. Len(s) : s[k].id <= n
KnownUpTo(c, l, g, e, n) ==
    /\ UpTo(g, n) /\ UpTo(e, n) /\ UpTo(l.results, n)
    /\ \A i \in 1 .. Len(c) : UpTo(c[i].results, n)
    /\ \A id \in Nat : IsLeft(c, id) => id <= n
Pending(l, i) == Working(l) /\ i \in l.next .. Len(l.blocks) /\ l.blocks[i].kind = "tool"
Fresh(c, l, g, e, u) ==
    /\ KnownUpTo(c, l, g, e, u)
    /\ \A i \in 1 .. Len(l.blocks) : Pending(l, i) =>
         /\ l.blocks[i].id <= u /\ KnownUpTo(c, l, g, e, l.blocks[i].id - 1)
         /\ \A j \in 1 .. Len(l.blocks) : Pending(l, j) /\ i < j => l.blocks[i].id < l.blocks[j].id

\* Results that answer calls, in order and truly.
Happened(e, id) == \E k \in 1 .. Len(e) : e[k].id = id /\ e[k].ok
Answers(results, uses, e) ==
    /\ Len(results) = Len(uses)
    /\ \A k \in 1 .. Len(uses) :
         /\ results[k].id = uses[k].id
         /\ results[k].outcome \in {"Allowed", "AutoRun"} <=> Happened(e, results[k].id)
SoFar(l, e) == Working(l) => Answers(l.results, Kept(SubSeq(l.blocks, 1, l.next - 1), ToolBlocks), e)
AllAnswered(c, l, e) ==
    \A i \in 1 .. Len(c) : c[i].ended = "tool_use" =>
        \/ i = Len(c) /\ Working(l)
        \/ i < Len(c) /\ c[i + 1].role = "user" /\ Answers(c[i + 1].results, ToolUses(c[i].blocks), e)

\* The calls left are not logged and have no result.
NoneOf(s, id) == \A k \in 1 .. Len(s) : s[k].id # id
Unseen(c, l, g, id) == NoneOf(g, id) /\ NoneOf(l.results, id) /\ \A j \in 1 .. Len(c) : NoneOf(c[j].results, id)
LeftAlone(c, l, g) == \A id \in Nat : IsLeft(c, id) => Unseen(c, l, g, id)

\* What ran was allowed, and the log tells it.
Fine(x, yes) ==
    /\ x.tool \in NeedsApproval => x.id \in yes
    /\ x.tool \in PathTools /\ x.raw # NoTarget =>
         /\ ~\E dir \in Protected : IsPrefix(dir, Location(x.raw))
         /\ LowerCased(x.path) = Location(x.raw)
    /\ x.tool = "write_file" => Location(x.raw)[1] \in {"data", "tmp"}
\* All that ran was fine; a call is logged once; the log tells what ran.
AllFine(e, yes) == \A k \in 1 .. Len(e) : Fine(e[k], yes)
OnceEach(g) == \A i, j \in 1 .. Len(g) : g[i].id = g[j].id => i = j
Tells(g, e) ==
    /\ Len(Kept(g, RanEntries)) = Len(e)
    /\ \A i \in 1 .. Len(e) : /\ Kept(g, RanEntries)[i].id = e[i].id
                              /\ Kept(g, RanEntries)[i].outcome # "Failed" <=> e[i].ok

\* The invariant, of any conversation, loop, log, effects, yeses and number of blocks.
AgentState(c, l, g, e, yes, u) ==
    /\ c \in Seq(MessageTypes) /\ l \in LoopTypes /\ g \in Seq(AnswerTypes) /\ e \in Seq(EffectTypes) /\ u \in Nat
    /\ InHand(c, l, yes) /\ Fresh(c, l, g, e, u) /\ SoFar(l, e) /\ AllAnswered(c, l, e)
    /\ AllFine(e, yes) /\ OnceEach(g) /\ Tells(g, e) /\ LeftAlone(c, l, g)
AgentInv == AgentState(chat, loop, log, effects, usersYes, used)

\* Places and members of a sequence.
LEMMA Sequence ==
    ASSUME NEW S, NEW s \in Seq(S)
    PROVE  /\ Len(s) \in Nat /\ DOMAIN s = 1 .. Len(s) /\ \A k \in 1 .. Len(s) : s[k] \in S
           /\ s = <<>> <=> Len(s) = 0
  BY LenProperties, ElementOfSeq, EmptySeq

\* The invariant says what the two properties say, and more.
LEMMA AgentInv_Properties == AgentInv => ConsentFirst /\ ToolCallsAnswered
<1> SUFFICES ASSUME AgentInv PROVE ConsentFirst /\ ToolCallsAnswered
  OBVIOUS
<1>1. /\ chat \in Seq(MessageTypes) /\ log \in Seq(AnswerTypes) /\ effects \in Seq(EffectTypes)
      /\ AllFine(effects, usersYes) /\ OnceEach(log) /\ Tells(log, effects) /\ AllAnswered(chat, loop, effects)
      /\ LeftAlone(chat, loop, log)
  BY DEF AgentInv, AgentState
<1>2. DOMAIN effects = 1 .. Len(effects) /\ DOMAIN log = 1 .. Len(log) /\ DOMAIN chat = 1 .. Len(chat)
  BY <1>1, Sequence
<1>3. ConsentFirst
  <2> DEFINE ran == Kept(log, RanEntries)
  <2>1. \A i \in DOMAIN effects : Fine(effects[i], usersYes)
    BY <1>1, <1>2 DEF AllFine
  <2>2. \A i, j \in DOMAIN log : log[i].id = log[j].id => i = j
    BY <1>1, <1>2 DEF OnceEach
  <2>3. ran \in Seq(AnswerTypes)
    BY <1>1, KeptProperties
  <2>4. DOMAIN ran = 1 .. Len(ran)
    <3> HIDE DEF ran
    <3> QED BY <2>3, Sequence
  <2>5. Len(ran) = Len(effects) /\ \A i \in DOMAIN ran : ran[i].id = effects[i].id /\ (ran[i].outcome # "Failed" <=> effects[i].ok)
    BY <1>1, <2>4 DEF Tells
  <2> HIDE DEF ran
  <2> QED BY <2>1, <2>2, <2>5 DEF ConsentFirst, Fine, ran
<1>4. ASSUME NEW r PROVE Happened(effects, r.id) <=> \E e \in ToSet(effects) : e.id = r.id /\ e.ok
  BY <1>2 DEF Happened, ToSet
<1>5. ASSUME NEW i \in DOMAIN chat
      PROVE  LET uses == ToolUses(chat[i].blocks)
             IN  uses \in Seq(BlockTypes) /\ DOMAIN uses = 1 .. Len(uses)
                 /\ \A x : In(x, uses) => In(x, chat[i].blocks) /\ x \in ToolBlocks
  <2> DEFINE uses == ToolUses(chat[i].blocks)
  <2>1. chat[i].blocks \in Seq(BlockTypes)
    <3>1. chat[i] \in MessageTypes
      BY <1>1, <1>2, Sequence
    <3> QED BY <3>1 DEF MessageTypes
  <2>2. uses \in Seq(BlockTypes) /\ \A x : In(x, uses) => In(x, chat[i].blocks) /\ x \in ToolBlocks
    BY <2>1, KeptProperties DEF ToolUses
  <2>3. DOMAIN uses = 1 .. Len(uses)
    <3> HIDE DEF uses
    <3> QED BY <2>2, Sequence
  <2> QED BY <2>2, <2>3
<1>6. ASSUME NEW i \in DOMAIN chat, chat[i].ended = "tool_use"
      PROVE  \/ i = Len(chat) /\ loop.at \in {"tools", "ask", "execute"}
             \/ /\ i < Len(chat) /\ chat[i + 1].role = "user"
                /\ Len(chat[i + 1].results) = Len(ToolUses(chat[i].blocks))
                /\ \A k \in DOMAIN ToolUses(chat[i].blocks) :
                     LET r == chat[i + 1].results[k]
                     IN  /\ r.id = ToolUses(chat[i].blocks)[k].id
                         /\ r.outcome \in {"Allowed", "AutoRun"} <=> \E e \in ToSet(effects) : e.id = r.id /\ e.ok
  <2> DEFINE uses == ToolUses(chat[i].blocks)
  <2>3. DOMAIN uses = 1 .. Len(uses)
    BY <1>5
  <2>4. CASE i = Len(chat) /\ Working(loop)
    BY <2>4 DEF Working
  <2>5. CASE i < Len(chat) /\ chat[i + 1].role = "user" /\ Answers(chat[i + 1].results, uses, effects)
    <3> DEFINE rs == chat[i + 1].results
    <3>1. Len(rs) = Len(uses) /\ \A k \in 1 .. Len(uses) :
             rs[k].id = uses[k].id /\ (rs[k].outcome \in {"Allowed", "AutoRun"} <=> Happened(effects, rs[k].id))
      BY <2>5 DEF Answers
    <3> HIDE DEF rs, uses
    <3>2. \A k \in DOMAIN uses : rs[k].id = uses[k].id
             /\ (rs[k].outcome \in {"Allowed", "AutoRun"} <=> \E e \in ToSet(effects) : e.id = rs[k].id /\ e.ok)
      BY <1>4, <2>3, <3>1
    <3> QED BY <2>5, <3>1, <3>2 DEF rs, uses
  <2> QED BY <1>1, <1>2, <1>6, <2>4, <2>5 DEF AllAnswered
<1>7. ASSUME NEW i \in DOMAIN chat, chat[i].ended # "tool_use", NEW k \in DOMAIN ToolUses(chat[i].blocks)
      PROVE  LET id == ToolUses(chat[i].blocks)[k].id
             IN  /\ \A n \in DOMAIN log : log[n].id # id
                 /\ \A j \in DOMAIN chat : \A n \in DOMAIN chat[j].results : chat[j].results[n].id # id
  <2> DEFINE uses == ToolUses(chat[i].blocks)
             b == uses[k]
  <2>1. In(b, chat[i].blocks) /\ b \in ToolBlocks
    <3>1. k \in 1 .. Len(uses) /\ \A x : In(x, uses) => In(x, chat[i].blocks) /\ x \in ToolBlocks
      BY <1>5, <1>7
    <3> HIDE DEF uses
    <3> QED BY <3>1 DEF In
  <2> HIDE DEF b
  <2>2. b.id \in Nat /\ IsLeft(chat, b.id)
    BY <1>2, <1>7, <2>1 DEF In, ToolBlocks, IsLeft, LeftIn
  <2>3. Unseen(chat, loop, log, b.id)
    BY <1>1, <2>2 DEF LeftAlone
  <2>4. \A j \in DOMAIN chat : DOMAIN chat[j].results = 1 .. Len(chat[j].results)
    <3>1. \A j \in DOMAIN chat : chat[j].results \in Seq(AnswerTypes)
      <4>1. \A j \in DOMAIN chat : chat[j] \in MessageTypes
        BY <1>1, <1>2, Sequence
      <4> QED BY <4>1 DEF MessageTypes
    <3> QED BY <3>1, Sequence
  <2>5. /\ \A n \in DOMAIN log : log[n].id # b.id
        /\ \A j \in DOMAIN chat : \A n \in DOMAIN chat[j].results : chat[j].results[n].id # b.id
    BY <1>2, <2>3, <2>4 DEF Unseen, NoneOf
  <2> QED BY <2>5 DEF b
<1>8. ToolCallsAnswered
  BY <1>6, <1>7 DEF ToolCallsAnswered
<1> QED BY <1>3, <1>8

-----------------------------------------------------------------------------
(* What an action does to the parts of the invariant. *)

\* A list that grows by one.
LEMMA OneMoreAt ==
    ASSUME NEW S, NEW s \in Seq(S), NEW x \in S
    PROVE  /\ Append(s, x) \in Seq(S) /\ Len(Append(s, x)) = Len(s) + 1 /\ Append(s, x)[Len(s) + 1] = x
           /\ \A k \in 1 .. Len(s) : Append(s, x)[k] = s[k]
           /\ \A k \in 1 .. Len(s) + 1 : k \in 1 .. Len(s) \/ k = Len(s) + 1
<1>1. Len(s) \in Nat
  BY LenProperties
<1> QED BY <1>1, AppendProperties

\* Ids up to a number are up to a larger one, and one more may be added.
LEMMA UpToMore ==
    ASSUME NEW S, NEW s \in Seq(S), \A x \in S : x.id \in Nat, NEW m \in Int, NEW n \in Int, m <= n, UpTo(s, m)
    PROVE  UpTo(s, n)
<1>1. \A k \in 1 .. Len(s) : s[k].id \in Nat /\ s[k].id <= m
  BY ElementOfSeq DEF UpTo
<1> QED BY <1>1 DEF UpTo

LEMMA UpToAppend ==
    ASSUME NEW S, NEW s \in Seq(S), NEW x \in S, NEW n, UpTo(s, n), x.id <= n
    PROVE  UpTo(Append(s, x), n)
BY OneMoreAt DEF UpTo

\* So it is for all that is known.
LEMMA KnownMore ==
    ASSUME NEW c \in Seq(MessageTypes), NEW l \in LoopTypes, NEW g \in Seq(AnswerTypes), NEW e \in Seq(EffectTypes),
           NEW m \in Int, NEW n \in Int, m <= n, KnownUpTo(c, l, g, e, m)
    PROVE  KnownUpTo(c, l, g, e, n)
<1>1. (\A x \in AnswerTypes : x.id \in Nat) /\ (\A x \in EffectTypes : x.id \in Nat)
  BY DEF AnswerTypes, EffectTypes
<1>2. l.results \in Seq(AnswerTypes) /\ \A i \in 1 .. Len(c) : c[i].results \in Seq(AnswerTypes)
  <2>1. \A i \in 1 .. Len(c) : c[i] \in MessageTypes
    BY ElementOfSeq
  <2> QED BY <2>1 DEF LoopTypes, MessageTypes
<1>3. UpTo(g, n)
  BY <1>1, UpToMore DEF KnownUpTo
<1>4. UpTo(e, n)
  BY <1>1, UpToMore DEF KnownUpTo
<1>5. UpTo(l.results, n)
  BY <1>1, <1>2, UpToMore DEF KnownUpTo
<1>6. ASSUME NEW i \in 1 .. Len(c) PROVE UpTo(c[i].results, n)
  BY <1>1, <1>2, UpToMore DEF KnownUpTo
<1>7. \A id \in Nat : IsLeft(c, id) => id <= n
  BY DEF KnownUpTo
<1> QED BY <1>3, <1>4, <1>5, <1>6, <1>7 DEF KnownUpTo

\* What is not in a list, and not the one more, is not in the longer list.
LEMMA NoneOfAppend ==
    ASSUME NEW S, NEW s \in Seq(S), NEW x \in S, NEW id, NoneOf(s, id), x.id # id
    PROVE  NoneOf(Append(s, x), id)
BY OneMoreAt DEF NoneOf
\* An id above all that is known is new.
LEMMA AboveUnseen ==
    ASSUME NEW c \in Seq(MessageTypes), NEW l \in LoopTypes, NEW g \in Seq(AnswerTypes), NEW e, NEW u \in Nat,
           KnownUpTo(c, l, g, e, u), NEW id \in Nat, u < id
    PROVE  Unseen(c, l, g, id)
<1>1. ASSUME NEW s \in Seq(AnswerTypes), UpTo(s, u) PROVE NoneOf(s, id)
  <2>1. \A k \in 1 .. Len(s) : s[k] \in AnswerTypes /\ s[k].id <= u
    BY <1>1, Sequence DEF UpTo
  <2> QED BY <2>1 DEF NoneOf, AnswerTypes
<1>2. l.results \in Seq(AnswerTypes) /\ \A i \in 1 .. Len(c) : c[i].results \in Seq(AnswerTypes)
  <2>1. \A i \in 1 .. Len(c) : c[i] \in MessageTypes
    BY ElementOfSeq
  <2> QED BY <2>1 DEF LoopTypes, MessageTypes
<1> QED BY <1>1, <1>2 DEF KnownUpTo, Unseen
\* What is left in a conversation with a message more, and what is not seen in it.
LEMMA LeftAppend ==
    ASSUME NEW c \in Seq(MessageTypes), NEW msg \in MessageTypes, NEW id, IsLeft(Append(c, msg), id)
    PROVE  IsLeft(c, id) \/ LeftIn(msg, id)
BY OneMoreAt DEF IsLeft
LEMMA UnseenAppend ==
    ASSUME NEW c \in Seq(MessageTypes), NEW msg \in MessageTypes, NEW l, NEW g, NEW id, Unseen(c, l, g, id),
           NoneOf(msg.results, id), NEW m, NoneOf(m.results, id)
    PROVE  Unseen(Append(c, msg), m, g, id)
<1>1. \A j \in 1 .. Len(Append(c, msg)) : NoneOf(Append(c, msg)[j].results, id)
  BY OneMoreAt DEF Unseen
<1> QED BY <1>1 DEF Unseen

\* The call in hand is dealt with: it may be logged, run and answered.
MayGrow(s, t, S, id) == t = s \/ \E x \in S : x.id = id /\ t = Append(s, x)
\* The ids of the calls after it are larger still.
LEMMA NextFresh ==
    ASSUME NEW c \in Seq(MessageTypes), NEW l \in LoopTypes, NEW g \in Seq(AnswerTypes), NEW e \in Seq(EffectTypes),
           NEW u \in Nat, Fresh(c, l, g, e, u), Working(l), l.next <= Len(l.blocks), l.blocks[l.next].kind = "tool",
           NEW m \in LoopTypes, m.blocks = l.blocks, m.next = l.next + 1,
           NEW h, MayGrow(g, h, AnswerTypes, l.blocks[l.next].id),
           NEW f, MayGrow(e, f, EffectTypes, l.blocks[l.next].id),
           MayGrow(l.results, m.results, AnswerTypes, l.blocks[l.next].id)
    PROVE  Fresh(c, m, h, f, u)
<1> DEFINE n == l.next
           id == l.blocks[n].id
<1>1. n \in Nat \ {0} /\ l.blocks \in Seq(BlockTypes) /\ l.results \in Seq(AnswerTypes)
  BY DEF LoopTypes
<1>2. Len(l.blocks) \in Nat /\ \A i \in 1 .. Len(l.blocks) : l.blocks[i] \in BlockTypes
  BY <1>1, Sequence
<1>3. n \in 1 .. Len(l.blocks) /\ n \in n .. Len(l.blocks)
  BY <1>1, <1>2
<1>4. id \in Nat /\ Pending(l, n)
  BY <1>2, <1>3 DEF BlockTypes, Pending
<1>5. /\ id <= u /\ KnownUpTo(c, l, g, e, id - 1)
      /\ \A j \in 1 .. Len(l.blocks) : Pending(l, j) /\ n < j => id < l.blocks[j].id
  BY <1>3, <1>4 DEF Fresh
<1> HIDE DEF id
<1>6. KnownUpTo(c, l, g, e, id)
  <2>1. id - 1 \in Int /\ id \in Int /\ id - 1 <= id
    BY <1>4
  <2> HIDE DEF n
  <2> QED BY <1>5, <2>1, KnownMore
<1>7. h \in Seq(AnswerTypes) /\ UpTo(h, id)
  <2>1. UpTo(g, id) /\ id <= id
    BY <1>4, <1>6 DEF KnownUpTo
  <2>2. CASE h = g
    BY <2>1, <2>2
  <2>3. CASE \E x \in AnswerTypes : x.id = id /\ h = Append(g, x)
    BY <2>1, <2>3, UpToAppend, AppendProperties
  <2> QED BY <2>2, <2>3 DEF MayGrow, id
<1>8. f \in Seq(EffectTypes) /\ UpTo(f, id)
  <2>1. UpTo(e, id) /\ id <= id
    BY <1>4, <1>6 DEF KnownUpTo
  <2>2. CASE f = e
    BY <2>1, <2>2
  <2>3. CASE \E x \in EffectTypes : x.id = id /\ f = Append(e, x)
    BY <2>1, <2>3, UpToAppend, AppendProperties
  <2> QED BY <2>2, <2>3 DEF MayGrow, id
<1>9. UpTo(m.results, id)
  <2>1. UpTo(l.results, id) /\ id <= id
    BY <1>4, <1>6 DEF KnownUpTo
  <2>2. CASE m.results = l.results
    BY <2>1, <2>2
  <2>3. CASE \E x \in AnswerTypes : x.id = id /\ m.results = Append(l.results, x)
    BY <1>1, <2>1, <2>3, UpToAppend
  <2> QED BY <2>2, <2>3 DEF MayGrow, id
<1>10. KnownUpTo(c, m, h, f, id)
  BY <1>6, <1>7, <1>8, <1>9 DEF KnownUpTo
<1>11. KnownUpTo(c, m, h, f, u)
  BY <1>4, <1>5, <1>7, <1>8, <1>10, KnownMore
<1>12. ASSUME NEW i \in 1 .. Len(l.blocks), Pending(m, i)
       PROVE  Pending(l, i) /\ n < i
  <2>1. i \in n + 1 .. Len(l.blocks)
    BY <1>12 DEF Pending
  <2>2. i \in n .. Len(l.blocks) /\ n < i
    BY <1>1, <2>1
  <2> QED BY <1>12, <2>2 DEF Pending
<1>13. ASSUME NEW i \in 1 .. Len(m.blocks), Pending(m, i)
       PROVE  /\ m.blocks[i].id <= u /\ KnownUpTo(c, m, h, f, m.blocks[i].id - 1)
              /\ \A j \in 1 .. Len(m.blocks) : Pending(m, j) /\ i < j => m.blocks[i].id < m.blocks[j].id
  <2>1. i \in 1 .. Len(l.blocks) /\ Pending(l, i) /\ n < i
    BY <1>12, <1>13
  <2>2. l.blocks[i].id \in Nat /\ id < l.blocks[i].id
    BY <1>2, <1>5, <2>1 DEF BlockTypes
  <2>3. /\ l.blocks[i].id <= u
        /\ \A j \in 1 .. Len(l.blocks) : Pending(l, j) /\ i < j => l.blocks[i].id < l.blocks[j].id
    BY <2>1 DEF Fresh
  <2>4. KnownUpTo(c, m, h, f, l.blocks[i].id - 1)
    <3>1. l.blocks[i].id - 1 \in Int /\ id <= l.blocks[i].id - 1 /\ id \in Int
      BY <1>4, <2>2
    <3> QED BY <1>7, <1>8, <1>10, <3>1, KnownMore
  <2>5. \A j \in 1 .. Len(l.blocks) : Pending(m, j) => Pending(l, j)
    BY <1>12
  <2> QED BY <2>3, <2>4, <2>5
<1> QED BY <1>11, <1>13 DEF Fresh

\* A block that is no tool is passed over.
LEMMA SkipFresh ==
    ASSUME NEW c, NEW l \in LoopTypes, NEW g, NEW e, NEW u, Fresh(c, l, g, e, u), Working(l),
           NEW m \in LoopTypes, m.blocks = l.blocks, m.next = l.next + 1, m.results = l.results
    PROVE  Fresh(c, m, g, e, u)
<1>1. l.next \in Nat
  BY DEF LoopTypes
<1>2. ASSUME NEW i, Pending(m, i) PROVE Pending(l, i)
  <2>1. i \in l.next + 1 .. Len(l.blocks)
    BY <1>2 DEF Pending
  <2>2. i \in l.next .. Len(l.blocks)
    BY <1>1, <2>1
  <2> QED BY <1>2, <2>2 DEF Pending
<1>3. ASSUME NEW n PROVE KnownUpTo(c, l, g, e, n) => KnownUpTo(c, m, g, e, n)
  BY DEF KnownUpTo
<1> QED BY <1>2, <1>3 DEF Fresh

\* The tool blocks up to a place.
LEMMA UsesUpTo ==
    ASSUME NEW q \in Seq(BlockTypes), NEW n \in 1 .. Len(q)
    PROVE  Kept(SubSeq(q, 1, n), ToolBlocks) =
             IF q[n].kind = "tool" THEN Append(Kept(SubSeq(q, 1, n - 1), ToolBlocks), q[n])
             ELSE Kept(SubSeq(q, 1, n - 1), ToolBlocks)
<1>1. Len(q) \in Nat /\ n \in Nat /\ \A i \in 1 .. Len(q) : q[i] \in BlockTypes
  BY Sequence
<1>2. SubSeq(q, 1, n - 1) \in Seq(BlockTypes)
  <2>1. \A i \in 1 .. n - 1 : q[i] \in BlockTypes
    BY <1>1
  <2> QED BY <1>1, <2>1, SubSeqProperties
<1>3. SubSeq(q, 1, n) = Append(SubSeq(q, 1, n - 1), q[n])
  <2>1. \A i \in 1 .. n : q[i] \in BlockTypes
    BY <1>1
  <2> QED BY <1>1, <2>1
<1>4. q[n] \in BlockTypes /\ (q[n] \in ToolBlocks <=> q[n].kind = "tool")
  BY <1>1 DEF BlockTypes, ToolBlocks
<1> DEFINE p == SubSeq(q, 1, n - 1)
           x == q[n]
<1>5. p \in Seq(BlockTypes) /\ x \in BlockTypes
  BY <1>2, <1>4
<1> HIDE DEF p, x
<1>6. Kept(Append(p, x), ToolBlocks) = IF x \in ToolBlocks THEN Append(Kept(p, ToolBlocks), x) ELSE Kept(p, ToolBlocks)
  BY <1>5, KeptAppend
<1> QED BY <1>3, <1>4, <1>6 DEF p, x

\* Answers stay true when a call runs that is none of theirs.
LEMMA AnswersStay ==
    ASSUME NEW rs \in Seq(AnswerTypes), NEW us, NEW e \in Seq(EffectTypes), NEW f, NEW id \in Nat, NEW n \in Int,
           n < id, UpTo(rs, n), MayGrow(e, f, EffectTypes, id), Answers(rs, us, e)
    PROVE  Answers(rs, us, f)
<1>1. \A k \in 1 .. Len(rs) : rs[k].id \in Nat /\ rs[k].id # id
  <2>1. \A k \in 1 .. Len(rs) : rs[k] \in AnswerTypes /\ rs[k].id <= n
    BY Sequence DEF UpTo
  <2> QED BY <2>1 DEF AnswerTypes
<1>2. ASSUME NEW x \in EffectTypes, x.id = id, f = Append(e, x), NEW k \in 1 .. Len(rs)
      PROVE  Happened(f, rs[k].id) <=> Happened(e, rs[k].id)
  <2>1. /\ Len(f) = Len(e) + 1 /\ f[Len(e) + 1] = x /\ \A i \in 1 .. Len(e) : f[i] = e[i]
        /\ \A i \in 1 .. Len(e) + 1 : i \in 1 .. Len(e) \/ i = Len(e) + 1
    BY <1>2, OneMoreAt
  <2>2. \A i \in 1 .. Len(e) : i \in 1 .. Len(e) + 1
    BY LenProperties
  <2>3. x.id # rs[k].id
    BY <1>1, <1>2
  <2> QED BY <2>1, <2>2, <2>3 DEF Happened
<1>3. \A k \in 1 .. Len(rs) : Happened(f, rs[k].id) <=> Happened(e, rs[k].id)
  BY <1>2 DEF MayGrow
<1>4. Len(rs) = Len(us)
  BY DEF Answers
<1> QED BY <1>3, <1>4 DEF Answers

\* One more call answered.
LEMMA AnswersOn ==
    ASSUME NEW rs \in Seq(AnswerTypes), NEW us \in Seq(BlockTypes), NEW f, Answers(rs, us, f),
           NEW b \in BlockTypes, NEW o \in Outcomes, o \in {"Allowed", "AutoRun"} <=> Happened(f, b.id)
    PROVE  Answers(Append(rs, Result(b.id, o)), Append(us, b), f)
<1> DEFINE r == Result(b.id, o)
           qs == Append(rs, r)
           vs == Append(us, b)
<1>1. r \in AnswerTypes /\ r.id = b.id /\ r.outcome = o
  BY DEF Result, AnswerTypes, BlockTypes
<1> HIDE DEF r
<1>2. /\ Len(qs) = Len(rs) + 1 /\ qs[Len(rs) + 1] = r /\ \A k \in 1 .. Len(rs) : qs[k] = rs[k]
  BY <1>1, OneMoreAt
<1>3. /\ Len(vs) = Len(us) + 1 /\ vs[Len(us) + 1] = b /\ \A k \in 1 .. Len(us) : vs[k] = us[k]
      /\ \A k \in 1 .. Len(us) + 1 : k \in 1 .. Len(us) \/ k = Len(us) + 1
  BY OneMoreAt
<1>4. Len(rs) = Len(us)
  BY DEF Answers
<1> HIDE DEF qs, vs
<1>5. ASSUME NEW k \in 1 .. Len(vs)
      PROVE  qs[k].id = vs[k].id /\ (qs[k].outcome \in {"Allowed", "AutoRun"} <=> Happened(f, qs[k].id))
  <2>1. CASE k \in 1 .. Len(us)
    <3>1. qs[k] = rs[k] /\ vs[k] = us[k]
      BY <1>2, <1>3, <1>4, <2>1
    <3> QED BY <2>1, <3>1 DEF Answers
  <2>2. CASE k = Len(us) + 1
    <3>1. qs[k] = r /\ vs[k] = b
      BY <1>2, <1>3, <1>4, <2>2
    <3> QED BY <1>1, <3>1
  <2> QED BY <1>3, <2>1, <2>2
<1>6. Len(qs) = Len(vs)
  BY <1>2, <1>3, <1>4
<1>7. Answers(qs, vs, f)
  BY <1>5, <1>6 DEF Answers
<1> QED BY <1>7 DEF qs, vs, r

\* Earlier answers while the tools of the last one run.
LEMMA AllAnsweredStay ==
    ASSUME NEW c \in Seq(MessageTypes), NEW l, NEW g, NEW m, Working(l), Working(m), NEW e \in Seq(EffectTypes),
           NEW f, NEW id \in Nat, KnownUpTo(c, l, g, e, id - 1), MayGrow(e, f, EffectTypes, id), AllAnswered(c, l, e)
    PROVE  AllAnswered(c, m, f)
<1> SUFFICES ASSUME NEW i \in 1 .. Len(c), c[i].ended = "tool_use", ~(i = Len(c) /\ Working(m))
             PROVE  i < Len(c) /\ c[i + 1].role = "user" /\ Answers(c[i + 1].results, ToolUses(c[i].blocks), f)
  BY DEF AllAnswered
<1>1. i < Len(c) /\ c[i + 1].role = "user" /\ Answers(c[i + 1].results, ToolUses(c[i].blocks), e)
  BY DEF AllAnswered
<1>2. i + 1 \in 1 .. Len(c)
  BY <1>1, LenProperties
<1>3. c[i + 1].results \in Seq(AnswerTypes)
  <2>1. c[i + 1] \in MessageTypes
    BY <1>2, Sequence
  <2> QED BY <2>1 DEF MessageTypes
<1>4. UpTo(c[i + 1].results, id - 1) /\ id - 1 \in Int /\ id - 1 < id
  BY <1>2 DEF KnownUpTo
<1> QED BY <1>1, <1>3, <1>4, AnswersStay

\* A loop with another place, answer, number or results.
LoopOf(at, turn, blocks, next, results) ==
    [at |-> at, turn |-> turn, blocks |-> blocks, next |-> next, results |-> results]
LEMMA LoopParts ==
    ASSUME NEW l \in LoopTypes
    PROVE  /\ l = LoopOf(l.at, l.turn, l.blocks, l.next, l.results)
           /\ l.at \in {"idle", "send", "tools", "ask", "execute"} /\ l.turn \in Nat
           /\ l.blocks \in Seq(BlockTypes) /\ l.next \in Nat \ {0} /\ l.results \in Seq(AnswerTypes)
BY DEF LoopTypes, LoopOf
LEMMA LoopMade ==
    ASSUME NEW at \in {"idle", "send", "tools", "ask", "execute"}, NEW turn \in Nat,
           NEW blocks \in Seq(BlockTypes), NEW next \in Nat \ {0}, NEW results \in Seq(AnswerTypes),
           NEW l, l = LoopOf(at, turn, blocks, next, results)
    PROVE  /\ l \in LoopTypes /\ l.at = at /\ l.turn = turn /\ l.blocks = blocks /\ l.next = next
           /\ l.results = results
BY DEF LoopTypes, LoopOf

\* The call in hand, with its id and what is known of it.
LEMMA CallInHand ==
    ASSUME NEW c, NEW l, NEW g, NEW e, NEW yes, NEW u, AgentState(c, l, g, e, yes, u),
           Working(l), l.next <= Len(l.blocks), l.blocks[l.next].kind = "tool"
    PROVE  /\ l.blocks[l.next] \in BlockTypes /\ l.blocks[l.next].id \in Nat
           /\ KnownUpTo(c, l, g, e, l.blocks[l.next].id - 1)
           /\ l.next \in 1 .. Len(l.blocks)
<1>1. l \in LoopTypes /\ Fresh(c, l, g, e, u)
  BY DEF AgentState
<1>2. l.next \in Nat \ {0} /\ l.blocks \in Seq(BlockTypes)
  BY <1>1, LoopParts
<1>3. Len(l.blocks) \in Nat
  BY <1>2, Sequence
<1>4. l.next \in 1 .. Len(l.blocks) /\ l.next \in l.next .. Len(l.blocks)
  BY <1>2, <1>3
<1>5. Pending(l, l.next)
  BY <1>4 DEF Pending
<1>6. l.blocks[l.next] \in BlockTypes
  BY <1>2, <1>4, Sequence
<1> QED BY <1>1, <1>4, <1>5, <1>6 DEF Fresh, BlockTypes

\* The outcomes of a call the system did.
Ran(o) == o \in {"Allowed", "AutoRun"}

\* A call is answered, whatever became of it.
LEMMA CallAnswered ==
    ASSUME NEW c, NEW l, NEW g, NEW e, NEW yes, NEW u, AgentState(c, l, g, e, yes, u),
           Working(l), l.next <= Len(l.blocks), NEW b, b = l.blocks[l.next], b.kind = "tool",
           NEW o \in Outcomes, NEW m,
           m = LoopOf("tools", l.turn, l.blocks, l.next + 1, Append(l.results, Result(b.id, o))),
           NEW h, MayGrow(g, h, AnswerTypes, b.id), NEW f, MayGrow(e, f, EffectTypes, b.id),
           Ran(o) <=> Happened(f, b.id)
    PROVE  /\ m \in LoopTypes /\ h \in Seq(AnswerTypes) /\ f \in Seq(EffectTypes)
           /\ InHand(c, m, yes) /\ Fresh(c, m, h, f, u) /\ SoFar(m, f) /\ AllAnswered(c, m, f) /\ OnceEach(h)
           /\ LeftAlone(c, m, h)
<1> DEFINE rs == Append(l.results, Result(b.id, o))
<1>1. /\ c \in Seq(MessageTypes) /\ l \in LoopTypes /\ g \in Seq(AnswerTypes) /\ e \in Seq(EffectTypes) /\ u \in Nat
      /\ InHand(c, l, yes) /\ Fresh(c, l, g, e, u) /\ SoFar(l, e) /\ AllAnswered(c, l, e) /\ OnceEach(g)
      /\ LeftAlone(c, l, g)
  BY DEF AgentState
<1>2. b \in BlockTypes /\ b.id \in Nat /\ KnownUpTo(c, l, g, e, b.id - 1) /\ l.next \in 1 .. Len(l.blocks)
  BY CallInHand
<1>3. /\ l.at \in {"idle", "send", "tools", "ask", "execute"} /\ l.turn \in Nat
      /\ l.blocks \in Seq(BlockTypes) /\ l.next \in Nat \ {0} /\ l.results \in Seq(AnswerTypes)
  BY <1>1, LoopParts
<1>4. Result(b.id, o) \in AnswerTypes /\ Result(b.id, o).id = b.id
  BY <1>2 DEF Result, AnswerTypes
<1>5. rs \in Seq(AnswerTypes)
  BY <1>3, <1>4, AppendProperties
<1>6. m \in LoopTypes /\ m.at = "tools" /\ m.blocks = l.blocks /\ m.next = l.next + 1 /\ m.results = rs
  <2>1. l.next + 1 \in Nat \ {0}
    BY <1>3
  <2>2. m = LoopOf("tools", l.turn, l.blocks, l.next + 1, rs)
    OBVIOUS
  <2> HIDE DEF rs
  <2>3. m.at = "tools" /\ m.turn = l.turn /\ m.blocks = l.blocks /\ m.next = l.next + 1 /\ m.results = rs
    BY <2>2 DEF LoopOf
  <2>4. m = LoopOf(m.at, m.turn, m.blocks, m.next, m.results)
    BY <2>2, <2>3
  <2>5. /\ m.at \in {"idle", "send", "tools", "ask", "execute"} /\ m.turn \in Nat
        /\ m.blocks \in Seq(BlockTypes) /\ m.next \in Nat \ {0} /\ m.results \in Seq(AnswerTypes)
    BY <1>3, <1>5, <2>1, <2>3
  <2>6. m \in LoopTypes
    BY <2>4, <2>5 DEF LoopOf, LoopTypes
  <2> QED BY <2>3, <2>6
<1>7. h \in Seq(AnswerTypes) /\ f \in Seq(EffectTypes)
  <2>1. ASSUME NEW S, NEW s \in Seq(S), NEW t, MayGrow(s, t, S, b.id) PROVE t \in Seq(S)
    BY <2>1, AppendProperties DEF MayGrow
  <2> QED BY <1>1, <2>1
<1>8. InHand(c, m, yes)
  <2>1. /\ Len(c) > 0 /\ c[Len(c)].role = "assistant" /\ c[Len(c)].blocks = m.blocks
    BY <1>1, <1>6 DEF InHand
  <2>2. m.next <= Len(m.blocks) + 1
    <3>1. l.next + 1 <= Len(l.blocks) + 1
      <4>1. l.next \in Nat /\ Len(l.blocks) \in Nat /\ l.next <= Len(l.blocks)
        BY <1>3, Sequence
      <4> QED BY <4>1
    <3> QED BY <1>6, <3>1
  <2> QED BY <1>6, <2>1, <2>2 DEF InHand, Working
<1>9. Fresh(c, m, h, f, u)
  <2>1. MayGrow(l.results, m.results, AnswerTypes, b.id)
    BY <1>4, <1>6 DEF MayGrow
  <2> QED BY <1>1, <1>6, <2>1, NextFresh
<1>10. Working(m)
  BY <1>6 DEF Working
<1>11. AllAnswered(c, m, f)
  BY <1>1, <1>2, <1>10, AllAnsweredStay
<1>12. SoFar(m, f)
  <2> DEFINE us == Kept(SubSeq(l.blocks, 1, l.next - 1), ToolBlocks)
  <2>1. Answers(l.results, us, e)
    BY <1>1 DEF SoFar
  <2>2. UpTo(l.results, b.id - 1) /\ b.id - 1 \in Int /\ b.id - 1 < b.id
    BY <1>2 DEF KnownUpTo
  <2>3. us \in Seq(BlockTypes)
    <3>1. SubSeq(l.blocks, 1, l.next - 1) \in Seq(BlockTypes)
      <4>1. \A i \in 1 .. l.next - 1 : l.blocks[i] \in BlockTypes
        <5>1. \A i \in 1 .. l.next - 1 : i \in 1 .. Len(l.blocks)
          BY <1>2, <1>3, Sequence
        <5> QED BY <1>3, <5>1, Sequence
      <4> QED BY <1>3, <4>1, SubSeqProperties
    <3> QED BY <3>1, KeptProperties
  <2>4. Kept(SubSeq(l.blocks, 1, l.next), ToolBlocks) = Append(us, b)
    BY <1>2, <1>3, UsesUpTo
  <2>5. m.next - 1 = l.next
    <3>1. l.next \in Nat /\ m.next = l.next + 1
      BY <1>3, <1>6
    <3> HIDE <1>6
    <3> QED BY <3>1
  <2> HIDE DEF us
  <2>6. Answers(l.results, us, f)
    BY <1>1, <1>2, <1>3, <2>1, <2>2, AnswersStay
  <2>7. Answers(rs, Append(us, b), f)
    BY <1>2, <1>3, <2>3, <2>6, AnswersOn DEF Ran
  <2> HIDE DEF rs
  <2> QED BY <1>6, <2>4, <2>5, <2>7 DEF SoFar
<1>13. OnceEach(h)
  <2>1. CASE h = g
    BY <1>1, <2>1
  <2>2. CASE \E x \in AnswerTypes : x.id = b.id /\ h = Append(g, x)
    <3>1. PICK x \in AnswerTypes : x.id = b.id /\ h = Append(g, x)
      BY <2>2
    <3>2. /\ Len(h) = Len(g) + 1 /\ h[Len(g) + 1] = x /\ \A i \in 1 .. Len(g) : h[i] = g[i]
          /\ \A i \in 1 .. Len(g) + 1 : i \in 1 .. Len(g) \/ i = Len(g) + 1
      BY <1>1, <3>1, OneMoreAt
    <3>3. \A i \in 1 .. Len(g) : g[i].id # b.id
      <4>1. \A i \in 1 .. Len(g) : g[i] \in AnswerTypes /\ g[i].id <= b.id - 1
        BY <1>1, <1>2, Sequence DEF KnownUpTo, UpTo
      <4> QED BY <1>2, <4>1 DEF AnswerTypes
    <3> QED BY <1>1, <3>1, <3>2, <3>3 DEF OnceEach
  <2> QED BY <2>1, <2>2 DEF MayGrow
<1>14. LeftAlone(c, m, h)
  <2> SUFFICES ASSUME NEW id \in Nat, IsLeft(c, id) PROVE Unseen(c, m, h, id)
    BY DEF LeftAlone
  <2>1. Unseen(c, l, g, id)
    BY <1>1 DEF LeftAlone
  <2>2. id # b.id
    <3>1. id <= b.id - 1
      BY <1>2 DEF KnownUpTo
    <3> QED BY <1>2, <3>1
  <2>3. NoneOf(h, id)
    <3>1. NoneOf(g, id)
      BY <2>1 DEF Unseen
    <3>2. \A x \in AnswerTypes : x.id = b.id => NoneOf(Append(g, x), id)
      BY <1>1, <2>2, <3>1, NoneOfAppend
    <3> QED BY <3>1, <3>2 DEF MayGrow
  <2>4. NoneOf(rs, id)
    <3>1. NoneOf(l.results, id)
      BY <2>1 DEF Unseen
    <3> QED BY <1>3, <1>4, <2>2, <3>1, NoneOfAppend
  <2> QED BY <1>6, <2>1, <2>3, <2>4 DEF Unseen
<1> QED BY <1>6, <1>7, <1>8, <1>9, <1>11, <1>12, <1>13, <1>14

\* A call with a larger id than all that ran has not run.
LEMMA NotYet ==
    ASSUME NEW e \in Seq(EffectTypes), NEW id \in Nat, UpTo(e, id - 1)
    PROVE  ~Happened(e, id)
<1>1. \A k \in 1 .. Len(e) : e[k] \in EffectTypes /\ e[k].id <= id - 1
  BY Sequence DEF UpTo
<1> QED BY <1>1 DEF Happened, EffectTypes

\* A call that does not run is answered, with an entry in the log or without.
LEMMA CallLogged ==
    ASSUME NEW c, NEW l, NEW g, NEW e, NEW yes, NEW u, AgentState(c, l, g, e, yes, u),
           Working(l), l.next <= Len(l.blocks), NEW b, b = l.blocks[l.next], b.kind = "tool",
           NEW o \in Outcomes, ~Ran(o), NEW m,
           m = LoopOf("tools", l.turn, l.blocks, l.next + 1, Append(l.results, Result(b.id, o))),
           NEW h, h = g \/ (o # "Failed" /\ h = Append(g, Result(b.id, o)))
    PROVE  AgentState(c, m, h, e, yes, u)
<1>1. /\ c \in Seq(MessageTypes) /\ g \in Seq(AnswerTypes) /\ e \in Seq(EffectTypes) /\ u \in Nat
      /\ AllFine(e, yes) /\ Tells(g, e)
  BY DEF AgentState
<1>2. b \in BlockTypes /\ b.id \in Nat /\ KnownUpTo(c, l, g, e, b.id - 1)
  BY CallInHand
<1>3. Result(b.id, o) \in AnswerTypes /\ Result(b.id, o).id = b.id /\ Result(b.id, o).outcome = o
  BY <1>2 DEF Result, AnswerTypes
<1>4. MayGrow(g, h, AnswerTypes, b.id)
  BY <1>3 DEF MayGrow
<1>5. MayGrow(e, e, EffectTypes, b.id)
  BY DEF MayGrow
<1>6. ~Happened(e, b.id)
  BY <1>1, <1>2, NotYet DEF KnownUpTo
<1>7. /\ m \in LoopTypes /\ h \in Seq(AnswerTypes)
      /\ InHand(c, m, yes) /\ Fresh(c, m, h, e, u) /\ SoFar(m, e) /\ AllAnswered(c, m, e) /\ OnceEach(h)
      /\ LeftAlone(c, m, h)
  BY <1>4, <1>5, <1>6, CallAnswered
<1>8. Tells(h, e)
  <2>1. CASE h = g
    BY <1>1, <2>1
  <2>2. CASE o # "Failed" /\ h = Append(g, Result(b.id, o))
    <3> DEFINE r == Result(b.id, o)
    <3>1. r \notin RanEntries
      BY <1>3, <2>2 DEF RanEntries, Ran
    <3>2. r \in AnswerTypes
      BY <1>3
    <3> HIDE DEF r
    <3>3. Kept(Append(g, r), RanEntries) = Kept(g, RanEntries)
      BY <1>1, <3>1, <3>2, KeptAppend
    <3> QED BY <1>1, <2>2, <3>3 DEF Tells, r
  <2> QED BY <2>1, <2>2
<1> QED BY <1>1, <1>7, <1>8 DEF AgentState

\* A list with one more at its end.
Grown(s, x, t) == t = Append(s, x)

\* A call that runs is logged and answered with what the system did.
LEMMA CallRun ==
    ASSUME NEW c, NEW l, NEW g, NEW e, NEW yes, NEW u, AgentState(c, l, g, e, yes, u),
           Working(l), l.next <= Len(l.blocks), NEW b, b = l.blocks[l.next], b.kind = "tool",
           NEW o \in Outcomes, o \in {"Allowed", "AutoRun", "Failed"}, NEW m,
           m = LoopOf("tools", l.turn, l.blocks, l.next + 1, Append(l.results, Result(b.id, o))),
           NEW x \in EffectTypes, x.id = b.id, Fine(x, yes), o # "Failed" <=> x.ok,
           NEW h, Grown(g, Result(b.id, o), h), NEW f, Grown(e, x, f)
    PROVE  AgentState(c, m, h, f, yes, u)
<1>1. /\ c \in Seq(MessageTypes) /\ g \in Seq(AnswerTypes) /\ e \in Seq(EffectTypes) /\ u \in Nat
      /\ AllFine(e, yes) /\ Tells(g, e)
  BY DEF AgentState
<1>2. b \in BlockTypes /\ b.id \in Nat /\ KnownUpTo(c, l, g, e, b.id - 1)
  BY CallInHand
<1>3. Result(b.id, o) \in AnswerTypes /\ Result(b.id, o).id = b.id /\ Result(b.id, o).outcome = o
  BY <1>2 DEF Result, AnswerTypes
<1>4. MayGrow(g, h, AnswerTypes, b.id)
  BY <1>3 DEF MayGrow, Grown
<1>5. MayGrow(e, f, EffectTypes, b.id)
  BY DEF MayGrow, Grown
<1>6. /\ Len(f) = Len(e) + 1 /\ f[Len(e) + 1] = x /\ \A k \in 1 .. Len(e) : f[k] = e[k]
      /\ \A k \in 1 .. Len(e) + 1 : k \in 1 .. Len(e) \/ k = Len(e) + 1
  BY <1>1, OneMoreAt DEF Grown
<1>7. Len(e) \in Nat /\ Len(e) + 1 \in 1 .. Len(f) /\ \A k \in 1 .. Len(e) : k \in 1 .. Len(f)
  BY <1>1, <1>6, LenProperties
<1>8. Happened(f, b.id) <=> x.ok
  <2>1. ~Happened(e, b.id)
    BY <1>1, <1>2, NotYet DEF KnownUpTo
  <2> QED BY <1>6, <1>7, <2>1 DEF Happened
<1>9. Ran(o) <=> Happened(f, b.id)
  BY <1>8 DEF Ran
<1>10. /\ m \in LoopTypes /\ h \in Seq(AnswerTypes) /\ f \in Seq(EffectTypes)
       /\ InHand(c, m, yes) /\ Fresh(c, m, h, f, u) /\ SoFar(m, f) /\ AllAnswered(c, m, f) /\ OnceEach(h)
       /\ LeftAlone(c, m, h)
  BY <1>4, <1>5, <1>9, CallAnswered, ZenonT(60)
<1>11. AllFine(f, yes)
  BY <1>1, <1>6 DEF AllFine
<1>12. Tells(h, f)
  <2> DEFINE r == Result(b.id, o)
             ran == Kept(g, RanEntries)
  <2>1. r \in RanEntries /\ r \in AnswerTypes
    BY <1>2, <1>3 DEF RanEntries, Result
  <2> HIDE DEF r
  <2>2. Kept(Append(g, r), RanEntries) = Append(ran, r)
    BY <1>1, <2>1, KeptAppend
  <2>3. ran \in Seq(AnswerTypes)
    BY <1>1, KeptProperties
  <2>4. Len(ran) = Len(e) /\ \A i \in 1 .. Len(e) : ran[i].id = e[i].id /\ (ran[i].outcome # "Failed" <=> e[i].ok)
    BY <1>1 DEF Tells
  <2> HIDE DEF ran
  <2> DEFINE now == Append(ran, r)
  <2>5. /\ Len(now) = Len(ran) + 1 /\ now[Len(ran) + 1] = r /\ \A k \in 1 .. Len(ran) : now[k] = ran[k]
    BY <2>1, <2>3, OneMoreAt
  <2> HIDE DEF now
  <2>6. r.id = x.id /\ r.outcome = o
    BY <1>3 DEF r
  <2>7. /\ Len(now) = Len(f)
        /\ \A i \in 1 .. Len(f) : now[i].id = f[i].id /\ (now[i].outcome # "Failed" <=> f[i].ok)
    BY <1>6, <2>4, <2>5, <2>6
  <2>8. now = Kept(h, RanEntries)
    BY <2>2 DEF now, r, Grown
  <2> QED BY <2>7, <2>8 DEF Tells
<1> QED BY <1>1, <1>10, <1>11, <1>12 DEF AgentState

\* What passes the session's checks and has the yes it needs may run.
LEMMA MayRun ==
    ASSUME NEW call \in ToolCalls, Passes(call), NEW yes, NEW x, x.tool = call.tool, x.raw = call.target,
           x.path = Target(call), x.tool \in NeedsApproval => x.id \in yes
    PROVE  Fine(x, yes) /\ Target(call) \in Seq(Words)
<1> DEFINE f == Fitted(call)
           path == Normalize(call.target)
<1>1. /\ call.tool \in TOOLS \cup {"unknown", "none"} /\ call.target \in Seq(Words)
      /\ call.tool = "write_file" /\ call.input = "valid" => call.target # NoTarget
  BY DEF ToolCalls
<1>2. f.tool = call.tool /\ f.target = call.target /\ (call.tool # "screenshot" => f = call)
  BY DEF Fitted, ToolCalls
<1> HIDE DEF f
<1>3. ~Malformed(f) /\ ~Forbidden(f)
  BY DEF Passes, f
<1>4. HasPath(f) <=> HasPath(call)
  BY <1>2 DEF HasPath
<1>5. LowerCased(path) = Location(call.target) /\ path \in Seq(Words)
  BY <1>1, NormalizeIsLocation
<1> HIDE DEF path
<1>6. HasPath(call) => ~IsProtected(path) /\ (call.tool = "write_file" => IsWritableLocation(path))
  BY <1>2, <1>3, <1>4 DEF Forbidden, path
<1>7. call.tool = "write_file" => HasPath(call)
  <2>1. f.input = "valid"
    BY <1>3 DEF Malformed
  <2> QED BY <1>1, <1>2, <2>1 DEF HasPath, PathTools
<1>8. Target(call) = IF HasPath(call) THEN path ELSE call.target
  BY DEF Target, path
<1>9. Target(call) \in Seq(Words)
  BY <1>1, <1>5, <1>8
<1>10. ASSUME HasPath(call)
       PROVE  ~(\E dir \in Protected : IsPrefix(dir, Location(call.target))) /\ LowerCased(x.path) = Location(call.target)
  BY <1>5, <1>6, <1>8, <1>10 DEF IsProtected
<1>11. ASSUME call.tool = "write_file" PROVE Location(call.target)[1] \in {"data", "tmp"}
  BY <1>5, <1>6, <1>7, <1>11 DEF IsWritableLocation
<1> QED BY <1>9, <1>10, <1>11 DEF Fine, HasPath

\* A message more.
LEMMA KnownWithMessage ==
    ASSUME NEW c \in Seq(MessageTypes), NEW l, NEW g, NEW e, NEW n, KnownUpTo(c, l, g, e, n),
           NEW msg \in MessageTypes, UpTo(msg.results, n), \A id \in Nat : LeftIn(msg, id) => id <= n,
           NEW m, UpTo(m.results, n)
    PROVE  KnownUpTo(Append(c, msg), m, g, e, n)
<1> DEFINE d == Append(c, msg)
<1>1. /\ Len(d) = Len(c) + 1 /\ d[Len(c) + 1] = msg /\ \A k \in 1 .. Len(c) : d[k] = c[k]
      /\ \A k \in 1 .. Len(c) + 1 : k \in 1 .. Len(c) \/ k = Len(c) + 1
  BY OneMoreAt
<1>2. \A id \in Nat : IsLeft(d, id) => IsLeft(c, id) \/ LeftIn(msg, id)
  BY LeftAppend
<1> HIDE DEF d
<1>3. \A id \in Nat : IsLeft(d, id) => id <= n
  BY <1>2 DEF KnownUpTo
<1>4. KnownUpTo(d, m, g, e, n)
  BY <1>1, <1>3 DEF KnownUpTo
<1> QED BY <1>4 DEF d
\* No results have no ids.
LEMMA NoResults == \A n : UpTo(<<>>, n) /\ NoneOf(<<>>, n)
  <1>1. Len(<<>>) = 0
    BY EmptySeq
  <1> QED BY <1>1 DEF UpTo, NoneOf

\* Between the tools nothing is pending and every call so far is answered.
LEMMA AtRest ==
    ASSUME NEW c, NEW l, NEW g, NEW e, NEW yes, NEW u, AgentState(c, l, g, e, yes, u), ~Working(l)
    PROVE  /\ l.next = 1 /\ l.results = <<>> /\ KnownUpTo(c, l, g, e, u)
           /\ \A i \in 1 .. Len(c) : c[i].ended = "tool_use" =>
                i < Len(c) /\ c[i + 1].role = "user" /\ Answers(c[i + 1].results, ToolUses(c[i].blocks), e)
BY DEF AgentState, InHand, Fresh, AllAnswered

\* A message that has no results and did not end in tool_use is added, or none, while no
\* tools run; the calls in it are new.
LEMMA RestStep ==
    ASSUME NEW c, NEW l, NEW g, NEW e, NEW yes, NEW u, AgentState(c, l, g, e, yes, u), ~Working(l),
           NEW m \in LoopTypes, ~Working(m), m.next = 1, m.results = <<>>, NEW v \in Nat, u <= v, NEW d,
           d = c \/ \E msg \in MessageTypes : /\ d = Append(c, msg) /\ msg.results = <<>> /\ msg.ended # "tool_use"
                                              /\ \A id \in Nat : LeftIn(msg, id) => u < id /\ id <= v
    PROVE  AgentState(d, m, g, e, yes, v)
<1>1. /\ c \in Seq(MessageTypes) /\ l \in LoopTypes /\ g \in Seq(AnswerTypes) /\ e \in Seq(EffectTypes) /\ u \in Nat
      /\ AllFine(e, yes) /\ OnceEach(g) /\ Tells(g, e) /\ LeftAlone(c, l, g)
  BY DEF AgentState
<1>2. KnownUpTo(c, l, g, e, u)
  BY AtRest
<1>3. KnownUpTo(c, l, g, e, v)
  BY <1>1, <1>2, KnownMore
<1>4. KnownUpTo(c, m, g, e, v)
  BY <1>3, NoResults DEF KnownUpTo
<1>5. LeftAlone(c, m, g) /\ AllAnswered(c, m, e)
  <2>1. \A id \in Nat : Unseen(c, l, g, id) => Unseen(c, m, g, id)
    BY NoResults DEF Unseen
  <2>2. AllAnswered(c, m, e)
    BY AtRest DEF AllAnswered
  <2> QED BY <1>1, <2>1, <2>2 DEF LeftAlone
<1>6. d \in Seq(MessageTypes) /\ KnownUpTo(d, m, g, e, v) /\ AllAnswered(d, m, e) /\ LeftAlone(d, m, g)
  <2>1. CASE d = c
    BY <1>1, <1>4, <1>5, <2>1
  <2>2. ASSUME NEW msg \in MessageTypes, d = Append(c, msg), msg.results = <<>>, msg.ended # "tool_use",
               \A id \in Nat : LeftIn(msg, id) => u < id /\ id <= v
        PROVE  d \in Seq(MessageTypes) /\ KnownUpTo(d, m, g, e, v) /\ AllAnswered(d, m, e) /\ LeftAlone(d, m, g)
    <3>1. /\ d \in Seq(MessageTypes)
          /\ Len(d) = Len(c) + 1 /\ d[Len(c) + 1] = msg /\ \A k \in 1 .. Len(c) : d[k] = c[k]
          /\ \A k \in 1 .. Len(c) + 1 : k \in 1 .. Len(c) \/ k = Len(c) + 1
      BY <1>1, <2>2, OneMoreAt
    <3>2. KnownUpTo(d, m, g, e, v)
      BY <1>1, <1>4, <2>2, NoResults, KnownWithMessage
    <3>3. ASSUME NEW i \in 1 .. Len(d), d[i].ended = "tool_use"
          PROVE  i < Len(d) /\ d[i + 1].role = "user" /\ Answers(d[i + 1].results, ToolUses(d[i].blocks), e)
      <4>1. i \in 1 .. Len(c) /\ d[i] = c[i]
        BY <2>2, <3>1, <3>3
      <4>2. i < Len(c) /\ c[i + 1].role = "user" /\ Answers(c[i + 1].results, ToolUses(c[i].blocks), e)
        BY <3>3, <4>1, AtRest
      <4>3. Len(c) \in Nat /\ i + 1 \in 1 .. Len(c) /\ i < Len(d)
        BY <1>1, <3>1, <4>1, <4>2, LenProperties
      <4> QED BY <3>1, <4>1, <4>2, <4>3
    <3>4. ASSUME NEW id \in Nat, IsLeft(d, id) PROVE Unseen(d, m, g, id)
      <4>1. Unseen(c, m, g, id)
        <5>1. CASE IsLeft(c, id)
          BY <1>5, <5>1 DEF LeftAlone
        <5>2. CASE LeftIn(msg, id)
          <6>1. Unseen(c, l, g, id)
            BY <1>1, <1>2, <2>2, <5>2, AboveUnseen
          <6> QED BY <6>1, NoResults DEF Unseen
        <5> QED BY <1>1, <2>2, <3>4, <5>1, <5>2, LeftAppend
      <4> QED BY <1>1, <2>2, <4>1, NoResults, UnseenAppend
    <3> QED BY <3>1, <3>2, <3>3, <3>4 DEF AllAnswered, LeftAlone
  <2> QED BY <2>1, <2>2
<1>7. InHand(d, m, yes)
  BY DEF InHand, Working
<1>8. Fresh(d, m, g, e, v)
  BY <1>6 DEF Fresh, Pending
<1>9. SoFar(m, e)
  BY DEF SoFar
<1> QED BY <1>1, <1>6, <1>7, <1>8, <1>9 DEF AgentState

\* An answer that ended in tool_use becomes the one in hand.
LEMMA ToolsBegin ==
    ASSUME NEW c, NEW l, NEW g, NEW e, NEW yes, NEW u, AgentState(c, l, g, e, yes, u), ~Working(l),
           NEW blocks \in Seq(BlockTypes), NEW v \in Nat, u <= v,
           \A i \in 1 .. Len(blocks) : blocks[i].kind = "tool" =>
              /\ u < blocks[i].id /\ blocks[i].id <= v
              /\ \A j \in 1 .. Len(blocks) : blocks[j].kind = "tool" /\ i < j => blocks[i].id < blocks[j].id,
           NEW m \in LoopTypes, m.at = "tools", m.blocks = blocks, m.next = 1, m.results = <<>>,
           NEW msg \in MessageTypes, msg.role = "assistant", msg.blocks = blocks, msg.results = <<>>,
           msg.ended = "tool_use", NEW d, d = Append(c, msg)
    PROVE  AgentState(d, m, g, e, yes, v)
<1>1. /\ c \in Seq(MessageTypes) /\ l \in LoopTypes /\ g \in Seq(AnswerTypes) /\ e \in Seq(EffectTypes) /\ u \in Nat
      /\ AllFine(e, yes) /\ OnceEach(g) /\ Tells(g, e) /\ LeftAlone(c, l, g)
  BY DEF AgentState
<1>2. /\ d \in Seq(MessageTypes)
      /\ Len(d) = Len(c) + 1 /\ d[Len(c) + 1] = msg /\ \A k \in 1 .. Len(c) : d[k] = c[k]
      /\ \A k \in 1 .. Len(c) + 1 : k \in 1 .. Len(c) \/ k = Len(c) + 1
  BY <1>1, OneMoreAt
<1>3. Len(c) \in Nat /\ Len(blocks) \in Nat /\ \A i \in 1 .. Len(blocks) : blocks[i] \in BlockTypes
  BY <1>1, Sequence
<1>4. Working(m)
  BY DEF Working
<1>5. InHand(d, m, yes)
  <2>1. Len(d) > 0 /\ d[Len(d)] = msg
    BY <1>2, <1>3
  <2>2. m.next <= Len(m.blocks) + 1
    BY <1>3
  <2> QED BY <1>4, <2>1, <2>2 DEF InHand
<1>6. KnownUpTo(d, m, g, e, u)
  <2>1. KnownUpTo(c, l, g, e, u)
    BY AtRest
  <2>2. \A id \in Nat : ~LeftIn(msg, id)
    BY DEF LeftIn
  <2> QED BY <1>1, <2>1, <2>2, NoResults, KnownWithMessage
<1>7. ASSUME NEW n \in Int, u <= n PROVE KnownUpTo(d, m, g, e, n)
  <2>1. u \in Int
    BY <1>1
  <2> QED BY <1>1, <1>2, <1>6, <1>7, <2>1, KnownMore
<1>8. Fresh(d, m, g, e, v)
  <2>1. ASSUME NEW i \in 1 .. Len(blocks), blocks[i].kind = "tool"
        PROVE  blocks[i].id <= v /\ KnownUpTo(d, m, g, e, blocks[i].id - 1)
    <3>1. blocks[i].id \in Nat
      BY <1>3 DEF BlockTypes
    <3>2. blocks[i].id - 1 \in Int /\ u <= blocks[i].id - 1
      BY <1>1, <2>1, <3>1
    <3> QED BY <1>7, <2>1, <3>2
  <2>2. KnownUpTo(d, m, g, e, v)
    BY <1>7
  <2> QED BY <2>1, <2>2 DEF Fresh, Pending
<1>9. SoFar(m, e)
  <2>1. SubSeq(m.blocks, 1, m.next - 1) = <<>>
    BY <1>3
  <2>2. Kept(SubSeq(m.blocks, 1, m.next - 1), ToolBlocks) = <<>>
    BY <2>1, KeptEmpty
  <2>3. Len(<<>>) = 0
    BY EmptySeq
  <2>4. Answers(<<>>, <<>>, e)
    BY <2>3 DEF Answers
  <2> QED BY <2>2, <2>4 DEF SoFar
<1>10. AllAnswered(d, m, e)
  <2>1. ASSUME NEW i \in 1 .. Len(d), d[i].ended = "tool_use", i # Len(d)
        PROVE  i < Len(d) /\ d[i + 1].role = "user" /\ Answers(d[i + 1].results, ToolUses(d[i].blocks), e)
    <3>1. i \in 1 .. Len(c) /\ d[i] = c[i]
      BY <1>2, <2>1
    <3>2. i < Len(c) /\ c[i + 1].role = "user" /\ Answers(c[i + 1].results, ToolUses(c[i].blocks), e)
      BY <2>1, <3>1, AtRest
    <3>3. i + 1 \in 1 .. Len(c) /\ i < Len(d)
      BY <1>2, <1>3, <3>1, <3>2
    <3> QED BY <1>2, <3>1, <3>2, <3>3
  <2> QED BY <1>4, <2>1 DEF AllAnswered
<1>11. LeftAlone(d, m, g)
  <2> SUFFICES ASSUME NEW id \in Nat, IsLeft(d, id) PROVE Unseen(d, m, g, id)
    BY DEF LeftAlone
  <2>1. IsLeft(c, id)
    BY <1>1, LeftAppend DEF LeftIn
  <2>2. Unseen(c, l, g, id)
    BY <1>1, <2>1 DEF LeftAlone
  <2> QED BY <1>1, <2>2, NoResults, UnseenAppend
<1> QED BY <1>1, <1>2, <1>5, <1>8, <1>9, <1>10, <1>11 DEF AgentState

\* All results of an answer go back in one message.
LEMMA ToolsEnd ==
    ASSUME NEW c, NEW l, NEW g, NEW e, NEW yes, NEW u, AgentState(c, l, g, e, yes, u),
           Working(l), l.next > Len(l.blocks), NEW m \in LoopTypes, ~Working(m), m.next = 1, m.results = <<>>,
           NEW msg \in MessageTypes, msg.role = "user", msg.results = l.results, msg.ended = "none",
           \A id \in Nat : ~LeftIn(msg, id), NEW d, d = Append(c, msg)
    PROVE  AgentState(d, m, g, e, yes, u)
<1>1. /\ c \in Seq(MessageTypes) /\ l \in LoopTypes /\ g \in Seq(AnswerTypes) /\ e \in Seq(EffectTypes) /\ u \in Nat
      /\ InHand(c, l, yes) /\ Fresh(c, l, g, e, u) /\ SoFar(l, e) /\ AllAnswered(c, l, e)
      /\ AllFine(e, yes) /\ OnceEach(g) /\ Tells(g, e) /\ LeftAlone(c, l, g)
  BY DEF AgentState
<1>2. /\ d \in Seq(MessageTypes)
      /\ Len(d) = Len(c) + 1 /\ d[Len(c) + 1] = msg /\ \A k \in 1 .. Len(c) : d[k] = c[k]
      /\ \A k \in 1 .. Len(c) + 1 : k \in 1 .. Len(c) \/ k = Len(c) + 1
  BY <1>1, OneMoreAt
<1>3. Len(c) \in Nat /\ l.blocks \in Seq(BlockTypes) /\ l.next \in Nat \ {0} /\ Len(l.blocks) \in Nat
  BY <1>1, LoopParts, Sequence
<1>4. Answers(l.results, ToolUses(l.blocks), e)
  <2>1. l.next - 1 = Len(l.blocks)
    BY <1>1, <1>3 DEF InHand
  <2>2. SubSeq(l.blocks, 1, Len(l.blocks)) = l.blocks
    BY <1>3, SubSeqFull
  <2> QED BY <1>1, <2>1, <2>2 DEF SoFar, ToolUses
<1>5. InHand(d, m, yes)
  BY DEF InHand, Working
<1>6. KnownUpTo(d, m, g, e, u)
  <2>1. KnownUpTo(c, l, g, e, u)
    BY <1>1 DEF Fresh
  <2>2. UpTo(msg.results, u)
    BY <2>1 DEF KnownUpTo
  <2> QED BY <1>1, <2>1, <2>2, NoResults, KnownWithMessage
<1>7. Fresh(d, m, g, e, u)
  BY <1>6 DEF Fresh, Pending
<1>8. SoFar(m, e)
  BY DEF SoFar
<1>9. AllAnswered(d, m, e)
  <2>1. ASSUME NEW i \in 1 .. Len(d), d[i].ended = "tool_use"
        PROVE  i < Len(d) /\ d[i + 1].role = "user" /\ Answers(d[i + 1].results, ToolUses(d[i].blocks), e)
    <3>1. i \in 1 .. Len(c) /\ d[i] = c[i]
      BY <1>2, <2>1
    <3>2. CASE i = Len(c)
      <4>1. c[i].blocks = l.blocks
        BY <1>1, <3>2 DEF InHand
      <4> QED BY <1>2, <1>3, <1>4, <3>1, <3>2, <4>1
    <3>3. CASE i # Len(c)
      <4>1. i < Len(c) /\ c[i + 1].role = "user" /\ Answers(c[i + 1].results, ToolUses(c[i].blocks), e)
        BY <1>1, <2>1, <3>1, <3>3 DEF AllAnswered
      <4>2. i + 1 \in 1 .. Len(c) /\ i < Len(d)
        BY <1>2, <1>3, <3>1, <4>1
      <4> QED BY <1>2, <3>1, <4>1, <4>2
    <3> QED BY <3>2, <3>3
  <2> QED BY <2>1 DEF AllAnswered
<1>10. LeftAlone(d, m, g)
  <2> SUFFICES ASSUME NEW id \in Nat, IsLeft(d, id) PROVE Unseen(d, m, g, id)
    BY DEF LeftAlone
  <2>1. IsLeft(c, id)
    BY <1>1, LeftAppend
  <2>2. Unseen(c, l, g, id) /\ NoneOf(msg.results, id)
    BY <1>1, <2>1 DEF LeftAlone, Unseen
  <2> QED BY <1>1, <2>2, NoResults, UnseenAppend
<1> QED BY <1>1, <1>2, <1>5, <1>7, <1>8, <1>9, <1>10 DEF AgentState

\* The loop looks at the call in hand: nothing else changes but what the user says.
LEMMA SameCall ==
    ASSUME NEW c, NEW l, NEW g, NEW e, NEW yes, NEW u, AgentState(c, l, g, e, yes, u), Working(l),
           NEW m \in LoopTypes, Working(m), m.blocks = l.blocks, m.next = l.next, m.results = l.results,
           NEW more, yes \subseteq more, InHand(c, m, more)
    PROVE  AgentState(c, m, g, e, more, u)
<1>1. /\ c \in Seq(MessageTypes) /\ g \in Seq(AnswerTypes) /\ e \in Seq(EffectTypes) /\ u \in Nat
      /\ Fresh(c, l, g, e, u) /\ SoFar(l, e) /\ AllAnswered(c, l, e)
      /\ AllFine(e, yes) /\ OnceEach(g) /\ Tells(g, e) /\ LeftAlone(c, l, g)
  BY DEF AgentState
<1>2. Fresh(c, m, g, e, u)
  <2>1. \A i : Pending(m, i) <=> Pending(l, i)
    BY DEF Pending
  <2>2. \A n : KnownUpTo(c, m, g, e, n) <=> KnownUpTo(c, l, g, e, n)
    BY DEF KnownUpTo
  <2> QED BY <1>1, <2>1, <2>2 DEF Fresh
<1>3. SoFar(m, e)
  BY <1>1 DEF SoFar
<1>4. AllAnswered(c, m, e)
  BY <1>1 DEF AllAnswered
<1>5. AllFine(e, more)
  BY <1>1 DEF AllFine, Fine
<1>6. LeftAlone(c, m, g)
  BY <1>1 DEF LeftAlone, Unseen
<1> QED BY <1>1, <1>2, <1>3, <1>4, <1>5, <1>6 DEF AgentState

\* A block that is no tool is passed over.
LEMMA SkipStep ==
    ASSUME NEW c, NEW l, NEW g, NEW e, NEW yes, NEW u, AgentState(c, l, g, e, yes, u), Working(l),
           l.next <= Len(l.blocks), l.blocks[l.next].kind # "tool",
           NEW m \in LoopTypes, m.at = "tools", m.blocks = l.blocks, m.next = l.next + 1, m.results = l.results
    PROVE  AgentState(c, m, g, e, yes, u)
<1>1. /\ c \in Seq(MessageTypes) /\ l \in LoopTypes /\ g \in Seq(AnswerTypes) /\ e \in Seq(EffectTypes) /\ u \in Nat
      /\ InHand(c, l, yes) /\ Fresh(c, l, g, e, u) /\ SoFar(l, e) /\ AllAnswered(c, l, e)
      /\ AllFine(e, yes) /\ OnceEach(g) /\ Tells(g, e) /\ LeftAlone(c, l, g)
  BY DEF AgentState
<1>2. l.blocks \in Seq(BlockTypes) /\ l.next \in Nat \ {0} /\ Len(l.blocks) \in Nat
  BY <1>1, LoopParts, Sequence
<1>3. Working(m)
  BY DEF Working
<1>4. InHand(c, m, yes)
  BY <1>1, <1>2, <1>3 DEF InHand
<1>5. Fresh(c, m, g, e, u)
  BY <1>1, SkipFresh
<1>6. SoFar(m, e)
  <2>1. Kept(SubSeq(l.blocks, 1, l.next), ToolBlocks) = Kept(SubSeq(l.blocks, 1, l.next - 1), ToolBlocks)
    BY <1>2, UsesUpTo
  <2>2. m.next - 1 = l.next
    BY <1>2
  <2> QED BY <1>1, <2>1, <2>2 DEF SoFar
<1>7. AllAnswered(c, m, e)
  BY <1>1, <1>3 DEF AllAnswered
<1>8. LeftAlone(c, m, g)
  BY <1>1 DEF LeftAlone, Unseen
<1> QED BY <1>1, <1>4, <1>5, <1>6, <1>7, <1>8 DEF AgentState

-----------------------------------------------------------------------------
(* The actions. *)

\* The parts of the invariant the actions begin with.
LEMMA AgentTypes ==
    ASSUME AgentInv
    PROVE  /\ chat \in Seq(MessageTypes) /\ loop \in LoopTypes /\ used \in Nat
           /\ AgentState(chat, loop, log, effects, usersYes, used) /\ InHand(chat, loop, usersYes)
BY DEF AgentInv, AgentState

\* A loop that has no answer in hand.
LEMMA LoopAt ==
    ASSUME NEW m, NEW at \in {"idle", "send"}, NEW t \in Nat, NEW none, none = <<>>,
           m = LoopOf(at, t, none, 1, none)
    PROVE  m \in LoopTypes /\ ~Working(m) /\ m.next = 1 /\ m.results = none
<1>1. none \in Seq(BlockTypes) /\ none \in Seq(AnswerTypes)
  BY EmptySeq
<1>2. m.at = at /\ m.turn = t /\ m.blocks = none /\ m.next = 1 /\ m.results = none
  BY DEF LoopOf
<1>3. ~Working(m)
  BY <1>2 DEF Working
<1>4. m \in LoopTypes
  BY <1>1 DEF LoopOf, LoopTypes
<1> QED BY <1>2, <1>3, <1>4

\* Idle, and a turn that begins.
LEMMA AtIdle ==
    /\ Idle \in LoopTypes /\ ~Working(Idle) /\ Idle.next = 1 /\ Idle.results = <<>>
    /\ \A t \in Nat : LET m == [Idle EXCEPT !.at = "send", !.turn = t]
                      IN  m \in LoopTypes /\ ~Working(m) /\ m.next = 1 /\ m.results = <<>>
<1> DEFINE none == <<>>
<1>1. none = <<>> /\ Idle = LoopOf("idle", 0, none, 1, none)
  BY DEF Idle, LoopOf
<1> HIDE DEF none
<1>2. Idle \in LoopTypes /\ ~Working(Idle) /\ Idle.next = 1 /\ Idle.results = none
  BY <1>1, LoopAt
<1>3. ASSUME NEW t \in Nat
      PROVE  LET m == [Idle EXCEPT !.at = "send", !.turn = t]
             IN  m \in LoopTypes /\ ~Working(m) /\ m.next = 1 /\ m.results = none
  <2> DEFINE m == [Idle EXCEPT !.at = "send", !.turn = t]
             at == "send"
  <2>1. m = [LoopOf("idle", 0, none, 1, none) EXCEPT !.at = "send", !.turn = t]
    BY <1>1
  <2> HIDE DEF m
  <2>2. m = LoopOf(at, t, none, 1, none)
    BY <2>1 DEF LoopOf
  <2>3. at \in {"idle", "send"}
    OBVIOUS
  <2> HIDE DEF at
  <2>4. m \in LoopTypes /\ ~Working(m) /\ m.next = 1 /\ m.results = none
    BY <1>1, <2>2, <2>3, LoopAt
  <2> QED BY <2>4 DEF m
<1> QED BY <1>1, <1>2, <1>3

\* The invariant holds at the start.
LEMMA AgentInit_Inv == AgentInit => AgentInv
<1> SUFFICES ASSUME AgentInit PROVE AgentInv
  OBVIOUS
<1>1. chat = <<>> /\ loop = Idle /\ log = <<>> /\ usersYes = {} /\ effects = <<>> /\ used = 0
  BY DEF AgentInit
<1>2. Idle \in LoopTypes /\ ~Working(Idle) /\ Idle.next = 1 /\ Idle.results = <<>>
  BY AtIdle
<1>3. Len(<<>>) = 0 /\ \A S : <<>> \in Seq(S)
  BY EmptySeq
<1>4. InHand(<<>>, Idle, {})
  BY <1>2 DEF InHand, Working
<1>5. Fresh(<<>>, Idle, <<>>, <<>>, 0)
  BY <1>2, <1>3, NoResults DEF Fresh, KnownUpTo, Pending, IsLeft
<1>6. SoFar(Idle, <<>>) /\ AllAnswered(<<>>, Idle, <<>>) /\ AllFine(<<>>, {}) /\ OnceEach(<<>>)
      /\ LeftAlone(<<>>, Idle, <<>>)
  BY <1>2, <1>3 DEF SoFar, AllAnswered, AllFine, OnceEach, LeftAlone, IsLeft
<1>7. Tells(<<>>, <<>>)
  BY <1>3, KeptEmpty DEF Tells
<1> QED BY <1>1, <1>2, <1>3, <1>4, <1>5, <1>6, <1>7 DEF AgentInv, AgentState

\* The user asks.
LEMMA Ask_Inv ==
    ASSUME AgentInv, Ask PROVE AgentInv'
<1>1. /\ chat \in Seq(MessageTypes) /\ loop \in LoopTypes /\ used \in Nat
      /\ AgentState(chat, loop, log, effects, usersYes, used)
  BY AgentTypes
<1>2. loop' = [Idle EXCEPT !.at = "send", !.turn = 1] /\ ~Working(loop)
  BY DEF Ask, Working
<1>3. loop' \in LoopTypes /\ ~Working(loop') /\ loop'.next = 1 /\ loop'.results = <<>>
  BY <1>2, AtIdle
<1> DEFINE msg == ChatMessage("user", <<Block("text", 0, NoCall)>>, <<>>, "none")
<1>4. msg \in MessageTypes /\ msg.ended # "tool_use" /\ msg.results = <<>> /\ \A id : ~LeftIn(msg, id)
  <2>1. Block("text", 0, NoCall) \in BlockTypes
    BY NoCallType DEF Block, BlockTypes
  <2>2. <<Block("text", 0, NoCall)>> \in Seq(BlockTypes) /\ <<>> \in Seq(AnswerTypes)
    BY <2>1, EmptySeq
  <2> DEFINE b == <<Block("text", 0, NoCall)>>
             e == <<>>
             none == "none"
  <2>3. b \in Seq(BlockTypes) /\ e \in Seq(AnswerTypes) /\ Len(b) = 1 /\ b[1].kind = "text"
    BY <2>2 DEF Block
  <2>4. none \in StopReasons \cup {"none"} /\ none # "tool_use"
    OBVIOUS
  <2>5. msg = [role |-> "user", blocks |-> b, results |-> e, ended |-> none] /\ e = <<>>
    BY DEF ChatMessage
  <2> HIDE DEF b, e, none, msg
  <2>6. msg \in MessageTypes
    BY <2>3, <2>4, <2>5 DEF MessageTypes
  <2>7. msg.ended = none /\ msg.results = e /\ msg.blocks = b
    BY <2>5
  <2>8. \A k \in 1 .. Len(b) : b[k].kind # "tool"
    <3>1. \A k \in 1 .. Len(b) : k = 1
      BY <2>3
    <3> QED BY <2>3, <3>1
  <2>9. \A id : ~LeftIn(msg, id)
    BY <2>7, <2>8 DEF LeftIn
  <2> QED BY <2>4, <2>5, <2>6, <2>7, <2>9
<1>5. chat' = Append(chat, msg)
  BY DEF Ask
<1> HIDE DEF msg
<1> DEFINE v == used
<1> HIDE DEF v
<1>6. chat' = chat \/ \E d \in MessageTypes : /\ chat' = Append(chat, d) /\ d.results = <<>> /\ d.ended # "tool_use"
                                              /\ \A id \in Nat : LeftIn(d, id) => used < id /\ id <= v
  BY <1>4, <1>5
<1>7. v \in Nat /\ used <= v
  BY <1>1 DEF v
<1>8. AgentState(chat', loop', log, effects, usersYes, v)
  <2>1. ~Working(loop)
    BY <1>2
  <2>2. AgentState(chat, loop, log, effects, usersYes, used)
    BY <1>1
  <2> QED BY <1>3, <1>6, <1>7, <2>1, <2>2, RestStep
<1> QED BY <1>8 DEF Ask, AgentInv, v

\* ask returns with the conversation as it was.
LEMMA Returns_Inv ==
    ASSUME AgentInv, ~Working(loop), loop' = Idle, UNCHANGED <<chat, log, usersYes, effects>>,
           used' \in Nat, used <= used'
    PROVE  AgentInv'
<1>1. AgentState(chat, loop, log, effects, usersYes, used)
  BY AgentTypes
<1>2. loop' \in LoopTypes /\ ~Working(loop') /\ loop'.next = 1 /\ loop'.results = <<>>
  BY AtIdle
<1>3. AgentState(chat', loop', log, effects, usersYes, used')
  BY <1>1, <1>2, RestStep
<1> QED BY <1>3 DEF AgentInv

\* The two ways out before an answer.
LEMMA TooManyTurns_Inv ==
    ASSUME AgentInv, TooManyTurns PROVE AgentInv'
<1>1. /\ ~Working(loop) /\ loop' = Idle /\ UNCHANGED <<chat, log, usersYes, effects>> /\ used' = used
  BY DEF TooManyTurns, Returns, Working
<1>2. used \in Nat
  BY AgentTypes
<1> QED BY <1>1, <1>2, Returns_Inv

LEMMA SendFails_Inv ==
    ASSUME AgentInv, SendFails PROVE AgentInv'
<1>1. /\ ~Working(loop) /\ loop' = Idle /\ UNCHANGED <<chat, log, usersYes, effects>> /\ used' = used
  BY DEF SendFails, Returns, Working
<1>2. used \in Nat
  BY AgentTypes
<1> QED BY <1>1, <1>2, Returns_Inv

\* What the API sends: blocks with new ids.
LEMMA ContentsTypes ==
    ASSUME AgentAssumption, used \in Nat, NEW blocks \in Contents
    PROVE  /\ blocks \in Seq(BlockTypes) /\ Len(blocks) \in Nat
           /\ \A i \in 1 .. Len(blocks) : blocks[i].id = used + i
<1> DEFINE kinds == {Block("text", 0, NoCall), Block("thinking", 0, NoCall)} \cup {Block("tool", 0, c) : c \in Calls}
<1>1. \A k \in kinds : k \in BlockTypes
  BY NoCallType DEF AgentAssumption, Block, BlockTypes
<1>2. PICK n \in 0 .. MaxBlocks : \E s \in [1 .. n -> kinds] :
        blocks = [i \in 1 .. n |-> Block(s[i].kind, used + i, s[i].call)]
  BY DEF Contents
<1> HIDE DEF kinds
<1>3. PICK s \in [1 .. n -> kinds] : blocks = [i \in 1 .. n |-> Block(s[i].kind, used + i, s[i].call)]
  BY <1>2
<1>4. n \in Nat
  BY DEF AgentAssumption
<1>5. \A i \in 1 .. n : blocks[i] \in BlockTypes /\ blocks[i].id = used + i
  <2> TAKE i \in 1 .. n
  <2>1. s[i] \in BlockTypes
    BY <1>1
  <2> QED BY <1>3, <1>4, <2>1 DEF Block, BlockTypes
<1>6. blocks \in [1 .. n -> BlockTypes]
  BY <1>3, <1>5
<1>7. blocks \in Seq(BlockTypes) /\ Len(blocks) = n
  BY <1>4, <1>6
<1> QED BY <1>4, <1>5, <1>7

\* An answer, whole or not, is handled.
LEMMA Handle_Inv ==
    ASSUME AgentInv, loop.at = "send", NEW blocks \in Seq(BlockTypes),
           \A i \in 1 .. Len(blocks) : used < blocks[i].id /\ blocks[i].id <= used',
           NEW p, Honest(p, blocks), Handle(p),
           used' \in Nat, used <= used', UNCHANGED <<log, usersYes, effects>>
    PROVE  AgentInv'
<1>1. /\ chat \in Seq(MessageTypes) /\ loop \in LoopTypes /\ used \in Nat /\ ~Working(loop)
      /\ AgentState(chat, loop, log, effects, usersYes, used) /\ InHand(chat, loop, usersYes)
  BY AgentTypes DEF Working
<1>2. CASE p.over \in {"no", "error"}
  <2>1. chat' = chat /\ loop' = Idle
    BY <1>2 DEF Handle, Returns
  <2> QED BY <1>1, <2>1, Returns_Inv
<1>3. CASE p.over = "stop"
  <2> DEFINE msg == ChatMessage("assistant", p.blocks, <<>>, p.reason)
  <2>1. /\ p.reason \in StopReasons /\ p.blocks \in Seq(BlockTypes)
        /\ \A i \in 1 .. Len(p.blocks) : p.blocks[i].kind = "tool" =>
              \E j \in 1 .. Len(blocks) : blocks[j].kind = "tool" /\ blocks[j].id = p.blocks[i].id
        /\ \A i, l \in 1 .. Len(p.blocks) : p.blocks[i].kind = "tool" /\ p.blocks[l].kind = "tool" /\ i < l =>
              p.blocks[i].id < p.blocks[l].id
    BY <1>3 DEF Honest
  <2>2. /\ msg \in MessageTypes /\ msg.role = "assistant" /\ msg.blocks = p.blocks /\ msg.results = <<>>
        /\ msg.ended = p.reason
    <3>1. <<>> \in Seq(AnswerTypes)
      BY EmptySeq
    <3> QED BY <2>1, <3>1 DEF ChatMessage, MessageTypes
  <2>3. CASE p.reason = "max_tokens"
    <3>1. chat' = chat /\ loop' = Idle
      BY <1>3, <2>1, <2>3 DEF Handle, Returns
    <3> QED BY <1>1, <3>1, Returns_Inv
  <2>4. CASE p.reason = "tool_use"
    <3>1. chat' = Append(chat, msg) /\ loop' = [loop EXCEPT !.at = "tools", !.blocks = p.blocks]
      BY <1>3, <2>1, <2>4 DEF Handle
    <3> HIDE DEF msg
    <3>2. loop.next = 1 /\ loop.results = <<>>
      BY <1>1, AtRest
    <3>3. /\ loop' \in LoopTypes /\ loop'.at = "tools" /\ loop'.blocks = p.blocks
          /\ loop'.next = loop.next /\ loop'.results = loop.results
      BY <1>1, <2>1, <3>1 DEF LoopTypes
    <3>4. ASSUME NEW i \in 1 .. Len(p.blocks), p.blocks[i].kind = "tool"
          PROVE  /\ used < p.blocks[i].id /\ p.blocks[i].id <= used'
                 /\ \A j \in 1 .. Len(p.blocks) : p.blocks[j].kind = "tool" /\ i < j => p.blocks[i].id < p.blocks[j].id
      BY <2>1, <3>4
    <3>5. msg.ended = "tool_use"
      BY <2>2, <2>4
    <3>6. AgentState(chat', loop', log, effects, usersYes, used')
      BY <1>1, <2>1, <2>2, <3>1, <3>2, <3>3, <3>4, <3>5, ToolsBegin, ZenonT(60)
    <3> QED BY <3>6 DEF AgentInv
  <2>5. CASE p.reason \in {"end_turn", "refusal", "pause_turn"}
    <3>1. ASSUME NEW id \in Nat, LeftIn(msg, id) PROVE used < id /\ id <= used'
      <4>1. PICK i \in 1 .. Len(p.blocks) : p.blocks[i].kind = "tool" /\ p.blocks[i].id = id
        BY <2>2, <3>1 DEF LeftIn
      <4> QED BY <2>1, <4>1
    <3>2. chat' = Append(chat, msg) /\ (loop' = Idle \/ loop' = [loop EXCEPT !.turn = @ + 1])
      BY <1>3, <2>1, <2>5 DEF Handle, Returns
    <3> HIDE DEF msg
    <3>3. loop.next = 1 /\ loop.results = <<>>
      BY <1>1, AtRest
    <3>4. loop' \in LoopTypes /\ ~Working(loop') /\ loop'.next = 1 /\ loop'.results = <<>>
      <4>1. CASE loop' = Idle
        BY <4>1, AtIdle
      <4>2. CASE loop' = [loop EXCEPT !.turn = @ + 1]
        <5>1. loop' \in LoopTypes /\ loop'.at = loop.at /\ loop'.next = loop.next /\ loop'.results = loop.results
          <6>1. /\ loop = LoopOf(loop.at, loop.turn, loop.blocks, loop.next, loop.results)
                /\ loop.at \in {"idle", "send", "tools", "ask", "execute"} /\ loop.turn \in Nat
                /\ loop.blocks \in Seq(BlockTypes) /\ loop.next \in Nat \ {0} /\ loop.results \in Seq(AnswerTypes)
            BY <1>1, LoopParts
          <6>2. loop' = LoopOf(loop.at, loop.turn + 1, loop.blocks, loop.next, loop.results)
            BY <4>2, <6>1 DEF LoopOf
          <6>3. loop.turn + 1 \in Nat
            BY <6>1
          <6>4. /\ loop'.at = loop.at /\ loop'.turn = loop.turn + 1 /\ loop'.blocks = loop.blocks
                /\ loop'.next = loop.next /\ loop'.results = loop.results
            BY <6>2 DEF LoopOf
          <6>5. loop' \in LoopTypes
            BY <6>1, <6>2, <6>3 DEF LoopOf, LoopTypes
          <6> QED BY <6>4, <6>5
        <5> QED BY <1>1, <3>3, <5>1 DEF Working
      <4> QED BY <3>2, <4>1, <4>2
    <3>5. chat' = chat \/ \E d \in MessageTypes : /\ chat' = Append(chat, d) /\ d.results = <<>> /\ d.ended # "tool_use"
                                                  /\ \A id \in Nat : LeftIn(d, id) => used < id /\ id <= used'
      BY <2>2, <2>5, <3>1, <3>2
    <3>6. AgentState(chat', loop', log, effects, usersYes, used')
      BY <1>1, <3>4, <3>5, RestStep
    <3> QED BY <3>6 DEF AgentInv
  <2>6. p.reason \in {"max_tokens", "tool_use", "end_turn", "refusal", "pause_turn"}
    BY <2>1 DEF StopReasons
  <2> QED BY <2>3, <2>4, <2>5, <2>6
<1>4. p.over \in {"no", "error", "stop"}
  BY DEF Honest
<1> QED BY <1>2, <1>3, <1>4

\* An answer comes, whole, cut off or with an error.
LEMMA Receive_Inv ==
    ASSUME AgentAssumption, AgentInv, Receive PROVE AgentInv'
<1>1. used \in Nat
  BY AgentTypes
<1>2. loop.at = "send" /\ UNCHANGED <<log, usersYes, effects>>
  BY DEF Receive
<1>3. PICK blocks \in Contents : \E reason \in Reasons :
        /\ used' = used + Len(blocks)
        /\ LET s == Stream(blocks, reason)
           IN  \/ Handle(Parsed(s))
               \/ \E cut \in 0 .. Len(s) - 1 :
                    \/ Handle(Parsed(SubSeq(s, 1, cut)))
                    \/ Handle(Parsed(Append(SubSeq(s, 1, cut), Sse("error", NoBlock))))
  BY DEF Receive
<1>4. PICK reason \in Reasons :
        /\ used' = used + Len(blocks)
        /\ LET s == Stream(blocks, reason)
           IN  \/ Handle(Parsed(s))
               \/ \E cut \in 0 .. Len(s) - 1 :
                    \/ Handle(Parsed(SubSeq(s, 1, cut)))
                    \/ Handle(Parsed(Append(SubSeq(s, 1, cut), Sse("error", NoBlock))))
  BY <1>3
<1>5. /\ blocks \in Seq(BlockTypes) /\ Len(blocks) \in Nat
      /\ \A i \in 1 .. Len(blocks) : blocks[i].id = used + i
  BY <1>1, ContentsTypes
<1>6. /\ \A i \in 1 .. Len(blocks) : used < blocks[i].id /\ blocks[i].id <= used'
      /\ \A i, j \in 1 .. Len(blocks) : i < j => blocks[i].id < blocks[j].id
      /\ used' \in Nat /\ used <= used'
  BY <1>1, <1>4, <1>5
<1> DEFINE s == Stream(blocks, reason)
<1>7. /\ Honest(Parsed(s), blocks)
      /\ \A cut \in 0 .. Len(s) - 1 :
           /\ Honest(Parsed(SubSeq(s, 1, cut)), blocks)
           /\ Honest(Parsed(Append(SubSeq(s, 1, cut), Sse("error", NoBlock))), blocks)
  BY <1>5, <1>6, AnswersHonest
<1>8. \E p : Honest(p, blocks) /\ Handle(p)
  <2>1. \/ Handle(Parsed(s))
        \/ \E cut \in 0 .. Len(s) - 1 :
             \/ Handle(Parsed(SubSeq(s, 1, cut)))
             \/ Handle(Parsed(Append(SubSeq(s, 1, cut), Sse("error", NoBlock))))
    BY <1>4
  <2> HIDE DEF s
  <2> QED BY <1>7, <2>1
<1>9. PICK p : Honest(p, blocks) /\ Handle(p)
  BY <1>8
<1> QED BY <1>2, <1>5, <1>6, <1>9, Handle_Inv

\* The loop goes to another place with the same call.
LEMMA LoopMoves ==
    ASSUME NEW l \in LoopTypes, NEW at \in {"idle", "send", "tools", "ask", "execute"}, NEW m, m = [l EXCEPT !.at = at]
    PROVE  m \in LoopTypes /\ m.at = at /\ m.blocks = l.blocks /\ m.next = l.next /\ m.results = l.results
BY DEF LoopTypes

\* Answered, spelled out.
LEMMA NextCall ==
    ASSUME loop \in LoopTypes, NEW o, Answered(o)
    PROVE  loop' = LoopOf("tools", loop.turn, loop.blocks, loop.next + 1, Append(loop.results, Result(Current.id, o)))
<1> DEFINE at == "tools"
           n == loop.next + 1
           rs == Append(loop.results, Result(Current.id, o))
<1>1. loop = LoopOf(loop.at, loop.turn, loop.blocks, loop.next, loop.results)
  BY LoopParts
<1>2. loop' = [loop EXCEPT !.next = n, !.results = rs, !.at = at]
  BY DEF Answered
<1>3. at = "tools" /\ n = loop.next + 1 /\ rs = Append(loop.results, Result(Current.id, o))
  OBVIOUS
<1> HIDE DEF at, n, rs
<1>4. loop' = LoopOf(at, loop.turn, loop.blocks, n, rs)
  BY <1>1, <1>2 DEF LoopOf
<1> QED BY <1>3, <1>4

\* The tools of an answer.
LEMMA Skip_Inv ==
    ASSUME AgentInv, Skip PROVE AgentInv'
<1>1. loop \in LoopTypes /\ AgentState(chat, loop, log, effects, usersYes, used)
  BY AgentTypes
<1>2. /\ loop.at = "tools" /\ loop.next <= Len(loop.blocks) /\ loop.blocks[loop.next].kind # "tool" /\ Working(loop)
      /\ loop' = [loop EXCEPT !.next = @ + 1] /\ UNCHANGED <<chat, log, usersYes, effects, used>>
  BY DEF Skip, Current, Working
<1>3. /\ loop = LoopOf(loop.at, loop.turn, loop.blocks, loop.next, loop.results)
      /\ loop.turn \in Nat /\ loop.blocks \in Seq(BlockTypes) /\ loop.next \in Nat \ {0}
      /\ loop.results \in Seq(AnswerTypes)
  BY <1>1, LoopParts
<1>4. loop' = LoopOf(loop.at, loop.turn, loop.blocks, loop.next + 1, loop.results)
  BY <1>2, <1>3 DEF LoopOf
<1>5. /\ loop'.at = "tools" /\ loop'.blocks = loop.blocks /\ loop'.next = loop.next + 1
      /\ loop'.results = loop.results
  BY <1>2, <1>4 DEF LoopOf
<1>6. loop' \in LoopTypes
  <2>1. loop.next + 1 \in Nat \ {0}
    BY <1>3
  <2> QED BY <1>2, <1>3, <1>4, <2>1 DEF LoopOf, LoopTypes
<1>7. AgentState(chat, loop', log, effects, usersYes, used)
  BY <1>1, <1>2, <1>5, <1>6, SkipStep
<1> QED BY <1>2, <1>7 DEF AgentInv

\* A call that is turned down, refused or denied.
LEMMA Unrun_Inv ==
    ASSUME AgentInv, Working(loop), loop.next <= Len(loop.blocks), Current.kind = "tool",
           NEW o \in Outcomes, ~Ran(o), Answered(o), log' = log \/ (o # "Failed" /\ Logged(o)),
           UNCHANGED <<chat, effects, usersYes, used>>
    PROVE  AgentInv'
<1>1. loop \in LoopTypes /\ AgentState(chat, loop, log, effects, usersYes, used)
  BY AgentTypes
<1>2. loop' = LoopOf("tools", loop.turn, loop.blocks, loop.next + 1, Append(loop.results, Result(Current.id, o)))
  BY <1>1, NextCall
<1>3. log' = log \/ (o # "Failed" /\ log' = Append(log, Result(Current.id, o)))
  BY DEF Logged
<1>4. Current = loop.blocks[loop.next]
  BY DEF Current
<1>5. AgentState(chat, loop', log', effects, usersYes, used)
  BY <1>1, <1>2, <1>3, <1>4, CallLogged
<1> QED BY <1>5 DEF AgentInv

LEMMA TurnDown_Inv ==
    ASSUME AgentInv, TurnDown PROVE AgentInv'
<1>1. /\ Working(loop) /\ loop.next <= Len(loop.blocks) /\ Current.kind = "tool"
      /\ log' = log /\ UNCHANGED <<chat, effects, usersYes, used>>
  BY DEF TurnDown, AtTool, Working
<1>2. \E o \in Outcomes : ~Ran(o) /\ Answered(o)
  BY DEF TurnDown, Outcomes, Ran
<1> QED BY <1>1, <1>2, Unrun_Inv

LEMMA Refuse_Inv ==
    ASSUME AgentInv, Refuse PROVE AgentInv'
<1>1. /\ Working(loop) /\ loop.next <= Len(loop.blocks) /\ Current.kind = "tool"
      /\ UNCHANGED <<chat, effects, usersYes, used>>
  BY DEF Refuse, AtTool, Working
<1>2. \E o \in Outcomes : ~Ran(o) /\ o # "Failed" /\ Answered(o) /\ Logged(o)
  BY DEF Refuse, Outcomes, Ran
<1> QED BY <1>1, <1>2, Unrun_Inv

LEMMA Deny_Inv ==
    ASSUME AgentInv, Deny PROVE AgentInv'
<1>1. loop.at = "ask" /\ UNCHANGED <<chat, effects, usersYes, used>>
  BY DEF Deny
<1>2. Working(loop) /\ loop.next <= Len(loop.blocks) /\ Current.kind = "tool"
  BY <1>1, AgentTypes DEF InHand, Working, Current
<1>3. \E o \in Outcomes : ~Ran(o) /\ o # "Failed" /\ Answered(o) /\ Logged(o)
  BY DEF Deny, Outcomes, Ran
<1> QED BY <1>1, <1>2, <1>3, Unrun_Inv

LEMMA Decide_Inv ==
    ASSUME AgentInv, Decide PROVE AgentInv'
<1>1. /\ loop \in LoopTypes /\ AgentState(chat, loop, log, effects, usersYes, used)
      /\ InHand(chat, loop, usersYes)
  BY AgentTypes
<1>2. /\ Working(loop) /\ loop.next <= Len(loop.blocks) /\ loop.blocks[loop.next].kind = "tool"
      /\ UNCHANGED <<chat, log, usersYes, effects, used>>
  BY DEF Decide, AtTool, Working, Current
<1> DEFINE call == loop.blocks[loop.next].call
<1>3. /\ Verdict(Fitted(call)) \in {"ask", "run"}
      /\ \/ loop' = [loop EXCEPT !.at = "ask"]
         \/ loop' = [loop EXCEPT !.at = "execute"] /\ Verdict(Fitted(call)) = "run"
  BY DEF Decide, Current
<1>4. call \in ToolCalls
  <2>1. loop.blocks[loop.next] \in BlockTypes
    BY <1>1, <1>2, CallInHand
  <2> QED BY <2>1 DEF BlockTypes
<1> HIDE DEF call
<1>5. Passes(call) /\ (Verdict(Fitted(call)) = "run" => call.tool \notin NeedsApproval)
  <2>1. Fitted(call).tool = call.tool
    BY <1>4 DEF Fitted, ToolCalls
  <2> QED BY <1>3, <2>1 DEF Verdict, Passes
<1>6. PICK at \in {"ask", "execute"} :
        /\ loop' = [loop EXCEPT !.at = at]
        /\ at = "execute" => call.tool \notin NeedsApproval
  BY <1>3, <1>5
<1>7. /\ loop' \in LoopTypes /\ loop'.at = at /\ loop'.blocks = loop.blocks /\ loop'.next = loop.next
      /\ loop'.results = loop.results
  <2>1. at \in {"idle", "send", "tools", "ask", "execute"}
    OBVIOUS
  <2> QED BY <1>1, <1>6, <2>1, LoopMoves
<1>8. Working(loop')
  BY <1>7 DEF Working
<1>9. InHand(chat, loop', usersYes)
  BY <1>1, <1>2, <1>5, <1>6, <1>7, <1>8 DEF InHand, call
<1>10. AgentState(chat, loop', log, effects, usersYes, used)
  BY <1>1, <1>2, <1>7, <1>8, <1>9, SameCall
<1> QED BY <1>2, <1>10 DEF AgentInv

LEMMA Allow_Inv ==
    ASSUME AgentInv, Allow PROVE AgentInv'
<1>1. /\ loop \in LoopTypes /\ AgentState(chat, loop, log, effects, usersYes, used)
      /\ InHand(chat, loop, usersYes)
  BY AgentTypes
<1>2. /\ loop.at = "ask" /\ Working(loop) /\ loop' = [loop EXCEPT !.at = "execute"]
      /\ usersYes' = usersYes \cup {loop.blocks[loop.next].id} /\ UNCHANGED <<chat, log, effects, used>>
  BY DEF Allow, Working, Current
<1>3. PICK at \in {"idle", "send", "tools", "ask", "execute"} : at = "execute" /\ loop' = [loop EXCEPT !.at = at]
  BY <1>2
<1>4. /\ loop' \in LoopTypes /\ loop'.at = "execute" /\ loop'.blocks = loop.blocks /\ loop'.next = loop.next
      /\ loop'.results = loop.results
  BY <1>1, <1>3, LoopMoves
<1>5. Working(loop')
  BY <1>4 DEF Working
<1>6. InHand(chat, loop', usersYes') /\ usersYes \subseteq usersYes'
  BY <1>1, <1>2, <1>4, <1>5 DEF InHand
<1>7. AgentState(chat, loop', log, effects, usersYes', used)
  BY <1>1, <1>2, <1>4, <1>5, <1>6, SameCall
<1> QED BY <1>2, <1>7 DEF AgentInv

LEMMA Execute_Inv ==
    ASSUME AgentInv, Execute PROVE AgentInv'
<1>1. /\ loop \in LoopTypes /\ AgentState(chat, loop, log, effects, usersYes, used)
      /\ InHand(chat, loop, usersYes)
  BY AgentTypes
<1>2. loop.at = "execute" /\ Working(loop) /\ UNCHANGED <<chat, usersYes, used>>
  BY DEF Execute, Working
<1>3. /\ loop.next <= Len(loop.blocks) /\ Current.kind = "tool" /\ Passes(Current.call)
      /\ Current.call.tool \in NeedsApproval => Current.id \in usersYes
  BY <1>1, <1>2 DEF InHand, Current
<1>4. Current \in BlockTypes /\ Current.id \in Nat /\ Current.call \in ToolCalls
  <2>1. Current \in BlockTypes
    BY <1>1, <1>2, <1>3, CallInHand DEF Current
  <2> QED BY <2>1 DEF BlockTypes
<1>5. PICK ok \in BOOLEAN :
        LET done == IF Current.call.tool \in NeedsApproval THEN "Allowed" ELSE "AutoRun"
            outcome == IF ok THEN done ELSE "Failed"
        IN  /\ effects' = Append(effects, [id |-> Current.id, tool |-> Current.call.tool, raw |-> Current.call.target,
                                           path |-> Target(Current.call), ok |-> ok])
            /\ Logged(outcome) /\ Answered(outcome)
  BY DEF Execute
<1> DEFINE x == [id |-> Current.id, tool |-> Current.call.tool, raw |-> Current.call.target,
                 path |-> Target(Current.call), ok |-> ok]
<1>6. PICK o \in {"Allowed", "AutoRun", "Failed"} : (o # "Failed" <=> ok) /\ Logged(o) /\ Answered(o)
  BY <1>5
<1>7. effects' = Append(effects, x)
  BY <1>5
<1>8. /\ x.id = Current.id /\ x.tool = Current.call.tool /\ x.raw = Current.call.target
      /\ x.path = Target(Current.call) /\ x.ok = ok
  OBVIOUS
<1>9. Target(Current.call) \in Seq(Words)
  BY <1>3, <1>4, <1>8, MayRun
<1>10. x \in EffectTypes
  BY <1>4, <1>9 DEF EffectTypes, ToolCalls
<1> HIDE DEF x
<1>11. Fine(x, usersYes)
  BY <1>3, <1>4, <1>8, MayRun
<1>12. loop' = LoopOf("tools", loop.turn, loop.blocks, loop.next + 1, Append(loop.results, Result(Current.id, o)))
  BY <1>1, <1>6, NextCall
<1>13. log' = Append(log, Result(Current.id, o))
  BY <1>6 DEF Logged
<1>14. Current = loop.blocks[loop.next] /\ o \in Outcomes
  BY DEF Current, Outcomes
<1>15. AgentState(chat, loop', log', effects', usersYes, used)
  BY <1>1, <1>2, <1>3, <1>6, <1>7, <1>8, <1>10, <1>11, <1>12, <1>13, <1>14, CallRun DEF Grown
<1> QED BY <1>2, <1>15 DEF AgentInv

LEMMA Report_Inv ==
    ASSUME AgentInv, Report PROVE AgentInv'
<1>1. loop \in LoopTypes /\ AgentState(chat, loop, log, effects, usersYes, used)
  BY AgentTypes
<1>2. /\ Working(loop) /\ loop.next > Len(loop.blocks) /\ UNCHANGED <<log, usersYes, effects, used>>
      /\ loop' = [Idle EXCEPT !.at = "send", !.turn = loop.turn + 1]
      /\ chat' = Append(chat, ChatMessage("user", <<>>, loop.results, "none"))
  BY DEF Report, Working
<1>3. loop.turn + 1 \in Nat /\ loop.results \in Seq(AnswerTypes)
  BY <1>1, LoopParts
<1>4. loop' \in LoopTypes /\ ~Working(loop') /\ loop'.next = 1 /\ loop'.results = <<>>
  BY <1>2, <1>3, AtIdle
<1> DEFINE msg == ChatMessage("user", <<>>, loop.results, "none")
<1>5. /\ msg \in MessageTypes /\ msg.role = "user" /\ msg.results = loop.results /\ msg.ended = "none"
      /\ \A id \in Nat : ~LeftIn(msg, id)
  <2> DEFINE e == <<>>
             none == "none"
  <2>1. e \in Seq(BlockTypes) /\ Len(e) = 0
    BY EmptySeq
  <2>2. none \in StopReasons \cup {"none"} /\ none = "none"
    OBVIOUS
  <2>3. msg = [role |-> "user", blocks |-> e, results |-> loop.results, ended |-> none]
    BY DEF ChatMessage
  <2> HIDE DEF e, none, msg
  <2>4. msg \in MessageTypes
    BY <1>3, <2>1, <2>2, <2>3 DEF MessageTypes
  <2>5. msg.role = "user" /\ msg.ended = none /\ msg.results = loop.results /\ msg.blocks = e
    BY <2>3
  <2> QED BY <2>1, <2>2, <2>4, <2>5 DEF LeftIn
<1> HIDE DEF msg
<1>6. chat' = Append(chat, msg)
  BY <1>2 DEF msg
<1>7. AgentState(chat', loop', log, effects, usersYes, used)
  BY <1>1, <1>2, <1>4, <1>5, <1>6, ToolsEnd
<1> QED BY <1>2, <1>7 DEF AgentInv

\* Every step keeps the invariant.
LEMMA AgentNext_Inv ==
    ASSUME AgentAssumption, AgentInv, [AgentNext]_agentVars PROVE AgentInv'
<1>1. CASE UNCHANGED agentVars
  BY <1>1 DEF agentVars, AgentInv
<1>2. CASE AgentNext
  BY <1>2, Ask_Inv, TooManyTurns_Inv, SendFails_Inv, Receive_Inv, Skip_Inv, TurnDown_Inv, Refuse_Inv,
     Decide_Inv, Allow_Inv, Deny_Inv, Execute_Inv, Report_Inv DEF AgentNext
<1> QED BY <1>1, <1>2

\* Consent comes first: whatever answers the API sends, whole, cut or wrong, and however
\* their paths are written, nothing that needs the user's yes reaches the system without a
\* yes to that very call, nothing reaches a protected place, and the action log tells
\* what ran, call by call (Session::call and run_tool_loop).
THEOREM AgentAsksFirst == AgentSpec => []ConsentFirst
<1>1. AgentSpec => []AgentInv
  BY AgentAssumption, AgentInit_Inv, AgentNext_Inv, PTL DEF AgentSpec
<1> QED BY <1>1, AgentInv_Properties, PTL

\* An answer that ended in tool_use is followed by one message with exactly the results of
\* its calls, in order, each true; of an answer that ended otherwise, for a reason the
\* parser knows or not, no call ever comes to the session or gets a result
\* (run_tool_loop, StreamParser::next_event).
THEOREM AgentAnswersCalls == AgentSpec => []ToolCallsAnswered
<1>1. AgentSpec => []AgentInv
  BY AgentAssumption, AgentInit_Inv, AgentNext_Inv, PTL DEF AgentSpec
<1> QED BY <1>1, AgentInv_Properties, PTL
=============================================================================

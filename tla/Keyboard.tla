------------------------------ MODULE Keyboard ------------------------------
(***************************************************************************)
(* Standard input: the bytes the keyboard interrupt pushes into the ring   *)
(* (drivers/ps2/ring.rs, keyboard.rs), the scancode decoder                *)
(* (scancode.rs), and one process in sys_read (syscall/table.rs).  The     *)
(* interrupt comes between any two steps of the reader.                    *)
(*                                                                         *)
(* The ring is single-producer single-consumer and so is this module: the  *)
(* shell waits for the program it started, so one process reads at a time. *)
(***************************************************************************)
EXTENDS Naturals, Sequences, SequencesExt

CONSTANTS
    RingSlots,      \* RING_CAPACITY: 64, one of them always empty
    PendingSlots,   \* bytes PENDING_BUFFER holds: 64
    Scancodes,      \* bytes the keyboard sends
    MaxCodes        \* bound: scancodes sent

\* A key spells up to three bytes; the buffer holds what the first leaves over.
ASSUME KeyboardAssumption ==
    RingSlots \in Nat \ {0, 1} /\ PendingSlots \in Nat \ {0, 1} /\ MaxCodes \in Nat

VARIABLES
    slots, head, tail,   \* RING
    decoder,             \* DECODER: modifiers held, and an 0xE0 seen
    pending,             \* PENDING_BUFFER: its bytes and how many were read
    reader,              \* where the process is in sys_read, and its registers
    ledAcks,             \* acknowledgements of set_leds the keyboard owes
    sent,                \* bound: scancodes sent
    accepted, given      \* history: scancodes in the ring so far, bytes read so far

kbdVars == <<slots, head, tail, decoder, pending, reader, ledAcks, sent, accepted, given>>

\* A scancode byte: its low seven bits name the key, its high bit says it was released.
Make(code)  == [code |-> code, pressed |-> TRUE]
Break(code) == [code |-> code, pressed |-> FALSE]
Prefix  == Make("0xE0")
AckByte == Make("0xFA")

NoModifiers == [shift |-> FALSE, ctrl |-> FALSE, caps |-> FALSE]
FreshDecoder == [mods |-> NoModifiers, extended |-> FALSE]

KbdInit ==
    /\ slots = [i \in 0 .. RingSlots - 1 |-> AckByte] /\ head = 0 /\ tail = 0
    /\ decoder = FreshDecoder
    /\ pending = [bytes |-> <<>>, pos |-> 0]
    /\ reader = [at |-> "user", index |-> 0, byte |-> AckByte]
    /\ ledAcks = 0 /\ sent = 0 /\ accepted = <<>> /\ given = <<>>

-----------------------------------------------------------------------------
(* The decoder. *)

\* decode_key and decode_extended_key: the arrow's code without its prefix is the
\* keypad's, and a prefixed Shift is the one a navigation key fakes; neither is a key
\* the kernel knows.
DecodeKey(code, extended) ==
    CASE code = "arrow" -> IF extended THEN "Up" ELSE "Unknown"
      [] code = "ctrl"  -> "Ctrl"
      [] OTHER          -> IF extended THEN "Unknown" ELSE code

ApplyModifier(mods, key, pressed) ==
    CASE key = "shift" -> [mods EXCEPT !.shift = pressed]
      [] key = "Ctrl"  -> [mods EXCEPT !.ctrl = pressed]
      [] key = "caps" /\ pressed -> [mods EXCEPT !.caps = ~@]
      [] OTHER -> mods

NoEvent == [key |-> "none", pressed |-> FALSE, mods |-> NoModifiers]

\* Decoder::feed: the decoder after a byte, and the event it completes.
Feed(d, byte) ==
    IF byte = Prefix THEN [d |-> [d EXCEPT !.extended = TRUE], event |-> NoEvent]
    ELSE IF byte = AckByte THEN [d |-> [d EXCEPT !.extended = FALSE], event |-> NoEvent]
    ELSE LET key  == DecodeKey(byte.code, d.extended)
             mods == ApplyModifier(d.mods, key, byte.pressed)
         IN  [d |-> [mods |-> mods, extended |-> FALSE],
              event |-> [key |-> key, pressed |-> byte.pressed, mods |-> mods]]

\* key_event_to_bytes and KeyEvent::to_char: a letter, its shifted or control form, the
\* three bytes of an arrow; nothing for a release or a modifier.
KeyEventToBytes(event) ==
    IF ~event.pressed THEN <<>>
    ELSE CASE event.key = "x" ->
                IF event.mods.ctrl THEN <<"^X">>
                ELSE IF event.mods.shift # event.mods.caps THEN <<"X">> ELSE <<"x">>
           [] event.key = "Up" -> <<"ESC", "[", "A">>
           [] OTHER -> <<>>

-----------------------------------------------------------------------------
(* The interrupt. *)

\* push without its test that the ring is full.
Push_Overwrites(byte) ==
    /\ slots' = [slots EXCEPT ![head] = byte] /\ head' = (head + 1) % RingSlots
    /\ accepted' = Append(accepted, byte)

\* SpscRing::push: the newest byte is dropped when the ring is full.
Push(byte) ==
    IF (head + 1) % RingSlots = tail THEN UNCHANGED <<slots, head, accepted>>
    ELSE /\ slots' = [slots EXCEPT ![head] = byte] /\ head' = (head + 1) % RingSlots
         /\ accepted' = Append(accepted, byte)

\* push_scancode: into the ring, and READ_QUEUE.wake_one.
PushScancode(byte) ==
    /\ Push(byte)
    /\ reader' = [reader EXCEPT !.at = IF @ = "parked" THEN "wait" ELSE @]
    /\ UNCHANGED <<tail, decoder, pending, given>>

KeyInterrupt(byte) == sent < MaxCodes /\ PushScancode(byte) /\ sent' = sent + 1 /\ UNCHANGED ledAcks

\* The keyboard acknowledges both bytes of Set-LEDs, through the same interrupt.
AckInterrupt == ledAcks > 0 /\ PushScancode(AckByte) /\ ledAcks' = ledAcks - 1 /\ UNCHANGED sent

-----------------------------------------------------------------------------
(* sys_read. *)

Ring == <<slots, head, sent, accepted>>
At(pc) == reader.at = pc
GoTo(pc) == reader' = [reader EXCEPT !.at = pc]

\* PendingBuffer::pop, which forgets the buffer once its last byte is read.
PopPending ==
    IF pending.pos + 1 >= Len(pending.bytes) THEN [bytes |-> <<>>, pos |-> 0]
    ELSE [pending EXCEPT !.pos = @ + 1]

\* PendingBuffer::push, which drops what does not fit.
PushPending(bytes) ==
    LET all == pending.bytes \o bytes
    IN  [pending EXCEPT !.bytes = IF Len(all) > PendingSlots THEN SubSeq(all, 1, PendingSlots) ELSE all]

\* A byte that was left over from an earlier key comes first.
ReadPending ==
    /\ At("user") /\ pending.pos < Len(pending.bytes)
    /\ given' = Append(given, pending.bytes[pending.pos + 1]) /\ pending' = PopPending
    /\ UNCHANGED <<Ring, tail, decoder, reader, ledAcks>>

ReadBlocks ==
    /\ At("user") /\ pending.pos >= Len(pending.bytes) /\ GoTo("poll")
    /\ UNCHANGED <<Ring, tail, decoder, pending, ledAcks, given>>

\* SpscRing::pop: both indices are read, the slot is copied, and the tail is advanced.
PopLoad ==
    /\ At("poll")
    /\ reader' = IF tail = head THEN [reader EXCEPT !.at = "wait"]
                 ELSE [reader EXCEPT !.at = "copy", !.index = tail]
    /\ UNCHANGED <<Ring, tail, decoder, pending, ledAcks, given>>

PopCopy ==
    /\ At("copy") /\ reader' = [reader EXCEPT !.at = "advance", !.byte = slots[reader.index]]
    /\ UNCHANGED <<Ring, tail, decoder, pending, ledAcks, given>>

PopAdvance ==
    /\ At("advance") /\ tail' = (reader.index + 1) % RingSlots /\ GoTo("decode")
    /\ UNCHANGED <<Ring, decoder, pending, ledAcks, given>>

\* The rest of poll_event and of the loop: under DECODER's lock the byte is decoded,
\* Caps Lock sets the light, and a key with bytes ends the read with the first of them.
Decode ==
    LET fed == Feed(decoder, reader.byte)
        bytes == KeyEventToBytes(fed.event)
    IN  /\ At("decode") /\ decoder' = fed.d
        /\ ledAcks' = IF fed.event.key = "caps" /\ fed.event.pressed THEN ledAcks + 2 ELSE ledAcks
        /\ IF bytes = <<>> THEN GoTo("poll") /\ UNCHANGED <<pending, given>>
           ELSE /\ pending' = PushPending(Tail(bytes))
                /\ given' = Append(given, Head(bytes)) /\ GoTo("user")
        /\ UNCHANGED <<Ring, tail>>

\* WaitQueue::wait_until, which tests the ring and parks with interrupts off.
WaitUntil ==
    /\ At("wait") /\ GoTo(IF tail = head THEN "parked" ELSE "poll")
    /\ UNCHANGED <<Ring, tail, decoder, pending, ledAcks, given>>

KbdNext ==
    \/ \E byte \in Scancodes : KeyInterrupt(byte)
    \/ AckInterrupt
    \/ ReadPending \/ ReadBlocks \/ PopLoad \/ PopCopy \/ PopAdvance \/ Decode \/ WaitUntil

KbdSpec == KbdInit /\ [][KbdNext]_kbdVars

-----------------------------------------------------------------------------
\* The decoder, and what a sequence of scancodes has spelled, after each of them.
NothingSpelled == [d |-> FreshDecoder, out |-> <<>>]
SpellNext(so, byte) ==
    [d |-> Feed(so.d, byte).d, out |-> so.out \o KeyEventToBytes(Feed(so.d, byte).event)]
Spelled(codes) ==
    LET after[i \in 0 .. Len(codes)] ==
            IF i = 0 THEN NothingSpelled ELSE SpellNext(after[i - 1], codes[i])
    IN  after
Spelling(codes) == Spelled(codes)[Len(codes)].out

\* What is kept for the next read.
Unread == SubSeq(pending.bytes, pending.pos + 1, Len(pending.bytes))

\* Every byte the process reads, and every byte kept for its next read, is what the
\* scancodes in the ring spell, in their order (ring, decoder and pending buffer together
\* neither lose, repeat nor reorder), and a process that is parked has read it all:
\* sys_read, SpscRing::push and pop, READ_QUEUE.
KeysReachReader ==
    /\ IsPrefix(given \o Unread, Spelling(accepted))
    /\ At("parked") => given \o Unread = Spelling(accepted)
=============================================================================

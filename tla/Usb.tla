--------------------------------- MODULE Usb ---------------------------------
(***************************************************************************)
(* The USB libraries, otter-xhci and otter-usb: rings of transfer request  *)
(* blocks with their cycle bits, the layouts of blocks, contexts and       *)
(* registers, descriptors, the boot keyboard and mouse, mass storage.      *)
(* A register or a field is the set of its bits that are one; bytes are    *)
(* numbers.  An address on a ring is the number of its slot.               *)
(***************************************************************************)
EXTENDS Integers, Sequences, SequencesExt, FiniteSetsExt

CONSTANTS
    MAX_EXT_CAPS,
    TEN_LBAS, TEN_BLOCKS, MAX_LENGTH   \* what a ten-byte command reaches, and the longest transfer

None == <<>>
Some(v) == <<v>>
Ok(v) == [ok |-> TRUE, v |-> v]
Fail(why) == [ok |-> FALSE, why |-> why]

Bits(n) == {b \in 0 .. 30 : (n \div 2^b) % 2 = 1}
At(bits, shift) == {shift + b : b \in bits}
Field(word, shift, width) == {b - shift : b \in word \cap (shift .. shift + width - 1)}
Low(bits, width) == bits \cap (0 .. width - 1)
Flag(on, bit) == IF on THEN {bit} ELSE {}

-----------------------------------------------------------------------------
(* Rings *)

\* ProducerRing::new and EventRing::new; mem is the ring, zeroed.
NewRing(size) == [at |-> 0, cycle |-> TRUE, size |-> size]
ZeroedRing(size) == [i \in 0 .. size - 1 |-> [trb |-> "none", link |-> FALSE, chain |-> FALSE, cycle |-> FALSE]]
\* push: the block, then the link block as soon as the next slot is the last.
Link(ring, chain) == [trb |-> "link", link |-> TRUE, chain |-> chain, cycle |-> ring.cycle]
Wrapped(ring) == [ring EXCEPT !.at = 0, !.cycle = ~@]
Put(ring, mem, trb, chain) ==
    LET last == ring.size - 1
        written == [mem EXCEPT ![ring.at] = [trb |-> trb, link |-> FALSE, chain |-> chain, cycle |-> ring.cycle]]
        next == [ring EXCEPT !.at = @ + 1]
    IN  IF next.at >= last THEN [ring |-> Wrapped(next), mem |-> [written EXCEPT ![last] = Link(ring, chain)], at |-> ring.at]
        ELSE [ring |-> next, mem |-> written, at |-> ring.at]
Push(ring, mem, trb, chain) ==
    LET last == ring.size - 1
    IN  IF ring.at >= last THEN Put(Wrapped(ring), [mem EXCEPT ![last] = Link(ring, chain)], trb, chain)
        ELSE Put(ring, mem, trb, chain)
FreeSlots(ring, dequeue) ==
    CASE dequeue > ring.at -> dequeue - ring.at - 1
      [] dequeue = ring.at -> ring.size - 2
      [] OTHER -> (ring.size - ring.at) + dequeue - 2
\* EventRing::pop: nothing while the cycle bit is the old one.
Pop(ring, mem) ==
    LET next == [ring EXCEPT !.at = @ + 1]
    IN  IF mem[ring.at].cycle # ring.cycle THEN None
        ELSE Some([trb |-> mem[ring.at].trb, ring |-> IF next.at >= ring.size THEN Wrapped(next) ELSE next])

-----------------------------------------------------------------------------
(* Transfer request blocks: pointer (two words), status and control *)

TrbTypes == [Normal |-> 1, SetupStage |-> 2, DataStage |-> 3, StatusStage |-> 4, Link |-> 6, EnableSlot |-> 9, AddressDevice |-> 11,
             ConfigureEndpoint |-> 12, EvaluateContext |-> 13, ResetEndpoint |-> 14, StopEndpoint |-> 15, SetTrDequeue |-> 16, NoopCommand |-> 23]
Trb(kind, pointer, status, flags) == [pointer |-> pointer, status |-> status, control |-> At(Bits(TrbTypes[kind]), 10) \cup flags]
TrbType(trb) == Field(trb.control, 10, 6)
Normal(buffer, length, ioc, chain, isp) == Trb("Normal", buffer, Low(length, 21), Flag(ioc, 5) \cup Flag(chain, 4) \cup Flag(isp, 2))
DataStageOf == [None |-> 0, Out |-> 2, In |-> 3]
SetupStage(request, direction) == Trb("SetupStage", request, Bits(8), {6} \cup At(Bits(DataStageOf[direction]), 16))
DataStage(buffer, length, in) == Trb("DataStage", buffer, Low(length, 21), Flag(in, 16))
StatusStage(in, ioc) == Trb("StatusStage", {}, {}, Flag(in, 16) \cup Flag(ioc, 5))
LinkTrb(target, toggle) == Trb("Link", target, {}, Flag(toggle, 1))
EnableSlot(slotType) == Trb("EnableSlot", {}, {}, At(slotType, 16))
OfSlot(slot) == At(slot, 24)
OfEndpoint(slot, dci) == At(slot, 24) \cup At(dci, 16)
AddressDevice(context, slot, block) == Trb("AddressDevice", context, {}, OfSlot(slot) \cup Flag(block, 9))
ConfigureEndpoint(context, slot) == Trb("ConfigureEndpoint", context, {}, OfSlot(slot))
EvaluateContext(context, slot) == Trb("EvaluateContext", context, {}, OfSlot(slot))
ResetEndpoint(slot, dci) == Trb("ResetEndpoint", {}, {}, OfEndpoint(slot, dci))
StopEndpoint(slot, dci) == Trb("StopEndpoint", {}, {}, OfEndpoint(slot, dci))
SetTrDequeue(slot, dci, pointer, dcs) == Trb("SetTrDequeue", (pointer \ (0 .. 3)) \cup Flag(dcs, 0), {}, OfEndpoint(slot, dci))
NoopCommand == Trb("NoopCommand", {}, {}, {})
\* parse_event: the pointer of a command keeps its low word only.
ParseEvent(trb) ==
    LET code == Field(trb.status, 24, 8)
        slot == Field(trb.control, 24, 8)
        value == Low(trb.status, 24)
    IN  CASE TrbType(trb) = Bits(32) -> [kind |-> "Transfer", pointer |-> trb.pointer, residual |-> value, code |-> code, slot |-> slot,
                                         dci |-> Field(trb.control, 16, 5), eventData |-> 2 \in trb.control]
          [] TrbType(trb) = Bits(33) -> [kind |-> "CommandCompletion", pointer |-> Low(trb.pointer, 32) \ (0 .. 3), code |-> code,
                                         slot |-> slot, parameter |-> value]
          [] TrbType(trb) = Bits(34) -> [kind |-> "PortStatusChange", port |-> Field(trb.pointer, 24, 8), code |-> code]
          [] OTHER -> [kind |-> "Other", type |-> TrbType(trb)]

-----------------------------------------------------------------------------
(* Contexts.  A layout gives the word, the shift and the width of a field. *)

SlotLayout == [route_string |-> <<0, 0, 20>>, speed |-> <<0, 20, 4>>, mtt |-> <<0, 25, 1>>, hub |-> <<0, 26, 1>>, context_entries |-> <<0, 27, 5>>,
               max_exit_latency |-> <<1, 0, 16>>, root_hub_port |-> <<1, 16, 8>>, num_ports |-> <<1, 24, 8>>, parent_slot |-> <<2, 0, 8>>,
               parent_port |-> <<2, 8, 8>>, ttt |-> <<2, 16, 2>>, interrupter |-> <<2, 22, 10>>, device_address |-> <<3, 0, 8>>,
               slot_state |-> <<3, 27, 5>>]
\* max_esit_payload and dequeue lie in two words; the cycle state shares a bit with dequeue.
EndpointLayout == [state |-> <<0, 0, 3>>, mult |-> <<0, 8, 2>>, max_pstreams |-> <<0, 10, 5>>, lsa |-> <<0, 15, 1>>, interval |-> <<0, 16, 8>>,
                   max_esit_hi |-> <<0, 24, 8>>, cerr |-> <<1, 1, 2>>, ep_type |-> <<1, 3, 3>>, hid |-> <<1, 7, 1>>, max_burst |-> <<1, 8, 8>>,
                   max_packet_size |-> <<1, 16, 16>>, dcs |-> <<2, 0, 1>>, dequeue_lo |-> <<2, 0, 32>>, dequeue_hi |-> <<3, 0, 32>>,
                   average_trb_length |-> <<4, 0, 16>>, max_esit_lo |-> <<4, 16, 16>>]
ToDwords(layout, context) ==
    [w \in 0 .. 7 |-> UNION {At(Low(context[f], layout[f][3]), layout[f][2]) : f \in {g \in DOMAIN layout : layout[g][1] = w}}]
FromDwords(layout, d) ==
    LET read == [f \in DOMAIN layout |-> Field(d[layout[f][1]], layout[f][2], layout[f][3])]
    IN  IF "dequeue_lo" \in DOMAIN layout THEN [read EXCEPT !.dequeue_lo = @ \ {0}] ELSE read
\* Where the contexts lie in an input and in an output context.
Stride(csz64) == IF csz64 THEN 16 ELSE 8
InputContextLen(csz64) == Stride(csz64) * 33
Write8(ctx, from, d) == [i \in DOMAIN ctx |-> IF i \in from .. from + 7 THEN d[i - from] ELSE ctx[i]]
WriteInputControl(ctx, drop, add, configuration, interface, alternate) ==
    Write8(ctx, 0, [i \in 0 .. 7 |-> CASE i = 0 -> drop [] i = 1 -> add [] i = 7 -> At(alternate, 16) \cup At(interface, 8) \cup configuration [] OTHER -> {}])
WriteSlot(ctx, csz64, slot) == Write8(ctx, Stride(csz64), ToDwords(SlotLayout, slot))
WriteEndpoint(ctx, csz64, dci, ep) == Write8(ctx, (dci + 1) * Stride(csz64), ToDwords(EndpointLayout, ep))
ReadOutputSlot(ctx) == FromDwords(SlotLayout, [i \in 0 .. 7 |-> ctx[i]])
ReadOutputEndpoint(ctx, csz64, dci) == FromDwords(EndpointLayout, [i \in 0 .. 7 |-> ctx[dci * Stride(csz64) + i]])

\* EpType: 4 is control; the others count from 1 for out and from 5 for in.
FromEndpoint(attributes, address) == IF attributes % 4 = 0 THEN 4 ELSE (attributes % 4) + (IF address >= 128 THEN 4 ELSE 0)
Speeds == [Full |-> 1, Low |-> 2, High |-> 3, Super |-> 4, SuperPlus |-> 5]
DefaultEp0MaxPacket(speed) == CASE speed \in {"Full", "Low"} -> 8 [] speed = "High" -> 64 [] OTHER -> 512
Dci(address) == IF address % 16 = 0 THEN 1 ELSE (address % 16) * 2 + (IF address >= 128 THEN 1 ELSE 0)
Clamp(n, lo, hi) == Max({lo, Min({n, hi})})
Log2(n) == Max({k \in 0 .. 30 : 2^k <= n})
Interval(speed, epType, bInterval) ==
    LET interrupt == epType \in {3, 7}
        isoch == epType \in {1, 5}
        exponent == CASE speed \in {"High", "Super", "SuperPlus"} /\ (interrupt \/ isoch) -> Clamp(bInterval, 1, 16) - 1
                      [] speed \in {"Full", "Low"} /\ interrupt -> Max({3, Log2(Max({bInterval, 1}) * 8)})
                      [] speed = "Full" /\ isoch -> Clamp(bInterval, 1, 16) + 2
                      [] OTHER -> 0
    IN  Min({exponent, 15})

-----------------------------------------------------------------------------
(* Registers *)

CCS == 0
PED == 1
PR == 4
Changes == 17 .. 23
PortStatus(portsc) == [flags |-> portsc \cap ({CCS, PED, 3, PR, 9} \cup Changes), linkState |-> Field(portsc, 5, 4), speed |-> Field(portsc, 10, 4)]
\* The bits a write may repeat: those that keep what they are when written back.
PortscNeutral(portsc) == portsc \cap ({0, 3} \cup (5 .. 15) \cup {25, 26, 27, 30})
PortscReset(portsc) == (PortscNeutral(portsc) \ {PED}) \cup {PR}
PortscClearChanges(portsc) == PortscNeutral(portsc) \cup (portsc \cap Changes)
ParseCapabilities(caps) ==
    [caplength |-> Low(caps[0], 8), hciVersion |-> Field(caps[0], 16, 16), maxSlots |-> Low(caps[1], 8), maxInterrupters |-> Field(caps[1], 8, 11),
     maxPorts |-> Field(caps[1], 24, 8), erstMax |-> Field(caps[2], 4, 4),
     maxScratchpad |-> At(Field(caps[2], 21, 5), 5) \cup Field(caps[2], 27, 5), ac64 |-> 0 \in caps[4], context64 |-> 2 \in caps[4],
     xecpOffset |-> At(Field(caps[4], 16, 16), 2), doorbellOffset |-> caps[5] \ (0 .. 1), runtimeOffset |-> caps[6] \ (0 .. 4)]
DoorbellValue(target, stream) == At(Low(stream, 16), 16) \cup target
LegacyRequestOs(cap) == cap \cup {24}
\* walk_extended_caps: Read(o) is [id, next, ones, ...] at offset o, next counted in words.
RECURSIVE Walk(_, _, _)
Walk(read, at, found) ==
    IF at = 0 \/ Len(found) >= MAX_EXT_CAPS THEN found
    ELSE IF read[at].ones THEN found
    ELSE LET caps == Append(found, [kind |-> CASE read[at].id = 1 -> "LegacySupport" [] read[at].id = 2 -> "SupportedProtocol" [] OTHER -> "Other", offset |-> at])
         IN  IF read[at].next = 0 THEN caps ELSE Walk(read, at + read[at].next, caps)
WalkExtendedCaps(read, first) == Walk(read, first, <<>>)

-----------------------------------------------------------------------------
(* Descriptors *)

Le16(data, i) == data[i] + 256 * data[i + 1]
ParseDevice(data) ==
    CASE Len(data) < 18 -> Fail("Truncated")
      [] Len(data) >= 18 /\ data[1] < 18 -> Fail("BadLength")
      [] Len(data) >= 18 /\ data[1] >= 18 /\ data[2] # 1 -> Fail("WrongType")
      [] OTHER -> Ok([usb |-> Le16(data, 3), class |-> SubSeq(data, 5, 7), packet0 |-> data[8], vendor |-> Le16(data, 9), product |-> Le16(data, 11),
                      version |-> Le16(data, 13), strings |-> SubSeq(data, 15, 17), configurations |-> data[18]])
Ep0MaxPacket(device) == IF device.usb >= 768 THEN 2^device.packet0 ELSE device.packet0
\* parse_configuration: the descriptors one after the other, each to the interface before it.
RECURSIVE Descriptors(_, _, _, _)
Descriptors(data, end, pos, interfaces) ==
    LET len == data[pos]
        kind == data[pos + 1]
        short == \/ kind \in {4, 33} /\ len < 9
                 \/ kind = 5 /\ len < 7
                 \/ kind = 48 /\ len < 6
        has == interfaces # <<>>
        here == Len(interfaces)
        endpoint == [address |-> data[pos + 2], transfer |-> data[pos + 3] % 4, max |-> Le16(data, pos + 4) % 2048,
                     mult |-> (Le16(data, pos + 4) \div 2048) % 4, interval |-> data[pos + 6], burst |-> 0]
        more == CASE kind = 4 -> Append(interfaces, [number |-> data[pos + 2], alternate |-> data[pos + 3], class |-> SubSeq(data, pos + 5, pos + 7),
                                                     endpoints |-> <<>>, hid |-> None])
                  [] kind = 5 /\ has -> [interfaces EXCEPT ![here].endpoints = Append(@, endpoint)]
                  [] kind = 33 /\ has -> [interfaces EXCEPT ![here].hid = Some(Le16(data, pos + 7))]
                  [] kind = 48 /\ has -> [interfaces EXCEPT ![here].endpoints = IF @ = <<>> THEN @ ELSE [@ EXCEPT ![Len(@)].burst = data[pos + 2]]]
                  [] OTHER -> interfaces
    IN  IF pos > end THEN Ok(interfaces)
        ELSE IF len < 2 THEN Fail("BadLength")
        ELSE IF pos - 1 + len > end THEN Fail("Truncated")
        ELSE IF short THEN Fail("BadLength")
        ELSE Descriptors(data, end, pos + len, more)
ParseConfiguration(data) ==
    LET end == Min({Len(data), Le16(data, 3)})
        found == Descriptors(data, end, 10, <<>>)
    IN  IF Len(data) < 9 THEN Fail("Truncated")
        ELSE IF data[1] < 2 THEN Fail("BadLength")
        ELSE IF data[2] # 2 THEN Fail("WrongType")
        ELSE IF end < 9 THEN Fail("Truncated")
        ELSE IF ~found.ok THEN found
        ELSE Ok([value |-> data[6], attributes |-> data[8], power |-> data[9], interfaces |-> found.v])

HIGHS == 55296 .. 56319
LOWS == 56320 .. 57343
REPLACEMENT == 65533
\* A string descriptor's head is right: what is inside it, or the error.
Inside(data) ==
    CASE Len(data) < 2 -> Fail("Truncated")
      [] Len(data) >= 2 /\ data[1] < 2 -> Fail("BadLength")
      [] Len(data) >= 2 /\ data[1] >= 2 /\ data[2] # 3 -> Fail("WrongType")
      [] OTHER -> IF Len(data) < data[1] THEN Fail("Truncated") ELSE Ok(SubSeq(data, 3, data[1]))
Units(bytes) == [i \in 1 .. Len(bytes) \div 2 |-> Le16(bytes, 2 * i - 1)]
\* Pairs of surrogates are joined, lone ones replaced.
RECURSIVE Utf16(_)
Utf16(u) ==
    CASE u = <<>> -> <<>>
      [] u # <<>> /\ u[1] \notin HIGHS \cup LOWS -> <<u[1]>> \o Utf16(Tail(u))
      [] Len(u) >= 2 /\ u[1] \in HIGHS /\ u[2] \in LOWS -> <<65536 + (u[1] - 55296) * 1024 + (u[2] - 56320)>> \o Utf16(SubSeq(u, 3, Len(u)))
      [] OTHER -> <<REPLACEMENT>> \o Utf16(Tail(u))
ParseString(data) ==
    IF ~Inside(data).ok THEN Inside(data)
    ELSE IF Len(Inside(data).v) % 2 # 0 THEN Fail("BadLength") ELSE Ok(Utf16(Units(Inside(data).v)))
ParseLanguages(data) == IF Inside(data).ok THEN Ok(Units(Inside(data).v)) ELSE Inside(data)

\* SetupPacket: the requests by what they ask, as type, request, value, index and length.
Setup(type, request, value, index, length) == [type |-> type, request |-> request, value |-> value, index |-> index, length |-> length]
GetDescriptor(kind, index, lang, length) == Setup(128, 6, kind * 256 + index, lang, length)
GetHidReportDescriptor(interface, length) == Setup(129, 6, 8704, interface, length)
SetAddress(address) == Setup(0, 5, address, 0, 0)
SetConfiguration(value) == Setup(0, 9, value, 0, 0)
HidSetProtocol(interface, boot) == Setup(33, 11, IF boot THEN 0 ELSE 1, interface, 0)
HidSetIdle(interface, idle, report) == Setup(33, 10, idle * 256 + report, interface, 0)
HidSetReportOutput(interface, report, length) == Setup(33, 9, 512 + report, interface, length)
ClearEndpointHalt(endpoint) == Setup(2, 1, 0, endpoint, 0)
BotReset(interface) == Setup(33, 255, 0, interface, 0)
BotGetMaxLun(interface) == Setup(161, 254, 0, interface, 1)
SetupBytes(p) == <<p.type, p.request, p.value % 256, p.value \div 256, p.index % 256, p.index \div 256, p.length % 256, p.length \div 256>>

-----------------------------------------------------------------------------
(* Boot keyboard and mouse *)

ModifierCodes == <<<<29>>, <<42>>, <<56>>, <<224, 91>>, <<224, 29>>, <<54>>, <<224, 56>>, <<224, 92>>>>
\* get_key_codes, from usage 4 on; 224 stands before the codes of the extended keys.
KeyTable == <<30, 48, 46, 32, 18, 33, 34, 35, 23, 36, 37, 38, 50, 49, 24, 25, 16, 19, 31, 20, 22, 47, 17, 45, 21, 44, 2, 3, 4, 5, 6, 7, 8, 9, 10, 11,
              28, 1, 14, 15, 57, 12, 13, 26, 27, 43, 43, 39, 40, 41, 51, 52, 53, 58, 59, 60, 61, 62, 63, 64, 65, 66, 67, 68, 87, 88, 55, 70, 0,
              82, 71, 73, 83, 79, 81, 77, 75, 80, 72, 69, 53, 55, 74, 78, 28, 79, 80, 81, 75, 76, 77, 71, 72, 73, 82, 83, 86, 93>>
Pause == 72
Extended == {70} \cup (73 .. 82) \cup {84, 88, 101}
GetKeyCodes(usage) ==
    IF usage \notin 4 .. 101 \/ usage = Pause THEN None
    ELSE IF usage \in Extended THEN <<224, KeyTable[usage - 3]>> ELSE <<KeyTable[usage - 3]>>
BreakOf(codes) == IF codes = <<>> THEN <<>> ELSE Append(Front(codes), Last(codes) + 128)
\* The keys of a report, each once and in their order.
Keys(report) ==
    FoldLeft(LAMBDA keys, k : IF k = 0 \/ k \in Range(keys) THEN keys ELSE Append(keys, k), <<>>, SubSeq(report, 3, 8))
RollsOver(report) == \E i \in 3 .. 8 : report[i] \in 1 .. 3
\* BootKeyboard::report: what was sent before and what is now; releases come first.
Report(previous, report) ==
    LET before == Keys(previous)
        now == IF RollsOver(report) THEN before ELSE Keys(report)
        Mods(r) == Bits(r[1])
        KeyCodes(keys, others) == LET kept == SelectSeq(keys, LAMBDA k : k \notin Range(others)) IN [i \in DOMAIN kept |-> GetKeyCodes(kept[i])]
        ModCodes(bits) == [i \in 1 .. 8 |-> IF i - 1 \in bits THEN ModifierCodes[i] ELSE <<>>]
        Broken(s) == FlattenSeq([i \in DOMAIN s |-> BreakOf(s[i])])
        out == Broken(ModCodes(Mods(previous) \ Mods(report))) \o Broken(KeyCodes(before, now))
                 \o FlattenSeq(ModCodes(Mods(report) \ Mods(previous))) \o FlattenSeq(KeyCodes(now, before))
    IN  IF Len(report) < 8 THEN [previous |-> previous, out |-> <<>>]
        ELSE [previous |-> IF RollsOver(report) THEN [previous EXCEPT ![1] = report[1]] ELSE SubSeq(report, 1, 8), out |-> out]
Leds(num, caps, scroll) == (IF num THEN 1 ELSE 0) + (IF caps THEN 2 ELSE 0) + (IF scroll THEN 4 ELSE 0)
Signed(b) == IF b >= 128 THEN b - 256 ELSE b
ParseBootMouse(data) ==
    IF Len(data) < 3 THEN None
    ELSE Some([buttons |-> data[1] % 8, dx |-> Signed(data[2]), dy |-> Signed(data[3]), wheel |-> IF Len(data) >= 4 THEN Signed(data[4]) ELSE 0])

-----------------------------------------------------------------------------
(* Mass storage: commands by what they say, and the status behind them *)

Cbw(op, in, length, cbLen, lba, blocks) == [op |-> op, in |-> in, length |-> length, cbLen |-> cbLen, lba |-> lba, blocks |-> blocks]
TestUnitReady == Cbw(0, FALSE, 0, 6, 0, 0)
RequestSense == Cbw(3, TRUE, 18, 6, 0, 0)
InquiryCommand == Cbw(18, TRUE, 36, 6, 0, 0)
ReadCapacity10 == Cbw(37, TRUE, 8, 10, 0, 0)
ReadCapacity16 == Cbw(158, TRUE, 32, 16, 0, 0)
SynchronizeCache == Cbw(53, FALSE, 0, 10, 0, 0)
Transfer(in, lba, blocks, blockSize) ==
    CASE blocks = 0 \/ blocks * blockSize > MAX_LENGTH -> None
      [] blocks \in 1 .. TEN_BLOCKS /\ blocks * blockSize <= MAX_LENGTH /\ lba + blocks <= TEN_LBAS ->
            Some(Cbw(IF in THEN 40 ELSE 42, in, blocks * blockSize, 10, lba % TEN_LBAS, blocks))
      [] OTHER -> Some(Cbw(IF in THEN 136 ELSE 138, in, blocks * blockSize, 16, lba, blocks))
ParseCsw(csw, tag, length) ==
    CASE csw.bytes # 13 -> Fail("WrongLength")
      [] csw.bytes = 13 /\ ~csw.signed -> Fail("BadSignature")
      [] csw.bytes = 13 /\ csw.signed /\ csw.tag # tag -> Fail("TagMismatch")
      [] OTHER -> IF csw.status > 2 THEN Fail("BadStatus")
                  ELSE IF csw.status # 2 /\ csw.residue > length THEN Fail("ResidueTooLarge")
                  ELSE Ok([residue |-> csw.residue, status |-> csw.status])
Be(data, from, n) == SubSeq(data, from, from + n - 1)
ParseCapacity(data, width) == IF Len(data) < width + 4 THEN None ELSE Some([last |-> Be(data, 1, width), size |-> Be(data, width + 1, 4)])
ParseSense(data) ==
    LET code == data[1] % 128
    IN  CASE data = <<>> -> None
          [] data # <<>> /\ code \in {112, 113} -> IF Len(data) < 18 THEN None ELSE Some(<<data[3] % 16, data[13], data[14]>>)
          [] data # <<>> /\ code \in {114, 115} -> IF Len(data) < 4 THEN None ELSE Some(<<data[2] % 16, data[3], data[4]>>)
          [] OTHER -> None
RECURSIVE TrimEnd(_)
TrimEnd(s) == IF s # <<>> /\ Last(s) = 32 THEN TrimEnd(Front(s)) ELSE s
ParseInquiry(data) ==
    IF Len(data) < 36 THEN None
    ELSE Some([qualifier |-> data[1] \div 32, type |-> data[1] % 32, removable |-> data[2] >= 128,
               vendor |-> TrimEnd(SubSeq(data, 9, 16)), product |-> TrimEnd(SubSeq(data, 17, 32)), revision |-> TrimEnd(SubSeq(data, 33, 36))])
=============================================================================

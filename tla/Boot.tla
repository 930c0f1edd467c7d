-------------------------------- MODULE Boot --------------------------------
(***************************************************************************)
(* From firmware to a first program, as operators: ACPI tables, the PCI    *)
(* scan, the initramfs, the ELF loader, the first stack of a program and   *)
(* what its runtime reads there, and the copies between the kernel and a   *)
(* program's memory.  Memory is a function of addresses; sizes, widths and *)
(* offsets are parameters so that their limits can be reached.             *)
(***************************************************************************)
EXTENDS Integers, Sequences, SequencesExt, FiniteSetsExt

CONSTANTS
    PAGE, ADDR_MAX, CEILING,             \* bytes of a page; the largest address; the end of user space
    SEGMENT_LOW, SEGMENT_HIGH,           \* where segments may lie
    EHDR_SIZE, PHDR_SIZE,                \* bytes of the ELF header and of a program header
    STACK_TOP, STACK_MAPPED,             \* the end of the first stack and its size
    WORD, STACK_ALIGN, RANDOM_BYTES,     \* bytes of a word, of the stack's alignment, of AT_RANDOM
    IsUtf8(_),                           \* which sequences of bytes are text
    BLOCK, NAME, SIZE, CHECKSUM, TYPE, PREFIX,  \* bytes of a tar block, and its fields <<from, to>>
    HEADER_LEN, MAX_TABLE, HHDM_END,     \* bytes of a table's header, of the longest table; the end of what is mapped
    CAP_LOW, CAP_END, NO_BUS             \* bounds of a capability pointer; the bus number of no bus

Cut(s, range) == SubSeq(s, range[1] + 1, range[2])
Down(a) == a - (a % PAGE)
Up(a, unit) == ((a + unit - 1) \div unit) * unit
Sum(s) == FoldLeft(LAMBDA a, b : a + b, 0, s)
Put(f, g) == [a \in DOMAIN f \cup DOMAIN g |-> IF a \in DOMAIN g THEN g[a] ELSE f[a]]

-----------------------------------------------------------------------------
(* An address space under construction: its pages, its memory, the frames left *)

MapPage(space, page, w, x, bytes) ==
    [pages |-> Put(space.pages, [p \in {page} |-> [w |-> w, x |-> x, user |-> TRUE]]),
     mem |-> Put(space.mem, [a \in page .. page + PAGE - 1 |-> IF a \in DOMAIN bytes THEN bytes[a] ELSE 0]), free |-> space.free - 1]
\* Map the pages of a range in order until there is no frame.
RECURSIVE MapRange(_, _, _, _, _, _)
MapRange(space, page, end, w, x, bytes) ==
    IF page >= end THEN [err |-> "", space |-> space]
    ELSE IF space.free = 0 THEN [err |-> "OutOfMemory", space |-> space]
    ELSE MapRange(MapPage(space, page, w, x, bytes), page + PAGE, end, w, x, bytes)

-----------------------------------------------------------------------------
(* The ELF loader.  A file has the fields of its header, `bytes` and `phdrs`: the program   *)
(* headers that stand at phoff, phentsize bytes apart.                                      *)

ValidateHeader(f) ==
    IF Len(f.bytes) < EHDR_SIZE THEN "TooShort"
    ELSE IF f.magic # "ELF" THEN "BadMagic"
    ELSE IF f.class # 64 THEN "WrongClass"
    ELSE IF f.data # "LSB" THEN "WrongEndian"
    ELSE IF f.version # 1 THEN "WrongVersion"
    ELSE IF f.type # "EXEC" THEN "WrongType"
    ELSE IF f.machine # "X86_64" THEN "WrongMachine" ELSE ""
PageStart(ph) == Down(ph.vaddr)
PageEnd(ph) == Up(ph.vaddr + ph.memsz, PAGE)
\* The end of a segment, and of its last page, must be an address.
ReadPhdr(ph) == IF ph.vaddr + ph.memsz > ADDR_MAX \/ PageEnd(ph) > ADDR_MAX THEN "SegmentOutOfRange" ELSE ""
Unsupported(ph) == CASE ph.type = "INTERP" -> "UnsupportedInterp" [] ph.type = "DYNAMIC" -> "UnsupportedDynamic"
                     [] ph.type = "TLS" -> "UnsupportedTls" [] OTHER -> ""
ValidateSegment(f, ph) ==
    IF ph.filesz > ph.memsz THEN "FilesizeExceedsMemsize"
    ELSE IF ph.w /\ ph.x THEN "WriteAndExecute"
    ELSE IF ph.vaddr < SEGMENT_LOW \/ ph.vaddr + ph.memsz > SEGMENT_HIGH THEN "SegmentOutOfRange"
    ELSE IF ph.offset + ph.filesz > Len(f.bytes) THEN "SegmentOutOfRange" ELSE ""
Overlap(a, b) == PageStart(a) < PageEnd(b) /\ PageStart(b) < PageEnd(a)
MapSegment(f, space, ph) ==
    MapRange(space, PageStart(ph), PageEnd(ph), ph.w, ph.x, [a \in ph.vaddr .. ph.vaddr + ph.filesz - 1 |-> f.bytes[a - ph.vaddr + ph.offset + 1]])
\* Everything is validated before the first page is mapped; frames may run out behind it.
LoadElf(space, f) ==
    LET loads == SelectSeq(f.phdrs, LAMBDA ph : ph.type = "LOAD")
        table == IF f.phentsize < PHDR_SIZE \/ f.phoff + f.phnum * f.phentsize > Len(f.bytes) THEN "TruncatedProgramHeaders" ELSE ""
        overlaps == \E i, j \in DOMAIN loads : i < j /\ Overlap(loads[i], loads[j])
        entered == \E i \in DOMAIN loads : loads[i].x /\ f.entry \in loads[i].vaddr .. loads[i].vaddr + loads[i].memsz - 1
        errors == <<ValidateHeader(f), table>> \o [i \in DOMAIN f.phdrs |-> ReadPhdr(f.phdrs[i])] \o [i \in DOMAIN f.phdrs |-> Unsupported(f.phdrs[i])]
                  \o [i \in DOMAIN loads |-> ValidateSegment(f, loads[i])]
                  \o <<IF overlaps THEN "SegmentOverlap" ELSE "", IF entered THEN "" ELSE "EntryNotExecutable">>
        failed == SelectSeq(errors, LAMBDA e : e # "")
        Map(r, ph) == IF r.err # "" THEN r ELSE MapSegment(f, r.space, ph)
    IN  IF failed # <<>> THEN [err |-> failed[1], space |-> space] ELSE FoldLeft(Map, [err |-> "", space |-> space], loads)

-----------------------------------------------------------------------------
(* The first stack of a program *)

STACK_LOW == STACK_TOP - STACK_MAPPED
MapStackTop(space) == MapRange(space, STACK_LOW, STACK_TOP, TRUE, FALSE, <<>>)
Word(v) == [i \in 1 .. WORD |-> (v \div 256 ^ (i - 1)) % 256]
AT_NULL == 0
AT_PAGESZ == 6
AT_ENTRY == 9
AT_RANDOM == 25
\* argc, argv and its NULL, the NULL of envp, auxv; the strings and the random bytes; padding.
BuildImage(entry, argv, random) ==
    LET words == 1 + (Len(argv) + 1) + 1 + 8
        strings == FlattenSeq([i \in DOMAIN argv |-> argv[i] \o <<0>>])
        len == words * WORD + Len(strings) + RANDOM_BYTES
        base == STACK_TOP - Up(len, STACK_ALIGN)
        Behind(i) == base + words * WORD + Sum([j \in 1 .. i - 1 |-> Len(argv[j]) + 1])
        values == <<Len(argv)>> \o [i \in DOMAIN argv |-> Behind(i)] \o <<0, 0>>
                  \o <<AT_PAGESZ, PAGE, AT_ENTRY, entry, AT_RANDOM, Behind(Len(argv) + 1), AT_NULL, 0>>
    IN  IF len > STACK_MAPPED THEN [err |-> "ArgsTooLarge", bytes |-> <<>>]
        ELSE [err |-> "", bytes |-> FlattenSeq([i \in DOMAIN values |-> Word(values[i])]) \o strings \o random \o [i \in 1 .. Up(len, STACK_ALIGN) - len |-> 0]]
WriteImage(space, base, bytes) == [space EXCEPT !.mem = Put(@, [a \in base .. base + Len(bytes) - 1 |-> bytes[a - base + 1]])]
BuildInitialStack(space, entry, argv, random) ==
    LET mapped == MapStackTop(space)
        image == BuildImage(entry, argv, random)
        base == STACK_TOP - Len(image.bytes)
    IN  IF mapped.err # "" THEN [err |-> mapped.err, space |-> mapped.space, rsp |-> 0]
        ELSE IF image.err # "" THEN [err |-> image.err, space |-> mapped.space, rsp |-> 0]
        ELSE IF base < STACK_LOW THEN [err |-> "ArgsTooLarge", space |-> mapped.space, rsp |-> 0]
        ELSE [err |-> "", space |-> WriteImage(mapped.space, base, image.bytes), rsp |-> base]

\* The runtime of the program: the arguments it finds at its first stack pointer.
WordAt(mem, a) == FoldRight(LAMBDA b, n : b + 256 * n, [i \in 1 .. WORD |-> mem[a + i - 1]], 0)
CStr(mem, a) == LET end == Min({b \in DOMAIN mem : b >= a /\ mem[b] = 0}) IN [i \in 1 .. end - a |-> mem[a + i - 1]]
RtMain(mem, rsp) == [i \in 1 .. WordAt(mem, rsp) |-> LET s == CStr(mem, WordAt(mem, rsp + i * WORD)) IN IF IsUtf8(s) THEN s ELSE <<>>]

-----------------------------------------------------------------------------
(* Copies between the kernel and a program *)

Usable(space, page, write) == page \in DOMAIN space.pages /\ space.pages[page].user /\ (write => space.pages[page].w)
ValidateRange(space, ptr, len, write) ==
    \/ len = 0
    \/ ptr + len <= CEILING /\ \A page \in {Down(a) : a \in ptr .. ptr + len - 1} : Usable(space, page, write)
ValidateWritable(space, ptr, len) == ValidateRange(space, ptr, len, TRUE)
CopyFromUser(space, ptr, len) ==
    IF ValidateRange(space, ptr, len, FALSE) THEN [ok |-> TRUE, bytes |-> [i \in 1 .. len |-> space.mem[ptr + i - 1]]] ELSE [ok |-> FALSE, bytes |-> <<>>]
CopyToUser(space, ptr, bytes) ==
    IF ValidateRange(space, ptr, Len(bytes), TRUE) THEN [ok |-> TRUE, space |-> WriteImage(space, ptr, bytes)] ELSE [ok |-> FALSE, space |-> space]
\* A string whose NUL is among the first `max` bytes, all of them readable up to it.
RECURSIVE UserStrFrom(_, _, _, _)
UserStrFrom(space, ptr, max, out) ==
    LET byte == CopyFromUser(space, ptr, 1)
    IN  IF max = 0 \/ ptr > ADDR_MAX \/ ~byte.ok THEN [ok |-> FALSE, text |-> <<>>]
        ELSE IF byte.bytes = <<0>> THEN [ok |-> IsUtf8(out), text |-> IF IsUtf8(out) THEN out ELSE <<>>]
        ELSE UserStrFrom(space, ptr + 1, max - 1, out \o byte.bytes)
UserStr(space, ptr, max) == UserStrFrom(space, ptr, max, <<>>)

-----------------------------------------------------------------------------
(* The initramfs *)

\* The digits of an octal field, behind blanks and NULs and up to the next; -1 for none.
ParseOctal(field) ==
    LET blank == {0, 32}
        digit == 48 .. 55
        from == SelectInSeq(field, LAMBDA b : b \notin blank)
        rest == IF from = 0 THEN <<>> ELSE SubSeq(field, from, Len(field))
        end == SelectInSeq(rest, LAMBDA b : b \in blank)
        word == IF end = 0 THEN rest ELSE SubSeq(rest, 1, end - 1)
        value == FoldLeft(LAMBDA n, b : 8 * n + b - 48, 0, word)
    IN  IF \A i \in DOMAIN word : word[i] \in digit THEN (IF value > ADDR_MAX THEN -1 ELSE value) ELSE -1
HeaderSum(header) == Sum([i \in DOMAIN header |-> IF i - 1 \in CHECKSUM[1] .. CHECKSUM[2] - 1 THEN 32 ELSE header[i]])
FieldText(field) ==
    LET end == SelectInSeq(field, LAMBDA b : b = 0)
        text == IF end = 0 THEN field ELSE SubSeq(field, 1, end - 1)
    IN  IF IsUtf8(text) THEN text ELSE <<>>
SLASH == 47
DOT == 46
\* The parts of a path, empty ones too.
Components(path) == FoldLeft(LAMBDA parts, c : IF c = SLASH THEN Append(parts, <<>>) ELSE Append(Front(parts), Append(Last(parts), c)), <<<<>>>>, path)
IsSafePath(path) == (path = <<>> \/ path[1] # SLASH) /\ <<DOT, DOT>> \notin ToSet(Components(path))
Unpacked(entries) == [err |-> "", files |-> entries]
BadArchive(err) == [err |-> err, files |-> <<>>]
RECURSIVE ParseFrom(_, _, _)
ParseFrom(data, offset, entries) ==
    LET header == SubSeq(data, offset + 1, offset + BLOCK)
        stored == ParseOctal(Cut(header, CHECKSUM))
        name == FieldText(Cut(header, NAME))
        prefix == FieldText(Cut(header, PREFIX))
        path == IF prefix = <<>> THEN name ELSE prefix \o <<SLASH>> \o name
        size == ParseOctal(Cut(header, SIZE))
        start == offset + BLOCK
        regular == header[TYPE + 1] \in {48, 0}
        file == [path |-> path, data |-> SubSeq(data, start + 1, start + size)]
    IN  IF offset + BLOCK > Len(data) \/ \A i \in DOMAIN header : header[i] = 0 THEN Unpacked(entries)
        ELSE IF stored = -1 \/ HeaderSum(header) # stored THEN BadArchive("BadChecksum")
        ELSE IF size = -1 \/ start + size > Len(data) THEN BadArchive("Truncated")
        ELSE IF regular /\ ~IsSafePath(path) THEN BadArchive("UnsafePath")
        ELSE ParseFrom(data, start + Up(size, BLOCK), IF regular THEN Append(entries, file) ELSE entries)
ParseArchive(data) == ParseFrom(data, 0, <<>>)
\* The first file of a path, whose leading slashes do not count.
Open(files, path) ==
    LET from == SelectInSeq(path, LAMBDA c : c # SLASH)
        rest == IF from = 0 THEN <<>> ELSE SubSeq(path, from, Len(path))
        i == SelectInSeq(files, LAMBDA f : f.path = rest)
    IN  IF i = 0 THEN [ok |-> FALSE, data |-> <<>>] ELSE [ok |-> TRUE, data |-> files[i].data]
\* What init leaves behind: the files of the first module called initramfs, or nothing.
Initramfs(modules) ==
    LET i == SelectInSeq(modules, LAMBDA m : m.cmdline = "initramfs")
        parsed == ParseArchive(modules[i].data)
    IN  IF i = 0 THEN [present |-> FALSE, files |-> <<>>]
        ELSE [present |-> parsed.err = "", files |-> parsed.files]

-----------------------------------------------------------------------------
(* ACPI.  Physical memory is a sequence; every field is one byte wide.  A table is its     *)
(* signature, length, revision, checksum, and its body.                                    *)

None == [some |-> FALSE, value |-> 0]
Some(v) == [some |-> TRUE, value |-> v]
At(mem, a, n) == SubSeq(mem, a + 1, a + n)
ChecksumIsZero(bytes) == Sum(bytes) % 256 = 0
\* The root pointer: signature, revision, address of the RSDT, checksum, then the address of
\* the XSDT and a checksum over all.
RSDP_SIGNATURE == 82
RSDP_V1_LEN == 4
RSDP_V2_LEN == 6
ParseRsdp(mem, phys) ==
    LET b == At(mem, phys, RSDP_V2_LEN)
        long == b[2] >= 2
    IN  IF b[1] # RSDP_SIGNATURE \/ ~ChecksumIsZero(SubSeq(b, 1, RSDP_V1_LEN)) \/ (long /\ ~ChecksumIsZero(b)) THEN None
        ELSE Some([rsdt |-> b[3], xsdt |-> IF long THEN Some(b[5]) ELSE None])
AddressRangeOk(phys, len) == phys + len <= HHDM_END
Validate(mem, phys) ==
    LET len == mem[phys + 2] IN
    IF ~AddressRangeOk(phys, HEADER_LEN) THEN None
    ELSE IF len < HEADER_LEN \/ len > MAX_TABLE \/ ~AddressRangeOk(phys, len) \/ ~ChecksumIsZero(At(mem, phys, len)) THEN None
    ELSE Some([signature |-> mem[phys + 1], revision |-> mem[phys + 3], body |-> At(mem, phys + HEADER_LEN, len - HEADER_LEN)])
\* The tables the root lists that are valid, in its order; an XSDT has entries of two bytes.
CollectHeaders(mem, rsdp) ==
    LET width == IF rsdp.xsdt.some THEN 2 ELSE 1
        root == Validate(mem, IF rsdp.xsdt.some THEN rsdp.xsdt.value ELSE rsdp.rsdt)
        body == root.value.body
        Entry(i) == IF width = 2 THEN body[2 * i - 1] + 256 * body[2 * i] ELSE body[i]
        tables == [i \in 1 .. Len(body) \div width |-> Validate(mem, Entry(i))]
        good == SelectSeq(tables, LAMBDA t : t.some)
    IN  IF ~root.some THEN <<>> ELSE [i \in DOMAIN good |-> good[i].value]

PolarityFromFlags(flags) == CASE flags % 4 = 1 -> "ActiveHigh" [] flags % 4 = 3 -> "ActiveLow" [] OTHER -> "ConformsToBus"
TriggerFromFlags(flags) == CASE (flags \div 4) % 4 = 1 -> "Edge" [] (flags \div 4) % 4 = 3 -> "Level" [] OTHER -> "ConformsToBus"
PolarityForIsa(p) == IF p = "ConformsToBus" THEN "ActiveHigh" ELSE p
TriggerForIsa(t) == IF t = "ConformsToBus" THEN "Edge" ELSE t
\* Fields of the MADT before its entries, and what is read of an entry of each kind.
MADT_MIN == 2
MinEntry(kind) == CASE kind = 0 -> 5 [] kind = 1 -> 6 [] kind = 2 -> 6 [] kind = 5 -> 5 [] OTHER -> 2
MadtEntry(m, e) ==
    IF Len(e) < MinEntry(e[1]) THEN m
    ELSE CASE e[1] = 0 -> [m EXCEPT !.cpus = Append(@, [processor |-> e[3], apic |-> e[4], enabled |-> e[5] % 2 = 1])]
           [] e[1] = 1 -> [m EXCEPT !.ioapics = Append(@, [id |-> e[3], address |-> e[5], gsi |-> e[6]])]
           [] e[1] = 2 -> [m EXCEPT !.overrides = Append(@, [irq |-> e[4], gsi |-> e[5], polarity |-> PolarityFromFlags(e[6]), trigger |-> TriggerFromFlags(e[6])])]
           [] e[1] = 5 -> [m EXCEPT !.lapic = e[5]]
           [] OTHER -> m
\* An entry shorter than its own two first bytes, or longer than the table, ends the walk.
RECURSIVE MadtWalk(_, _, _)
MadtWalk(m, body, offset) ==
    LET len == body[offset + 2] IN
    IF offset + 2 > Len(body) THEN m
    ELSE IF len < 2 \/ offset + len > Len(body) THEN m
    ELSE MadtWalk(MadtEntry(m, At(body, offset, len)), body, offset + len)
ParseMadt(t) ==
    IF Len(t.body) < MADT_MIN THEN None
    ELSE Some(MadtWalk([lapic |-> t.body[1], cpus |-> <<>>, ioapics |-> <<>>, overrides |-> <<>>], t.body, MADT_MIN))
ParseHpet(t) == IF Len(t.body) < 3 THEN None ELSE Some(t.body[3])
BootArchFlags(t) == IF t.revision < 2 \/ Len(t.body) < 4 THEN None ELSE Some(t.body[4])
\* Allocations of a base address, segment, first and last bus, behind a reserved field.
ParseMcfg(t) ==
    IF Len(t.body) < 1 THEN None
    ELSE Some([i \in 1 .. (Len(t.body) - 1) \div 4 |-> LET at == 4 * (i - 1) + 1 IN
               [base |-> t.body[at + 1], segment |-> t.body[at + 2], first |-> t.body[at + 3], last |-> t.body[at + 4]]])
APIC == 65
HPET == 72
FACP == 70
MCFG == 77
\* Of two tables with a signature the later one counts, readable or not; a machine without a MADT stops.
AcpiInit(mem, phys) ==
    LET rsdp == ParseRsdp(mem, phys)
        tables == CollectHeaders(mem, rsdp.value)
        Take(info, t) == CASE t.signature = APIC -> [info EXCEPT !.madt = ParseMadt(t)]
                           [] t.signature = HPET -> [info EXCEPT !.hpet = ParseHpet(t)]
                           [] t.signature = FACP -> [info EXCEPT !.facp = Some(t.revision), !.flags = BootArchFlags(t)]
                           [] t.signature = MCFG -> [info EXCEPT !.mcfg = ParseMcfg(t)]
                           [] OTHER -> info
        info == FoldLeft(Take, [madt |-> None, hpet |-> None, facp |-> None, flags |-> None, mcfg |-> None], tables)
    IN  IF ~rsdp.some \/ ~info.madt.some THEN None ELSE Some(info)

-----------------------------------------------------------------------------
(* PCI.  `machine` gives the functions that answer, by <<bus, device, function>>: whether  *)
(* more functions follow, and the bus behind a bridge (none: NO_BUS, no bridge: -1).       *)

EcamOffset(bdf) == bdf[1] * 2 ^ 20 + bdf[2] * 2 ^ 15 + bdf[3] * 2 ^ 12
Functions(machine, bus, device) ==
    LET first == <<bus, device, 0>>
        others == SelectSeq([f \in 1 .. 7 |-> <<bus, device, f>>], LAMBDA bdf : bdf \in DOMAIN machine)
    IN  IF first \notin DOMAIN machine THEN <<>> ELSE <<first>> \o (IF machine[first].multi THEN others ELSE <<>>)
\* The devices found on a bus, in order, those behind a bridge before it.  `fuel` bounds the
\* nesting: the code has no bound, and a scan that runs out of fuel does not end.
RECURSIVE ScanBus(_, _, _)
ScanBus(machine, bus, fuel) ==
    LET all == FlattenSeq([d \in 1 .. 32 |-> Functions(machine, bus, d - 1)])
        Behind(bdf) == LET to == machine[bdf].secondary IN IF to \in {-1, NO_BUS} THEN [ends |-> TRUE, found |-> <<>>] ELSE ScanBus(machine, to, fuel - 1)
        Take(r, bdf) == IF ~r.ends THEN r ELSE LET b == Behind(bdf) IN [ends |-> b.ends, found |-> r.found \o b.found \o <<bdf>>]
    IN  IF fuel = 0 THEN [ends |-> FALSE, found |-> <<>>] ELSE FoldLeft(Take, [ends |-> TRUE, found |-> <<>>], all)
ScanSegment(machine, first, last, fuel) ==
    FoldLeft(LAMBDA r, bus : IF ~r.ends THEN r ELSE LET b == ScanBus(machine, bus, fuel) IN [ends |-> b.ends, found |-> r.found \o b.found],
             [ends |-> TRUE, found |-> <<>>], [i \in 1 .. last - first + 1 |-> first + i - 1])

\* The six base addresses: `hi` is what the upper half of a 64-bit one is worth.
RECURSIVE DecodeFrom(_, _, _, _)
DecodeFrom(raw, i, bars, hi) ==
    LET v == raw[i]
        kind == (v \div 2) % 4
        Set(at, bar) == [bars EXCEPT ![at] = bar]
    IN  IF i > Len(raw) THEN bars
        ELSE IF v = 0 THEN DecodeFrom(raw, i + 1, bars, hi)
        ELSE IF v % 2 = 1 THEN DecodeFrom(raw, i + 1, Set(i, [io |-> TRUE, address |-> Some(v - (v % 4))]), hi)
        ELSE IF kind = 0 THEN DecodeFrom(raw, i + 1, Set(i, [io |-> FALSE, address |-> Some(v - (v % 16))]), hi)
        ELSE IF kind = 2 /\ i < Len(raw) THEN DecodeFrom(raw, i + 2, Set(i, [io |-> FALSE, address |-> Some(raw[i + 1] * hi + v - (v % 16))]), hi)
        ELSE DecodeFrom(raw, i + 1, bars, hi)
DecodeBars(raw, hi) == DecodeFrom(raw, 1, [i \in DOMAIN raw |-> [io |-> FALSE, address |-> None]], hi)

\* The capabilities from a pointer on: id and place, until a pointer leaves the range or comes again.
RECURSIVE Capabilities(_, _, _)
Capabilities(config, ptr, caps) ==
    IF ptr \notin CAP_LOW .. CAP_END - 1 \/ \E i \in DOMAIN caps : caps[i][2] = ptr THEN caps
    ELSE Capabilities(config, config[ptr + 1], Append(caps, <<config[ptr], ptr>>))

\* What a write of ones reads back as tells the size; the code adds one to it.  `limit` is
\* one more than the largest register value.
ProbeBarSize(bits, limit) ==
    LET mask == IF bits % 2 = 1 THEN bits - (bits % 4) ELSE bits - (bits % 16)
        size == IF bits = 0 THEN 0 ELSE limit - 1 - (IF mask = 0 THEN 0 ELSE mask - 1)
    IN  size + 1
=============================================================================

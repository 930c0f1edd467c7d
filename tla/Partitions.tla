----------------------------- MODULE Partitions -----------------------------
(***************************************************************************)
(* otter-part: the partitions of a disk from its MBR or GPT.  A disk is a  *)
(* sector count, the MBR of sector 0, and at a few sectors GPT headers     *)
(* with their entry arrays; a sector may fail to read.  Headers and        *)
(* entries are records of the fields the code decodes, with good for a     *)
(* signature and check sum that are right; GUIDs and names are values.     *)
(***************************************************************************)
EXTENDS Integers, Sequences, SequencesExt, FiniteSetsExt

CONSTANTS
    MIN_ENTRY,          \* 128: the smallest entry, and a power of two times it the others
    MAX_ARRAY_SIZE,     \* bytes of an entry array
    SECTOR_SIZES        \* the powers of two from 512 to 4096

Ok(v) == [ok |-> TRUE, v |-> v]
Err(kind) == [ok |-> FALSE, kind |-> kind]

-----------------------------------------------------------------------------
(* MBR *)

BootFlags == {0, 128}
IsMbr(mbr) == mbr.signed /\ \A slot \in 1 .. 4 : mbr.slots[slot].boot \in BootFlags
UsedSlot(disk, s) == s.system # 0 /\ s.start # 0 /\ s.size # 0 /\ s.start + s.size <= disk.sectors
ReadMbr(disk) ==
    LET used == SelectSeq([i \in 1 .. 4 |-> i], LAMBDA i : UsedSlot(disk, disk.mbr.slots[i]))
        Part(i) == LET s == disk.mbr.slots[i] IN [number |-> i, first |-> s.start, sectors |-> s.size, bootable |-> s.boot = 128]
    IN  [i \in DOMAIN used |-> Part(used[i])]

-----------------------------------------------------------------------------
(* GPT *)

DivCeil(n, d) == (n + d - 1) \div d
\* A power of two times the least; the largest the code allows, 2^31, exceeds any array.
IsEntrySize(n) == n \in {MIN_ENTRY * 2^i : i \in 0 .. 4}
\* The array lies in front of the usable sectors or behind them, and on the disk.
ArrayFits(disk, h) ==
    LET end == h.array + DivCeil(h.entries * h.entrySize, disk.sectorSize)
    IN  IF h.array < h.firstUsable THEN end <= h.firstUsable ELSE h.array > h.lastUsable /\ end <= disk.sectors

\* None of a header that is not one, an error of a sector that does not read.
ReadHeader(disk, lba) ==
    LET h == disk.headers[lba]
        right == /\ h.good /\ h.my = lba
                 /\ h.firstUsable <= h.lastUsable /\ h.lastUsable < disk.sectors
                 /\ IsEntrySize(h.entrySize) /\ h.entries * h.entrySize <= MAX_ARRAY_SIZE
                 /\ ArrayFits(disk, h)
    IN  IF lba \in disk.failing THEN Err("Io")
        ELSE IF lba \in DOMAIN disk.headers THEN Ok(IF right THEN <<h>> ELSE <<>>) ELSE Ok(<<>>)

\* An entry outside the usable sectors is left out, and so is one that ends before it begins.
ParseEntry(e, h) == e.used /\ e.first >= h.firstUsable /\ e.last <= h.lastUsable /\ e.first <= e.last

ReadArray(disk, h) ==
    LET sectors == h.array .. h.array + DivCeil(h.entries * h.entrySize, disk.sectorSize) - 1
        array == disk.arrays[h.array]
        used == SelectSeq([i \in 1 .. h.entries |-> i], LAMBDA i : ParseEntry(array[i], h))
        Part(i) == [number |-> i, first |-> array[i].first, sectors |-> array[i].last - array[i].first + 1, bootable |-> array[i].bootable]
    IN  IF sectors \cap disk.failing # {} THEN Err("Io")
        ELSE IF ~disk.arrayGood[h.array] THEN Err("Corrupt")
        ELSE Ok([i \in DOMAIN used |-> Part(used[i])])

\* The first header, and the last sector's if that one or its array is damaged; a header
\* that does not read is an error at once.
ReadGpt(disk) ==
    LET primary == ReadHeader(disk, 1)
        first == ReadArray(disk, primary.v[1])
        backup == ReadHeader(disk, disk.sectors - 1)
        second == ReadArray(disk, backup.v[1])
        fallback == IF ~backup.ok THEN backup
                    ELSE IF backup.v = <<>> THEN Err("Corrupt")
                    ELSE IF second.ok THEN Ok([backup |-> TRUE, partitions |-> second.v]) ELSE Err("Corrupt")
    IN  IF ~primary.ok THEN primary
        ELSE IF primary.v = <<>> THEN fallback
        ELSE IF first.ok THEN Ok([backup |-> FALSE, partitions |-> first.v]) ELSE fallback

ReadTable(disk) ==
    LET marked == \E i \in 1 .. 4 : disk.mbr.slots[i].system = 238
    IN  IF disk.sectorSize \notin SECTOR_SIZES THEN Err("Unsupported")
        ELSE IF 0 \in disk.failing THEN Err("Io")
        ELSE IF ~IsMbr(disk.mbr) THEN Err("NoTable")
        ELSE IF marked THEN ReadGpt(disk)
        ELSE Ok([backup |-> FALSE, partitions |-> ReadMbr(disk)])

-----------------------------------------------------------------------------
(* Names and GUIDs *)

\* UTF-16 up to the first zero: halves that do not pair and the two non-characters are
\* replaced.
RECURSIVE Decoded(_)
Decoded(units) ==
    IF units = <<>> THEN <<>>
    ELSE IF units[1] = 0 THEN <<>>
    ELSE IF units[1] \in 55296 .. 56319 /\ Len(units) > 1 /\ units[2] \in 56320 .. 57343
         THEN <<65536 + (units[1] - 55296) * 1024 + (units[2] - 56320)>> \o Decoded(SubSeq(units, 3, Len(units)))
    ELSE <<IF units[1] \in 55296 .. 57343 \cup {65534, 65535} THEN 65533 ELSE units[1]>> \o Decoded(Tail(units))

\* A GUID's text: five groups of bytes, the first three with the last byte first.  A text
\* is a sequence of hexadecimal digits, of either case, and DASH.
DASH == -1
GuidGroups == <<<<4, 3, 2, 1>>, <<6, 5>>, <<8, 7>>, <<9, 10>>, <<11, 12, 13, 14, 15, 16>>>>
Dashes == {9, 14, 19, 24}
GuidText(guid) ==
    LET Group(g) == FlattenSeq([i \in DOMAIN g |-> <<guid[g[i]] \div 16, guid[g[i]] % 16>>])
    IN  FlattenSeq([n \in 1 .. 5 |-> IF n = 1 THEN Group(GuidGroups[n]) ELSE <<DASH>> \o Group(GuidGroups[n])])
\* No GUID is an empty sequence.
ParseGuid(text) ==
    LET order == FlattenSeq(GuidGroups)
        digits == SelectSeq(text, LAMBDA c : c # DASH)
        place(b) == CHOOSE i \in DOMAIN order : order[i] = b
    IN  IF Len(text) = 36 /\ \A i \in 1 .. 36 : (IF i \in Dashes THEN text[i] = DASH ELSE text[i] \in 0 .. 15)
        THEN [b \in 1 .. 16 |-> 16 * digits[2 * place(b) - 1] + digits[2 * place(b)]] ELSE <<>>
=============================================================================

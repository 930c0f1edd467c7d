---------------------------- MODULE MCStorage ------------------------------
(***************************************************************************)
(* What holds the system's data, for TLC: the block device, the heap with  *)
(* the frames below it, and the page tables.  The driver's rings are       *)
(* allocated once, at boot, and page tables take frames one by one, so     *)
(* that each is explored beside the others at rest: subject says which one *)
(* runs.  The device has two sectors and a request at most one, so that an *)
(* operation on both takes two requests.                                   *)
(***************************************************************************)
EXTENDS VirtioBlk, Heap, PageTables

CONSTANT Subjects

VARIABLE subject

allVars == <<subject, vars, heapVars, pageVars>>

\* No device was found.
NoDevice == ~up /\ features = {} /\ \A c \in Cells : bounce[c] = 0
AllInit ==
    /\ subject \in Subjects
    /\ Init /\ HeapInit /\ PageInit
    /\ subject = "blk" \/ NoDevice

BlkRuns   == subject = "blk" /\ Next /\ UNCHANGED <<subject, heapVars, pageVars>>
HeapRuns  == subject = "heap" /\ HeapNext /\ UNCHANGED <<subject, vars, pageVars>>
PagesRun  == subject = "pages" /\ PageNext /\ UNCHANGED <<subject, vars, heapVars>>

AllNext == BlkRuns \/ HeapRuns \/ PagesRun

AllSpec == AllInit /\ [][AllNext]_allVars

-----------------------------------------------------------------------------
(* Values of the constants. *)

Sym == Permutations(Threads) \cup Permutations(Procs)

Operation(kind, lba, buf, ragged) ==
    [kind |-> kind, lba |-> lba, n |-> Len(buf), data |-> buf, ragged |-> ragged]

MCOps ==
    {Operation("read", 0, <<1, 1>>, FALSE),
     Operation("write", 0, <<1, 0>>, FALSE),
     Operation("flush", 0, <<>>, FALSE),
     Operation("write", LbaMod - 1, <<1, 1>>, FALSE)}

MCOffers ==
    {{"RING_EVENT_IDX"}, {"VERSION_1", "RING_EVENT_IDX"}, {"VERSION_1", "RING_EVENT_IDX", "FLUSH"}}

\* The operations of the run that looks at what a timeout leaves behind.
TwoOps == {Operation("read", 0, <<1>>, FALSE), Operation("write", 1, <<1>>, FALSE)}

\* A low region that ends inside a frame, a hole, and four frames above the line.
Region(base, length, usable) == [base |-> base, length |-> length, usable |-> usable]
MemoryMapDef == <<Region(0, 9000, TRUE), Region(9216, 3072, FALSE), Region(12288, 4 * 4096, TRUE)>>

\* An object of a size class, a large one, one whose alignment makes it large, and one no
\* block can be aligned for.
Layout(size, align) == [size |-> size, align |-> align]
LayoutsDef == {Layout(1000, 8), Layout(5000, 8), Layout(100, 4096), Layout(1, 8192)}

\* Usable memory between a reserved first frame, a bad one and the kernel's image.
Entry(base, length, kind) == [base |-> base, length |-> length, kind |-> kind]
RamMapDef == <<Entry(0, 1, "reserved"), Entry(1, 50, "usable"), Entry(51, 1, "bad"), Entry(52, 4, "reserved")>>

-----------------------------------------------------------------------------
(* Checks of the pure operators over bounded inputs. *)

\* NeedEvent is the wrapping form of: entry event is one of old, ..., new - 1.
ASSUME NeedEventIsMembership ==
    \A old, event \in Indices : \A k \in 0 .. QSize :
        NeedEvent(Plus(old, k), event, old) <=> \E i \in 0 .. k - 1 : event = Plus(old, i)

\* Every power-of-two limit a device may name yields a size Layout::for_size takes.
ASSUME SizesAreUsable ==
    \A k \in 0 .. 15, d \in 1 .. 300 :
        LET n == QueueSizeFor(d, 2^k) IN LayoutForSize(n) = n /\ n <= 2^k

\* find_free_run finds the least aligned run of free frames, and none only if there is
\* none (frame 0 is always used).
ASSUME RunIsLeast ==
    \A used \in SUBSET (1 .. 6), n \in 1 .. 3, align \in {1, 2, 4} :
        LET runs == {s \in 1 .. 6 : s % align = 0 /\ s + n <= 7 /\ (s .. s + n - 1) \cap used = {}}
        IN  FindFreeRun(used \cup {0}, 7, n, align) = IF runs = {} THEN Null ELSE Min(runs)

\* map_hhdm maps a page once or not at all: not if a bad byte is in it, else if a good
\* one is or if it is below the ceiling (three entries in order, pages of two bytes).
ASSUME HhdmIsExact ==
    \A a, b, c \in [base : 0 .. 5, length : 0 .. 3, kind : {"usable", "bad"}] :
        \/ b.base < a.base + a.length \/ c.base < b.base + b.length
        \/ LET ranges == HhdmRanges(<<a, b, c>>, 6, 99, 2)
               times(p) == Cardinality({i \in DOMAIN ranges : ranges[i].from <= 2 * p /\ 2 * p < ranges[i].to})
               bytes(kind) == UNION {e.base .. e.base + e.length - 1 : e \in {x \in {a, b, c} : x.kind = kind}}
               hit(p, kind) == bytes(kind) \cap {2 * p, 2 * p + 1} # {}
           IN  \A p \in 0 .. 5 : times(p) = IF ~hit(p, "bad") /\ (hit(p, "usable") \/ p < 3) THEN 1 ELSE 0
=============================================================================

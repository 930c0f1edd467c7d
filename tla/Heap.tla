-------------------------------- MODULE Heap --------------------------------
(***************************************************************************)
(* Physical frames and the kernel heap: the frame bitmaps (mm/bitmap.rs,   *)
(* mm/pmm.rs), the slabs of the small size classes (mm/heap/slab.rs), the  *)
(* table of large objects (mm/heap/large.rs) and the allocator above them  *)
(* (mm/heap/mod.rs).  Every operation runs under an interrupt-safe lock    *)
(* and is one action.  Addresses are bytes of physical memory: the direct  *)
(* map only adds a constant to them.                                       *)
(***************************************************************************)
EXTENDS Naturals, Sequences, SequencesExt, FiniteSets, FiniteSetsExt, Functions

CONSTANTS
    MemoryMap,        \* what the boot loader reports: a sequence of [base, length, usable]
    LOW_MEM_LIMIT,    \* 1 MiB: memory below it is a pool of its own
    MAX_REGIONS,      \* regions free_frame knows: 64
    MAX_LARGE,        \* entries of the table of large objects: 512
    Layouts,          \* requests: a set of [size, align]
    MaxObjects        \* bound: objects live at a time

VARIABLES
    frames,   \* the frames marked used, in the general and in the low bitmap
    slabs,    \* each class's list of slabs: the frame, the free list, the slots handed out
    large,    \* the large objects: address and frames of each entry, or Empty
    stats,    \* bytes and small objects in use, slabs owned
    objects,  \* history: the objects callers have
    held      \* history: the frames callers have

heapVars == <<frames, slabs, large, stats, objects, held>>

FRAME_SIZE == 4096
BITS_PER_WORD == 64
CeilDiv(a, b) == (a + b - 1) \div b
Null == 0         \* frame 0 is never handed out

-----------------------------------------------------------------------------
(* FrameBitmap. *)

\* find_free_run over count frames: from the first aligned start, and past the first
\* used frame of every run that does not fit.
FindFreeRun(used, count, n, align) ==
    LET scan[s \in 0 .. count + align] ==
            IF s + n > count THEN Null
            ELSE IF s % align # 0 THEN scan[CeilDiv(s, align) * align]
            ELSE LET hit == used \cap (s .. s + n - 1)
                 IN  IF hit = {} THEN s ELSE scan[Min(hit) + 1]
    IN  scan[0]

-----------------------------------------------------------------------------
(* pmm::init. *)

Usable == SelectSeq(MemoryMap, LAMBDA e : e.usable)
EndOf(e) == e.base + e.length
WholeFrames(e) == CeilDiv(e.base, FRAME_SIZE) .. (EndOf(e) \div FRAME_SIZE) - 1
TotalFrames == Max({EndOf(e) : e \in Range(Usable)}) \div FRAME_SIZE
BitmapBytes == CeilDiv(TotalFrames, BITS_PER_WORD) * 8

\* The bitmap goes to the largest region above the line that holds it, the last of equals.
BitmapBase ==
    LET fits == SelectSeq(Usable, LAMBDA e : e.base >= LOW_MEM_LIMIT /\ e.length >= BitmapBytes)
        best == Max({i \in DOMAIN fits : \A j \in DOMAIN fits : fits[j].length <= fits[i].length})
    IN  fits[best].base
BitmapFrames == LET first == BitmapBase \div FRAME_SIZE
                IN  first .. first + CeilDiv(BitmapBytes, FRAME_SIZE) - 1
LowCount == Min({LOW_MEM_LIMIT \div FRAME_SIZE, TotalFrames})
LowFrames == (UNION {WholeFrames(e) : e \in Range(Usable)}) \cap (0 .. LowCount - 1)

FreeAtBoot == (UNION {WholeFrames(e) : e \in Range(Usable)}) \ (BitmapFrames \cup LowFrames \cup {0})
PmmInit == [general |-> (0 .. TotalFrames - 1) \ FreeAtBoot,
            low     |-> (0 .. LowCount - 1) \ (LowFrames \ {0})]

\* is_usable_frame: in one of the regions that are remembered, and not the bitmap's own.
IsUsableFrame(f) ==
    LET addr == f * FRAME_SIZE
    IN  /\ ~(BitmapBase <= addr /\ addr < BitmapBase + BitmapBytes)
        /\ \E i \in DOMAIN Usable : /\ i <= MAX_REGIONS
                                    /\ Usable[i].base <= addr /\ addr + FRAME_SIZE <= EndOf(Usable[i])

\* alloc_contiguous (alloc_frame is its case of one frame); Null if there is no such run.
RunOf(s, n, align) == FindFreeRun(s.general, TotalFrames, n, align)
Taken(s, start, n) == [s EXCEPT !.general = @ \cup (start .. start + n - 1)]

\* free_frame, with its assertions, and free_contiguous.
MayFree(s, f) == f # 0 /\ IsUsableFrame(f) /\ f \in IF f < LowCount THEN s.low ELSE s.general
Freed(s, fs) == [general |-> s.general \ {f \in fs : f >= LowCount},
                 low     |-> s.low \ {f \in fs : f < LowCount}]

-----------------------------------------------------------------------------
(* Size classes. *)

CLASS_SIZES == <<16, 32, 64, 128, 256, 512, 1024, 2048>>
Classes == DOMAIN CLASS_SIZES
MAX_SLAB_SIZE == 2048
HEADER_SIZE == 72
ObjectAreaOffset(c) == CeilDiv(HEADER_SIZE, CLASS_SIZES[c]) * CLASS_SIZES[c]
CapacityFor(c) == (FRAME_SIZE - ObjectAreaOffset(c)) \div CLASS_SIZES[c]
ClassIndexFor(required) == Min({c \in Classes : CLASS_SIZES[c] >= required})

\* classify: a class, a number of frames, or nothing at all.
Classify(layout) ==
    LET size == Max({layout.size, 1})
    IN  CASE layout.align > FRAME_SIZE -> [kind |-> "rejected", n |-> 0]
          [] layout.align <= FRAME_SIZE /\ Max({size, layout.align}) > MAX_SLAB_SIZE ->
               [kind |-> "large", n |-> CeilDiv(size, FRAME_SIZE)]
          [] OTHER -> [kind |-> "small", n |-> ClassIndexFor(Max({size, layout.align}))]

-----------------------------------------------------------------------------
(* The heap's state as one value, for the operations that are made of others. *)

Empty == [addr |-> Null, frames |-> 0]
Heap == [frames |-> frames, slabs |-> slabs, large |-> large, stats |-> stats]
HeapBecomes(h) == frames' = h.frames /\ slabs' = h.slabs /\ large' = h.large /\ stats' = h.stats

HeapInit ==
    /\ frames = PmmInit
    /\ slabs = [c \in Classes |-> <<>>]
    /\ large = [i \in 1 .. MAX_LARGE |-> Empty]
    /\ stats = [bytes |-> 0, small |-> 0, slabs |-> 0]
    /\ objects = {} /\ held = {}

SlotAddr(c, slab, slot) == slab.frame * FRAME_SIZE + ObjectAreaOffset(c) + slot * CLASS_SIZES[c]
SlotIndex(c, slab, addr) == (addr - slab.frame * FRAME_SIZE - ObjectAreaOffset(c)) \div CLASS_SIZES[c]

\* pop_free: the head of the free list is handed out.
PopFree(slab) == [slab EXCEPT !.free = Tail(@), !.allocated = @ \cup {Head(slab.free)}]

\* slab::alloc_object: the first slab with room, or a new one at the head of the list.
NewSlab(c, f) == [frame |-> f, free |-> [i \in 1 .. CapacityFor(c) |-> i - 1], allocated |-> {}]
AllocSmall(h, c) ==
    LET roomy == {i \in DOMAIN h.slabs[c] : h.slabs[c][i].free # <<>>}
        count(s, new) == [s EXCEPT !.bytes = @ + CLASS_SIZES[c], !.small = @ + 1, !.slabs = @ + new]
        fresh == RunOf(h.frames, 1, 1)
    IN  IF roomy # {} THEN
            LET slab == h.slabs[c][Min(roomy)]
            IN  [addr |-> SlotAddr(c, slab, Head(slab.free)),
                 heap |-> [h EXCEPT !.slabs[c][Min(roomy)] = PopFree(@), !.stats = count(@, 0)]]
        ELSE IF fresh = Null THEN [addr |-> Null, heap |-> h]
        ELSE LET slab == NewSlab(c, fresh)
             IN  [addr |-> SlotAddr(c, slab, Head(slab.free)),
                  heap |-> [h EXCEPT !.frames = Taken(@, fresh, 1), !.slabs[c] = <<PopFree(slab)>> \o @,
                                     !.stats = count(@, 1)]]

\* LargeTable::alloc: an entry first, then the frames.
AllocLarge(h, n) ==
    LET entries == {i \in DOMAIN h.large : h.large[i].addr = Null}
        start == RunOf(h.frames, n, 1)
    IN  IF entries = {} \/ start = Null THEN [addr |-> Null, heap |-> h]
        ELSE [addr |-> start * FRAME_SIZE,
              heap |-> [h EXCEPT !.frames = Taken(@, start, n),
                                 !.large[Min(entries)] = [addr |-> start * FRAME_SIZE, frames |-> n],
                                 !.stats.bytes = @ + n * FRAME_SIZE]]

\* HeapState::alloc: the address, or Null.
Alloc(h, layout) ==
    LET k == Classify(layout)
    IN  CASE k.kind = "small" -> AllocSmall(h, k.n)
          [] k.kind = "large" -> AllocLarge(h, k.n)
          [] k.kind = "rejected" -> [addr |-> Null, heap |-> h]

\* A plausible slip: a slab without objects keeps its place in the list.
FreeSmall_Linked(h, addr, c) ==
    LET i == CHOOSE j \in DOMAIN h.slabs[c] : h.slabs[c][j].frame = addr \div FRAME_SIZE
        slot == SlotIndex(c, h.slabs[c][i], addr)
        slab == [h.slabs[c][i] EXCEPT !.allocated = @ \ {slot}, !.free = <<slot>> \o @]
        gone == Len(slab.free) = CapacityFor(c)
    IN  [h EXCEPT !.slabs[c][i] = slab,
                  !.frames = IF gone THEN Freed(@, {slab.frame}) ELSE @,
                  !.stats = [bytes |-> @.bytes - CLASS_SIZES[c], small |-> @.small - 1,
                             slabs |-> IF gone THEN @.slabs - 1 ELSE @.slabs]]
\* slab::free_object: the frame at the address names the slab; a slab without objects
\* leaves the list and its frame goes back.
FreeSmall(h, addr, c) ==
    LET i == CHOOSE j \in DOMAIN h.slabs[c] : h.slabs[c][j].frame = addr \div FRAME_SIZE
        slot == SlotIndex(c, h.slabs[c][i], addr)
        slab == [h.slabs[c][i] EXCEPT !.allocated = @ \ {slot}, !.free = <<slot>> \o @]
        gone == Len(slab.free) = CapacityFor(c)
    IN  [h EXCEPT !.slabs[c] = IF gone THEN RemoveAt(@, i) ELSE [@ EXCEPT ![i] = slab],
                  !.frames = IF gone THEN Freed(@, {slab.frame}) ELSE @,
                  !.stats = [bytes |-> @.bytes - CLASS_SIZES[c], small |-> @.small - 1,
                             slabs |-> IF gone THEN @.slabs - 1 ELSE @.slabs]]

\* LargeTable::free: as many frames as the entry says.
FreeLarge(h, addr) ==
    LET i == CHOOSE j \in DOMAIN h.large : h.large[j].addr = addr
        start == addr \div FRAME_SIZE
        n == h.large[i].frames
    IN  [h EXCEPT !.large[i] = Empty, !.frames = Freed(@, start .. start + n - 1),
                  !.stats.bytes = @ - n * FRAME_SIZE]

\* HeapState::dealloc, by the layout the caller passes back.
Dealloc(h, addr, layout) ==
    LET k == Classify(layout)
    IN  IF k.kind = "small" THEN FreeSmall(h, addr, k.n) ELSE FreeLarge(h, addr)

-----------------------------------------------------------------------------
(* The callers. *)

Object(addr, layout) == [addr |-> addr, layout |-> layout]

Allocate(layout) ==
    /\ Cardinality(objects) < MaxObjects
    /\ LET got == Alloc(Heap, layout)
       IN  /\ HeapBecomes(got.heap)
           /\ objects' = IF got.addr = Null THEN objects ELSE objects \cup {Object(got.addr, layout)}
    /\ UNCHANGED held

Deallocate(o) ==
    /\ HeapBecomes(Dealloc(Heap, o.addr, o.layout))
    /\ objects' = objects \ {o}
    /\ UNCHANGED held

\* HeapState::realloc: in place if the block is the same, or a new block and then the
\* old one back; the old block stays if there is no new one.
Reallocate(o, size) ==
    LET wish == [size |-> size, align |-> o.layout.align]
        got  == Alloc(Heap, wish)
    IN  /\ IF Classify(wish) = Classify(o.layout) THEN
               /\ UNCHANGED <<frames, slabs, large, stats>>
               /\ objects' = (objects \ {o}) \cup {Object(o.addr, wish)}
           ELSE IF got.addr = Null THEN
               UNCHANGED <<frames, slabs, large, stats, objects>>
           ELSE /\ HeapBecomes(Dealloc(got.heap, o.addr, o.layout))
                /\ objects' = (objects \ {o}) \cup {Object(got.addr, wish)}
        /\ UNCHANGED held

\* alloc_frame and alloc_contiguous, for page tables and device rings.
TakeFrames(n, align) ==
    LET start == RunOf(frames, n, align)
    IN  /\ start # Null
        /\ frames' = Taken(frames, start, n)
        /\ held' = held \cup (start .. start + n - 1)
        /\ UNCHANGED <<slabs, large, stats, objects>>

\* alloc_frame_low.
TakeLowFrame ==
    LET f == FindFreeRun(frames.low, LowCount, 1, 1)
    IN  /\ f # Null
        /\ frames' = [frames EXCEPT !.low = @ \cup {f}]
        /\ held' = held \cup {f}
        /\ UNCHANGED <<slabs, large, stats, objects>>

GiveFrame(f) ==
    /\ frames' = Freed(frames, {f})
    /\ held' = held \ {f}
    /\ UNCHANGED <<slabs, large, stats, objects>>

HeapNext ==
    \/ \E layout \in Layouts : Allocate(layout)
    \/ \E o \in objects : Deallocate(o) \/ \E layout \in Layouts : Reallocate(o, layout.size)
    \/ \E n \in 1 .. 2 : TakeFrames(n, n)
    \/ TakeLowFrame
    \/ \E f \in held : GiveFrame(f)

-----------------------------------------------------------------------------
SizeOf(o) == LET k == Classify(o.layout)
             IN  IF k.kind = "small" THEN CLASS_SIZES[k.n] ELSE k.n * FRAME_SIZE
EntryFrames(e) == e.addr \div FRAME_SIZE .. e.addr \div FRAME_SIZE + e.frames - 1
\* Who has which frame.
Owned(who, c, i, f) == [who |-> who, class |-> c, index |-> i, frame |-> f]
Owners ==
    UNION {{Owned("slab", c, i, slabs[c][i].frame) : i \in DOMAIN slabs[c]} : c \in Classes}
      \cup UNION {{Owned("large", 0, i, f) : f \in EntryFrames(large[i])} : i \in {j \in 1 .. MAX_LARGE : large[j] # Empty}}
      \cup {Owned("caller", 0, 0, f) : f \in held}

\* Whatever is allocated, resized and freed, in whatever order: live objects have blocks
\* of their own, aligned as asked for and no smaller; a frame is marked used exactly if
\* one slab, one large object or one caller has it, and could be given back without an
\* assertion; a slab has an object (alloc_object, free_object, LargeTable, realloc), and
\* the counters tell what is there.
HeapSound ==
    /\ \A o \in objects :
         /\ o.addr % o.layout.align = 0 /\ SizeOf(o) >= o.layout.size
         /\ \A p \in objects \ {o} : o.addr + SizeOf(o) <= p.addr \/ p.addr + SizeOf(p) <= o.addr
    /\ LET owned == {o.frame : o \in Owners}
       IN  /\ Cardinality(owned) = Cardinality(Owners)
           /\ frames.general = PmmInit.general \cup {f \in owned : f >= LowCount}
           /\ frames.low = PmmInit.low \cup {f \in owned : f < LowCount}
           /\ owned \cap (PmmInit.general \ (0 .. LowCount - 1)) = {} /\ owned \cap PmmInit.low = {}
           /\ \A f \in owned : MayFree(frames, f)
    /\ \A c \in Classes : \A i \in DOMAIN slabs[c] :
         LET slab == slabs[c][i]
         IN  /\ slab.allocated # {} /\ Len(slab.free) + Cardinality(slab.allocated) = CapacityFor(c)
             /\ slab.allocated = (0 .. CapacityFor(c) - 1) \ Range(slab.free)
             /\ \A s \in slab.allocated : \E o \in objects : o.addr = SlotAddr(c, slab, s)
    /\ stats.bytes = MapThenSumSet(SizeOf, objects)
    /\ stats.small = Cardinality({o \in objects : Classify(o.layout).kind = "small"})
    /\ stats.slabs = Cardinality({o \in Owners : o.who = "slab"})
=============================================================================

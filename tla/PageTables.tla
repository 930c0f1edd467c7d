----------------------------- MODULE PageTables -----------------------------
(***************************************************************************)
(* Virtual memory: the four levels of page tables (mm/paging.rs), address  *)
(* spaces (mm/vmm/mod.rs, mm/vmm/teardown.rs), the kernel's half built at  *)
(* boot, device windows (mm/mmio.rs) and guarded kernel stacks             *)
(* (mm/kstack.rs), with the callers that map, unmap, switch and tear down. *)
(* Pages and frames are numbers; a table maps the indices present in it.   *)
(* A process's user half is changed by its own thread only, and creation   *)
(* and reaping run with interrupts off, so that an operation is one        *)
(* action; kills in the middle of one are the subject of Proc.             *)
(***************************************************************************)
EXTENDS Naturals, Sequences, SequencesExt, FiniteSets, FiniteSetsExt, Functions, TLC

CONSTANTS
    ENTRIES,       \* entries of a table: 512
    RamMap,        \* memory map: [base, length, kind] in frames
    ImageFrame,    \* first frame of the kernel image: text, rodata, data, a page each
    STACK_PAGES,   \* pages of a kernel stack: 16
    NUM_SLOTS,     \* kernel stacks live at a time: 4096
    MMIO_PAGES,    \* pages of the device window
    Procs,         \* process identities, used again once collected and reaped
    MaxAnon,       \* bound: anonymous pages a process maps
    Reserve,       \* bound: frames that must be free before an operation takes some
    MaxChanges     \* bound: operations that change a mapping

VARIABLES
    tables,   \* the entries present in every frame that is a page table
    free,     \* the frames the allocator has
    procs,    \* each process: state, PML4, stack slot, anonymous cursor
    slots,    \* kernel stack slots: the next never used, and the freed ones
    mmio,     \* the next page of the device window
    current,  \* the running thread: "main" or a process
    cr3,      \* the PML4 loaded
    cached,   \* one translation the processor may have cached, or None
    owed,     \* history: what every page was last mapped to
    changes   \* bounded: operations so far

pageVars == <<tables, free, procs, slots, mmio, current, cr3, cached, owed, changes>>

-----------------------------------------------------------------------------
(* Layout, as page numbers (DECISIONS.md D15). *)

HUGE_PAGES == ENTRIES
PML4_SPAN == ENTRIES^3
KERNEL_HALF == ENTRIES \div 2
HHDM_START == KERNEL_HALF * PML4_SPAN
DYNAMIC_REGION_START == (KERNEL_HALF + 1) * PML4_SPAN
MMIO_WINDOW_START == (KERNEL_HALF + 2) * PML4_SPAN
MMIO_WINDOW_END == MMIO_WINDOW_START + MMIO_PAGES
IMAGE_START == (ENTRIES - 1) * PML4_SPAN
ENTRY_RIP == 1
ANON_BASE == HUGE_PAGES - 1
USER_STACK_TOP == KERNEL_HALF * PML4_SPAN

Index(virt, level) == (virt \div ENTRIES^level) % ENTRIES
IsUserPage(virt) == Index(virt, 3) < KERNEL_HALF

-----------------------------------------------------------------------------
(* Tables.  m has the fields tables and free. *)

NoEntry == [addr |-> 0, flags |-> {}]
EntryAt(m, table, virt, level) ==
    IF table \in DOMAIN m.tables /\ Index(virt, level) \in DOMAIN m.tables[table]
    THEN m.tables[table][Index(virt, level)] ELSE NoEntry
SetEntry(m, table, index, addr, flags) ==
    [m EXCEPT !.tables[table] = (index :> [addr |-> addr, flags |-> flags \cup {"PRESENT"}]) @@ @]
NewTable(m, frame) == [tables |-> (frame :> <<>>) @@ m.tables, free |-> m.free \ {frame}]
AllocFrame(m) == Min(m.free)

IntermediateFlags(flags) == {"WRITABLE"} \cup (flags \cap {"USER"})

\* next_table_or_create, from a table to the one below it.
NextTableOrCreate(at, virt, level, flags) ==
    LET i == Index(virt, level)
        frame == AllocFrame(at.mem)
        m == IF i \in DOMAIN at.mem.tables[at.table] THEN at.mem
             ELSE SetEntry(NewTable(at.mem, frame), at.table, i, frame, IntermediateFlags(flags))
    IN  [mem |-> m, table |-> m.tables[at.table][i].addr]
PdFor(m, root, virt, flags) ==
    NextTableOrCreate(NextTableOrCreate([mem |-> m, table |-> root], virt, 3, flags), virt, 2, flags)

\* map_4k and map_2m; that the page is free is the caller's duty (PagesSound).
Map4k(m, root, virt, phys, flags) ==
    LET pt == NextTableOrCreate(PdFor(m, root, virt, flags), virt, 1, flags)
    IN  SetEntry(pt.mem, pt.table, Index(virt, 0), phys, flags)
Map2m(m, root, virt, phys, flags) ==
    LET pd == PdFor(m, root, virt, flags)
    IN  SetEntry(pd.mem, pd.table, Index(virt, 1), phys, flags \cup {"HUGE"})

\* map_range: a huge page wherever both sides are aligned and enough is left. (The root is
\* always a table; asking first makes TLC build the tables one page after the other.)
HugeAt(virt, phys, len, done) ==
    (virt + done) % HUGE_PAGES = 0 /\ (phys + done) % HUGE_PAGES = 0 /\ len - done >= HUGE_PAGES
MapRange(m, root, virt, phys, len, flags) ==
    LET inside(d) == \E back \in 1 .. Min({d, HUGE_PAGES - 1}) : HugeAt(virt, phys, len, d - back)
        starts == SelectSeq([i \in 1 .. len |-> i - 1], LAMBDA d : ~inside(d))
        step(mm, d) == CASE root \notin DOMAIN mm.tables -> mm
                         [] HugeAt(virt, phys, len, d) -> Map2m(mm, root, virt + d, phys + d, flags)
                         [] OTHER -> Map4k(mm, root, virt + d, phys + d, flags)
    IN  FoldLeft(step, m, starts)

\* The entries a translation goes through, down to the leaf or to the first absent one.
Walk(m, root, virt) ==
    LET a == EntryAt(m, root, virt, 3)
        b == EntryAt(m, a.addr, virt, 2)
        c == EntryAt(m, b.addr, virt, 1)
        d == EntryAt(m, c.addr, virt, 0)
    IN  IF "HUGE" \in c.flags THEN <<a, b, c>> ELSE <<a, b, c, d>>
Translate(m, root, virt) ==
    LET w == Walk(m, root, virt)
        leaf == Last(w)
    IN  IF Len(w) = 3 THEN [leaf EXCEPT !.addr = @ + (virt % HUGE_PAGES)] ELSE leaf

\* AddressSpace::unmap: the leaf is cleared, whatever tables led to it stay.
ClearLeaf(m, root, virt) ==
    LET w == Walk(m, root, virt)
        gone == Index(virt, 4 - Len(w))
    IN  IF Last(w) = NoEntry THEN m
        ELSE [m EXCEPT !.tables[w[Len(w) - 1].addr] = Restrict(@, DOMAIN @ \ {gone})]

\* invlpg of some pages.
Invlpg(pages) == cached' = IF cached # NoEntry /\ cached.page \in pages THEN NoEntry ELSE cached

-----------------------------------------------------------------------------
(* map_hhdm: the memory map in units of which `page` make a page. *)

\* merge_ranges: rounded outward, in order, touching ones joined.
RoundedTo(e, ceiling, page) ==
    [from |-> (Min({e.base, ceiling}) \div page) * page,
     to   |-> ((Min({e.base + e.length, ceiling}) + page - 1) \div page) * page]
MergeRanges(entries, kinds, ceiling, page) ==
    LET kept == SelectSeq(entries, LAMBDA e : e.kind \in kinds /\ Min({e.base + e.length, ceiling}) > Min({e.base, ceiling}))
        sorted == SortSeq([i \in DOMAIN kept |-> RoundedTo(kept[i], ceiling, page)], LAMBDA a, b : a.from < b.from)
        join(acc, r) == IF acc # <<>> /\ r.from <= Last(acc).to
                        THEN [acc EXCEPT ![Len(acc)].to = Max({@, r.to})] ELSE Append(acc, r)
    IN  FoldLeft(join, <<>>, sorted)

\* subtract_ranges: what is left of each range, the cursor moving past every bad one.
SubtractRanges(from, bad) ==
    LET cut(acc, b) ==
            IF b.to <= acc.cursor \/ b.from >= acc.end THEN acc
            ELSE [acc EXCEPT !.out = IF b.from > acc.cursor THEN Append(@, [from |-> acc.cursor, to |-> b.from]) ELSE @,
                             !.cursor = Max({@, b.to})]
        rest(acc) == IF acc.cursor < acc.end THEN Append(acc.out, [from |-> acc.cursor, to |-> acc.end]) ELSE acc.out
        one(out, r) == rest(FoldLeft(cut, [out |-> out, cursor |-> r.from, end |-> r.to], bad))
    IN  FoldLeft(one, <<>>, from)

\* The stretches below the ceiling that no entry mentions.
GapsIn(known, ceiling) ==
    LET step(acc, r) == [out |-> IF r.from > acc.next THEN Append(acc.out, [from |-> acc.next, to |-> r.from]) ELSE acc.out,
                         next |-> Max({acc.next, r.to})]
        end == FoldLeft(step, [out |-> <<>>, next |-> 0], known)
    IN  IF end.next < ceiling THEN Append(end.out, [from |-> end.next, to |-> ceiling]) ELSE end.out

\* The ranges map_hhdm maps; no entry reaches past `top` (the code says u64::MAX).
HhdmRanges(entries, ceiling, top, page) ==
    SubtractRanges(MergeRanges(entries, {"usable", "reserved"}, top, page),
                   MergeRanges(entries, {"bad"}, top, page))
      \o GapsIn(MergeRanges(entries, {"usable", "reserved", "bad"}, ceiling, page), ceiling)

-----------------------------------------------------------------------------
(* Boot: init_kernel_space, then the boot stack. *)

RamEnd == Max({e.base + e.length : e \in Range(RamMap)})
Ram == UNION {e.base .. e.base + e.length - 1 : e \in {r \in Range(RamMap) : r.kind = "usable"}}

\* map_kernel_image: text, rodata and data.
MapKernelImage(m, root) ==
    LET section(mm, i, flags) == MapRange(mm, root, IMAGE_START + i, ImageFrame + i, 1, flags)
    IN  section(section(section(m, 0, {"GLOBAL"}), 1, {"GLOBAL", "NO_EXECUTE"}),
                2, {"WRITABLE", "GLOBAL", "NO_EXECUTE"})
MapHhdm(m, root) ==
    FoldLeft(LAMBDA mm, r : MapRange(mm, root, HHDM_START + r.from, r.from, r.to - r.from,
                                     {"WRITABLE", "NO_EXECUTE", "GLOBAL"}),
             m, HhdmRanges(RamMap, RamEnd, RamEnd, 1))
KernelRoot == Min(Ram)
KernelImageSpace == MapKernelImage(NewTable([tables |-> <<>>, free |-> Ram], KernelRoot), KernelRoot)
InitKernelSpace == MapHhdm(KernelImageSpace, KernelRoot)

\* kstack: a slot is a guard page and the pages of the stack above it.
SLOT_SIZE == 1 + STACK_PAGES
GuardOf(slot) == DYNAMIC_REGION_START + slot * SLOT_SIZE
StackPages(slot) == GuardOf(slot) + 1 .. GuardOf(slot) + STACK_PAGES
FindGuard(virt) ==
    LET rel == virt - DYNAMIC_REGION_START
    IN  virt >= DYNAMIC_REGION_START /\ rel < NUM_SLOTS * SLOT_SIZE /\ rel % SLOT_SIZE < 1
StackFlags == {"WRITABLE", "NO_EXECUTE", "GLOBAL"}
\* A fresh frame for the page; alloc_frame_zeroed comes before map_4k.
MapFresh(m, root, virt, flags) ==
    LET frame == AllocFrame(m) IN Map4k([m EXCEPT !.free = @ \ {frame}], root, virt, frame, flags)
MapStack(m, slot) == FoldLeft(LAMBDA mm, i : MapFresh(mm, KernelRoot, GuardOf(slot) + i, StackFlags),
                              m, [i \in 1 .. STACK_PAGES |-> i])
\* SlotAllocator::claim: the last one freed, or one never used.
Claimed == IF slots.freed # <<>> THEN Last(slots.freed) ELSE slots.fresh
AfterClaim == IF slots.freed # <<>> THEN [slots EXCEPT !.freed = Front(@)] ELSE [slots EXCEPT !.fresh = @ + 1]

Booted == MapStack(InitKernelSpace, 0)

-----------------------------------------------------------------------------
Mem == [tables |-> tables, free |-> free]
MemBecomes(m) == tables' = m.tables /\ free' = m.free /\ changes < MaxChanges /\ changes' = changes + 1
Unborn == [state |-> "unborn", root |-> 0, slot |-> 0, cursor |-> ANON_BASE]
SpaceOf(t) == IF t = "main" THEN KernelRoot ELSE procs[t].root
\* Keep what every page of `pages` is now mapped to, in the space they belong to.
Record(m, root, pages) ==
    owed' = [k \in {<<root, v>> : v \in pages} |-> Translate(m, root, k[2])] @@ owed
Forget(keys) == owed' = Restrict(owed, DOMAIN owed \ keys)

PageInit ==
    /\ tables = Booted.tables /\ free = Booted.free
    /\ procs = [p \in Procs |-> Unborn]
    /\ slots = [fresh |-> 1, freed |-> <<>>]
    /\ mmio = MMIO_WINDOW_START
    /\ current = "main" /\ cr3 = KernelRoot /\ cached = NoEntry /\ changes = 0
    /\ owed = [k \in {<<KernelRoot, v>> : v \in StackPages(0)} |-> Translate(Booted, KernelRoot, k[2])]

\* mmio::map, which drivers call at boot: a stretch of the window for each device.
MmioFlags == {"WRITABLE", "NO_CACHE", "WRITE_THROUGH", "NO_EXECUTE", "GLOBAL"}
MmioMap(phys, n) ==
    /\ \A p \in Procs : procs[p].state = "unborn"
    /\ mmio + n <= MMIO_WINDOW_END
    /\ LET m == FoldLeft(LAMBDA mm, i : Map4k(mm, KernelRoot, mmio + i, phys + i, MmioFlags),
                         Mem, [i \in 1 .. n |-> i - 1])
       IN  MemBecomes(m) /\ Record(m, KernelRoot, mmio .. mmio + n - 1)
    /\ mmio' = mmio + n
    /\ Invlpg(mmio .. mmio + n - 1)
    /\ UNCHANGED <<procs, slots, current, cr3>>

\* new_user: the kernel's half is copied.
NewUser(m) ==
    LET root == AllocFrame(m)
        half == Restrict(m.tables[KernelRoot], {i \in DOMAIN m.tables[KernelRoot] : i >= KERNEL_HALF})
    IN  [NewTable(m, root) EXCEPT !.tables[root] = half]

\* Process::create: a space with a page of code and one of stack, and the thread's
\* kernel stack (spawn_user).
Create(p) ==
    LET root == AllocFrame(Mem)
        user == MapFresh(MapFresh(NewUser(Mem), root, ENTRY_RIP, {"USER"}),
                         root, USER_STACK_TOP - 1, {"USER", "WRITABLE", "NO_EXECUTE"})
        m == MapStack(user, Claimed)
    IN  /\ procs[p].state = "unborn" /\ Cardinality(free) >= Reserve
        /\ Claimed < NUM_SLOTS
        /\ MemBecomes(m)
        /\ owed' = [k \in {<<root, ENTRY_RIP>>, <<root, USER_STACK_TOP - 1>>} \cup ({KernelRoot} \X StackPages(Claimed)) |->
                      Translate(m, k[1], k[2])] @@ owed
        /\ procs' = [procs EXCEPT ![p] = [@ EXCEPT !.state = "live", !.root = root, !.slot = Claimed]]
        /\ slots' = AfterClaim
        /\ Invlpg({ENTRY_RIP, USER_STACK_TOP - 1} \cup StackPages(Claimed))
        /\ UNCHANGED <<mmio, current, cr3>>

\* map_anon, a page at the cursor of the running process.
MapAnon ==
    LET p == current
        m == MapFresh(Mem, procs[p].root, procs[p].cursor, {"USER", "WRITABLE", "NO_EXECUTE"})
    IN  /\ current # "main" /\ procs[p].state = "live"
        /\ Cardinality(free) >= Reserve /\ procs[p].cursor < ANON_BASE + MaxAnon
        /\ MemBecomes(m) /\ Record(m, procs[p].root, {procs[p].cursor})
        /\ procs' = [procs EXCEPT ![p].cursor = @ + 1]
        /\ Invlpg({procs[p].cursor})
        /\ UNCHANGED <<slots, mmio, current, cr3>>

\* A plausible slip: the cached translation survives.
UnmapPages_Stale(pages) == cached' = cached
UnmapPages(pages) == Invlpg(pages)
\* Process::unmap of a page that translates.
Unmap(virt) ==
    LET root == procs[current].root
        m == ClearLeaf(Mem, root, virt)
    IN  /\ current # "main" /\ procs[current].state = "live"
        /\ Translate(Mem, root, virt) # NoEntry
        /\ MemBecomes([m EXCEPT !.free = @ \cup {Translate(Mem, root, virt).addr}])
        /\ Forget({<<root, virt>>})
        /\ UnmapPages({virt})
        /\ UNCHANGED <<procs, slots, mmio, current, cr3>>

-----------------------------------------------------------------------------
(* The end of a process. *)

Below(m, ts) == {e.addr : e \in UNION {Range(m.tables[t]) : t \in ts}}
\* free_user_space: pages, then tables, entry by entry of the lower half; the PML4 stays
\* and nothing is flushed.
FreeUserSpace(m, root) ==
    LET lower == {i \in DOMAIN m.tables[root] : i < KERNEL_HALF}
        pdpts == {m.tables[root][i].addr : i \in lower}
        pds   == Below(m, pdpts)
        pts   == Below(m, pds)
        below == pdpts \cup pds \cup pts
    IN  [tables |-> [Restrict(m.tables, DOMAIN m.tables \ below) EXCEPT ![root] = Restrict(@, DOMAIN @ \ lower)],
         free   |-> m.free \cup below \cup Below(m, pts)]
UserKeys(root) == {k \in DOMAIN owed : k[1] = root /\ IsUserPage(k[2])}

\* exit_current_process up to exit_current: the process still runs in its space.
ExitProcess ==
    /\ current # "main" /\ procs[current].state = "live"
    /\ MemBecomes(FreeUserSpace(Mem, procs[current].root))
    /\ Forget(UserKeys(procs[current].root))
    /\ procs' = [procs EXCEPT ![current].state = "dying"]
    /\ UNCHANGED <<slots, mmio, current, cr3, cached>>

\* kill: the thread never runs again; the space goes unless its owner has begun to.
Kill(p) ==
    /\ p # current /\ procs[p].state \in {"live", "dying"}
    /\ procs' = [procs EXCEPT ![p].state = "exited"]
    /\ IF procs[p].state = "live"
       THEN MemBecomes(FreeUserSpace(Mem, procs[p].root)) /\ Forget(UserKeys(procs[p].root))
       ELSE UNCHANGED <<tables, free, owed, changes>>
    /\ UNCHANGED <<slots, mmio, current, cr3, cached>>

\* activate: a new CR3 drops what is not global.
SwitchTo(t) ==
    /\ current' = t
    /\ cr3' = SpaceOf(t)
    /\ cached' = IF SpaceOf(t) # SpaceOf(current) /\ cached # NoEntry /\ "GLOBAL" \notin cached.flags
                 THEN NoEntry ELSE cached
\* schedule, of a thread that stays ready or of one that has exited.
Schedule(t) ==
    /\ t # current
    /\ t \in {"main"} \cup {p \in Procs : procs[p].state \in {"live", "dying"}}
    /\ SwitchTo(t)
    /\ \/ UNCHANGED procs
       \/ /\ current # "main" /\ procs[current].state = "dying"
          /\ procs' = [procs EXCEPT ![current].state = "exited"]
    /\ UNCHANGED <<tables, free, slots, mmio, owed, changes>>

\* kstack::free, when schedule reaps a thread that has exited.
Gone(r) == IF r.root = 0 /\ r.slot = 0 THEN Unborn ELSE r
Reap(p) ==
    LET pages == StackPages(procs[p].slot)
        cleared == FoldLeft(LAMBDA mm, i : ClearLeaf(mm, KernelRoot, GuardOf(procs[p].slot) + i),
                            Mem, [i \in 1 .. STACK_PAGES |-> i])
    IN  /\ procs[p].state = "exited" /\ procs[p].slot # 0 /\ p # current
        /\ MemBecomes([cleared EXCEPT !.free = @ \cup {Translate(Mem, KernelRoot, v).addr : v \in pages}])
        /\ Forget({KernelRoot} \X pages)
        /\ slots' = [slots EXCEPT !.freed = Append(@, procs[p].slot)]
        /\ procs' = [procs EXCEPT ![p] = Gone([@ EXCEPT !.slot = 0])]
        /\ UnmapPages(pages)
        /\ UNCHANGED <<mmio, current, cr3>>

\* wait: the PML4 goes (AddressSpace::destroy).
Collect(p) ==
    /\ procs[p].state = "exited" /\ procs[p].root # 0 /\ p # current
    /\ MemBecomes([tables |-> Restrict(tables, DOMAIN tables \ {procs[p].root}), free |-> free \cup {procs[p].root}])
    /\ procs' = [procs EXCEPT ![p] = Gone([@ EXCEPT !.root = 0])]
    /\ UNCHANGED <<slots, mmio, current, cr3, cached, owed>>

\* The processor translates a page of the space that is loaded, and caches it: entries
\* are independent of each other, so one is enough.  The permissions of all levels count.
Mmu(root, virt) ==
    LET w == Walk(Mem, root, virt)
        t == Translate(Mem, root, virt)
    IN  IF t = NoEntry THEN NoEntry
        ELSE [page |-> virt, addr |-> t.addr, flags |-> t.flags,
              user |-> \A i \in DOMAIN w : "USER" \in w[i].flags]
Touch(virt) ==
    /\ Mmu(cr3, virt) # NoEntry
    /\ cached' = Mmu(cr3, virt)
    /\ UNCHANGED <<tables, free, procs, slots, mmio, current, cr3, owed, changes>>

UserRange == {ENTRY_RIP, USER_STACK_TOP - 1} \cup (ANON_BASE .. ANON_BASE + MaxAnon - 1)
Watched == UserRange \cup (GuardOf(0) .. GuardOf(NUM_SLOTS) - 1) \cup (MMIO_WINDOW_START .. MMIO_WINDOW_END - 1)

PageNext ==
    \/ MmioMap(RamEnd, MMIO_PAGES)
    \/ \E p \in Procs : Create(p) \/ Kill(p) \/ Reap(p) \/ Collect(p)
    \/ MapAnon \/ ExitProcess
    \/ \E v \in UserRange : Unmap(v)
    \/ \E t \in Procs \cup {"main"} : Schedule(t)
    \/ \E v \in UserRange \cup StackPages(1) \cup StackPages(NUM_SLOTS - 1) : Touch(v)

-----------------------------------------------------------------------------
Spaces == {procs[p].root : p \in Procs} \ {0}
Links(ts) == UNION {{<<t, i>> : i \in DOMAIN tables[t]} : t \in ts}
Ends(links) == {tables[l[1]][l[2]].addr : l \in links}
\* The links of the tables and stacks below some entries of a PML4; huge pages, devices
\* and the kernel's image are nobody's frames.
Tree(root, indices) ==
    LET l3 == {<<root, i>> : i \in indices \cap DOMAIN tables[root]}
        l2 == Links(Ends(l3))
        l1 == {l \in Links(Ends(l2)) : "HUGE" \notin tables[l[1]][l[2]].flags}
        owned == {l \in l3 : l[2] < KERNEL_HALF \/ l[2] = KERNEL_HALF + 1}
        l0 == Links(Ends(Links(Ends(Links(Ends(owned))))))
    IN  l3 \cup l2 \cup l1 \cup l0

\* Page tables are trees of their own.  A frame in use is in exactly one place, a free one
\* in none; a page is mapped to what it was last mapped to, with the user's right exactly
\* in the lower half, and guard pages to nothing; all spaces have the kernel's half, at
\* boot or after; the loaded space exists; what the processor has cached is what it would
\* find, but for user pages of a process that runs no user code any more (map_4k, unmap,
\* free_user_space, destroy, activate, kstack::allocate and free, mmio::map).
PagesSound ==
    /\ LET links == Tree(KernelRoot, KERNEL_HALF .. ENTRIES - 1) \cup UNION {Tree(s, 0 .. KERNEL_HALF - 1) : s \in Spaces}
       IN  /\ Cardinality(Ends(links)) = Cardinality(links)
           /\ Ram \ free = Ends(links) \cup Spaces \cup {KernelRoot}
           /\ Ends(links) \cap (Spaces \cup {KernelRoot}) = {}
    /\ \A s \in Spaces \cup {KernelRoot}, v \in Watched :
         LET key == <<IF IsUserPage(v) THEN s ELSE KernelRoot, v>>
             seen == Mmu(s, v)
         IN  /\ seen # NoEntry <=> key \in DOMAIN owed
             /\ seen # NoEntry => /\ [addr |-> seen.addr, flags |-> seen.flags] = owed[key]
                                  /\ seen.user <=> IsUserPage(v)
                                  /\ ~FindGuard(v)
    /\ \A s \in Spaces : \A i \in KERNEL_HALF .. ENTRIES - 1 :
         EntryAt(Mem, s, i * PML4_SPAN, 3) = EntryAt(Mem, KernelRoot, i * PML4_SPAN, 3)
    /\ cr3 = SpaceOf(current) /\ cr3 \in Spaces \cup {KernelRoot}
    /\ \/ cached = NoEntry
       \/ cached = Mmu(cr3, cached.page)
       \/ IsUserPage(cached.page) /\ current # "main" /\ procs[current].state # "live"
=============================================================================

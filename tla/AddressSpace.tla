---------------------------- MODULE AddressSpace -----------------------------
(***************************************************************************)
(* Memory as processes and the kernel see it: the kernel's address space,  *)
(* built at boot, user spaces, the loader, fork, exec, sbrk and exit as    *)
(* far as they build, replace and tear down spaces, and the satp register  *)
(* and TLB of the hart.  Tables lie in memory (module PageTable), and the  *)
(* hart walks whatever the frame in satp holds.                            *)
(*                                                                         *)
(* Physical pages are 0 .. HALF - 1: devices, firmware, the kernel's       *)
(* sections, and from KERNEL_END to DRAM_END the frames of the pool.  The  *)
(* kernel maps page f at HALF + f.                                         *)
(***************************************************************************)
EXTENDS PageTable, Sequences, SequencesExt

CONSTANTS
  Procs,
  Sections,         \* pages and flags of .text, .rodata, .data and .bss
  KERNEL_END, DRAM_END,
  MMIO_REGIONS,     \* pages of the devices
  PAGE_SIZE,        \* units in which the program break is counted, per page
  USER_HEAP_BASE, USER_STACK_TOP,
  Image,            \* the PT_LOAD segments of the program: pages, flags, contents
  Deltas,           \* arguments of sbrk
  Values,
  Stored,           \* the values programs store
  MAX_CALLS,        \* bound: how many times fork and exec are called
  TLB_SIZE          \* translations the hart can cache

HALF == (PTE_PER_TABLE ^ SV39_LEVELS) \div 2
Pages == 0 .. 2 * HALF - 1
Frames == KERNEL_END .. DRAM_END - 1
USER_MAX_ADDR == HALF * PAGE_SIZE

\* A region: its pages, what backs them, their flags, what is written to them when
\* they are mapped (None: nothing is), and the frames it owns.
Region(first, last, backing, flags, data) ==
  [first |-> first, last |-> last, backing |-> backing, flags |-> flags, data |-> data, frames |-> <<>>]

\* the stack, with the arguments of the program
StackRegion ==
  LET page == (USER_STACK_TOP \div PAGE_SIZE) - 1 IN Region(page, page, "Framed", {"R", "W", "U"}, Junk)

Program == Append([i \in 1 .. Len(Image) |-> Region(Image[i].first, Image[i].last, "Framed",
                                                    Image[i].flags \cup {"U"}, Image[i].data)], StackRegion)

\* the pages of a program; below are the guard pages, and above the stack nothing
\* is mapped up to the kernel
UserPages == Lowest({Program[i].first : i \in 1 .. Len(Program)}) .. StackRegion.last

\* what init_kernel_space maps, in its order; an empty section is skipped
KernelRegions ==
  LET Linear(r, flags) == Region(HALF + r.first, HALF + r.last, "Linear", flags \cup {"G"}, None)
      sections == SelectSeq(Sections, LAMBDA r : r.first <= r.last)
  IN  [i \in 1 .. Len(sections) |-> Linear(sections[i], sections[i].flags)]
      \o <<Linear([first |-> KERNEL_END, last |-> DRAM_END - 1], {"R", "W"})>>
      \o [i \in 1 .. Len(MMIO_REGIONS) |-> Linear(MMIO_REGIONS[i], {"R", "W"})]

VARIABLES
  free,        \* the pool
  mem,         \* contents of every frame of the pool
  space,       \* TaskInner::space
  brk, heap_top,
  pc,          \* where a process is in exec or exit; "none": there is no such process
  build,       \* exec: the space under construction
  todo,        \* exec: the regions still to be mapped into it
  old,         \* exec: `old`; exit_current: `space`
  calls,       \* fork and exec calls so far
  current,     \* the running process, None while a kernel task runs
  satp, tlb

pool      == <<free, mem>>
taskVars  == <<space, brk, heap_top>>
localVars == <<pc, build, todo, old, calls>>
hartVars  == <<current, satp, tlb>>
vars      == <<pool, taskVars, localVars, hartVars>>

Put(f, x, v) == [y \in DOMAIN f \cup {x} |-> IF y = x THEN v ELSE f[y]]

------------------------------------------------------------------------------
(* Building a space.  The record of module PageTable gets the regions of the  *)
(* space, and the page and the frames that map_into has come to.              *)

On(m, unused, s) ==
  [free |-> unused, mem |-> m, root |-> s.root, tables |-> s.tables, regions |-> s.regions,
   at |-> None, vpn |-> None, frames |-> <<>>, ok |-> TRUE]

NoSpace == [root |-> None, tables |-> {}, regions |-> <<>>]

Start(s) == On(mem, free, s)

SpaceOf(w) == [root |-> w.root, tables |-> w.tables, regions |-> w.regions]

\* the pool after such an operation
Pooled(w) == free' = w.free /\ mem' = w.mem

\* a superpage where one fits
leaf_level(w, r) ==
  IF /\ w.vpn % level_pages(1) = 0
     /\ (w.vpn - HALF) % level_pages(1) = 0
     /\ w.vpn + level_pages(1) <= r.last + 1
  THEN 1 ELSE LEAF_LEVEL

\* one turn of Region::map_into, Linear
map_linear(w, r, level) ==
  [map_at_level(w, w.vpn, w.vpn - HALF, r.flags, level) EXCEPT !.vpn = @ + level_pages(level)]

\* the frame of a page is the region's, or is dropped if the page was not mapped
keep_frame(w, frame) ==
  IF w.ok THEN [w EXCEPT !.frames = Put(@, w.vpn, frame), !.vpn = @ + 1] ELSE Give(w, {frame})

\* one turn, Framed
map_framed(w, r) ==
  IF w.free = {} THEN Failed(w)
  ELSE keep_frame(map_at_level(Take(w), w.vpn, Lowest(w.free), r.flags, LEAF_LEVEL), Lowest(w.free))

\* the loop of map_into, from the page w.vpn on
RECURSIVE map_into(_, _)
map_into(w, r) ==
  IF ~w.ok \/ w.vpn > r.last THEN w
  ELSE map_into(IF r.backing = "Linear" THEN map_linear(w, r, leaf_level(w, r)) ELSE map_framed(w, r), r)

\* the region is kept, and filled if there is something to write to it; if mapping
\* it failed it is dropped with its frames
keep_region(w, r) ==
  IF ~w.ok THEN Give(w, Range(w.frames))
  ELSE [w EXCEPT !.regions = Append(@, [r EXCEPT !.frames = w.frames, !.data = None]),
                 !.mem = [f \in DOMAIN @ |-> IF r.data # None /\ f \in Range(w.frames) THEN Page(r.data) ELSE @[f]]]

\* push and push_with_offset
push(w, r) ==
  IF ~w.ok THEN w
  ELSE [keep_region(map_into([w EXCEPT !.vpn = r.first, !.frames = <<>>], r), r)
        EXCEPT !.at = None, !.vpn = None, !.frames = <<>>]

\* what the regions of a space own
RegionFrames(s) == UNION {Range(s.regions[i].frames) : i \in 1 .. Len(s.regions)}

unmap_from(w, r) == FoldLeft(unmap, w, [n \in 1 .. r.last + 1 - r.first |-> r.first + n - 1])

\* mutant of drop: the interior tables are forgotten
drop_regions(w) == Give(FoldLeft(unmap_from, w, w.regions), RegionFrames(w))

\* AddressSpace::drop unmaps the regions and drops their frames, and then the
\* table drops its own
drop(w) == Give(Give(FoldLeft(unmap_from, w, w.regions), RegionFrames(w)), w.tables)

\* init_kernel_space, on the pool as frame::init leaves it
Boot == FoldLeft(push, new(On([f \in Frames |-> Page(Junk)], Frames, NoSpace)), KernelRegions)

KERNEL_SPACE == SpaceOf(Boot)

kernel_token == KERNEL_SPACE.root

map_kernel_half(w) == IF w.ok THEN share_upper_half(w, kernel_token) ELSE w

new_user_space(w) == map_kernel_half(new(w))

\* mutant of copy_frames: the child's table maps the parent's frames
share_frames(w, r) ==
  IF ~w.ok THEN w
  ELSE map_at_level(unmap(w, r.first), r.first, r.frames[r.first], r.flags, LEAF_LEVEL)

\* the contents of the region r are copied to the frames of the one pushed last
copy_frames(w, r) ==
  LET copy == Last(w.regions).frames
      from(f) == CHOOSE vpn \in DOMAIN copy : copy[vpn] = f
  IN  IF ~w.ok THEN w
      ELSE [w EXCEPT !.mem = [f \in DOMAIN @ |-> IF f \in Range(copy) THEN @[r.frames[from(f)]] ELSE @[f]]]

\* one turn of duplicate: the same pages, mapped to fresh frames with the same contents
copy_region(w, r) == IF w.ok THEN copy_frames(push(w, [r EXCEPT !.frames = <<>>]), r) ELSE w

duplicate(s) == FoldLeft(copy_region, new_user_space(Start(NoSpace)), s.regions)

ASSUME AddressSpaceAssumption ==
  /\ None \notin Procs
  /\ {Zero, Junk} \subseteq Values /\ Zero # Junk /\ Stored \subseteq Values
  /\ DRAM_END <= HALF
  /\ \A i \in 1 .. Len(Image) : 0 < Image[i].first /\ Image[i].last < HALF
  /\ Boot.ok

------------------------------------------------------------------------------
(* The hart                                                                   *)

\* activate: satp and the fence
Activate(token) == satp' = token /\ tlb' = <<>>

\* mutant of ActivateToken: no fence
ActivateTokenUnfenced(token) == satp' = token /\ UNCHANGED tlb

ActivateToken(token) ==
  \/ satp = token /\ UNCHANGED <<satp, tlb>>
  \/ satp # token /\ Activate(token)

\* space_token
Token(p) == IF p = None \/ space[p] = None THEN kernel_token ELSE space[p].root

\* The idle loop picks a process or a kernel task (None), at any point where the
\* previous one can be interrupted or gives way.
Dispatch(p) ==
  /\ p # current
  /\ p # None => pc[p] # "none"
  /\ current' = p
  /\ ActivateToken(Token(p))
  /\ UNCHANGED <<pool, taskVars, localVars>>

Runs(p, label) == current = p /\ pc[p] = label

\* The hart may translate any address, for an access or ahead of one, in any mode,
\* and cache what it finds.
Translate(vpn) ==
  /\ vpn \notin DOMAIN tlb /\ Cardinality(DOMAIN tlb) < TLB_SIZE
  /\ hart_walk(mem, satp, vpn) # None
  /\ tlb' = Put(tlb, vpn, hart_walk(mem, satp, vpn))
  /\ UNCHANGED <<pool, taskVars, localVars, current, satp>>

\* a store of the program
Store(p, vpn, v) ==
  LET pte == IF vpn \in DOMAIN tlb THEN tlb[vpn] ELSE hart_walk(mem, satp, vpn)
  IN  /\ Runs(p, "user")
      /\ pte # None /\ {"W", "U"} \subseteq pte.flags
      /\ mem' = [mem EXCEPT ![pte.ppn] = Page(v)]
      /\ UNCHANGED <<free, taskVars, localVars, hartVars>>

------------------------------------------------------------------------------
(* System calls                                                               *)

\* copy_to_user of a system call's result: page by page, up to the first page
\* the user could not write
CopyToUser(p, first, last, v) ==
  LET pte(vpn) == translate(mem, space[p].root, vpn)
      ok(vpn) == vpn < HALF /\ pte(vpn) # None /\ {"W", "U"} \subseteq pte(vpn).flags
      reached == {vpn \in first .. last : \A k \in first .. vpn : ok(k)}
  IN  /\ Runs(p, "user")
      /\ mem' = [f \in Frames |-> IF \E vpn \in reached : pte(vpn).ppn = f THEN Page(v) ELSE mem[f]]
      /\ UNCHANGED <<free, taskVars, localVars, hartVars>>

RoundUp(n) == ((n + PAGE_SIZE - 1) \div PAGE_SIZE) * PAGE_SIZE

\* adjust_brk, all of it under the task's lock
Sbrk(p, delta) ==
  LET to == brk[p] + delta
      heap == Region(heap_top[p] \div PAGE_SIZE, (RoundUp(to) \div PAGE_SIZE) - 1, "Framed", {"R", "W", "U"}, None)
  IN  /\ Runs(p, "user")
      /\ to \in USER_HEAP_BASE .. USER_MAX_ADDR - 1
      /\ \/ /\ to <= heap_top[p]
            /\ brk' = [brk EXCEPT ![p] = to]
            /\ UNCHANGED <<pool, space, heap_top>>
         \/ /\ to > heap_top[p]
            /\ \E w \in {push(Start(space[p]), heap)} :
                 /\ Pooled(w)
                 /\ space' = [space EXCEPT ![p] = SpaceOf(w)]
                 /\ brk' = [brk EXCEPT ![p] = IF w.ok THEN to ELSE @]
                 /\ heap_top' = [heap_top EXCEPT ![p] = IF w.ok THEN RoundUp(to) ELSE @]
      /\ UNCHANGED <<localVars, hartVars>>

\* fork_from, with the parent locked; when frames run out the half-built child is
\* dropped
Fork(p, c) ==
  /\ Runs(p, "user")
  /\ pc[c] = "none"
  /\ \E w \in {duplicate(space[p])} :
       \/ /\ w.ok
          /\ calls < MAX_CALLS /\ calls' = calls + 1
          /\ Pooled(w)
          /\ space' = [space EXCEPT ![c] = SpaceOf(w)]
          /\ brk' = [brk EXCEPT ![c] = brk[p]]
          /\ heap_top' = [heap_top EXCEPT ![c] = heap_top[p]]
          /\ pc' = [pc EXCEPT ![c] = "user"]
       \/ /\ ~w.ok
          /\ Pooled(drop(w))
          /\ UNCHANGED <<taskVars, pc, calls>>
  /\ UNCHANGED <<build, todo, old, hartVars>>

\* exec_current calls loader::load, which makes a new space
ExecNew(p) ==
  /\ Runs(p, "user")
  /\ \E w \in {new_user_space(Start(NoSpace))} :
       /\ w.ok
       /\ Pooled(w)
       /\ build' = [build EXCEPT ![p] = SpaceOf(w)]
  /\ calls < MAX_CALLS /\ calls' = calls + 1
  /\ todo' = [todo EXCEPT ![p] = Program]
  /\ pc' = [pc EXCEPT ![p] = "load"]
  /\ UNCHANGED <<taskVars, old, hartVars>>

\* one segment, or the stack with its arguments; on failure the new space is
\* dropped and the old program carries on
ExecPush(p) ==
  /\ Runs(p, "load")
  /\ todo[p] # <<>>
  /\ \E w \in {push(Start(build[p]), Head(todo[p]))} :
       /\ Pooled(IF w.ok THEN w ELSE drop(w))
       /\ build' = [build EXCEPT ![p] = IF w.ok THEN SpaceOf(w) ELSE None]
       /\ todo' = [todo EXCEPT ![p] = IF w.ok THEN Tail(@) ELSE <<>>]
       /\ pc' = [pc EXCEPT ![p] = IF w.ok THEN "load" ELSE "user"]
  /\ UNCHANGED <<taskVars, old, calls, hartVars>>

HeapStart ==
  LET ends == {USER_HEAP_BASE} \cup {(Image[i].last + 1) * PAGE_SIZE : i \in 1 .. Len(Image)}
  IN  CHOOSE e \in ends : \A d \in ends : d <= e

\* mutant of ExecInstall: the space is replaced and not activated
ExecInstallInactive(p) ==
  /\ Runs(p, "load") /\ todo[p] = <<>>
  /\ space' = [space EXCEPT ![p] = build[p]]
  /\ old' = [old EXCEPT ![p] = space[p]]
  /\ brk' = [brk EXCEPT ![p] = HeapStart]
  /\ heap_top' = [heap_top EXCEPT ![p] = HeapStart]
  /\ build' = [build EXCEPT ![p] = None]
  /\ pc' = [pc EXCEPT ![p] = "exec_drop"]
  /\ UNCHANGED <<pool, todo, calls, hartVars>>

\* with the task locked: activate the new space, then replace the old one
ExecInstall(p) ==
  /\ Runs(p, "load") /\ todo[p] = <<>>
  /\ Activate(build[p].root)
  /\ space' = [space EXCEPT ![p] = build[p]]
  /\ old' = [old EXCEPT ![p] = space[p]]
  /\ brk' = [brk EXCEPT ![p] = HeapStart]
  /\ heap_top' = [heap_top EXCEPT ![p] = HeapStart]
  /\ build' = [build EXCEPT ![p] = None]
  /\ pc' = [pc EXCEPT ![p] = "exec_drop"]
  /\ UNCHANGED <<pool, todo, calls, current>>

\* drop(old)
ExecDrop(p) ==
  /\ Runs(p, "exec_drop")
  /\ Pooled(drop(Start(old[p])))
  /\ old' = [old EXCEPT ![p] = None]
  /\ pc' = [pc EXCEPT ![p] = "user"]
  /\ UNCHANGED <<taskVars, build, todo, calls, hartVars>>

\* exit_current, by its own choice or after a fault: space.take()
ExitTake(p) ==
  /\ Runs(p, "user")
  /\ space' = [space EXCEPT ![p] = None]
  /\ old' = [old EXCEPT ![p] = space[p]]
  /\ pc' = [pc EXCEPT ![p] = "exit_activate"]
  /\ UNCHANGED <<pool, brk, heap_top, build, todo, calls, hartVars>>

\* activate_kernel
ExitActivate(p) ==
  /\ Runs(p, "exit_activate")
  /\ ActivateToken(kernel_token)
  /\ pc' = [pc EXCEPT ![p] = "exit_drop"]
  /\ UNCHANGED <<pool, taskVars, build, todo, old, calls, current>>

\* drop(space), and the process is no longer scheduled
ExitDrop(p) ==
  /\ Runs(p, "exit_drop")
  /\ Pooled(drop(Start(old[p])))
  /\ old' = [old EXCEPT ![p] = None]
  /\ brk' = [brk EXCEPT ![p] = 0]
  /\ heap_top' = [heap_top EXCEPT ![p] = 0]
  /\ pc' = [pc EXCEPT ![p] = "none"]
  /\ current' = None
  /\ UNCHANGED <<space, build, todo, calls, satp, tlb>>

------------------------------------------------------------------------------

\* new_user has built the first process.
Loaded == FoldLeft(push, new_user_space(On(Boot.mem, Boot.free, NoSpace)), Program)

Init == \E first \in Procs :
  /\ free = Loaded.free
  /\ mem = Loaded.mem
  /\ space = [p \in Procs |-> IF p = first THEN SpaceOf(Loaded) ELSE None]
  /\ brk = [p \in Procs |-> IF p = first THEN HeapStart ELSE 0]
  /\ heap_top = brk
  /\ pc = [p \in Procs |-> IF p = first THEN "user" ELSE "none"]
  /\ build = [p \in Procs |-> None]
  /\ todo = [p \in Procs |-> <<>>]
  /\ old = [p \in Procs |-> None]
  /\ calls = 0
  /\ current = None
  /\ satp = kernel_token
  /\ tlb = <<>>

ProcStep(p) ==
  \/ \E vpn \in UserPages, v \in Stored : Store(p, vpn, v) \/ CopyToUser(p, vpn, vpn + 1, v)
  \/ \E delta \in Deltas : Sbrk(p, delta)
  \/ \E c \in Procs : Fork(p, c)
  \/ ExecNew(p) \/ ExecPush(p) \/ ExecInstall(p) \/ ExecDrop(p)
  \/ ExitTake(p) \/ ExitActivate(p) \/ ExitDrop(p)

Next ==
  \/ \E p \in Procs : ProcStep(p)
  \/ \E p \in Procs \cup {None} : Dispatch(p)
  \/ \E vpn \in UserPages : Translate(vpn)

Spec == Init /\ [][Next]_vars

------------------------------------------------------------------------------
(* Properties                                                                 *)

\* The spaces in memory: installed in a task, under construction, or about to be dropped.
Spaces == ({space[p] : p \in Procs} \cup {build[p] : p \in Procs} \cup {old[p] : p \in Procs}) \ {None}

\* What a space owns, piece by piece.
Holdings(s) ==
       {<<s.root, 0, f, f>> : f \in s.tables}
  \cup UNION {{<<s.root, i, vpn, s.regions[i].frames[vpn]>> : vpn \in DOMAIN s.regions[i].frames}
             : i \in 1 .. Len(s.regions)}

\* Every frame is free or owned, and owned once, whichever way exec, fork, sbrk
\* and exit succeed or run out of memory half way: none is leaked, none is owned
\* twice ("tearing down an address space is a matter of dropping a collection").
\* The break lies within the heap, which ends on a page boundary.
FramesAccounted ==
  LET owned == UNION {Holdings(s) : s \in Spaces \cup {KERNEL_SPACE}}
  IN  /\ {h[4] : h \in owned} = Frames \ free
      /\ Cardinality(owned) = Cardinality(Frames \ free)
      /\ \A p \in Procs : brk[p] <= heap_top[p] /\ heap_top[p] % PAGE_SIZE = 0

\* Backing::Framed: "Each page is backed by a frame from the allocator, owned by
\* the region."  Whatever the user half of a table maps is a page of a region of
\* the same space, backed by the region's frame with the region's flags.
MappedIsOwned ==
  \A s \in Spaces : \A vpn \in 0 .. HALF - 1 :
    LET pte == translate(mem, s.root, vpn)
    IN  pte # None =>
          \E i \in 1 .. Len(s.regions) :
            /\ vpn \in s.regions[i].first .. s.regions[i].last
            /\ pte = Pte(s.regions[i].frames[vpn], s.regions[i].flags)

\* "at no point is the hart running with an address space that has been freed",
\* and a process in user mode runs in its own.
RunsInLiveSpace ==
  /\ \E s \in Spaces \cup {KERNEL_SPACE} : s.root = satp
  /\ \A p \in Procs : Runs(p, "user") => satp = space[p].root

\* The fence that activate_token skips when satp does not change is not missed:
\* a translation the hart has cached is the one the installed table holds.
NoStaleTranslation ==
  \A vpn \in DOMAIN tlb : tlb[vpn] = hart_walk(mem, satp, vpn)

\* What the hart should find at each page of the kernel half: the page of memory at
\* that place with the flags of the region it is in, and nothing elsewhere.
KernelHalf == [f \in 0 .. HALF - 1 |->
  LET region == SelectSeq(KernelRegions, LAMBDA r : HALF + f \in r.first .. r.last)
  IN  IF region = <<>> THEN None ELSE Pte(f, region[1].flags)]

\* "every address space sees the same kernel at the same addresses": whatever table
\* is installed, in exec, exit and on failure too, the kernel half leads to each
\* section, the pool and each device with their flags, and to nothing else.
KernelInEverySpace ==
  \A f \in 0 .. HALF - 1 : hart_walk(mem, satp, HALF + f) = KernelHalf[f]

\* What a process finds at each page.
Contents(m, s) == [vpn \in UserPages |->
  LET pte == translate(m, s.root, vpn) IN IF s = None \/ pte = None THEN None ELSE m[pte.ppn]]

\* What a program finds when it starts.
Fresh == Contents(Loaded.mem, SpaceOf(Loaded))

\* Processes have memory of their own: stores reach nobody else, fork copies,
\* exec replaces, sbrk adds zeroed pages, exit ends; AddressSpace implements
\* PrivateMemory.
M == INSTANCE PrivateMemory WITH
  Pages    <- UserPages,
  Values   <- {Page(v) : v \in Values},
  Zero     <- Page(Zero),
  Absent   <- None,
  ReadOnly <- UNION {Image[i].first .. Image[i].last : i \in {j \in 1 .. Len(Image) : "W" \notin Image[j].flags}},
  memory   <- [p \in Procs |-> Contents(mem, space[p])],
  running  <- current

ImplementsPrivateMemory == M!MemorySpec

=============================================================================

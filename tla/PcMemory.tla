------------------------------- MODULE PcMemory -------------------------------
(***************************************************************************)
(* Physical memory of the PC: what init_memmap (arch/i386/pc/arch.cpp)     *)
(* makes of the memory the boot loader reports, and the page allocator     *)
(* (arch/i386/pc/pmm.cpp) on top of it.                                    *)
(*                                                                         *)
(* A page has PageSize bytes and the first LowPages pages are the lower    *)
(* memory (4096 and 256 in the code).  Sums of addresses are taken not to  *)
(* overflow 32 bits.  Calls do not interleave: page faults have interrupt  *)
(* gates, and the other callers run while the kernel starts.               *)
(***************************************************************************)
EXTENDS Integers, FiniteSetsExt

CONSTANTS PageSize, LowPages,
          Machines,     \* what the boot loader may report
          Sizes         \* the sizes physAllocSize is asked for

\* descriptor.cpp asks for whole pages or for less than a page; a size in
\* between would be searched for rounded down and taken rounded up.
ASSUME PageAssumption ==
  /\ PageSize \in Nat \ {0} /\ LowPages \in Nat \ {0}
  /\ \A n \in Sizes : n \in Nat \ {0} /\ (n % PageSize = 0 \/ n < PageSize)

VARIABLES machine,     \* the machine that was started
          used,        \* the pages pMemMap has marked used
          live,        \* history: what clients have got and not given back
          halted

memory == <<machine, used, live, halted>>

-----------------------------------------------------------------------------
(* The page a byte is in, and the pages up to one.                         *)

PageDown(addr) == addr \div PageSize
PageUp(addr) == (addr + PageSize - 1) \div PageSize

\* The pages physAllocRange marks used; none if it finds the range invalid.
\* count is iPageCount.
RangeTaken(count, addr, length) ==
  IF PageDown(addr) < count /\ PageUp(addr + length) < count
  THEN PageDown(addr) .. PageUp(addr + length) - 1 ELSE {}

\* Wrong: a page that is partly in the range is freed.
RangeFreedUp(count, addr, length) ==
  IF PageDown(addr) < count /\ PageUp(addr + length) < count
  THEN PageDown(addr) .. PageUp(addr + length) - 1 ELSE {}

\* The pages physFreeRange marks free.
RangeFreed(count, addr, length) ==
  IF PageDown(addr) < count /\ PageDown(addr + length) < count
  THEN PageDown(addr) .. PageDown(addr + length) - 1 ELSE {}

-----------------------------------------------------------------------------
(* init_memmap.  A machine m has lower and upper bytes of memory, maybe a  *)
(* map of regions, and the kernel and modules loaded.                      *)

Upper == LowPages * PageSize
Available(m) == IF m.hasMap THEN {r \in m.regions : r.type = 1}
                ELSE {[type |-> 1, base |-> 0, length |-> m.lower],
                      [type |-> 1, base |-> Upper, length |-> m.upper]}
\* Types 3 and 4 are used by ACPI.
Top(m) ==
  IF m.hasMap
  THEN Max({0} \cup {r.base + r.length : r \in {x \in m.regions : x.type \in {1, 3, 4}}})
  ELSE Upper + m.upper
PageCount(m) == PageDown(Top(m))

\* The map of pages, a byte for each, goes behind the kernel and the modules.
MapAddress(m) == Max({x.base + x.length : x \in {m.kernel} \cup m.modules})
\* The interrupt area, the kernel, the modules and the map.
Occupied(m) ==
  {[base |-> 0, length |-> PageSize], m.kernel,
   [base |-> MapAddress(m), length |-> PageCount(m)]} \cup m.modules

PagesFreed(m) == UNION {RangeFreed(PageCount(m), r.base, r.length) : r \in Available(m)}
PagesTaken(m) == UNION {RangeTaken(PageCount(m), r.base, r.length) : r \in Occupied(m)}

Booted(m) == ((0 .. PageCount(m) - 1) \ PagesFreed(m)) \cup PagesTaken(m)

\* What the kernel relies on: lower memory is not all there is, and what is
\* loaded ends below the last page, with room for the map.
ASSUME MachineAssumption ==
  \A m \in Machines :
    /\ Top(m) \in Nat /\ PageCount(m) > LowPages
    /\ \A r \in Available(m) : r.base \in Nat /\ r.length \in Nat
    /\ \A r \in Occupied(m) : r.base \in Nat /\ r.length \in Nat
                             /\ PageUp(r.base + r.length) < PageCount(m)

Init ==
  /\ machine \in Machines
  /\ used = Booted(machine)
  /\ live = [a \in {} |-> 0]
  /\ halted = FALSE

-----------------------------------------------------------------------------
Count == PageCount(machine)
FreeIn(from, to) == {p \in from .. to - 1 : p \notin used}

Got(addr, length) ==
  live' = [b \in DOMAIN live \cup {addr} |-> IF b = addr THEN length ELSE live[b]]
Panic == halted' = TRUE /\ UNCHANGED <<used, live>>

\* Page p becomes a client's.
TakePage(p) ==
  used' = used \cup {p} /\ Got(p * PageSize, PageSize) /\ UNCHANGED halted

\* physAllocPageLower: address 0 is no memory, and no page if there is none.
AllocPageLower ==
  LET free == FreeIn(0, LowPages) IN
  /\ free # {}
  /\ TakePage(Min(free)) /\ UNCHANGED machine

\* physAllocPage: upper memory first.
AllocPage ==
  LET upper == FreeIn(LowPages, Count)  lower == FreeIn(0, LowPages) IN
  /\ IF upper # {} THEN TakePage(Min(upper))
     ELSE IF lower # {} THEN TakePage(Min(lower))
     ELSE Panic
  /\ UNCHANGED machine

\* Wrong: a used page does not end a run.
RunsUnbroken(length, from, to) == FreeIn(from, to)

\* The pages at which _physAllocSize may find enough free ones in a row.
Runs(length, from, to) ==
  LET need == Max({1, length \div PageSize}) IN
  {p \in from .. to - need : \A q \in p .. p + need - 1 : q \notin used}

\* What it returns: the address of the first run, if physAllocRange takes it.
RunTaken(length, from, to) ==
  LET runs == Runs(length, from, to) IN
  IF runs = {} THEN {}
  ELSE {p \in {Min(runs)} : RangeTaken(Count, p * PageSize, length) # {}}

\* physAllocSize: upper memory first.
AllocSize(length) ==
  LET upper == RunTaken(length, LowPages, Count)
      lower == RunTaken(length, 0, LowPages)
      runs == IF upper # {} THEN upper ELSE lower
  IN  /\ \/ runs = {} /\ Panic
         \/ \E p \in runs :
              /\ used' = used \cup RangeTaken(Count, p * PageSize, length)
              /\ Got(p * PageSize, length)
              /\ UNCHANGED halted
      /\ UNCHANGED machine

\* Wrong: the page is given back to its client, but not marked free.
FreePageKept(addr) ==
  /\ addr \in DOMAIN live /\ live[addr] = PageSize
  /\ live' = [b \in DOMAIN live \ {addr} |-> live[b]]
  /\ UNCHANGED <<machine, used, halted>>

\* physFreePage, by the client that got a page.
FreePage(addr) ==
  /\ addr \in DOMAIN live /\ live[addr] = PageSize
  /\ used' = used \ {PageDown(addr)}
  /\ live' = [b \in DOMAIN live \ {addr} |-> live[b]]
  /\ UNCHANGED <<machine, halted>>

Next ==
  /\ ~ halted
  /\ \/ AllocPageLower \/ AllocPage
     \/ \E length \in Sizes : AllocSize(length)
     \/ \E addr \in DOMAIN live : FreePage(addr)

Spec == Init /\ [][Next]_memory

-----------------------------------------------------------------------------
(* Properties.                                                             *)

PageBytes(p) == p * PageSize .. (p + 1) * PageSize - 1
BytesOf(r) == r.base .. r.base + r.length - 1

\* A region from the beginning of the page it begins in.
FromItsPage(r) == PageDown(r.base) * PageSize .. r.base + r.length - 1

\* A page that is marked free is memory, but for what lies below a region that
\* begins inside a page, and no part of it is the interrupt area, the kernel, a
\* module, the page map or a client's.
FreeIsSpare ==
  \A p \in 0 .. Count - 1 : p \notin used =>
    /\ PageBytes(p) \subseteq UNION {FromItsPage(r) : r \in Available(machine)}
    /\ \A r \in Occupied(machine) : PageBytes(p) \cap BytesOf(r) = {}
    /\ \A a \in DOMAIN live : PageBytes(p) \cap (a .. a + live[a] - 1) = {}

\* A page is marked used exactly if it was when the kernel had started or a
\* client has it: none is lost, and none is given away below a client.
UsedIsAccountedFor ==
  used = Booted(machine) \cup
         {p \in 0 .. Count - 1 : \E a \in DOMAIN live :
                                    PageBytes(p) \cap (a .. a + live[a] - 1) # {}}

\* "Free memory that multiboot/bios reports available" (arch.cpp:190): when the
\* kernel has started, pages of it that nothing occupies are free.
AvailableIsFreed ==
  \A r \in Available(machine), p \in 0 .. Count - 1 :
    /\ PageBytes(p) \subseteq BytesOf(r)
    /\ \A x \in Occupied(machine) : PageBytes(p) \cap BytesOf(x) = {}
    /\ DOMAIN live = {}
    => p \notin used

-----------------------------------------------------------------------------
Promise == INSTANCE Allocator WITH
  Heap <- UNION {PageSize .. Top(m) - 1 : m \in Machines},
  Requests <- Sizes \cup {PageSize}

\* Clients get memory that nobody else has, and keep it.
ImplementsAllocator == Promise!ASpec
==============================================================================

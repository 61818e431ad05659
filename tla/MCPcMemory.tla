------------------------------ MODULE MCPcMemory ------------------------------
(* PcMemory instantiated for TLC: pages of four bytes, three of them lower  *)
(* memory, and six machines.                                                *)
EXTENDS PcMemory

Region(t, from, to) == [type |-> t, base |-> from, length |-> to - from]
Loaded(from, to) == [base |-> from, length |-> to - from]
Machine(hasMap, regions, upper, modules) ==
  [hasMap |-> hasMap, regions |-> regions, lower |-> 10, upper |-> upper,
   kernel |-> Loaded(12, 19), modules |-> modules]

\* Lower memory, the BIOS, and upper memory up to an address.
Common(top) == {Region(1, 0, 10), Region(2, 10, 12), Region(1, 12, top)}

MCMachines ==
  { \* No map.
    Machine(FALSE, {}, 48, {}),
    \* Upper memory ends on a page, ACPI memory follows.
    Machine(TRUE, Common(60) \cup {Region(3, 60, 68)}, 48, {Loaded(20, 22)}),
    \* It ends inside a page, with reserved memory on top.
    Machine(TRUE, Common(58) \cup {Region(4, 58, 66), Region(2, 66, 80)}, 46, {}),
    \* A hole in it, two modules.
    Machine(TRUE, Common(48) \cup {Region(2, 48, 52), Region(1, 52, 70), Region(3, 70, 76)},
            58, {Loaded(20, 22), Loaded(24, 25)}),
    \* A region that begins and ends inside a page.
    Machine(TRUE, Common(42) \cup {Region(2, 42, 50), Region(1, 50, 62), Region(3, 62, 68)},
            50, {}),
    \* Nothing but reserved memory above it.
    Machine(TRUE, Common(60) \cup {Region(2, 60, 68)}, 48, {}) }
==============================================================================

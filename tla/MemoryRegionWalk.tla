-------------------------- MODULE MemoryRegionWalk --------------------------
(***************************************************************************)
(* MemoryRegionEnumerator::printMemorySection: the loop over the regions   *)
(* of another process, one VirtualQueryEx at a time, while that process    *)
(* goes on allocating, protecting and freeing its pages, or exits.         *)
(*                                                                         *)
(* Addresses and sizes are counted in pages.  A 32-bit process ends at     *)
(* 2 GB, before the sum of an address and a size can wrap.                 *)
(***************************************************************************)
EXTENDS Integers, Sequences

CONSTANTS
    Top,        \* pages of the address space
    MemType,    \* the types of allocations in the target
    MemProtect  \* the protections of its pages

MEM_COMMIT  == 4096         \* 0x1000
MEM_RESERVE == 8192         \* 0x2000
MEM_FREE    == 65536        \* 0x10000
MEM_PRIVATE == 131072       \* 0x20000
MEM_MAPPED  == 262144       \* 0x40000
MEM_IMAGE   == 16777216     \* 0x1000000
NOACCESS    == 1

ASSUME TopAssumption == Top \in Nat \ {0}
ASSUME AttrAssumption ==
    MemType \subseteq {MEM_PRIVATE, MEM_MAPPED, MEM_IMAGE} /\ MemProtect \subseteq 1..2047

Page == 0..(Top - 1)

(* What is the same for all pages of a region.                             *)
Attr ==
    [State : {MEM_FREE}, Type : {0}, Protect : {NOACCESS}]
      \cup [State : {MEM_RESERVE}, Type : MemType, Protect : {0}]
      \cup [State : {MEM_COMMIT}, Type : MemType, Protect : MemProtect]

VARIABLES
    page,       \* page[p]: the attributes of page p of the target
    running,    \* FALSE once the target has exited
    baseAddr,   \* the address of the next query
    rows,       \* the rows of the process in memory_region.xml
    pc,         \* "walk" or "done"
    steady      \* history: the pages that have not changed since the start

target == <<page, running, steady>>
vars == <<target, baseAddr, rows, pc>>

-----------------------------------------------------------------------------
(* The texts of a row: the names of the bits of a protection, and one name *)
(* for each value of a state or a type, if it has one.                     *)
ProtectString(value) == {i \in 0..10 : (value \div 2^i) % 2 = 1}

StateString(value) ==
    CASE value = MEM_COMMIT -> "MEM_COMMIT"
      [] value = MEM_FREE -> "MEM_FREE"
      [] value = MEM_RESERVE -> "MEM_RESERVE"
      [] OTHER -> ""

TypeString(value) ==
    CASE value = MEM_IMAGE -> "MEM_IMAGE"
      [] value = MEM_MAPPED -> "MEM_MAPPED"
      [] value = MEM_PRIVATE -> "MEM_PRIVATE"
      [] OTHER -> ""

Text(a) == <<TypeString(a.Type), StateString(a.State), ProtectString(a.Protect)>>

Row == [base : Page, size : Nat \ {0}, text : {Text(a) : a \in Attr}]

TypeOK ==
    /\ page \in [Page -> Attr]
    /\ running \in BOOLEAN
    /\ baseAddr \in 0..Top
    /\ rows \in Seq(Row)
    /\ pc \in {"walk", "done"}
    /\ steady \subseteq Page

Init ==
    /\ page \in [Page -> Attr]
    /\ running = TRUE
    /\ baseAddr = 0 /\ rows = << >> /\ pc = "walk"
    /\ steady = Page

-----------------------------------------------------------------------------
(* The target changes a page, or exits.                                    *)
Change(p, a) ==
    /\ running
    /\ a # page[p]
    /\ page' = [page EXCEPT ![p] = a]
    /\ steady' = steady \ {p}
    /\ UNCHANGED <<running, baseAddr, rows, pc>>

Exit ==
    /\ running
    /\ running' = FALSE
    /\ UNCHANGED <<page, steady, baseAddr, rows, pc>>

Target == Exit \/ \E p \in Page, a \in Attr : Change(p, a)

(* VirtualQueryEx at an address: the pages from there on that are alike.   *)
RegionSizeAt(b, n) ==
    /\ \A p \in b..(b + n - 1) : page[p] = page[b]
    /\ b + n < Top => page[b + n] # page[b]

(* A row of n pages, and where the next query is.                          *)
AddRow(n, next) ==
    /\ baseAddr' = next
    /\ rows' = Append(rows, [base |-> baseAddr, size |-> n, text |-> Text(page[baseAddr])])

(* Seeded faults: the next query is for the next page; a row takes in the  *)
(* page after its region; the next query is for the same page.             *)
QueryPageWise ==
    \E n \in 1..(Top - baseAddr) : RegionSizeAt(baseAddr, n) /\ AddRow(n, baseAddr + 1)

QuerySkipping ==
    \E n \in 1..(Top - baseAddr) :
        /\ RegionSizeAt(baseAddr, n)
        /\ IF baseAddr + n < Top THEN AddRow(n + 1, baseAddr + n + 1) ELSE AddRow(n, Top)

QueryStuck == UNCHANGED <<baseAddr, rows>>

QueryRegion ==
    \E n \in 1..(Top - baseAddr) : RegionSizeAt(baseAddr, n) /\ AddRow(n, baseAddr + n)

(* One pass of the loop, and its end: at the end of the address space, or  *)
(* when the target is gone.                                                *)
Walk ==
    /\ pc = "walk"
    /\ running /\ baseAddr < Top
    /\ QueryRegion
    /\ UNCHANGED <<target, pc>>

WalkReturns ==
    /\ pc = "walk"
    /\ ~running \/ baseAddr = Top
    /\ pc' = "done"
    /\ UNCHANGED <<target, baseAddr, rows>>

Terminating == pc = "done" /\ UNCHANGED vars

Next == Walk \/ WalkReturns \/ (pc = "walk" /\ Target) \/ Terminating

(* The walk is steps of one thread that waits for nobody.                  *)
Spec == Init /\ [][Next]_vars /\ WF_vars(Walk \/ WalkReturns)

-----------------------------------------------------------------------------
(* Correctness.                                                            *)

In(p, r) == r.base <= p /\ p < r.base + r.size

(* The pages below the next query have one row each, and the others none,  *)
(* although every row is of another moment.                                *)
PagesListedOnce ==
    \A p \in Page :
        /\ p < baseAddr <=> \E i \in DOMAIN rows : In(p, rows[i])
        /\ \A i, j \in DOMAIN rows : In(p, rows[i]) /\ In(p, rows[j]) => i = j

(* A page that did not change since the walk began is reported right, by   *)
(* every row it is in, whatever the target does to the pages around it.    *)
SteadyPagesRight ==
    \A i \in DOMAIN rows : \A p \in steady :
        In(p, rows[i]) => rows[i].text = Text(page[p])

(* The walk ends, even if the target changes its pages for ever.           *)
RegionWalkEnds == <>(pc = "done")
=============================================================================

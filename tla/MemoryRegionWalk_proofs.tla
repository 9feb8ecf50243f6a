----------------------- MODULE MemoryRegionWalk_proofs -----------------------
(***************************************************************************)
(* Proofs about MemoryRegionWalk: whatever the target does between two     *)
(* queries, its pages are listed once, and right if they do not change.    *)
(***************************************************************************)
EXTENDS MemoryRegionWalk, TLAPS

-----------------------------------------------------------------------------
(* The state is of its type: the walk never leaves the address space.      *)
LEMMA InitTypeOK == Init => TypeOK
  <1> SUFFICES ASSUME Init PROVE TypeOK
    OBVIOUS
  <1>1. baseAddr \in 0..Top
    BY TopAssumption DEF Init
  <1>2. rows \in Seq(Row)
    BY DEF Init
  <1> QED
    BY <1>1, <1>2 DEF Init, TypeOK

(* A change of the target keeps the types.                                 *)
LEMMA TargetTypeOK == TypeOK /\ Target => TypeOK'
  <1> SUFFICES ASSUME TypeOK, Target PROVE TypeOK'
    OBVIOUS
  <1>1. CASE Exit
    BY <1>1 DEF Exit, TypeOK
  <1>2. ASSUME NEW p \in Page, NEW a \in Attr, Change(p, a)
        PROVE  TypeOK'
    BY <1>2 DEF Change, TypeOK
  <1> QED
    BY <1>1, <1>2 DEF Target

(* The row that a pass of the loop adds.                                   *)
LEMMA WalkAddsRow ==
    ASSUME TypeOK, Walk
    PROVE  \E n \in 1..(Top - baseAddr) :
               /\ RegionSizeAt(baseAddr, n)
               /\ baseAddr' = baseAddr + n
               /\ baseAddr \in Page
               /\ LET row == [base |-> baseAddr, size |-> n, text |-> Text(page[baseAddr])]
                  IN  row \in Row /\ rows' = Append(rows, row)
  <1>1. PICK n \in 1..(Top - baseAddr) : RegionSizeAt(baseAddr, n) /\ AddRow(n, baseAddr + n)
    BY DEF Walk, QueryRegion
  <1>2. baseAddr \in Page /\ n \in Nat \ {0}
    BY <1>1, TopAssumption DEF TypeOK, Walk, Page
  <1>3. page[baseAddr] \in Attr
    BY <1>2 DEF TypeOK
  <1>4. [base |-> baseAddr, size |-> n, text |-> Text(page[baseAddr])] \in Row
    <2> HIDE DEF Attr, Text
    <2> QED
      BY <1>2, <1>3 DEF Row
  <1> QED
    BY <1>1, <1>2, <1>4 DEF AddRow

(* A row of the walk keeps the types.                                      *)
LEMMA WalkTypeOK == TypeOK /\ Walk => TypeOK'
  <1> SUFFICES ASSUME TypeOK, Walk PROVE TypeOK'
    OBVIOUS
  <1>1. PICK n \in 1..(Top - baseAddr) :
            /\ baseAddr' = baseAddr + n
            /\ \E row \in Row : rows' = Append(rows, row)
    BY WalkAddsRow
  <1>2. baseAddr' \in 0..Top
    BY <1>1, TopAssumption DEF TypeOK
  <1>3. rows' \in Seq(Row)
    BY <1>1 DEF TypeOK
  <1> QED
    BY <1>2, <1>3 DEF TypeOK, Walk, target

(* The regions, the rows and the address that is asked for next have their *)
(* types.                                                                  *)
THEOREM TypeCorrect == Spec => []TypeOK
  <1>1. TypeOK /\ [Next]_vars => TypeOK'
    <2> SUFFICES ASSUME TypeOK, [Next]_vars PROVE TypeOK'
      OBVIOUS
    <2>1. CASE Walk
      BY <2>1, WalkTypeOK
    <2>2. CASE WalkReturns
      BY <2>2 DEF WalkReturns, TypeOK, target
    <2>3. CASE Target
      BY <2>3, TargetTypeOK
    <2>4. CASE UNCHANGED vars
      BY <2>4 DEF vars, target, TypeOK
    <2> QED
      BY <2>1, <2>2, <2>3, <2>4 DEF Next, Terminating
  <1> QED
    BY InitTypeOK, <1>1, PTL DEF Spec

-----------------------------------------------------------------------------
(* No page is listed twice or left out: the rows end where the next query  *)
(* begins, so a new row has only pages that had none.                      *)
THEOREM ListedOnce == Spec => []PagesListedOnce
  <1>1. Init => PagesListedOnce
    <2> SUFFICES ASSUME Init PROVE PagesListedOnce
      OBVIOUS
    <2>1. DOMAIN rows = {} /\ baseAddr = 0
      BY DEF Init
    <2> QED
      BY <2>1, TopAssumption DEF PagesListedOnce, Page
  <1>2. TypeOK /\ PagesListedOnce /\ [Next]_vars => PagesListedOnce'
    <2> SUFFICES ASSUME TypeOK, PagesListedOnce, [Next]_vars PROVE PagesListedOnce'
      OBVIOUS
    <2>1. CASE Walk
      <3>1. PICK n \in 1..(Top - baseAddr) :
                /\ baseAddr' = baseAddr + n
                /\ rows' = Append(rows, [base |-> baseAddr, size |-> n,
                                         text |-> Text(page[baseAddr])])
        BY <2>1, WalkAddsRow
      <3> DEFINE row == [base |-> baseAddr, size |-> n, text |-> Text(page[baseAddr])]
                 last == Len(rows) + 1
      <3>2. /\ rows \in Seq(Row) /\ baseAddr \in Nat
            /\ row.base = baseAddr /\ row.size = n
        BY DEF TypeOK
      <3>3. /\ DOMAIN rows = 1..Len(rows) /\ DOMAIN rows' = 1..last
            /\ rows'[last] = row
            /\ \A i \in DOMAIN rows : rows'[i] = rows[i]
            /\ Len(rows) \in Nat
        BY <3>1, <3>2
      <3> HIDE DEF row, last
      <3>4. DOMAIN rows' = DOMAIN rows \cup {last} /\ last \notin DOMAIN rows
        BY <3>3 DEF last
      <3>5. ASSUME NEW p \in Page
            PROVE  /\ In(p, row) <=> baseAddr <= p /\ p < baseAddr'
                   /\ p < baseAddr => p < baseAddr'
        BY <3>1, <3>2 DEF In, Page
      <3>6. ASSUME NEW p \in Page
            PROVE  p < baseAddr' <=> \E i \in DOMAIN rows' : In(p, rows'[i])
        <4>1. p < baseAddr <=> \E i \in DOMAIN rows : In(p, rows[i])
          BY DEF PagesListedOnce
        <4>2. p < baseAddr \/ baseAddr <= p
          BY <3>2 DEF Page
        <4> QED
          BY <3>3, <3>4, <3>5, <4>1, <4>2
      <3>7. ASSUME NEW p \in Page, NEW i \in DOMAIN rows', NEW j \in DOMAIN rows',
                   In(p, rows'[i]), In(p, rows'[j])
            PROVE  i = j
        <4>1. \A k \in DOMAIN rows : In(p, rows[k]) => p < baseAddr
          BY DEF PagesListedOnce
        <4>2. In(p, row) => ~(p < baseAddr)
          BY <3>2, <3>5 DEF Page
        <4>3. \A k, l \in DOMAIN rows : In(p, rows[k]) /\ In(p, rows[l]) => k = l
          BY DEF PagesListedOnce
        <4> QED
          BY <3>3, <3>4, <3>7, <4>1, <4>2, <4>3
      <3> QED
        BY <3>6, <3>7 DEF PagesListedOnce
    <2>2. CASE UNCHANGED <<rows, baseAddr>>
      BY <2>2 DEF PagesListedOnce, In
    <2> QED
      BY <2>1, <2>2 DEF Next, WalkReturns, Target, Exit, Change, Terminating, vars
  <1> QED
    BY <1>1, <1>2, TypeCorrect, PTL DEF Spec

-----------------------------------------------------------------------------
(* A page that has not changed has its own text in its row: the pages of a *)
(* row were alike when the row was made, and of those that changed since   *)
(* nothing is claimed.                                                     *)
THEOREM SteadyReportedRight == Spec => []SteadyPagesRight
  <1> USE DEF SteadyPagesRight
  <1>1. Init => SteadyPagesRight
    BY DEF Init
  <1>2. TypeOK /\ SteadyPagesRight /\ [Next]_vars => SteadyPagesRight'
    <2> SUFFICES ASSUME TypeOK, SteadyPagesRight, [Next]_vars PROVE SteadyPagesRight'
      OBVIOUS
    <2>1. CASE Walk
      <3>1. PICK n \in 1..(Top - baseAddr) :
                /\ RegionSizeAt(baseAddr, n)
                /\ rows' = Append(rows, [base |-> baseAddr, size |-> n,
                                         text |-> Text(page[baseAddr])])
        BY <2>1, WalkAddsRow
      <3> DEFINE row == [base |-> baseAddr, size |-> n, text |-> Text(page[baseAddr])]
                 last == Len(rows) + 1
      <3>2. /\ rows \in Seq(Row) /\ baseAddr \in Nat /\ steady \subseteq Page
            /\ row.base = baseAddr /\ row.size = n /\ row.text = Text(page[baseAddr])
        BY DEF TypeOK
      <3>3. /\ DOMAIN rows' = DOMAIN rows \cup {last}
            /\ rows'[last] = row
            /\ \A i \in DOMAIN rows : rows'[i] = rows[i]
        BY <3>1, <3>2
      <3>4. page' = page /\ steady' = steady
        BY <2>1 DEF Walk, target
      <3> HIDE DEF row, last
      <3>5. ASSUME NEW p \in steady, In(p, row)
            PROVE  row.text = Text(page[p])
        <4>1. p \in baseAddr..(baseAddr + n - 1)
          BY <3>2, <3>5 DEF In, Page
        <4> QED
          BY <3>1, <3>2, <4>1 DEF RegionSizeAt
      <3> QED
        BY <3>3, <3>4, <3>5
    <2>2. ASSUME NEW q \in Page, NEW a \in Attr, Change(q, a)
          PROVE  SteadyPagesRight'
      <3>1. steady' = steady \ {q} /\ rows' = rows /\ steady \subseteq Page
        BY <2>2 DEF Change, TypeOK
      <3>2. \A p \in steady' : page'[p] = page[p]
        BY <2>2, <3>1 DEF Change, TypeOK
      <3> QED
        BY <3>1, <3>2 DEF In
    <2>3. CASE UNCHANGED <<rows, page, steady>>
      BY <2>3 DEF In
    <2> QED
      BY <2>1, <2>2, <2>3 DEF Next, WalkReturns, Target, Exit, Terminating, vars, target
  <1> QED
    BY <1>1, <1>2, TypeCorrect, PTL DEF Spec
=============================================================================

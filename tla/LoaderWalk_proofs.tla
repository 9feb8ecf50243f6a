------------------------- MODULE LoaderWalk_proofs -------------------------
(***************************************************************************)
(* Proofs about LoaderWalk, for any number of modules and of changes: the  *)
(* types, what the walk lists of a target that stays quiet, and that every *)
(* module which stays is listed although others come and go.               *)
(***************************************************************************)
EXTENDS LoaderWalk, FiniteSetTheorems, SequenceTheorems, TLAPS

-----------------------------------------------------------------------------
(* The ring.                                                               *)

(* x is at or before y in the ring.                                        *)
Before(x, y) == \E i, j \in DOMAIN ring : i <= j /\ ring[i] = x /\ ring[j] = y

(* What the type of the ring says.                                         *)
LEMMA RingFacts ==
    ASSUME TypeOK
    PROVE  /\ Len(ring) \in Nat /\ DOMAIN ring = 1..Len(ring)
           /\ \A i \in 1..Len(ring) : ring[i] \in Module
           /\ \A i, j \in 1..Len(ring) : ring[i] = ring[j] => i = j
           /\ \A m : Linked(m) <=> \E i \in 1..Len(ring) : ring[i] = m
           /\ ring = << >> <=> Len(ring) = 0
           /\ ~Linked(Sentinel) /\ ~Linked(Wild)
  <1>1. Len(ring) \in Nat /\ DOMAIN ring = 1..Len(ring) /\ (ring = << >> <=> Len(ring) = 0)
    BY DEF TypeOK
  <1>2. \A i \in 1..Len(ring) : ring[i] \in Module
    BY <1>1 DEF TypeOK
  <1> QED BY <1>1, <1>2, AddressAssumption DEF TypeOK, Linked, Node

(* The link of an entry is that of the next one, or of the list head.      *)
LEMMA FlinkOfLinked ==
    ASSUME TypeOK, NEW i \in DOMAIN ring
    PROVE  /\ Linked(ring[i]) /\ ring[i] \in Module /\ ring[i] # Sentinel
           /\ Flink(ring[i]) = IF i = Len(ring) THEN Sentinel ELSE ring[i + 1]
  <1>1. ring[i] \in Module /\ ring[i] # Sentinel /\ Linked(ring[i])
    BY RingFacts, AddressAssumption
  <1>2. PICK a : a = ring[i]
    OBVIOUS
  <1>3. (CHOOSE j \in DOMAIN ring : ring[j] = a) = i
    BY <1>2, RingFacts
  <1>4. Flink(a) = IF i = Len(ring) THEN Sentinel ELSE ring[i + 1]
    BY <1>1, <1>2, <1>3 DEF Flink
  <1> QED BY <1>1, <1>2, <1>4

(* The link of the list head is the first entry, or itself.                *)
LEMMA FlinkOfSentinel ==
    ASSUME TypeOK
    PROVE  Flink(Sentinel) = IF Len(ring) = 0 THEN Sentinel ELSE ring[1]
  BY RingFacts DEF Flink, First

(* An entry that was taken out keeps the link it had.                      *)
LEMMA FlinkOfUnlinked ==
    ASSUME NEW a, a # Sentinel, ~Linked(a)
    PROVE  Flink(a) = stale[a]
  BY DEF Flink

(* A link leads to an entry, to the list head or out of the list.          *)
LEMMA FlinkType ==
    ASSUME TypeOK, NEW a \in Node
    PROVE  Flink(a) \in Node \cup {Wild}
  <1>1. CASE a = Sentinel
    BY <1>1, FlinkOfSentinel, RingFacts DEF Node
  <1>2. CASE a # Sentinel /\ Linked(a)
    <2>1. PICK i \in DOMAIN ring : ring[i] = a
      BY <1>2 DEF Linked
    <2> QED BY <2>1, FlinkOfLinked, RingFacts DEF Node
  <1>3. CASE a # Sentinel /\ ~Linked(a)
    BY <1>3, FlinkOfUnlinked DEF TypeOK, Node
  <1> QED BY <1>1, <1>2, <1>3

(* A new entry is the last of the ring, and the order of the others stays. *)
LEMMA LoadRing ==
    ASSUME TypeOK, NEW m \in Module, ~Linked(m), ring' = Append(ring, m)
    PROVE  /\ ring' \in Seq(Module)
           /\ Len(ring') = Len(ring) + 1 /\ DOMAIN ring' = 1..(Len(ring) + 1)
           /\ \A i \in 1..Len(ring) : ring'[i] = ring[i]
           /\ ring'[Len(ring) + 1] = m
           /\ \A i, j \in DOMAIN ring' : ring'[i] = ring'[j] => i = j
  <1>1. ring \in Seq(Module) /\ Len(ring) \in Nat
    BY DEF TypeOK
  <1>2. /\ ring' \in Seq(Module) /\ Len(ring') = Len(ring) + 1
        /\ DOMAIN ring' = 1..(Len(ring) + 1)
        /\ \A i \in 1..Len(ring) : ring'[i] = ring[i]
        /\ ring'[Len(ring) + 1] = m
    BY <1>1
  <1>3. \A i \in 1..(Len(ring) + 1) : i \in 1..Len(ring) \/ i = Len(ring) + 1
    BY <1>1
  <1>4. \A i \in 1..Len(ring) : ring[i] # m
    BY RingFacts
  <1> QED BY <1>2, <1>3, <1>4, RingFacts

(* Loading puts the module behind all others and moves none.               *)
LEMMA LoadOrder ==
    ASSUME TypeOK, NEW m \in Module, ~Linked(m), ring' = Append(ring, m)
    PROVE  /\ \A x : Linked(x)' <=> Linked(x) \/ x = m
           /\ \A x, y : Before(x, y)' <=> Before(x, y) \/ ((Linked(x) \/ x = m) /\ y = m)
  <1> DEFINE n == Len(ring)
  <1>1. n \in Nat /\ DOMAIN ring = 1..n
    BY RingFacts
  <1>2. /\ DOMAIN ring' = 1..(n + 1)
        /\ \A i \in 1..n : ring'[i] = ring[i]
        /\ ring'[n + 1] = m
    BY LoadRing
  <1>3. \A x : Linked(x) <=> \E i \in 1..n : ring[i] = x
    BY <1>1 DEF Linked
  <1>4. \A i \in 1..(n + 1) : i \in 1..n \/ i = n + 1
    BY <1>1
  <1>5. \A i \in 1..n : i \in 1..(n + 1) /\ i <= n + 1
    BY <1>1
  <1>6. n + 1 \in 1..(n + 1) /\ n + 1 <= n + 1 /\ \A i \in 1..n : ~(n + 1 <= i)
    BY <1>1
  <1> HIDE DEF n
  <1>7. \A x : Linked(x)' <=> Linked(x) \/ x = m
    BY <1>2, <1>3, <1>4, <1>5, <1>6 DEF Linked
  <1>8. ASSUME NEW x, NEW y, Before(x, y)'
        PROVE  Before(x, y) \/ ((Linked(x) \/ x = m) /\ y = m)
    BY <1>1, <1>2, <1>3, <1>4, <1>6, <1>8 DEF Before
  <1>9. ASSUME NEW x, NEW y, Before(x, y) \/ ((Linked(x) \/ x = m) /\ y = m)
        PROVE  Before(x, y)'
    BY <1>1, <1>2, <1>3, <1>5, <1>6, <1>9 DEF Before
  <1> QED BY <1>7, <1>8, <1>9

(* Without an entry, the order of the others stays.                        *)
LEMMA UnloadRing ==
    ASSUME TypeOK, NEW k \in DOMAIN ring, ring' = RemoveAt(ring, k)
    PROVE  /\ ring' \in Seq(Module)
           /\ Len(ring') = Len(ring) - 1 /\ DOMAIN ring' = 1..(Len(ring) - 1)
           /\ \A i \in DOMAIN ring' : ring'[i] = IF i < k THEN ring[i] ELSE ring[i + 1]
           /\ \A i, j \in DOMAIN ring' : ring'[i] = ring'[j] => i = j
  <1> DEFINE n == Len(ring)
             s == SubSeq(ring, 1, k - 1)
             t == SubSeq(ring, k + 1, n)
  <1>1. n \in Nat /\ k \in 1..n /\ ring \in Seq(Module)
    BY RingFacts DEF TypeOK
  <1>2. /\ s \in Seq(Module) /\ Len(s) = k - 1 /\ \A i \in 1..(k - 1) : s[i] = ring[i]
        /\ t \in Seq(Module) /\ Len(t) = n - k /\ \A i \in 1..(n - k) : t[i] = ring[i + k]
    BY <1>1
  <1>3. ring' = s \o t
    BY DEF RemoveAt
  <1> HIDE DEF s, t
  <1>4. /\ ring' \in Seq(Module)
        /\ Len(ring') = n - 1 /\ DOMAIN ring' = 1..(n - 1)
        /\ \A i \in 1..(n - 1) : ring'[i] = IF i <= k - 1 THEN s[i] ELSE t[i - (k - 1)]
    BY <1>1, <1>2, <1>3
  <1>5. \A i \in 1..(n - 1) : ring'[i] = IF i < k THEN ring[i] ELSE ring[i + 1]
    <2> SUFFICES ASSUME NEW i \in 1..(n - 1)
                 PROVE  ring'[i] = IF i < k THEN ring[i] ELSE ring[i + 1]
      OBVIOUS
    <2>1. CASE i < k
      BY <1>1, <1>2, <1>4, <2>1
    <2>2. CASE ~(i < k)
      <3>1. i - (k - 1) \in 1..(n - k) /\ (i - (k - 1)) + k = i + 1 /\ ~(i <= k - 1)
        BY <1>1, <2>2
      <3> QED BY <1>2, <1>4, <2>2, <3>1
    <2> QED BY <2>1, <2>2
  <1>6. \A i, j \in 1..(n - 1) : ring'[i] = ring'[j] => i = j
    BY <1>1, <1>5, RingFacts
  <1> QED BY <1>4, <1>5, <1>6

(* Unloading takes the module out and leaves the order of the others.      *)
LEMMA UnloadOrder ==
    ASSUME TypeOK, NEW k \in DOMAIN ring, ring' = RemoveAt(ring, k)
    PROVE  /\ \A x : Linked(x)' <=> Linked(x) /\ x # ring[k]
           /\ \A x, y : Before(x, y)' <=> Before(x, y) /\ x # ring[k] /\ y # ring[k]
  <1> DEFINE n == Len(ring)
             new(i) == IF i < k THEN i ELSE i - 1
             old(i) == IF i < k THEN i ELSE i + 1
  <1>1. n \in Nat /\ DOMAIN ring = 1..n /\ k \in 1..n
    BY RingFacts
  <1>2. DOMAIN ring' = 1..(n - 1) /\ \A i \in 1..(n - 1) : ring'[i] = ring[old(i)]
    BY UnloadRing
  <1>3. \A i \in 1..n : ring[i] = ring[k] => i = k
    BY <1>1, RingFacts
  <1>4. \A i \in 1..(n - 1) : old(i) \in 1..n /\ old(i) # k
    BY <1>1
  <1>5. \A i \in 1..n : i # k => new(i) \in 1..(n - 1) /\ old(new(i)) = i
    BY <1>1
  <1>6. \A i, j \in 1..(n - 1) : i <= j => old(i) <= old(j)
    BY <1>1
  <1>7. \A i, j \in 1..n : i <= j /\ i # k /\ j # k => new(i) <= new(j)
    BY <1>1
  <1> HIDE DEF n, new, old
  <1>8. \A x : Linked(x)' <=> Linked(x) /\ x # ring[k]
    BY <1>1, <1>2, <1>3, <1>4, <1>5 DEF Linked
  <1>9. ASSUME NEW x, NEW y, Before(x, y)'
        PROVE  Before(x, y) /\ x # ring[k] /\ y # ring[k]
    <2>1. PICK i, j \in 1..(n - 1) : i <= j /\ ring'[i] = x /\ ring'[j] = y
      BY <1>2, <1>9 DEF Before
    <2> QED BY <1>1, <1>2, <1>3, <1>4, <1>6, <2>1 DEF Before
  <1>10. ASSUME NEW x, NEW y, Before(x, y), x # ring[k], y # ring[k]
         PROVE  Before(x, y)'
    <2>1. PICK i, j \in 1..n : i <= j /\ ring[i] = x /\ ring[j] = y
      BY <1>1, <1>10 DEF Before
    <2>2. i # k /\ j # k
      BY <1>10, <2>1
    <2> QED BY <1>2, <1>5, <1>7, <2>1, <2>2 DEF Before
  <1> QED BY <1>8, <1>9, <1>10

-----------------------------------------------------------------------------
(* Types.                                                                  *)

(* The types hold of every ring the walk may start on.                     *)
LEMMA InitTypeOK == Init => TypeOK
  <1> SUFFICES ASSUME Init PROVE TypeOK
    OBVIOUS
  <1>1. ring \in Seq(Module) /\ \A i, j \in DOMAIN ring : ring[i] = ring[j] => i = j
    <2>1. Cardinality(Module) \in Nat
      BY AddressAssumption, FS_CardinalityType
    <2>2. PICK n \in 0..Cardinality(Module) :
              ring \in [1..n -> Module] /\ \A i, j \in 1..n : ring[i] = ring[j] => i = j
      BY DEF Init, Rings
    <2>3. n \in Nat /\ DOMAIN ring = 1..n /\ ring \in Seq(Module)
      BY <2>1, <2>2
    <2> QED BY <2>2, <2>3
  <1>2. First(ring) \in Node /\ Final(ring) \in Node
    <2>1. ring # << >> => 1 \in DOMAIN ring /\ Len(ring) \in DOMAIN ring
      BY <1>1
    <2>2. \A i \in DOMAIN ring : ring[i] \in Module
      BY <1>1
    <2> QED BY <2>1, <2>2 DEF First, Final, Node
  <1> QED BY <1>1, <1>2, BoundAssumption DEF Init, TypeOK

(* A pass of the loop, whether or not the entry could be read.             *)
LEMMA StepTypeOK ==
    ASSUME TypeOK, Step
    PROVE  TypeOK'
  <1>1. tag' \in Node \cup {Wild} /\ entry' \in Node \cup {Wild}
    BY FlinkType DEF Step, ReadEntry, ReadFails, Readable, TypeOK
  <1>2. listed' \in Seq(Node \cup {Wild}) /\ Len(listed') <= MaxListed
    <2>1. PICK a \in Node \cup {Wild} : AddRow(a)
      BY DEF Step, ReadEntry, ReadFails, TypeOK
    <2> QED BY <2>1, BoundAssumption DEF AddRow, TypeOK
  <1>3. pc' \in {"walk", "done"}
    BY DEF Step
  <1> QED BY <1>1, <1>2, <1>3 DEF Step, TypeOK, Linked

(* A load keeps the types.                                                 *)
LEMMA LoadTypeOK ==
    ASSUME TypeOK, NEW m \in Module, Load(m)
    PROVE  TypeOK'
  <1>1. /\ ring' \in Seq(Module)
        /\ \A i, j \in DOMAIN ring' : ring'[i] = ring'[j] => i = j
    BY LoadRing DEF Load
  <1>2. \A x : Linked(x) => Linked(x)'
    BY LoadOrder DEF Load
  <1>3. changes' \in 0..MaxChanges
    BY BoundAssumption DEF Load, TypeOK
  <1> QED BY <1>1, <1>2, <1>3 DEF Load, TypeOK

(* An unload keeps the types.                                              *)
LEMMA UnloadTypeOK ==
    ASSUME TypeOK, NEW m \in Module, Unload(m)
    PROVE  TypeOK'
  <1>1. PICK k \in DOMAIN ring : ring[k] = m /\ ring' = RemoveAt(ring, k)
    BY DEF Unload
  <1>2. /\ ring' \in Seq(Module)
        /\ \A i, j \in DOMAIN ring' : ring'[i] = ring'[j] => i = j
    BY <1>1, UnloadRing
  <1>3. \A x : Linked(x) /\ x # m => Linked(x)'
    BY <1>1, UnloadOrder
  <1>4. stale' \in [Module -> Node \cup {Wild}]
    <2>1. Flink(m) \in Node \cup {Wild}
      BY FlinkType DEF Node
    <2> QED BY <2>1 DEF Unload, TypeOK
  <1>5. changes' \in 0..MaxChanges
    BY BoundAssumption DEF Unload, TypeOK
  <1> QED BY <1>2, <1>3, <1>4, <1>5 DEF Unload, TypeOK

(* Every step keeps the types.                                             *)
LEMMA NextTypeOK == TypeOK /\ [Next]_vars => TypeOK'
  <1> SUFFICES ASSUME TypeOK, [Next]_vars PROVE TypeOK'
    OBVIOUS
  <1>1. CASE Step
    BY <1>1, StepTypeOK
  <1>2. CASE Exit
    BY <1>2 DEF Exit, TypeOK, Linked
  <1>3. ASSUME NEW m \in Module, Load(m)
        PROVE  TypeOK'
    BY <1>3, LoadTypeOK
  <1>4. ASSUME NEW m \in Module, Unload(m)
        PROVE  TypeOK'
    BY <1>4, UnloadTypeOK
  <1>5. CASE UNCHANGED vars
    BY <1>5 DEF vars, TypeOK, Linked
  <1> QED BY <1>1, <1>2, <1>3, <1>4, <1>5 DEF Next, Target, Terminating

(* The local variables hold entries, the list head or garbage, and the     *)
(* ring has every entry once.                                              *)
THEOREM TypeCorrect == Spec => []TypeOK
  BY InitTypeOK, NextTypeOK, PTL DEF Spec

-----------------------------------------------------------------------------
(* A quiet target.                                                         *)

(* What has been listed of a ring that has not changed: the entries up to  *)
(* the one to read next.                                                   *)
QuietWalk ==
    changes = 0 /\ mapped /\ Len(listed) < MaxListed =>
      LET n == Len(ring)
          k == Len(listed)
      IN  /\ head = Final(ring)
          /\ n = 0 => IF pc = "walk" THEN listed = << >> /\ tag = Sentinel
                                     ELSE listed = <<Sentinel>>
          /\ n = 1 => IF pc = "walk"
                      THEN \/ listed = << >> /\ tag = ring[1]
                           \/ listed = <<ring[1]>> /\ tag = Sentinel
                      ELSE listed = <<ring[1], Sentinel>>
          /\ n > 1 => /\ \A i \in 1..k : listed[i] = ring[i]
                      /\ IF pc = "walk" THEN k + 1 < n /\ tag = ring[k + 1]
                                        ELSE k + 1 = n

(* Reading one more entry lists one more entry of the ring.                *)
LEMMA QuietStep ==
    ASSUME TypeOK, QuietWalk, Step
    PROVE  QuietWalk'
  <1> DEFINE n == Len(ring)
             k == Len(listed)
  <1> SUFFICES ASSUME changes = 0, mapped, Len(listed') < MaxListed
               PROVE  /\ head = Final(ring)
                      /\ n = 0 => IF pc' = "walk" THEN listed' = << >> /\ tag' = Sentinel
                                                  ELSE listed' = <<Sentinel>>
                      /\ n = 1 => IF pc' = "walk"
                                  THEN \/ listed' = << >> /\ tag' = ring[1]
                                       \/ listed' = <<ring[1]>> /\ tag' = Sentinel
                                  ELSE listed' = <<ring[1], Sentinel>>
                      /\ n > 1 => /\ \A i \in 1..Len(listed') : listed'[i] = ring[i]
                                  /\ IF pc' = "walk"
                                     THEN Len(listed') + 1 < n /\ tag' = ring[Len(listed') + 1]
                                     ELSE Len(listed') + 1 = n
    BY DEF QuietWalk, Step
  <1>1. n \in Nat /\ k \in Nat /\ listed \in Seq(Node \cup {Wild})
    BY DEF TypeOK
  <1>2. k < MaxListed /\ pc = "walk" /\ \A a : AddRow(a) => listed' = Append(listed, a)
    <2>1. PICK a : AddRow(a)
      BY DEF Step, ReadEntry, ReadFails
    <2>2. k < MaxListed
      BY <1>1, <2>1, BoundAssumption DEF AddRow
    <2> QED BY <2>2 DEF Step, AddRow
  <1>3. head = Final(ring)
    BY <1>2 DEF QuietWalk
  <1>a. CASE n = 0
    <2>1. listed = << >> /\ tag = Sentinel /\ head = Sentinel
      BY <1>2, <1>3, <1>a, RingFacts DEF QuietWalk, Final
    <2>2. Flink(tag) = Sentinel
      BY <1>a, <2>1, FlinkOfSentinel
    <2>3. Readable(tag)
      BY <2>1, <2>2, AddressAssumption DEF Readable, Node
    <2>4. listed' = <<Sentinel>> /\ pc' = "done"
      BY <1>2, <2>1, <2>2, <2>3 DEF Step, ReadEntry, ReadFails
    <2> QED BY <1>3, <1>a, <2>4
  <1>b. CASE n = 1
    <2>1. 1 \in DOMAIN ring /\ head = ring[1] /\ ring[1] \in Module /\ ring[1] # Sentinel
      BY <1>3, <1>b, RingFacts, AddressAssumption DEF Final
    <2>2. Flink(ring[1]) = Sentinel /\ Flink(Sentinel) = ring[1]
      BY <1>b, <2>1, FlinkOfLinked, FlinkOfSentinel
    <2>3. Readable(ring[1]) /\ Readable(Sentinel)
      BY <2>1, <2>2, AddressAssumption DEF Readable, Node
    <2>4. CASE listed = << >> /\ tag = ring[1]
      <3>1. listed' = <<ring[1]>> /\ tag' = Sentinel /\ pc' = "walk"
        BY <1>2, <2>1, <2>2, <2>3, <2>4 DEF Step, ReadEntry, ReadFails
      <3> QED BY <1>3, <1>b, <3>1
    <2>5. CASE listed = <<ring[1]>> /\ tag = Sentinel
      <3>1. listed' = <<ring[1], Sentinel>> /\ pc' = "done"
        BY <1>2, <2>1, <2>2, <2>3, <2>5 DEF Step, ReadEntry, ReadFails
      <3> QED BY <1>3, <1>b, <3>1
    <2> QED BY <1>2, <1>b, <2>4, <2>5 DEF QuietWalk
  <1>c. CASE n > 1
    <2>1. k + 1 < n /\ tag = ring[k + 1] /\ \A i \in 1..k : listed[i] = ring[i]
      BY <1>2, <1>c DEF QuietWalk
    <2>2. /\ k + 1 \in DOMAIN ring /\ k + 2 \in 1..n /\ n \in 1..n
          /\ head = ring[n] /\ ring[k + 1] \in Module /\ ring[k + 2] \in Module
      BY <1>1, <1>3, <1>c, <2>1, RingFacts DEF Final
    <2>3. Flink(tag) = ring[k + 2]
      BY <1>1, <2>1, <2>2, FlinkOfLinked
    <2>4. Readable(tag)
      BY <2>1, <2>2, <2>3, AddressAssumption DEF Readable, Node
    <2>5. listed' = Append(listed, ring[k + 1]) /\ tag' = ring[k + 2]
      BY <1>2, <2>1, <2>3, <2>4 DEF Step, ReadEntry, ReadFails
    <2>6. Len(listed') = k + 1 /\ \A i \in 1..(k + 1) : listed'[i] = ring[i]
      BY <1>1, <2>1, <2>5
    <2>7. pc' = "done" <=> k + 2 = n
      <3>1. pc' = "done" <=> ring[k + 2] = ring[n]
        BY <2>2, <2>5 DEF Step
      <3> QED BY <2>2, <3>1, RingFacts
    <2>8. pc' \in {"walk", "done"}
      BY DEF Step
    <2> QED BY <1>1, <1>3, <1>c, <2>1, <2>5, <2>6, <2>7, <2>8
  <1> HIDE DEF n
  <1>d. n = 0 \/ n = 1 \/ n > 1
    BY <1>1
  <1> QED BY <1>a, <1>b, <1>c, <1>d

(* Nothing of the ring is listed at first.                                 *)
LEMMA InitQuiet == TypeOK /\ Init => QuietWalk
  <1> SUFFICES ASSUME TypeOK, Init PROVE QuietWalk
    OBVIOUS
  <1>1. Len(ring) \in Nat /\ (ring = << >> <=> Len(ring) = 0)
    BY RingFacts
  <1>2. Len(listed) = 0 /\ listed = << >> /\ \A i \in 1..Len(listed) : FALSE
    BY DEF Init
  <1> QED BY <1>1, <1>2 DEF Init, QuietWalk, First, Final

(* A target that leaves its ring alone has all its modules listed but the  *)
(* last, in order, and the list head when there are fewer than two.        *)
THEOREM QuietRight == Spec => []QuietTargetListed
  <1>1. TypeOK /\ QuietWalk /\ [Next]_vars => QuietWalk'
    <2> SUFFICES ASSUME TypeOK, QuietWalk, [Next]_vars PROVE QuietWalk'
      OBVIOUS
    <2>1. CASE Step
      BY <2>1, QuietStep
    <2>2. CASE Exit
      BY <2>2 DEF Exit, QuietWalk
    <2>3. ASSUME NEW m \in Module, Load(m) \/ Unload(m)
          PROVE  QuietWalk'
      <3>1. changes \in Nat /\ changes' = changes + 1
        BY <2>3, BoundAssumption DEF Load, Unload, TypeOK
      <3>2. changes' # 0
        BY <3>1
      <3> QED BY <3>2 DEF QuietWalk
    <2>4. CASE UNCHANGED vars
      BY <2>4 DEF vars, QuietWalk
    <2> QED BY <2>1, <2>2, <2>3, <2>4 DEF Next, Target, Terminating
  <1>2. TypeOK /\ QuietWalk => QuietTargetListed
    <2> SUFFICES ASSUME TypeOK, QuietWalk, pc = "done", changes = 0, mapped,
                        Len(listed) < MaxListed
                 PROVE  listed = Report
      BY DEF QuietTargetListed
    <2> DEFINE n == Len(ring)
    <2>1. n \in Nat /\ ring \in Seq(Module) /\ listed \in Seq(Node \cup {Wild})
      BY DEF TypeOK
    <2>2. CASE n = 0
      BY <2>2 DEF QuietWalk, Report
    <2>3. CASE n = 1
      BY <2>3 DEF QuietWalk, Report
    <2>4. CASE n > 1
      <3>1. Len(listed) + 1 = n /\ \A i \in 1..Len(listed) : listed[i] = ring[i]
        BY <2>4 DEF QuietWalk
      <3>2. /\ SubSeq(ring, 1, n - 1) \in Seq(Module) /\ Len(SubSeq(ring, 1, n - 1)) = n - 1
            /\ \A i \in 1..(n - 1) : SubSeq(ring, 1, n - 1)[i] = ring[i]
        BY <2>1, <2>4
      <3>3. listed = SubSeq(ring, 1, n - 1)
        <4>1. SubSeq(ring, 1, n - 1) \in Seq(Node \cup {Wild})
          BY <3>2 DEF Node
        <4> QED BY <2>1, <3>1, <3>2, <4>1, SeqEqual
      <3> QED BY <2>1, <2>4, <3>3 DEF Report
    <2> HIDE DEF n
    <2>5. n = 0 \/ n = 1 \/ n > 1
      BY <2>1
    <2> QED BY <2>2, <2>3, <2>4, <2>5
  <1> QED BY <1>1, <1>2, InitQuiet, InitTypeOK, TypeCorrect, PTL DEF Spec

-----------------------------------------------------------------------------
(* Modules that stay.                                                      *)

(* Which steady modules are still to come when the walk is at an entry: in *)
(* the ring up to head those from the entry on; beyond head, and at the    *)
(* list head, all of them, since the walk comes round; and at an unlinked  *)
(* entry no more than at the entry it still leads to.                      *)
Leads(ahead) ==
    /\ \A a \in Node : a = Sentinel \/ Linked(a) =>
         ahead[a] = {m \in steady : Before(a, head) => Before(a, m)}
    /\ \A a \in Module : ~Linked(a) /\ stale[a] # Wild => ahead[a] \subseteq ahead[stale[a]]

(* A module that stays and has not been listed is still to come.           *)
SteadyWalk ==
    pc = "walk" /\ head \in steady =>
        /\ \A m \in steady : Before(m, head)
        /\ \E ahead \in [Node -> SUBSET steady] :
             /\ Leads(ahead)
             /\ Len(listed) < MaxListed /\ Wild \notin Range(listed) =>
                  tag \in Node /\ steady \ Range(listed) \subseteq ahead[tag]

(* Appending adds one element to the range.                                *)
LEMMA RangeOfAppend ==
    ASSUME NEW S, NEW s \in Seq(S), NEW a
    PROVE  Range(Append(s, a)) = Range(s) \cup {a}
  <1>1. /\ Len(s) \in Nat /\ DOMAIN s = 1..Len(s) /\ DOMAIN Append(s, a) = 1..(Len(s) + 1)
        /\ \A i \in 1..Len(s) : Append(s, a)[i] = s[i]
        /\ Append(s, a)[Len(s) + 1] = a
    OBVIOUS
  <1>2. \A i \in 1..(Len(s) + 1) : i \in 1..Len(s) \/ i = Len(s) + 1
    BY <1>1
  <1>3. Len(s) + 1 \in 1..(Len(s) + 1) /\ \A i \in 1..Len(s) : i \in 1..(Len(s) + 1)
    BY <1>1
  <1>4. \A x \in Range(Append(s, a)) : x \in Range(s) \cup {a}
    BY <1>1, <1>2 DEF Range
  <1>5. \A x \in Range(s) \cup {a} : x \in Range(Append(s, a))
    BY <1>1, <1>3 DEF Range
  <1> QED BY <1>4, <1>5

(* Reading an entry leaves all that is to come but the entry itself.       *)
LEMMA Forward ==
    ASSUME TypeOK, head \in steady, \A m \in steady : Before(m, head),
           NEW ahead \in [Node -> SUBSET steady], Leads(ahead),
           NEW a \in Node, Flink(a) # Wild,
           NEW m \in ahead[a], m # a
    PROVE  m \in ahead[Flink(a)]
  <1>1. /\ Len(ring) \in Nat /\ DOMAIN ring = 1..Len(ring)
        /\ \A i, j \in 1..Len(ring) : ring[i] = ring[j] => i = j
    BY RingFacts
  <1>2. \A x \in steady : x \in Module /\ Linked(x)
    BY DEF TypeOK
  <1>3. ahead[Sentinel] = steady
    <2>1. ~Before(Sentinel, head)
      BY RingFacts DEF Before, Linked
    <2>2. ahead[Sentinel] = {x \in steady : Before(Sentinel, head) => Before(Sentinel, x)}
      BY DEF Leads, Node
    <2> QED BY <2>1, <2>2
  <1>4. CASE a = Sentinel
    <2>1. m \in steady
      BY <1>3, <1>4
    <2>2. PICK i \in DOMAIN ring : ring[i] = m
      BY <1>2, <2>1 DEF Linked
    <2>3. 1 \in DOMAIN ring /\ 1 <= i /\ Len(ring) # 0
      BY <1>1, <2>2
    <2>4. Flink(a) = ring[1] /\ Linked(ring[1]) /\ ring[1] \in Node
      BY <1>4, <2>3, FlinkOfSentinel, FlinkOfLinked DEF Node
    <2>5. Before(ring[1], m)
      BY <2>2, <2>3 DEF Before
    <2> QED BY <2>1, <2>4, <2>5 DEF Leads
  <1>5. CASE Linked(a)
    <2>1. PICK i \in DOMAIN ring : ring[i] = a
      BY <1>5 DEF Linked
    <2>2. m \in steady /\ (Before(a, head) => Before(a, m))
      BY <1>5 DEF Leads
    <2>3. CASE i = Len(ring)
      BY <1>3, <2>1, <2>2, <2>3, FlinkOfLinked
    <2>4. CASE i # Len(ring)
      <3> DEFINE f == ring[i + 1]
      <3>1. i + 1 \in DOMAIN ring
        BY <1>1, <2>1, <2>4
      <3>2. Flink(a) = f /\ Linked(f) /\ f \in Node
        BY <2>1, <2>4, <3>1, FlinkOfLinked DEF Node
      <3>3. ASSUME Before(f, head)
            PROVE  Before(f, m)
        <4>1. PICK h \in DOMAIN ring : i + 1 <= h /\ ring[h] = head
          BY <1>1, <3>1, <3>3 DEF Before
        <4>2. Before(a, head)
          <5>1. i <= h
            BY <1>1, <2>1, <4>1
          <5> QED BY <2>1, <4>1, <5>1 DEF Before
        <4>3. PICK j \in DOMAIN ring : i <= j /\ ring[j] = m
          BY <1>1, <2>1, <2>2, <4>2 DEF Before
        <4>4. i + 1 <= j
          BY <1>1, <2>1, <4>3
        <4> QED BY <3>1, <4>3, <4>4 DEF Before
      <3> QED BY <2>2, <3>2, <3>3 DEF Leads
    <2> QED BY <2>3, <2>4
  <1>6. CASE a # Sentinel /\ ~Linked(a)
    <2>1. Flink(a) = stale[a] /\ a \in Module
      BY <1>6, FlinkOfUnlinked DEF Node
    <2> QED BY <1>6, <2>1 DEF Leads
  <1> QED BY <1>4, <1>5, <1>6

(* When the walk has come to head, nothing but head is to come.            *)
LEMMA NothingAhead ==
    ASSUME TypeOK, head \in steady, \A m \in steady : Before(m, head),
           NEW ahead, Leads(ahead), NEW m \in ahead[head]
    PROVE  m = head
  <1>1. Linked(head) /\ head \in Node
    BY DEF TypeOK
  <1>2. Before(head, head)
    BY <1>1, RingFacts DEF Before, Linked
  <1>3. m \in steady /\ Before(head, m) /\ Before(m, head)
    BY <1>1, <1>2 DEF Leads
  <1> QED BY <1>3, RingFacts DEF Before

-----------------------------------------------------------------------------
(* At first what is ahead of an entry is what stands behind it in the      *)
(* ring.                                                                   *)
LEMMA InitSteady == TypeOK /\ Init => SteadyWalk
  <1> SUFFICES ASSUME TypeOK, Init, head \in steady PROVE SteadyWalk
    BY DEF SteadyWalk
  <1> DEFINE n == Len(ring)
             ahead == [a \in Node |-> {m \in steady : Before(a, head) => Before(a, m)}]
  <1>1. n \in Nat /\ DOMAIN ring = 1..n /\ head \in Module /\ (ring = << >> <=> n = 0)
    BY RingFacts DEF TypeOK
  <1>2. n # 0
    BY <1>1, AddressAssumption DEF Init, Final
  <1>3. n \in DOMAIN ring /\ 1 \in DOMAIN ring /\ head = ring[n] /\ tag = ring[1]
    BY <1>1, <1>2 DEF Init, Final, First
  <1>4. \A m \in steady : \E i \in 1..n : ring[i] = m
    BY <1>1 DEF Init, Linked
  <1>5. \A m \in steady : Before(m, head) /\ Before(tag, m)
    <2>1. \A i \in 1..n : 1 <= i /\ i <= n
      BY <1>1
    <2> QED BY <1>1, <1>3, <1>4, <2>1 DEF Before
  <1>6. ahead \in [Node -> SUBSET steady]
    BY DEF TypeOK
  <1>7. Leads(ahead)
    BY DEF Leads, Init
  <1>8. tag \in Node /\ steady \ Range(listed) \subseteq ahead[tag]
    BY <1>3, <1>5, RingFacts DEF Node
  <1> QED BY <1>5, <1>6, <1>7, <1>8 DEF SteadyWalk

(* Reading an entry lists it, and what else was ahead of it stays ahead.   *)
LEMMA StepSteady ==
    ASSUME TypeOK, SteadyWalk, Step
    PROVE  SteadyWalk' /\ SteadyModulesListed'
  <1> SUFFICES ASSUME head \in steady
               PROVE  SteadyWalk' /\ SteadyModulesListed'
    BY DEF Step, SteadyWalk, SteadyModulesListed
  <1>1. /\ pc = "walk" /\ UNCHANGED <<ring, stale, head, steady>>
        /\ \A m \in steady : Before(m, head)
    BY DEF Step, SteadyWalk
  <1>2. PICK ahead \in [Node -> SUBSET steady] :
            /\ Leads(ahead)
            /\ Len(listed) < MaxListed /\ Wild \notin Range(listed) =>
                 tag \in Node /\ steady \ Range(listed) \subseteq ahead[tag]
    BY <1>1 DEF SteadyWalk
  <1>3. Leads(ahead)' /\ \A m \in steady : Before(m, head)'
    BY <1>1, <1>2 DEF Leads, Before, Linked
  <1>4. ASSUME Len(listed') < MaxListed, Wild \notin Range(listed')
        PROVE  tag' \in Node /\ steady \ Range(listed') \subseteq ahead[tag']
    <2>1. PICK a \in {tag, Wild} : AddRow(a) /\ (a # Wild => ReadEntry /\ a = tag)
      BY DEF Step, ReadEntry, ReadFails
    <2>2. Len(listed) < MaxListed /\ listed' = Append(listed, a)
      BY <1>4, <2>1, BoundAssumption DEF AddRow, TypeOK
    <2>3. Range(listed') = Range(listed) \cup {a}
      BY <2>2, RangeOfAppend DEF TypeOK
    <2>4. a = tag /\ ReadEntry /\ tag \in Node /\ steady \ Range(listed) \subseteq ahead[tag]
      BY <1>2, <1>4, <2>1, <2>2, <2>3
    <2>5. tag' = Flink(tag) /\ Flink(tag) # Wild
      BY <2>4 DEF ReadEntry, Readable
    <2>6. \A m \in steady \ Range(listed') : m \in ahead[tag']
      BY <1>1, <1>2, <2>3, <2>4, <2>5, Forward
    <2>7. tag' \in Node
      BY <2>4, <2>5, FlinkType
    <2> QED BY <2>6, <2>7
  <1>5. SteadyWalk'
    BY <1>1, <1>3, <1>4 DEF SteadyWalk
  <1>6. SteadyModulesListed'
    <2> SUFFICES ASSUME pc' = "done", Len(listed') < MaxListed, Wild \notin Range(listed'),
                        NEW m \in steady, m \notin Range(listed')
                 PROVE  m = head
      BY <1>1 DEF SteadyModulesListed
    <2>1. tag' = head
      BY DEF Step
    <2>2. m \in ahead[head]
      BY <1>4, <2>1
    <2> QED BY <1>1, <1>2, <2>2, NothingAhead
  <1> QED BY <1>5, <1>6

(* A load puts no module between an entry and what is ahead of it.         *)
LEMMA LoadSteady ==
    ASSUME TypeOK, SteadyWalk, NEW n \in Module, Load(n), pc = "walk"
    PROVE  SteadyWalk'
  <1> SUFFICES ASSUME head \in steady PROVE SteadyWalk'
    BY DEF Load, SteadyWalk
  <1>1. /\ ~Linked(n) /\ ring' = Append(ring, n)
        /\ UNCHANGED <<stale, head, tag, listed, steady, pc>>
    BY DEF Load
  <1>2. /\ \A x : Linked(x)' <=> Linked(x) \/ x = n
        /\ \A x, y : Before(x, y)' <=> Before(x, y) \/ ((Linked(x) \/ x = n) /\ y = n)
    BY <1>1, LoadOrder
  <1>3. n # head /\ n \notin steady /\ \A m \in steady : Before(m, head)
    BY <1>1 DEF TypeOK, SteadyWalk
  <1>4. PICK ahead \in [Node -> SUBSET steady] :
            /\ Leads(ahead)
            /\ Len(listed) < MaxListed /\ Wild \notin Range(listed) =>
                 tag \in Node /\ steady \ Range(listed) \subseteq ahead[tag]
    BY DEF SteadyWalk
  <1> DEFINE next == [ahead EXCEPT ![n] = steady]
  <1>5. next \in [Node -> SUBSET steady] /\ steady \subseteq Module /\ n \in Node
    BY DEF TypeOK, Node
  <1>6. \A x : ~Before(n, x)
    BY <1>1 DEF Before, Linked
  <1>7. Leads(next)'
    <2>1. ASSUME NEW a \in Node, a = Sentinel \/ Linked(a)'
          PROVE  next[a] = {m \in steady : Before(a, head)' => Before(a, m)'}
      <3>1. CASE a = n
        BY <1>1, <1>2, <1>3, <1>5, <1>6, <3>1
      <3>2. CASE a # n
        <4>1. next[a] = {m \in steady : Before(a, head) => Before(a, m)}
          BY <1>2, <1>4, <1>5, <2>1, <3>2 DEF Leads
        <4> QED BY <1>1, <1>2, <1>3, <4>1
      <3> QED BY <3>1, <3>2
    <2>2. ASSUME NEW a \in Module, ~Linked(a)', stale[a] # Wild
          PROVE  next[a] \subseteq next[stale[a]]
      <3>1. a # n /\ ~Linked(a) /\ a \in Node /\ stale[a] \in Node
        BY <1>2, <2>2 DEF TypeOK, Node
      <3>2. next[a] = ahead[a] /\ ahead[a] \subseteq ahead[stale[a]]
        BY <1>4, <1>5, <2>2, <3>1 DEF Leads
      <3>3. CASE stale[a] # n
        BY <1>5, <3>1, <3>2, <3>3
      <3>4. CASE stale[a] = n
        BY <1>5, <3>1, <3>2, <3>4
      <3> QED BY <3>3, <3>4
    <2> QED BY <1>1, <2>1, <2>2 DEF Leads
  <1>8. tag \in Node /\ steady \ Range(listed) \subseteq ahead[tag] =>
            steady \ Range(listed) \subseteq next[tag]
    BY <1>5
  <1>9. \A m \in steady : Before(m, head)'
    BY <1>1, <1>2, <1>3
  <1> QED BY <1>1, <1>4, <1>5, <1>7, <1>8, <1>9 DEF SteadyWalk

(* An unload leads over the module that goes, which is not steady any      *)
(* more.                                                                   *)
LEMMA UnloadSteady ==
    ASSUME TypeOK, SteadyWalk, NEW n \in Module, Unload(n), pc = "walk"
    PROVE  SteadyWalk'
  <1> SUFFICES ASSUME head \in steady' PROVE SteadyWalk'
    BY DEF Unload, SteadyWalk
  <1>1. PICK k \in DOMAIN ring : ring[k] = n /\ ring' = RemoveAt(ring, k)
    BY DEF Unload
  <1>2. /\ \A x : Linked(x)' <=> Linked(x) /\ x # n
        /\ \A x, y : Before(x, y)' <=> Before(x, y) /\ x # n /\ y # n
    BY <1>1, UnloadOrder
  <1>3. /\ head \in steady /\ head # n /\ steady' = steady \ {n}
        /\ UNCHANGED <<head, tag, listed, pc>>
        /\ \A m \in steady : Before(m, head)
    BY DEF Unload, SteadyWalk
  <1>4. PICK ahead \in [Node -> SUBSET steady] :
            /\ Leads(ahead)
            /\ Len(listed) < MaxListed /\ Wild \notin Range(listed) =>
                 tag \in Node /\ steady \ Range(listed) \subseteq ahead[tag]
    BY <1>3 DEF SteadyWalk
  <1> DEFINE next == [a \in Node |-> ahead[a] \ {n}]
  <1>5. next \in [Node -> SUBSET steady']
    BY <1>3
  <1>6. Leads(next)'
    <2>1. ASSUME NEW a \in Node, a = Sentinel \/ Linked(a)'
          PROVE  next[a] = {m \in steady' : Before(a, head)' => Before(a, m)'}
      <3>1. a # n
        BY <1>1, <1>2, <2>1, FlinkOfLinked
      <3>2. ahead[a] = {m \in steady : Before(a, head) => Before(a, m)}
        BY <1>2, <1>4, <2>1 DEF Leads
      <3> QED BY <1>2, <1>3, <3>1, <3>2
    <2>2. ASSUME NEW a \in Module, ~Linked(a)', stale'[a] # Wild
          PROVE  next[a] \subseteq next[stale'[a]]
      <3>1. CASE a = n
        <4>1. stale'[a] = Flink(n) /\ n \in Node /\ Flink(n) \in Node
          BY <2>2, <3>1, FlinkType DEF Unload, TypeOK, Node
        <4>2. \A m \in ahead[n] : m # n => m \in ahead[Flink(n)]
          BY <1>3, <1>4, <2>2, <3>1, <4>1, Forward
        <4> QED BY <3>1, <4>1, <4>2
      <3>2. CASE a # n
        <4>1. stale'[a] = stale[a] /\ stale[a] \in Node /\ a \in Node /\ ~Linked(a)
          BY <1>2, <2>2, <3>2 DEF Unload, TypeOK, Node
        <4> QED BY <1>4, <2>2, <4>1 DEF Leads
      <3> QED BY <3>1, <3>2
    <2> QED BY <1>3, <2>1, <2>2 DEF Leads
  <1>7. tag \in Node /\ steady \ Range(listed) \subseteq ahead[tag] =>
            steady' \ Range(listed) \subseteq next[tag]
    BY <1>3
  <1>8. \A m \in steady' : Before(m, head)'
    BY <1>2, <1>3
  <1> QED BY <1>3, <1>4, <1>5, <1>6, <1>7, <1>8 DEF SteadyWalk

(* A module that is loaded from the beginning of the walk to its end is    *)
(* listed, unless it was the last, whatever comes and goes around it.      *)
THEOREM SteadyRight == Spec => []SteadyModulesListed
  <1> DEFINE IInv == SteadyWalk /\ SteadyModulesListed
  <1>1. TypeOK /\ Init => IInv
    BY InitSteady DEF Init, SteadyModulesListed
  <1>2. TypeOK /\ IInv /\ [Next]_vars => IInv'
    <2> SUFFICES ASSUME TypeOK, IInv, [Next]_vars PROVE IInv'
      OBVIOUS
    <2>1. CASE Step
      BY <2>1, StepSteady
    <2>2. CASE pc = "walk" /\ Exit
      <3>1. \A ahead : Leads(ahead)' <=> Leads(ahead)
        BY <2>2 DEF Exit, Leads, Before, Linked
      <3>2. \A m : Before(m, head)' <=> Before(m, head)
        BY <2>2 DEF Exit, Before
      <3> QED BY <2>2, <3>1, <3>2 DEF Exit, SteadyWalk, SteadyModulesListed
    <2>3. ASSUME NEW m \in Module, pc = "walk", Load(m)
          PROVE  IInv'
      BY <2>3, LoadSteady DEF Load, SteadyModulesListed
    <2>4. ASSUME NEW m \in Module, pc = "walk", Unload(m)
          PROVE  IInv'
      BY <2>4, UnloadSteady DEF Unload, SteadyModulesListed
    <2>5. CASE UNCHANGED vars
      <3>1. \A ahead : Leads(ahead)' <=> Leads(ahead)
        BY <2>5 DEF vars, Leads, Before, Linked
      <3>2. \A m : Before(m, head)' <=> Before(m, head)
        BY <2>5 DEF vars, Before
      <3> QED BY <2>5, <3>1, <3>2 DEF vars, SteadyWalk, SteadyModulesListed
    <2> QED BY <2>1, <2>2, <2>3, <2>4, <2>5 DEF Next, Target, Terminating
  <1> QED BY <1>1, <1>2, InitTypeOK, TypeCorrect, PTL DEF Spec

-----------------------------------------------------------------------------
(* A target that exits.                                                    *)

(* Once an entry was read, entry and tag are the same link, and it is not  *)
(* the one the walk stops at.                                              *)
LastLink == pc = "walk" /\ entry # Wild => tag = entry /\ tag # head

(* After the first entry a target that exits stops the walk for good: no   *)
(* later pass of the loop changes anything but the report.                 *)
THEOREM ExitHangs == Spec => ExitedTargetHangs
  <1>1. Init => LastLink
    BY DEF Init, LastLink
  <1>2. LastLink /\ [Next]_vars => LastLink'
    <2> SUFFICES ASSUME LastLink, [Next]_vars PROVE LastLink'
      OBVIOUS
    <2>1. CASE Step
      BY <2>1 DEF Step, ReadEntry, ReadFails, LastLink
    <2>2. CASE UNCHANGED <<head, tag, entry, pc>>
      BY <2>2 DEF LastLink
    <2> QED
      BY <2>1, <2>2 DEF Next, Target, Terminating, Load, Unload, Exit, vars
  <1>3. LastLink /\ [Next]_vars => [~mapped /\ entry # Wild => tag' = tag /\ pc' = pc]_vars
    <2> SUFFICES ASSUME LastLink, Next, ~mapped, entry # Wild
                 PROVE  tag' = tag /\ pc' = pc
      OBVIOUS
    <2>1. CASE Step
      BY <2>1 DEF Step, ReadEntry, ReadFails, Readable, LastLink
    <2>2. CASE UNCHANGED <<tag, pc>>
      BY <2>2
    <2> QED
      BY <2>1, <2>2 DEF Next, Target, Terminating, Load, Unload, Exit, vars
  <1> QED BY <1>1, <1>2, <1>3, PTL DEF Spec, ExitedTargetHangs
=============================================================================

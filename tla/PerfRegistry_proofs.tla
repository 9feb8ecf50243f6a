------------------------- MODULE PerfRegistry_proofs -------------------------
(***************************************************************************)
(* Proofs about PerfRegistry, for any set of title indices, any libraries  *)
(* that come and go, and any buffer sizes: the names and objects that are  *)
(* joined, the reports made of them, and the use main shows.               *)
(***************************************************************************)
EXTENDS PerfRegistry, FiniteSetTheorems, FunctionTheorems, SequenceTheorems, TLAPS

-----------------------------------------------------------------------------
(* The order of the names.                                                 *)

(* How many indices of S are below x.                                      *)
Rank(S, x) == Cardinality({y \in S : y < x})

(* The indices of S have the ranks 0 to |S| - 1, each has its own, and a   *)
(* smaller index has a smaller rank.                                       *)
LEMMA RankFacts ==
    ASSUME NEW S \in SUBSET Nat, IsFiniteSet(S)
    PROVE  /\ Cardinality(S) \in Nat
           /\ \A x \in S : Rank(S, x) \in 0..(Cardinality(S) - 1)
           /\ \A x, y \in S : x < y => Rank(S, x) < Rank(S, y)
  <1> DEFINE Below(x) == {y \in S : y < x}
  <1>1. Cardinality(S) \in Nat
    BY FS_CardinalityType
  <1>2. ASSUME NEW T \in SUBSET S, NEW U \in SUBSET T, NEW x \in T \ U
        PROVE  Cardinality(U) \in Nat /\ Cardinality(T) \in Nat /\ Cardinality(U) < Cardinality(T)
    <2>1. IsFiniteSet(T)
      BY FS_Subset
    <2>2. IsFiniteSet(U) /\ Cardinality(U) <= Cardinality(T)
          /\ (Cardinality(T) = Cardinality(U) => T = U)
      BY <2>1, FS_Subset
    <2>3. Cardinality(U) \in Nat /\ Cardinality(T) \in Nat
      BY <2>1, <2>2, FS_CardinalityType
    <2> QED BY <2>2, <2>3
  <1>3. ASSUME NEW x \in S
        PROVE  Rank(S, x) \in 0..(Cardinality(S) - 1)
    <2>1. Below(x) \in SUBSET S /\ x \in S \ Below(x)
      OBVIOUS
    <2>2. Cardinality(Below(x)) \in Nat /\ Cardinality(Below(x)) < Cardinality(S)
      BY <2>1, <1>2
    <2>3. PICK m \in Nat, n \in Nat : m = Cardinality(Below(x)) /\ n = Cardinality(S)
      BY <1>1, <2>2
    <2>4. m \in 0..(n - 1)
      BY <2>2, <2>3
    <2> QED BY <2>3, <2>4 DEF Rank
  <1>4. ASSUME NEW x \in S, NEW y \in S, x < y
        PROVE  Rank(S, x) < Rank(S, y)
    <2>1. Below(y) \in SUBSET S /\ Below(x) \in SUBSET Below(y) /\ x \in Below(y) \ Below(x)
      <3>1. \A z \in S : z < x => z < y
        BY <1>4
      <3>2. ~(x < x)
        BY <1>4
      <3> QED BY <1>4, <3>1, <3>2
    <2> QED BY <2>1, <1>2 DEF Rank
  <1> QED BY <1>1, <1>3, <1>4

(* A finite set of indices has an order, every index has a place in it and *)
(* no index has two.                                                       *)
LEMMA AscendingIs ==
    ASSUME NEW S \in SUBSET Nat, IsFiniteSet(S)
    PROVE  /\ Cardinality(S) \in Nat
           /\ Ascending(S) \in [1..Cardinality(S) -> S]
           /\ \A i, j \in 1..Cardinality(S) : i < j => Ascending(S)[i] < Ascending(S)[j]
           /\ \A x \in S : \E i \in 1..Cardinality(S) : Ascending(S)[i] = x
  <1> DEFINE n == Cardinality(S)
             Sorted(s) == \A i, j \in DOMAIN s : i < j => s[i] < s[j]
             rank == [x \in S |-> Rank(S, x) + 1]
  <1>1. n \in Nat /\ IsFiniteSet(1..n) /\ Cardinality(1..n) = n
    <2>1. n \in Nat
      BY FS_CardinalityType
    <2> QED BY <2>1, FS_Interval
  <1>2. rank \in [S -> 1..n]
    BY <1>1, RankFacts
  <1>3. \A x, y \in S : rank[x] = rank[y] => x = y
    BY <1>1, RankFacts
  <1>4. rank \in Injection(S, 1..n)
    BY <1>2, <1>3, Fun_IsInj
  <1> HIDE DEF n, rank
  <1>5. rank \in Surjection(S, 1..n)
    BY <1>1, <1>4, FS_Injection DEF n
  <1>6. \A i \in 1..n : \E x \in S : rank[x] = i
    BY <1>5, Fun_SurjectionProperties
  <1> DEFINE s == [i \in 1..n |-> CHOOSE x \in S : rank[x] = i]
  <1>7. \A i \in 1..n : s[i] \in S /\ rank[s[i]] = i
    BY <1>6
  <1>8. s \in [1..n -> S] /\ DOMAIN s = 1..n
    BY <1>7
  <1>9. Sorted(s)
    <2> SUFFICES ASSUME NEW i \in 1..n, NEW j \in 1..n, i < j
                 PROVE  s[i] < s[j]
      BY <1>8
    <2>1. s[i] \in S /\ s[j] \in S /\ rank[s[i]] = i /\ rank[s[j]] = j
      BY <1>7
    <2>2. PICK x \in S, y \in S : x = s[i] /\ y = s[j]
      BY <2>1
    <2>3. Rank(S, x) + 1 = i /\ Rank(S, y) + 1 = j
      BY <2>1, <2>2 DEF rank
    <2>4. Rank(S, x) \in 0..(n - 1) /\ Rank(S, y) \in 0..(n - 1)
      BY RankFacts DEF n
    <2>6. Rank(S, x) < Rank(S, y)
      BY <1>1, <2>3, <2>4
    <2>7. ~(y < x) /\ x # y
      <3>1. y < x => Rank(S, y) < Rank(S, x)
        BY RankFacts
      <3>2. x = y => Rank(S, x) = Rank(S, y)
        OBVIOUS
      <3> QED BY <3>1, <3>2, <2>4, <2>6, <1>1
    <2>5. x \in Nat /\ y \in Nat
      OBVIOUS
    <2> QED BY <2>2, <2>5, <2>7
  <1>10. \E t \in [1..n -> S] : Sorted(t)
    BY <1>8, <1>9
  <1>11. Ascending(S) \in [1..n -> S] /\ Sorted(Ascending(S))
    BY <1>10 DEF Ascending, n
  <1> DEFINE a == Ascending(S)
  <1>12. \A i, j \in 1..n : i < j => a[i] < a[j]
    BY <1>11
  <1>13. \A i, j \in 1..n : a[i] = a[j] => i = j
    <2> SUFFICES ASSUME NEW i \in 1..n, NEW j \in 1..n, a[i] = a[j] PROVE i = j
      OBVIOUS
    <2>1. a[i] \in Nat /\ a[j] \in Nat
      BY <1>11
    <2>2. ~(i < j) /\ ~(j < i)
      BY <1>12, <2>1
    <2> QED BY <2>2
  <1>14. a \in Injection(1..n, S)
    BY <1>11, <1>13, Fun_IsInj
  <1>15. a \in Surjection(1..n, S)
    <2>1. Cardinality(1..n) = Cardinality(S)
      BY <1>1 DEF n
    <2> HIDE DEF a
    <2> QED BY <1>1, <1>14, <2>1, FS_Injection
  <1>16. a \in [1..n -> S]
    BY <1>11
  <1> HIDE DEF a, Sorted
  <1>17. \A x \in S : \E i \in 1..n : a[i] = x
    BY <1>15 DEF Surjection
  <1> QED BY <1>1, <1>12, <1>16, <1>17 DEF n, a

-----------------------------------------------------------------------------
(* Types.                                                                  *)

(* The reports that one function opens, prints and closes.                 *)
Prints == Name \ {PERFOBJ}

(* A step on a report that is still to be made.                            *)
TodoStep ==
    [does : {"open", "close"}, on : Prints] \cup [does : {"row"}, on : Prints, row : Row]

ReportOK == ReportType(Name, Row)

Texts == {"PerfObjEnumerator", "test_pdh_process", "testHelp", "testCounter"}

(* Where the functions of a producer are.                                  *)
LabelOK ==
    \/ pc \in {"idle", "exited"} /\ job = "none"
    \/ pc \in {"size", "read"} /\ job \in Texts
    \/ pc \in {"objects", "row", "load"} /\ job = "PerfObjEnumerator"
    \/ pc \in {"data", "walk"} /\ job = "test_pdh_process"

(* The names that were read are all those of a moment since the function   *)
(* began, or none; what a label does not use is empty.                     *)
ControlOK ==
    /\ named \subseteq Index /\ Core \subseteq named
    /\ LabelOK
    /\ names \subseteq Index /\ (names # {} => Core \cup steady \subseteq names)
    /\ pc \in {"idle", "exited", "size", "read"} => names = {}
    /\ objs \in Seq(Object) /\ (pc # "row" => objs = << >>)
    /\ szBuffer \in Seq(Index) /\ Len(szBuffer) <= 2
    /\ (pc \notin {"row", "load"} => szBuffer = << >>)
    /\ dwSize \in Nat
    /\ steady \subseteq named
    /\ todo \in Seq(TodoStep) /\ (pc \notin {"idle", "objects", "data"} => todo = << >>)
    /\ called \in [Producer \X Op -> Nat]
    /\ misused \in BOOLEAN

TypeInv == ControlOK /\ ReportOK

(* Linking a row, whether it lands in a tree or crashes, keeps the types.  *)
LEMMA LinkRowType ==
    ASSUME NEW n \in Name, NEW row \in Row, ReportOK, LinkRow(n, row)
    PROVE  ReportOK'
  <1>1. CASE n \in m_root
    <2>1. Append(tree[n], row) \in Seq(Row)
      BY DEF ReportOK, ReportType
    <2>2. tree' = [tree EXCEPT ![n] = Append(tree[n], row)]
      BY <1>1 DEF LinkRow
    <2>3. tree' \in [Name -> Seq(Row)]
      BY <2>1, <2>2 DEF ReportOK, ReportType
    <2> QED BY <1>1, <2>3 DEF LinkRow, ReportOK, ReportType
  <1>2. CASE n \notin m_root
    BY <1>2 DEF LinkRow, Crash, ReportOK, ReportType
  <1> QED BY <1>1, <1>2

(* Getting the document of a report and its root keeps the types.          *)
LEMMA InitializeType ==
    ASSUME NEW n \in Name, ReportOK, InitializeUnchecked(n)
    PROVE  ReportOK'
  <1>1. << >> \in Seq(Row)
    OBVIOUS
  <1> QED BY <1>1 DEF InitializeUnchecked, GetDocument, NewRoot, ReportOK, ReportType

(* Writing a report and freeing it keeps the types.                        *)
LEMMA CloseReportType ==
    ASSUME NEW n \in Name, ReportOK, CloseReport(n)
    PROVE  ReportOK'
  <1>1. CASE Crash(n)
    BY <1>1 DEF Crash, ReportOK, ReportType
  <1>2. CASE SaveFile(n) /\ Release(n) /\ UNCHANGED <<m_map, m_bWork, crash>>
    <2>1. << >> \in Seq(Row) /\ tree[n] \in Seq(Row)
      BY DEF ReportOK, ReportType
    <2>2. tree' \in [Name -> Seq(Row)] /\ files' \in [Name -> Seq(Row)]
      BY <1>2, <2>1 DEF SaveFile, Release, ReportOK, ReportType
    <2> QED BY <1>2, <2>2 DEF SaveFile, Release, ReportOK, ReportType
  <1> QED BY <1>1, <1>2 DEF CloseReport

-----------------------------------------------------------------------------
(* The values of the local variables.                                      *)

(* A row has an index, and one or two for its name.                        *)
LEMMA RowIs ==
    ASSUME NEW o \in Index, NEW s \in Seq(Index), Len(s) \in 1..2
    PROVE  [of |-> o, name |-> s] \in Row
  <1>1. s \in [1..Len(s) -> Index]
    OBVIOUS
  <1>2. s \in [1..1 -> Index] \cup [1..2 -> Index]
    BY <1>1
  <1> QED BY <1>2 DEF Row

(* A name is the index, once or twice.                                     *)
LEMMA NameIs ==
    ASSUME NEW o \in Index
    PROVE  /\ NameOf(o) \in Seq(Index)
           /\ Len(NameOf(o)) = IF o \in LongName THEN 2 ELSE 1
           /\ [of |-> o, name |-> NameOf(o)] \in Row
  <1>1. <<o, o>> \in Seq(Index) /\ Len(<<o, o>>) = 2 /\ <<o>> \in Seq(Index) /\ Len(<<o>>) = 1
    OBVIOUS
  <1>2. NameOf(o) \in Seq(Index) /\ Len(NameOf(o)) = IF o \in LongName THEN 2 ELSE 1
    BY <1>1 DEF NameOf
  <1>3. Len(NameOf(o)) \in 1..2
    BY <1>2
  <1> QED BY <1>2, <1>3, RowIs

(* The rows of a set of names are as many as there are names.              *)
LEMMA NameRowsAre ==
    ASSUME NEW S \in SUBSET Index
    PROVE  /\ Cardinality(S) \in Nat
           /\ NameRows(S) \in Seq(Row)
           /\ Len(NameRows(S)) = Cardinality(S)
  <1>1. S \in SUBSET Nat /\ IsFiniteSet(S)
    BY IndexAssumption, FS_Subset
  <1> DEFINE n == Cardinality(S)
             a == Ascending(S)
  <1>2. n \in Nat /\ a \in [1..n -> S]
    BY <1>1, AscendingIs
  <1> HIDE DEF n, a
  <1>3. \A i \in 1..n : [of |-> a[i], name |-> NameOf(a[i])] \in Row
    BY <1>2, NameIs
  <1>4. [i \in 1..n |-> [of |-> a[i], name |-> NameOf(a[i])]] \in Seq(Row)
    BY <1>2, <1>3
  <1>5. Len([i \in 1..n |-> [of |-> a[i], name |-> NameOf(a[i])]]) = n
    BY <1>2
  <1> QED BY <1>2, <1>4, <1>5 DEF NameRows, n, a

(* What EnumPerfObjects copies is every object that is there, once.        *)
LEMMA CopiedIs ==
    ASSUME NEW S \in SUBSET Index
    PROVE  /\ Copied(S) \in Seq(Object)
           /\ \A i, j \in DOMAIN Copied(S) : Copied(S)[i] = Copied(S)[j] => i = j
           /\ \A o \in S \cap Object : \E i \in DOMAIN Copied(S) : Copied(S)[i] = o
  <1>1. S \cap Object \in SUBSET Nat /\ IsFiniteSet(S \cap Object)
    BY IndexAssumption, FS_Subset
  <1>2. PICK T \in SUBSET Nat : T = S \cap Object /\ IsFiniteSet(T)
    BY <1>1
  <1> DEFINE n == Cardinality(T)
             a == Ascending(T)
  <1>3. /\ n \in Nat /\ a \in [1..n -> T]
        /\ \A i, j \in 1..n : i < j => a[i] < a[j]
        /\ \A x \in T : \E i \in 1..n : a[i] = x
    BY <1>2, AscendingIs
  <1>4. Copied(S) = a
    BY <1>2 DEF Copied
  <1> HIDE DEF n, a
  <1>5. DOMAIN a = 1..n /\ a \in Seq(Object)
    BY <1>2, <1>3
  <1>6. \A i, j \in 1..n : a[i] = a[j] => i = j
    <2> SUFFICES ASSUME NEW i \in 1..n, NEW j \in 1..n, a[i] = a[j] PROVE i = j
      OBVIOUS
    <2>1. a[i] \in Nat /\ a[j] \in Nat
      BY <1>3
    <2>2. ~(i < j) /\ ~(j < i)
      BY <1>3, <2>1
    <2> QED BY <1>3, <2>2
  <1> QED BY <1>2, <1>3, <1>4, <1>5, <1>6

(* A name over a longer one leaves the end of that one behind it.          *)
LEMMA OverlayIs ==
    ASSUME NEW s \in Seq(Index), NEW t \in Seq(Index)
    PROVE  /\ Overlay(s, t) \in Seq(Index)
           /\ Len(Overlay(s, t)) = IF Len(t) > Len(s) THEN Len(t) ELSE Len(s)
           /\ SubSeq(Overlay(s, t), 1, Len(s)) = s
           /\ Len(t) <= Len(s) => Overlay(s, t) = s
  <1> DEFINE u == SubSeq(t, Len(s) + 1, Len(t))
  <1>1. Len(s) \in Nat /\ Len(t) \in Nat
    OBVIOUS
  <1>2. u \in Seq(Index) /\ Len(u) = IF Len(t) > Len(s) THEN Len(t) - Len(s) ELSE 0
    BY <1>1
  <1> HIDE DEF u
  <1>3. s \o u \in Seq(Index) /\ Len(s \o u) = Len(s) + Len(u)
        /\ \A i \in 1..Len(s) : (s \o u)[i] = s[i]
    BY <1>2
  <1>4. SubSeq(s \o u, 1, Len(s)) = s
    <2>1. PICK v : v = s \o u
      OBVIOUS
    <2>2. v \in Seq(Index) /\ Len(v) = Len(s) + Len(u) /\ \A i \in 1..Len(s) : v[i] = s[i]
      BY <1>3, <2>1
    <2>3. Len(u) \in Nat
      BY <1>2
    <2>4. SubSeq(v, 1, Len(s)) \in Seq(Index) /\ Len(SubSeq(v, 1, Len(s))) = Len(s)
          /\ \A i \in 1..Len(s) : SubSeq(v, 1, Len(s))[i] = v[i]
      BY <1>1, <2>2, <2>3
    <2>5. PICK w \in Seq(Index) : w = SubSeq(v, 1, Len(s))
      BY <2>4
    <2>6. Len(w) = Len(s) /\ \A i \in 1..Len(s) : w[i] = s[i]
      BY <2>2, <2>4, <2>5
    <2>7. w = s
      BY <2>6, SeqEqual, Zenon
    <2> QED BY <2>1, <2>5, <2>7
  <1>5. Len(u) = 0 => s \o u = s
    <2>1. Len(u) = 0 => u = << >>
      BY <1>2
    <2> QED BY <2>1, ConcatEmptySeq
  <1>6. Overlay(s, t) = s \o u
    BY DEF Overlay, u
  <1>7. Len(s \o u) = IF Len(t) > Len(s) THEN Len(t) ELSE Len(s)
    BY <1>1, <1>2, <1>3
  <1>8. Len(t) <= Len(s) => s \o u = s
    BY <1>1, <1>2, <1>5
  <1> QED BY <1>3, <1>4, <1>6, <1>7, <1>8

(* A name over a short buffer is short and not empty.                      *)
LEMMA OverlayLong ==
    ASSUME NEW o \in Index, NEW old \in Seq(Index), Len(old) <= 2
    PROVE  /\ Overlay(NameOf(o), old) \in Seq(Index)
           /\ Len(Overlay(NameOf(o), old)) \in 1..2
  <1>1. NameOf(o) \in Seq(Index) /\ (Len(NameOf(o)) = 1 \/ Len(NameOf(o)) = 2)
    BY NameIs
  <1>2. /\ Overlay(NameOf(o), old) \in Seq(Index)
        /\ Len(Overlay(NameOf(o), old)) =
             IF Len(old) > Len(NameOf(o)) THEN Len(old) ELSE Len(NameOf(o))
    BY <1>1, OverlayIs
  <1>3. PICK k \in Nat : k = Len(old) /\ k <= 2
    OBVIOUS
  <1>4. PICK l \in 1..2 : l = Len(NameOf(o))
    BY <1>1
  <1>5. (IF k > l THEN k ELSE l) \in 1..2
    BY <1>3
  <1> QED BY <1>2, <1>3, <1>4, <1>5

-----------------------------------------------------------------------------
(* The steps that a function leaves to be made.                            *)

(* The elements of two sequences one after the other.                      *)
LEMMA Joined ==
    ASSUME NEW S, NEW s \in Seq(S), NEW t \in Seq(S)
    PROVE  /\ s \o t \in Seq(S) /\ Len(s \o t) = Len(s) + Len(t)
           /\ \A i \in 1..(Len(s) + Len(t)) :
                (s \o t)[i] = IF i <= Len(s) THEN s[i] ELSE t[i - Len(s)]
  OBVIOUS

(* A printing function opens its report, adds its rows and closes it.      *)
LEMMA PrintedIs ==
    ASSUME NEW n \in Prints, NEW rows \in Seq(Row)
    PROVE  /\ Printed(n, rows) \in Seq(TodoStep)
           /\ Len(rows) \in Nat /\ Len(Printed(n, rows)) = Len(rows) + 2
           /\ \A i \in 1..(Len(rows) + 2) : Printed(n, rows)[i] =
                IF i = 1 THEN [does |-> "open", on |-> n]
                ELSE IF i = Len(rows) + 2 THEN [does |-> "close", on |-> n]
                ELSE [does |-> "row", on |-> n, row |-> rows[i - 1]]
  <1> DEFINE k == Len(rows)
             o == <<[does |-> "open", on |-> n]>>
             r == Rows(n, rows)
             c == <<[does |-> "close", on |-> n]>>
  <1>1. k \in Nat /\ DOMAIN rows = 1..k /\ \A i \in 1..k : rows[i] \in Row
    OBVIOUS
  <1>2. /\ o \in Seq(TodoStep) /\ Len(o) = 1 /\ o[1] = [does |-> "open", on |-> n]
        /\ c \in Seq(TodoStep) /\ Len(c) = 1 /\ c[1] = [does |-> "close", on |-> n]
    BY DEF TodoStep
  <1>3. \A i \in 1..k : [does |-> "row", on |-> n, row |-> rows[i]] \in TodoStep
    BY <1>1 DEF TodoStep
  <1>4. /\ r \in Seq(TodoStep) /\ Len(r) = k
        /\ \A i \in 1..k : r[i] = [does |-> "row", on |-> n, row |-> rows[i]]
    BY <1>1, <1>3 DEF Rows
  <1> HIDE DEF o, r, c, k
  <1>5. /\ o \o r \in Seq(TodoStep) /\ Len(o \o r) = k + 1
        /\ \A i \in 1..(k + 1) : (o \o r)[i] = IF i <= 1 THEN o[i] ELSE r[i - 1]
    <2>1. /\ o \o r \in Seq(TodoStep) /\ Len(o \o r) = Len(o) + Len(r)
          /\ \A i \in 1..(Len(o) + Len(r)) :
               (o \o r)[i] = IF i <= Len(o) THEN o[i] ELSE r[i - Len(o)]
      BY <1>2, <1>4, Joined
    <2>2. Len(o) + Len(r) = k + 1
      BY <1>1, <1>2, <1>4
    <2> QED BY <1>2, <2>1, <2>2
  <1> DEFINE or == o \o r
  <1> HIDE DEF or
  <1>6. /\ or \o c \in Seq(TodoStep) /\ Len(or \o c) = k + 2
        /\ \A i \in 1..(k + 2) : (or \o c)[i] = IF i <= k + 1 THEN or[i] ELSE c[i - (k + 1)]
    <2>1. or \in Seq(TodoStep) /\ Len(or) = k + 1
      BY <1>5 DEF or
    <2>2. /\ or \o c \in Seq(TodoStep) /\ Len(or \o c) = Len(or) + Len(c)
          /\ \A i \in 1..(Len(or) + Len(c)) :
               (or \o c)[i] = IF i <= Len(or) THEN or[i] ELSE c[i - Len(or)]
      BY <1>2, <2>1, Joined
    <2>3. Len(or) + Len(c) = k + 2
      BY <1>1, <1>2, <2>1
    <2> QED BY <2>1, <2>2, <2>3
  <1>7. ASSUME NEW i \in 1..(k + 2)
        PROVE  (or \o c)[i] = IF i = 1 THEN [does |-> "open", on |-> n]
                              ELSE IF i = k + 2 THEN [does |-> "close", on |-> n]
                              ELSE [does |-> "row", on |-> n, row |-> rows[i - 1]]
    <2>1. CASE i = 1
      BY <1>1, <1>2, <1>5, <1>6, <2>1 DEF or
    <2>2. CASE i = k + 2
      <3>1. ~(i <= k + 1) /\ i - (k + 1) = 1 /\ i # 1
        BY <1>1, <2>2
      <3> QED BY <1>2, <1>6, <2>2, <3>1
    <2>3. CASE i # 1 /\ i # k + 2
      <3>1. i <= k + 1 /\ ~(i <= 1) /\ i - 1 \in 1..k /\ i \in 1..(k + 1)
        BY <1>1, <2>3
      <3>2. (or \o c)[i] = r[i - 1]
        BY <1>5, <1>6, <3>1 DEF or
      <3> QED BY <1>4, <2>3, <3>1, <3>2
    <2> QED BY <2>1, <2>2, <2>3
  <1>8. Printed(n, rows) = or \o c
    BY DEF Printed, o, r, c, or
  <1> QED BY <1>1, <1>6, <1>7, <1>8 DEF k

(* The step to make next, and those that are left.                         *)
LEMMA NextStep ==
    ASSUME TypeInv, todo # << >>
    PROVE  /\ Head(todo) = todo[1] /\ Head(todo) \in TodoStep
           /\ Tail(todo) \in Seq(TodoStep)
           /\ Len(todo) \in Nat \ {0} /\ Len(Tail(todo)) = Len(todo) - 1
           /\ \A i \in 1..(Len(todo) - 1) : Tail(todo)[i] = todo[i + 1]
  <1>1. todo \in Seq(TodoStep)
    BY DEF TypeInv, ControlOK
  <1> QED BY <1>1

(* A call counts itself.                                                   *)
LEMMA CallTimes ==
    ASSUME TypeInv, NEW p, NEW op \in Op, NEW S, Calling(p, op, S)
    PROVE  /\ p \in Producer /\ At("idle")
           /\ called' \in [Producer \X Op -> Nat]
           /\ Times(p, op)' = Times(p, op) + 1 /\ Times(p, op) \in Nat
           /\ \A q, o : <<q, o>> # <<p, op>> => Times(q, o)' = Times(q, o)
           /\ misused' = (misused \/ ~Proper(p, op, S))
           /\ misused' \in BOOLEAN
  <1>1. /\ At("idle") /\ p \in Producer
        /\ called' = [called EXCEPT ![<<p, op>>] = @ + 1]
        /\ misused' = (misused \/ ~Proper(p, op, S))
    BY DEF Calling
  <1>2. called \in [Producer \X Op -> Nat] /\ misused \in BOOLEAN
    BY DEF TypeInv, ControlOK
  <1>3. <<p, op>> \in Producer \X Op
    BY <1>1
  <1>4. called[<<p, op>>] \in Nat
    BY <1>2, <1>3
  <1>5. /\ called' \in [Producer \X Op -> Nat]
        /\ called'[<<p, op>>] = called[<<p, op>>] + 1
        /\ \A c \in Producer \X Op : c # <<p, op>> => called'[c] = called[c]
    BY <1>1, <1>2, <1>3, <1>4
  <1>6. Times(p, op)' = Times(p, op) + 1 /\ Times(p, op) \in Nat
    BY <1>2, <1>3, <1>4, <1>5 DEF Times
  <1>7. \A q, o : <<q, o>> # <<p, op>> => Times(q, o)' = Times(q, o)
    BY <1>2, <1>5 DEF Times
  <1> QED BY <1>1, <1>2, <1>5, <1>6, <1>7

(* The types hold before the first call.                                   *)
LEMMA TypeInit == Init => TypeInv
  <1> SUFFICES ASSUME Init PROVE TypeInv
    OBVIOUS
  <1>1. << >> \in Seq(Row) /\ << >> \in Seq(TodoStep) /\ << >> \in Seq(Object)
        /\ << >> \in Seq(Index) /\ Len(<< >>) = 0
    OBVIOUS
  <1>2. ReportOK
    BY <1>1 DEF Init, ReportInit, ReportOK, ReportType
  <1>3. named \subseteq Index /\ Core \subseteq named
    BY DEF Init
  <1>4. called \in [Producer \X Op -> Nat] /\ misused \in BOOLEAN
    BY DEF Init, CallInit
  <1> QED BY <1>1, <1>2, <1>3, <1>4 DEF Init, CallInit, TypeInv, ControlOK, LabelOK

(* Every step does at most one thing to one report.                        *)
ReportStep ==
    \/ UNCHANGED reportVars
    \/ \E n \in Name : InitializeUnchecked(n) \/ CloseReport(n) \/ Crash(n)
    \/ \E n \in Name, row \in Row : LinkRow(n, row)

(* The row that is printed for an object has the types of a row.           *)
LEMMA ObjectRow ==
    ASSUME TypeInv, objs # << >>
    PROVE  /\ Head(objs) \in Index /\ Head(objs) \in Object
           /\ Tail(objs) \in Seq(Object)
           /\ Overlay(NameOf(Head(objs)), szBuffer) \in Seq(Index)
           /\ Len(Overlay(NameOf(Head(objs)), szBuffer)) \in 1..2
           /\ [of |-> Head(objs), name |-> Overlay(NameOf(Head(objs)), szBuffer)] \in Row
  <1>1. objs \in Seq(Object) /\ szBuffer \in Seq(Index) /\ Len(szBuffer) <= 2
    BY DEF TypeInv, ControlOK
  <1>2. Head(objs) \in Object /\ Tail(objs) \in Seq(Object)
    BY <1>1
  <1>3. PICK o \in Index : o = Head(objs)
    BY <1>2 DEF Object
  <1>4. PICK s \in Seq(Index) : s = Overlay(NameOf(o), szBuffer) /\ Len(s) \in 1..2
    BY <1>1, OverlayLong
  <1>5. [of |-> o, name |-> s] \in Row
    BY <1>4, RowIs
  <1> QED BY <1>2, <1>3, <1>4, <1>5

(* A step on a report is one of those that were left to be made.           *)
LEMMA WriteStep ==
    ASSUME TypeInv, WriteReport
    PROVE  /\ todo # << >> /\ todo' = Tail(todo) /\ crash = {}
           /\ todo[1] \in TodoStep /\ todo[1].on \in Prints
           /\ \/ todo[1].does = "open" /\ InitializeUnchecked(todo[1].on)
              \/ todo[1].does = "row" /\ todo[1].row \in Row /\ LinkRow(todo[1].on, todo[1].row)
              \/ todo[1].does = "close" /\ CloseReport(todo[1].on)
           /\ UNCHANGED <<named, sound, job, pc, connected, names, objs, szBuffer, dwSize,
                          steady, called, misused>>
  <1>1. /\ todo # << >> /\ todo' = Tail(todo) /\ crash = {}
        /\ LET step == Head(todo)
           IN  \/ step.does = "open" /\ InitializeUnchecked(step.on)
               \/ step.does = "row" /\ LinkRow(step.on, step.row)
               \/ step.does = "close" /\ CloseReport(step.on)
    BY DEF WriteReport, Write, Running
  <1>2. PICK step \in TodoStep : step = Head(todo) /\ step = todo[1]
    BY <1>1, NextStep
  <1>3. step.on \in Prints /\ (step.does = "row" => step.row \in Row)
    BY DEF TodoStep
  <1>4. UNCHANGED <<named, sound, job, pc, connected, names, objs, szBuffer, dwSize,
                    steady, called, misused>>
    BY DEF WriteReport, Write, machineVars, dataVars, callVars
  <1> QED BY <1>1, <1>2, <1>3, <1>4

(* No step of a program or of the machine does more to the reports.        *)
LEMMA StepIsReportStep == TypeInv /\ [Next]_vars => ReportStep
  <1> SUFFICES ASSUME TypeInv, [Next]_vars PROVE ReportStep
    OBVIOUS
  <1>n. PERFOBJ \in Name /\ COUNTERS_PROCESS \in Name /\ Prints \subseteq Name
    BY DEF Name, Prints
  <1>1. CASE UNCHANGED reportVars
    BY <1>1 DEF ReportStep
  <1>2. CASE PerfObjInitialize
    BY <1>2, <1>n DEF PerfObjInitialize, ReportStep
  <1>3. CASE PerfObjFinalize
    BY <1>3, <1>n DEF PerfObjFinalize, ReportStep, FinalizeReport
  <1>4. CASE NextObject
    <2> DEFINE row == [of |-> Head(objs), name |-> Overlay(NameOf(Head(objs)), szBuffer)]
    <2>1. objs # << >> /\ (UNCHANGED reportVars \/ LinkRow(PERFOBJ, row))
      BY <1>4 DEF NextObject
    <2>2. row \in Row
      BY <2>1, ObjectRow
    <2> HIDE DEF row
    <2> QED BY <2>1, <2>2, <1>n DEF ReportStep
  <1>5. CASE WriteReport
    BY <1>5, <1>n, WriteStep DEF ReportStep
  <1>6. CASE WalkProcess
    BY <1>6, <1>n DEF WalkProcess, ReportStep
  <1> QED BY <1>1, <1>2, <1>3, <1>4, <1>5, <1>6
          DEF Next, Machine, Calls, Steps, Terminating, PerfObjEnumerate, TestTexts,
              TestPdhProcess, TestPdhProcessFails, Begin, MainReturns, QuerySize, ReadText,
              EnumPerfObjects, LoadObjectDataBegins, LoadObjectData, QueryProcess, vars

(* Every step keeps the types of the reports.                              *)
LEMMA ReportTypeStep == TypeInv /\ [Next]_vars => ReportOK'
  <1> SUFFICES ASSUME TypeInv, ReportStep PROVE ReportOK'
    BY StepIsReportStep
  <1>1. CASE UNCHANGED reportVars
    BY <1>1 DEF reportVars, TypeInv, ReportOK, ReportType
  <1>2. ASSUME NEW n \in Name, Crash(n) PROVE ReportOK'
    BY <1>2 DEF Crash, TypeInv, ReportOK, ReportType
  <1> QED BY <1>1, <1>2, InitializeType, CloseReportType, LinkRowType DEF ReportStep, TypeInv

(* A function ends and leaves nothing but what is still to be printed.     *)
LEMMA TypeEnd ==
    ASSUME TypeInv, End, todo' \in Seq(TodoStep), UNCHANGED <<named, called, misused>>
    PROVE  ControlOK'
  <1>1. << >> \in Seq(Object) /\ << >> \in Seq(Index) /\ Len(<< >>) = 0
    OBVIOUS
  <1> QED BY <1>1 DEF End, TypeInv, ControlOK, LabelOK

(* What a function has read, when its texts have been read or not.         *)
LEMMA AfterTextType ==
    ASSUME TypeInv, pc \in {"size", "read"}, NEW read \in {{}, named}, AfterText(read),
           todo' \in Seq(TodoStep), UNCHANGED <<named, called, misused>>
    PROVE  ControlOK'
  <1>1. objs = << >> /\ szBuffer = << >> /\ << >> \in Seq(Object) /\ << >> \in Seq(Index)
        /\ Len(szBuffer) <= 2
    BY DEF TypeInv, ControlOK
  <1>2. EXTEND_SIZE \in Nat /\ INITIAL_SIZE \in Nat
    BY SizeAssumption
  <1>3. CASE job = "PerfObjEnumerator" /\ BeginQuery("objects", EXTEND_SIZE) /\ names' = read
    BY <1>1, <1>2, <1>3 DEF BeginQuery, TypeInv, ControlOK, LabelOK
  <1>4. CASE job = "test_pdh_process" /\ BeginQuery("data", INITIAL_SIZE) /\ names' = read
    BY <1>1, <1>2, <1>4 DEF BeginQuery, TypeInv, ControlOK, LabelOK
  <1>5. CASE End
    BY <1>5, TypeEnd
  <1> QED BY <1>3, <1>4, <1>5 DEF AfterText

(* A buffer grows to a size.                                               *)
LEMMA QueryAgainType ==
    ASSUME TypeInv, QueryAgain, UNCHANGED <<named, called, misused, todo>>
    PROVE  ControlOK'
  <1>1. PICK need \in 1..MaxData : Grow(need)
    BY DEF QueryAgain
  <1>2. PICK d \in MoreSize(dwSize, need) : dwSize' = d + EXTEND_SIZE
    BY <1>1 DEF Grow
  <1>3. dwSize' \in Nat
    BY <1>2, SizeAssumption DEF MoreSize, TypeInv, ControlOK
  <1> QED BY <1>3 DEF QueryAgain, TypeInv, ControlOK, LabelOK

(* What the names are, and the types of the rows that are printed of them. *)
LEMMA ReadTextPrints ==
    ASSUME TypeInv, ReadText
    PROVE  /\ TextFile \in Prints
           /\ \/ todo' = Printed(TextFile, NameRows(named)) /\ AfterText(named)
              \/ todo' = todo /\ AfterText({})
           /\ todo' \in Seq(TodoStep)
  <1>1. TextFile \in Prints
    BY DEF TextFile, Prints, Name, HELP, COUNTER, COUNTERNAME, PERFOBJ
  <1>2. \/ todo' = Printed(TextFile, NameRows(named)) /\ AfterText(named)
        \/ todo' = todo /\ AfterText({})
    BY DEF ReadText
  <1>3. NameRows(named) \in Seq(Row)
    BY NameRowsAre DEF TypeInv, ControlOK
  <1>4. PICK n \in Prints, rows \in Seq(Row) : n = TextFile /\ rows = NameRows(named)
    BY <1>1, <1>3
  <1>5. Printed(n, rows) \in Seq(TodoStep)
    BY PrintedIs
  <1>6. todo \in Seq(TodoStep)
    BY DEF TypeInv, ControlOK
  <1> QED BY <1>1, <1>2, <1>4, <1>5, <1>6

(* The rows of the instances, and the end of the walk.                     *)
LEMMA WalkPrints ==
    ASSUME TypeInv, WalkProcess
    PROVE  /\ pc = "walk" /\ End /\ todo = << >> /\ crash = {}
           /\ UNCHANGED <<machineVars, callVars>>
           /\ \E rows \in Seq(Row) :
                 todo' = Printed(COUNTERS_PROCESS, rows) /\ UNCHANGED reportVars
  <1>1. pc = "walk" /\ End /\ todo = << >> /\ UNCHANGED <<machineVars, callVars>> /\ crash = {}
    BY DEF WalkProcess, Step, At, Running
  <1>2. PICK n \in 0..MaxInstances :
          /\ PROCESS \notin names => n = 0
          /\ IF n > 0 /\ IDPROCESS \notin names
             THEN Crash(COUNTERS_PROCESS) /\ UNCHANGED todo
             ELSE /\ todo' = Printed(COUNTERS_PROCESS, [i \in 1..n |-> ProcessRow])
                  /\ UNCHANGED reportVars
    BY DEF WalkProcess
  <1>3. n \in Nat
    BY SizeAssumption
  <1>4. ~(n > 0 /\ IDPROCESS \notin names)
    BY <1>2, IndexAssumption DEF TypeInv, ControlOK, Core
  <1>5. ProcessRow \in Row
    BY NameIs, IndexAssumption DEF ProcessRow
  <1>6. [i \in 1..n |-> ProcessRow] \in Seq(Row)
    BY <1>3, <1>5
  <1> QED BY <1>1, <1>2, <1>4, <1>6

(* A function that begins.                                                 *)
LEMMA BeginFacts ==
    ASSUME TypeInv, NEW p, NEW op \in Op, Begin(p, op)
    PROVE  /\ Calling(p, op, ReadsNames) /\ pc = "idle" /\ todo = << >> /\ crash = {}
           /\ called' \in [Producer \X Op -> Nat] /\ misused' \in BOOLEAN
           /\ job' = p /\ pc' = "size" /\ steady' = named
           /\ UNCHANGED <<named, sound, names, objs, szBuffer, dwSize, todo, reportVars>>
  BY CallTimes DEF Begin, At, Running, machineVars

(* Every step keeps all the types.                                         *)
LEMMA NextType == TypeInv /\ [Next]_vars => TypeInv'
  <1> SUFFICES ASSUME TypeInv, [Next]_vars PROVE ControlOK'
    BY ReportTypeStep DEF TypeInv
  <1> USE DEF TypeInv
  <1>op. {"Initialize", "Enumerate", "Finalize", "run"} \subseteq Op
    BY DEF Op
  <1>0. CASE UNCHANGED <<named, job, pc, names, objs, szBuffer, dwSize, todo, steady, called, misused>>
    BY <1>0 DEF ControlOK, LabelOK
  <1>1. CASE Machine
    <2>1. PICK o \in Provider : Install(o) \/ Remove(o)
      BY <1>1 DEF Machine
    <2>2. /\ named' \subseteq Index /\ Core \subseteq named'
          /\ steady' \subseteq named' /\ steady' \subseteq steady
      BY <2>1, IndexAssumption DEF Install, Remove, Core, ControlOK
    <2> QED BY <1>1, <2>2 DEF Machine, dataVars, callVars, ControlOK, LabelOK
  <1>2. ASSUME NEW p, NEW op \in Op, AtOnce(p, op)
        PROVE  ControlOK'
    <2>1. called' \in [Producer \X Op -> Nat] /\ misused' \in BOOLEAN
      BY <1>2, CallTimes DEF AtOnce
    <2>2. UNCHANGED <<named, job, pc, names, objs, szBuffer, dwSize, todo, steady>>
      BY <1>2 DEF AtOnce, machineVars, dataVars
    <2> QED BY <2>1, <2>2 DEF ControlOK, LabelOK
  <1>3. ASSUME NEW p \in Texts, NEW op \in Op, Begin(p, op)
        PROVE  ControlOK'
    BY <1>3, BeginFacts DEF ControlOK, LabelOK
  <1>4. CASE QuerySize
    <2>1. pc = "size" /\ todo = << >> /\ UNCHANGED <<named, sound, called, misused, todo>>
      BY <1>4 DEF QuerySize, Step, At, machineVars, callVars
    <2>2. CASE BeginQuery("read", Cardinality(named)) /\ UNCHANGED names
      <3>1. Cardinality(named) \in Nat
        BY NameRowsAre DEF ControlOK
      <3> QED BY <2>1, <2>2, <3>1 DEF BeginQuery, ControlOK, LabelOK
    <2>3. CASE AfterText({})
      BY <2>1, <2>3, AfterTextType DEF ControlOK
    <2> QED BY <1>4, <2>2, <2>3 DEF QuerySize
  <1>5. CASE ReadText
    <2>1. pc = "read" /\ UNCHANGED <<named, sound, called, misused>>
      BY <1>5 DEF ReadText, Step, At, machineVars, callVars
    <2> QED BY <1>5, <2>1, ReadTextPrints, AfterTextType
  <1>6. CASE WriteReport
    <2>1. todo' \in Seq(TodoStep) /\ (todo = << >> => todo' = << >>)
      BY <1>6, WriteStep, NextStep
    <2> QED BY <1>6, <2>1, WriteStep DEF ControlOK, LabelOK
  <1>7. CASE EnumPerfObjects
    <2>1. pc = "objects" /\ todo = << >> /\ UNCHANGED <<named, sound, called, misused, todo>>
      BY <1>7 DEF EnumPerfObjects, Step, At, machineVars, callVars
    <2>2. CASE QueryAgain
      BY <2>1, <2>2, QueryAgainType
    <2>3. CASE /\ objs' = Copied(named) /\ pc' = "row"
               /\ UNCHANGED <<job, connected, names, szBuffer, dwSize, steady>>
      <3>1. Copied(named) \in Seq(Object)
        BY CopiedIs DEF ControlOK
      <3> QED BY <2>1, <2>3, <3>1 DEF ControlOK, LabelOK
    <2>4. CASE pc' = "row" /\ UNCHANGED <<job, dataVars, steady>>
      BY <2>1, <2>4 DEF dataVars, ControlOK, LabelOK
    <2> QED BY <1>7, <2>2, <2>3, <2>4 DEF EnumPerfObjects
  <1>8. CASE NextObject
    <2>1. pc = "row" /\ UNCHANGED <<named, sound, called, misused, todo, job, pc, names, dwSize, steady>>
      BY <1>8 DEF NextObject, Step, At, machineVars, callVars
    <2>2. objs # << >> /\ objs' = Tail(objs)
          /\ szBuffer' \in {szBuffer, Overlay(NameOf(Head(objs)), szBuffer)}
      BY <1>8 DEF NextObject
    <2>3. objs' \in Seq(Object) /\ szBuffer' \in Seq(Index) /\ Len(szBuffer') <= 2
      <3>1. PICK s \in Seq(Index) :
              s = Overlay(NameOf(Head(objs)), szBuffer) /\ Len(s) \in 1..2
        BY <2>2, ObjectRow
      <3>2. CASE szBuffer' = szBuffer
        BY <2>2, <3>2, ObjectRow DEF ControlOK
      <3>3. CASE szBuffer' = s
        <4>1. \A k \in 1..2 : k <= 2
          OBVIOUS
        <4>2. Len(s) <= 2
          BY <3>1, <4>1, Zenon
        <4> QED BY <2>2, <3>3, <4>2, ObjectRow
      <3> QED BY <2>2, <3>1, <3>2, <3>3
    <2> QED BY <2>1, <2>3 DEF ControlOK, LabelOK
  <1>9. CASE LoadObjectDataBegins
    BY <1>9, SizeAssumption
       DEF LoadObjectDataBegins, Step, At, machineVars, callVars, BeginQuery, ControlOK, LabelOK
  <1>10. CASE LoadObjectData
    <2>1. UNCHANGED <<named, sound, called, misused, todo>>
      BY <1>10 DEF LoadObjectData, Step, machineVars, callVars
    <2>2. CASE End
      BY <2>1, <2>2, TypeEnd DEF ControlOK
    <2> QED BY <1>10, <2>1, <2>2, QueryAgainType DEF LoadObjectData
  <1>11. CASE QueryProcess
    <2>1. pc = "data" /\ todo = << >> /\ UNCHANGED <<named, sound, called, misused, todo>>
      BY <1>11 DEF QueryProcess, Step, At, machineVars, callVars
    <2>2. CASE QueryAgain
      BY <2>1, <2>2, QueryAgainType
    <2>3. CASE pc' = "walk" /\ UNCHANGED <<job, dataVars, steady>>
      BY <2>1, <2>3 DEF dataVars, ControlOK, LabelOK
    <2>4. CASE End
      BY <2>1, <2>4, TypeEnd DEF ControlOK
    <2> QED BY <1>11, <2>2, <2>3, <2>4 DEF QueryProcess
  <1>12. CASE WalkProcess
    <2>1. /\ pc = "walk" /\ End /\ UNCHANGED <<named, called, misused>>
          /\ \E rows \in Seq(Row) : todo' = Printed(COUNTERS_PROCESS, rows)
      BY <1>12, WalkPrints DEF machineVars, callVars
    <2>2. COUNTERS_PROCESS \in Prints
      BY DEF Prints, Name, COUNTERS_PROCESS, PERFOBJ
    <2>3. PICK rows \in Seq(Row), n \in Prints :
            n = COUNTERS_PROCESS /\ todo' = Printed(n, rows)
      BY <2>1, <2>2
    <2>4. todo' \in Seq(TodoStep)
      BY <2>3, PrintedIs
    <2> QED BY <2>1, <2>4, TypeEnd
  <1>13. CASE MainReturns
    BY <1>13 DEF MainReturns, Step, At, machineVars, dataVars, callVars, ControlOK, LabelOK
  <1> QED BY <1>0, <1>1, <1>2, <1>3, <1>4, <1>5, <1>6, <1>7, <1>8, <1>9, <1>10, <1>11, <1>12,
             <1>13, <1>op
          DEF Next, Calls, Steps, Terminating, vars, machineVars, dataVars, callVars,
              PerfObjInitialize, PerfObjFinalize, PerfObjEnumerate, TestPdhProcess,
              TestPdhProcessFails, TestTexts, Texts

(* Everything keeps its type, what is still to be made included, and the   *)
(* names that are looked up are those of one moment or none.               *)
THEOREM TypeCorrect == Spec => []TypeInv
  BY TypeInit, NextType, PTL DEF Spec

-----------------------------------------------------------------------------
(* The reports keep the promise of ReportLifecycle.                        *)

(* The reports whose document exists were asked for, have a root and were  *)
(* not written.                                                            *)
LifeInv ==
    /\ m_doc \subseteq m_map
    /\ saved \subseteq m_map
    /\ saved \cap m_doc = {}
    /\ m_doc \subseteq m_root

(* Every step keeps what is said of the documents.                         *)
LEMMA LifeStep == TypeInv /\ LifeInv /\ [Next]_vars => LifeInv'
  <1> SUFFICES ASSUME LifeInv, ReportStep PROVE LifeInv'
    BY StepIsReportStep
  <1>1. ASSUME NEW n \in Name, InitializeUnchecked(n) PROVE LifeInv'
    BY <1>1 DEF InitializeUnchecked, GetDocument, NewRoot, LifeInv
  <1>2. ASSUME NEW n \in Name, CloseReport(n) PROVE LifeInv'
    BY <1>2 DEF CloseReport, SaveFile, Release, Crash, LifeInv
  <1> QED BY <1>1, <1>2 DEF ReportStep, reportVars, LinkRow, Crash, LifeInv

(* What is said of the documents holds in every reachable state.           *)
LEMMA LifeInvariant == Spec => []LifeInv
  <1>1. Init => LifeInv
    BY DEF Init, ReportInit, LifeInv
  <1> QED BY <1>1, LifeStep, TypeCorrect, PTL DEF Spec

(* The refinement mapping of ImplementsLifecycle.                          *)
phaseMap == [n \in Name |-> phaseOf(n)]
contentMap == [n \in Name |-> contentOf(n)]

(* The reports start where the lifecycle starts.                           *)
LEMMA InitMaps == Init => Lifecycle!Init
  BY DEF Init, ReportInit, Lifecycle!Init, phaseOf, contentOf

(* A crash is none of the lifecycle's steps.                               *)
LEMMA CrashMaps ==
    ASSUME NEW m \in Name, Crash(m)
    PROVE  UNCHANGED <<phaseMap, contentMap>>
  BY DEF Crash, phaseMap, contentMap, contentOf, phaseOf

(* The first GetDocument of a name opens its report; a later one gives up  *)
(* the one that is open, or does nothing to one that is not.               *)
LEMMA InitializeMaps ==
    ASSUME TypeInv, LifeInv, NEW m \in Name, InitializeUnchecked(m)
    PROVE  Lifecycle!Next \/ UNCHANGED <<phaseMap, contentMap>>
  <1>1. /\ GetDocument(m) /\ UNCHANGED <<files, saved>>
        /\ \A n \in Name : n # m => tree'[n] = tree[n]
        /\ tree'[m] = << >>
    BY DEF InitializeUnchecked, NewRoot, TypeInv, ReportOK, ReportType
  <1>2. \A n \in Name : n # m => phaseOf(n)' = phaseOf(n)
    BY <1>1 DEF phaseOf, GetDocument
  <1>3. CASE m \notin m_map
    <2>1. phaseOf(m) = "new" /\ phaseOf(m)' = "open"
      BY <1>1, <1>3 DEF phaseOf, GetDocument
    <2>2. phaseMap' = [phaseMap EXCEPT ![m] = "open"]
      BY <1>2, <2>1 DEF phaseMap
    <2>3. ASSUME NEW n \in Name
          PROVE  contentMap'[n] = contentMap[n]
      BY <1>1, <1>2, <2>1 DEF contentMap, contentOf
    <2>4. contentMap' = contentMap
      BY <2>3 DEF contentMap, contentOf
    <2>5. Lifecycle!Open(m)
      BY <2>1, <2>2, <2>4 DEF Lifecycle!Open, phaseMap, contentMap, contentOf
    <2> QED BY <2>5 DEF Lifecycle!Next
  <1>4. CASE m \in m_doc
    <2>1. phaseOf(m) = "open" /\ phaseOf(m)' = "dead"
      BY <1>1, <1>4 DEF phaseOf, GetDocument, LifeInv
    <2>2. phaseMap' = [phaseMap EXCEPT ![m] = "dead"]
            /\ contentMap' = [contentMap EXCEPT ![m] = << >>]
      BY <1>1, <1>2, <2>1 DEF phaseMap, contentMap, contentOf
    <2>3. Lifecycle!GiveUp(m)
      BY <2>1, <2>2 DEF Lifecycle!GiveUp, phaseMap, contentMap, contentOf
    <2> QED BY <2>3 DEF Lifecycle!Next
  <1>5. CASE m \in m_map /\ m \notin m_doc
    <2>1. phaseOf(m)' = phaseOf(m) /\ phaseOf(m) # "open"
      BY <1>1, <1>5 DEF phaseOf, GetDocument
    <2> QED BY <1>1, <1>2, <2>1 DEF phaseMap, contentMap, contentOf
  <1> QED BY <1>3, <1>4, <1>5

(* Linking a row adds it to an open report, and nothing to another.        *)
LEMMA LinkRowMaps ==
    ASSUME TypeInv, LifeInv, NEW m \in Name, NEW row \in Row, LinkRow(m, row)
    PROVE  Lifecycle!Next \/ UNCHANGED <<phaseMap, contentMap>>
  <1>1. \A n \in Name : phaseOf(n)' = phaseOf(n) /\ files'[n] = files[n]
    BY DEF LinkRow, Crash, phaseOf
  <1>2. phaseMap' = phaseMap
    BY <1>1 DEF phaseMap
  <1>3. CASE m \in m_doc
    <2>1. tree' = [tree EXCEPT ![m] = Append(tree[m], row)]
      BY <1>3 DEF LinkRow, LifeInv
    <2>2. phaseOf(m) = "open"
      BY <1>3 DEF phaseOf, LifeInv
    <2>3. contentMap' = [contentMap EXCEPT ![m] = Append(contentMap[m], row)]
      BY <1>1, <2>1, <2>2 DEF contentMap, contentOf, TypeInv, ReportOK, ReportType
    <2>4. Lifecycle!Add(m)
      BY <1>2, <2>2, <2>3 DEF Lifecycle!Add, phaseMap, contentMap, contentOf
    <2> QED BY <2>4 DEF Lifecycle!Next
  <1>4. CASE m \notin m_doc
    <2>1. phaseOf(m) # "open"
      BY <1>4 DEF phaseOf
    <2>2. \A n \in Name : n # m => tree'[n] = tree[n]
      BY DEF LinkRow, Crash, TypeInv, ReportOK, ReportType
    <2>3. contentMap' = contentMap
      BY <1>1, <2>1, <2>2 DEF contentMap, contentOf
    <2> QED BY <1>2, <2>3
  <1> QED BY <1>3, <1>4

(* Closing a report publishes what it has or, when SaveFile fails, gives   *)
(* it up.                                                                  *)
LEMMA CloseReportMaps ==
    ASSUME TypeInv, LifeInv, NEW m \in Name, CloseReport(m)
    PROVE  Lifecycle!Next \/ UNCHANGED <<phaseMap, contentMap>>
  <1>1. CASE m \in m_doc /\ m \in m_root /\ SaveFile(m) /\ Release(m) /\ UNCHANGED m_map
    <2>1. phaseOf(m) = "open" /\ m \notin saved /\ m \in m_map
      BY <1>1 DEF phaseOf, LifeInv
    <2>2. \A n \in Name : n # m =>
             phaseOf(n)' = phaseOf(n) /\ tree'[n] = tree[n] /\ files'[n] = files[n]
      BY <1>1 DEF phaseOf, SaveFile, Release, TypeInv, ReportOK, ReportType
    <2>3. CASE saved' = saved \cup {m} /\ files' = [files EXCEPT ![m] = tree[m]]
      <3>1. phaseOf(m)' = "published"
        BY <1>1, <2>1, <2>3 DEF phaseOf, Release
      <3>2. phaseMap' = [phaseMap EXCEPT ![m] = "published"] /\ contentMap' = contentMap
        BY <2>1, <2>2, <2>3, <3>1 DEF phaseMap, contentMap, contentOf, TypeInv, ReportOK, ReportType
      <3>3. Lifecycle!Publish(m)
        BY <2>1, <3>2 DEF Lifecycle!Publish, phaseMap, contentMap, contentOf
      <3> QED BY <3>3 DEF Lifecycle!Next
    <2>4. CASE UNCHANGED <<files, saved>>
      <3>1. phaseOf(m)' = "dead"
        BY <1>1, <2>1, <2>4 DEF phaseOf, Release
      <3>2. phaseMap' = [phaseMap EXCEPT ![m] = "dead"]
              /\ contentMap' = [contentMap EXCEPT ![m] = << >>]
        BY <2>1, <2>2, <3>1 DEF phaseMap, contentMap, contentOf
      <3>3. Lifecycle!GiveUp(m)
        BY <2>1, <3>2 DEF Lifecycle!GiveUp, phaseMap, contentMap, contentOf
      <3> QED BY <3>3 DEF Lifecycle!Next
    <2> QED BY <1>1, <2>3, <2>4 DEF SaveFile
  <1> QED BY <1>1, CrashMaps DEF CloseReport

(* Every report of these programs is opened at most once, only grows at    *)
(* its end while it is open, and is published once, whole, or given up -   *)
(* for any calls in any order, though two programs write counterName.xml.  *)
THEOREM ReportsImplementLifecycle == Spec => ImplementsLifecycle
  <1>1. TypeInv /\ LifeInv /\ [Next]_vars =>
          Lifecycle!Next \/ UNCHANGED <<phaseMap, contentMap>>
    <2> SUFFICES ASSUME TypeInv, LifeInv, ReportStep
                 PROVE  Lifecycle!Next \/ UNCHANGED <<phaseMap, contentMap>>
      BY StepIsReportStep
    <2>1. CASE UNCHANGED reportVars
      BY <2>1 DEF reportVars, phaseMap, contentMap, phaseOf, contentOf
    <2> QED BY <2>1, InitializeMaps, LinkRowMaps, CloseReportMaps, CrashMaps DEF ReportStep
  <1>2. TypeInv /\ LifeInv /\ [Next]_vars =>
          [Lifecycle!Next]_<<[n \in Name |-> phaseOf(n)], [n \in Name |-> contentOf(n)]>>
    BY <1>1 DEF phaseMap, contentMap
  <1> QED BY <1>2, InitMaps, LifeInvariant, TypeCorrect, PTL
          DEF Spec, ImplementsLifecycle, Lifecycle!Spec

-----------------------------------------------------------------------------
(* A main that keeps to its use.                                           *)

(* Main has called a function that writes the report.                      *)
Asked(n) ==
    \/ n = PERFOBJ /\ Times("PerfObjEnumerator", "Initialize") > 0
    \/ n = COUNTERNAME /\ \E c \in ReadsNames : Times(c[1], c[2]) > 0
    \/ n = COUNTERS_PROCESS /\ Times("test_pdh_process", "run") > 0
    \/ n = HELP /\ Times("testHelp", "run") > 0
    \/ n = COUNTER /\ Times("testCounter", "run") > 0

(* The reports that the function which runs has still to open.             *)
ToPrint ==
    {n \in Prints : \/ pc \in {"size", "read"} /\ n = TextFile
                    \/ /\ pc \in {"size", "read", "data", "walk"}
                       /\ job = "test_pdh_process" /\ n = COUNTERS_PROCESS}

(* The document of PerfObjEnumerator is there from its Initialize to its   *)
(* Finalize, and Enumerate lies between the two.                           *)
ObjectsSafe ==
    LET T(op) == Times("PerfObjEnumerator", op)
    IN  /\ PERFOBJ \in m_bWork
        /\ T("Finalize") > 0 => T("Enumerate") > 0
        /\ T("Enumerate") > 0 => T("Initialize") > 0
        /\ T("Initialize") > 0 /\ T("Finalize") = 0 => PERFOBJ \in m_doc \cap m_root
        /\ PERFOBJ \in heap => T("Initialize") > T("Finalize")
        /\ job = "PerfObjEnumerator" => T("Enumerate") > 0 /\ T("Finalize") = 0

(* What is left to be made is on one report, that is closed last and was   *)
(* never opened before, or is open now; no other report is.                *)
TodoSafe ==
    /\ \A n \in heap : n # PERFOBJ => todo # << >> /\ todo[1].on = n
    /\ todo # << >> =>
         /\ todo[1].on \notin ToPrint /\ Asked(todo[1].on)
         /\ IF todo[1].does = "open" THEN todo[1].on \notin m_map
            ELSE todo[1].on \in m_doc \cap m_root
         /\ \A i \in 1..Len(todo) :
              /\ todo[i].on = todo[1].on
              /\ todo[i].does = "close" <=> i = Len(todo)
              /\ todo[i].does = "open" => i = 1

UseInv ==
    ~misused =>
        /\ crash = {}
        /\ \A n \in m_map \cup ToPrint : Asked(n)
        /\ m_map \cap ToPrint = {}
        /\ ObjectsSafe
        /\ TodoSafe

(* The names of the reports differ.                                        *)
LEMMA NamesDiffer ==
    /\ PERFOBJ # COUNTERNAME /\ PERFOBJ # COUNTERS_PROCESS /\ PERFOBJ # HELP
    /\ PERFOBJ # COUNTER /\ COUNTERNAME # COUNTERS_PROCESS /\ COUNTERNAME # HELP
    /\ COUNTERNAME # COUNTER /\ COUNTERS_PROCESS # HELP /\ COUNTERS_PROCESS # COUNTER
    /\ HELP # COUNTER
    /\ Prints = {COUNTERNAME, COUNTERS_PROCESS, HELP, COUNTER}
    /\ PERFOBJ \in Name /\ PERFOBJ \notin Prints /\ TextFile \in Prints
    /\ TextFile # COUNTERS_PROCESS
  BY DEF PERFOBJ, COUNTERNAME, COUNTERS_PROCESS, HELP, COUNTER, Prints, Name, TextFile

(* How often an operation was called is a natural number.                  *)
LEMMA TimesNat == TypeInv => \A p, op : Times(p, op) \in Nat
  BY DEF TypeInv, ControlOK, Times

(* A step of a function that touches no report.                            *)
LEMMA SilentUse ==
    ASSUME UseInv, UNCHANGED <<called, misused, todo, reportVars>>, ToPrint' \subseteq ToPrint,
           job' = "PerfObjEnumerator" => job = "PerfObjEnumerator"
    PROVE  UseInv'
  <1>1. /\ \A p, op : Times(p, op)' = Times(p, op)
        /\ \A n : Asked(n)' <=> Asked(n)
    BY DEF Times, Asked
  <1>2. UNCHANGED <<m_map, heap, m_doc, m_root, m_bWork, crash>>
    BY DEF reportVars
  <1>3. ObjectsSafe => ObjectsSafe'
    BY <1>1, <1>2 DEF ObjectsSafe
  <1>4. TodoSafe => TodoSafe'
    BY <1>1, <1>2 DEF TodoSafe
  <1> QED BY <1>1, <1>2, <1>3, <1>4 DEF UseInv

(* What a proper call finds.                                               *)
LEMMA ProperCall ==
    ASSUME TypeInv, UseInv, ~misused', NEW p, NEW op \in Op, Calling(p, op, ReadsNames)
    PROVE  /\ ~misused /\ crash = {} /\ ObjectsSafe /\ TodoSafe
           /\ \A n \in m_map : Asked(n)
           /\ pc = "idle" /\ job = "none" /\ todo = << >>
           /\ Times(p, op) = 0 /\ Times(p, op)' = 1
           /\ op = "Enumerate" => Times(p, "Initialize") > 0
           /\ op = "Finalize" => Times(p, "Enumerate") > 0
           /\ <<p, op>> \in ReadsNames => \A c \in ReadsNames : Times(c[1], c[2]) = 0
           /\ \A q, o : <<q, o>> # <<p, op>> => Times(q, o)' = Times(q, o)
           /\ \A q, o : Times(q, o) \in Nat
           /\ \A n : Asked(n) => Asked(n)'
  <1>1. /\ Times(p, op)' = Times(p, op) + 1 /\ Times(p, op) \in Nat
        /\ \A q, o : <<q, o>> # <<p, op>> => Times(q, o)' = Times(q, o)
        /\ misused' = (misused \/ ~Proper(p, op, ReadsNames)) /\ misused \in BOOLEAN
        /\ At("idle")
    BY CallTimes DEF TypeInv, ControlOK
  <1>2. ~misused /\ Proper(p, op, ReadsNames)
    BY <1>1
  <1>3. Times(p, op) = 0 /\ Times(p, op)' = 1
    BY <1>1, <1>2 DEF Proper
  <1>4. \A q, o : Times(q, o) > 0 => Times(q, o)' > 0
    BY <1>1, <1>3
  <1>5. \A n : Asked(n) => Asked(n)'
    BY <1>4 DEF Asked
  <1>6. pc = "idle" /\ job = "none" /\ todo = << >>
    BY <1>1 DEF At, TypeInv, ControlOK, LabelOK
  <1> QED BY <1>1, <1>2, <1>3, <1>5, <1>6, TimesNat DEF Proper, UseInv

(* A function that begins has a report of its own to print.                *)
LEMMA BeginUse ==
    ASSUME TypeInv, UseInv, ~misused', NEW p \in Texts, NEW op \in {"Enumerate", "run"},
           (p = "PerfObjEnumerator") <=> (op = "Enumerate"), Begin(p, op)
    PROVE  UseInv'
  <1>1. /\ Calling(p, op, ReadsNames) /\ job' = p /\ pc' = "size"
        /\ UNCHANGED <<todo, reportVars>> /\ op \in Op
    BY BeginFacts DEF Op
  <1>2. UNCHANGED <<m_map, heap, m_doc, m_root, m_bWork, crash>>
    BY <1>1 DEF reportVars
  <1>3. /\ ~misused /\ crash = {} /\ ObjectsSafe /\ TodoSafe
        /\ \A n \in m_map : Asked(n)
        /\ todo = << >>
        /\ Times(p, op) = 0 /\ Times(p, op)' = 1
        /\ op = "Enumerate" => Times(p, "Initialize") > 0
        /\ <<p, op>> \in ReadsNames => \A c \in ReadsNames : Times(c[1], c[2]) = 0
        /\ \A q, o : <<q, o>> # <<p, op>> => Times(q, o)' = Times(q, o)
        /\ \A q, o : Times(q, o) \in Nat
        /\ \A n : Asked(n) => Asked(n)'
    BY <1>1, ProperCall
  <1>4. ToPrint' = {n \in Prints : n = TextFile' \/
                                   (p = "test_pdh_process" /\ n = COUNTERS_PROCESS)}
    BY <1>1 DEF ToPrint
  <1>5. TextFile' = CASE p = "testHelp" -> HELP
                      [] p = "testCounter" -> COUNTER
                      [] OTHER -> COUNTERNAME
    BY <1>1 DEF TextFile
  <1>6. \A n \in ToPrint' : ~Asked(n)
    BY <1>3, <1>4, <1>5, NamesDiffer DEF Asked, Texts, ReadsNames
  <1>7. \A n \in ToPrint' : Asked(n)'
    BY <1>3, <1>4, <1>5, NamesDiffer DEF Asked, Texts, ReadsNames
  <1>8. ObjectsSafe'
    BY <1>1, <1>2, <1>3 DEF ObjectsSafe, Texts
  <1>9. TodoSafe'
    BY <1>1, <1>2, <1>3 DEF TodoSafe
  <1> QED BY <1>2, <1>3, <1>6, <1>7, <1>8, <1>9 DEF UseInv

(* The calls that are done at once.                                        *)
LEMMA AtOnceUse ==
    ASSUME TypeInv, UseInv, ~misused',
           PerfObjInitialize \/ PerfObjFinalize \/ TestPdhProcessFails
    PROVE  UseInv'
  <1>op. {"Initialize", "Finalize", "run"} \subseteq Op
    BY DEF Op
  <1>1. CASE PerfObjInitialize
    <2> DEFINE p == "PerfObjEnumerator"
    <2>1. /\ Calling(p, "Initialize", ReadsNames) /\ InitializeUnchecked(PERFOBJ)
          /\ UNCHANGED <<job, pc, todo>>
      BY <1>1 DEF PerfObjInitialize, AtOnce
    <2>2. /\ ~misused /\ crash = {} /\ ObjectsSafe /\ TodoSafe
          /\ \A n \in m_map : Asked(n)
          /\ pc = "idle" /\ job = "none" /\ todo = << >>
          /\ Times(p, "Initialize") = 0 /\ Times(p, "Initialize")' = 1
          /\ \A q, o : <<q, o>> # <<p, "Initialize">> => Times(q, o)' = Times(q, o)
          /\ \A q, o : Times(q, o) \in Nat
          /\ \A n : Asked(n) => Asked(n)'
      BY <2>1, <1>op, ProperCall
    <2>3. /\ PERFOBJ \notin m_map /\ Asked(PERFOBJ)'
          /\ Times(p, "Finalize") = 0 /\ Times(p, "Finalize")' = 0
          /\ Times(p, "Enumerate")' = 0
      BY <2>2, NamesDiffer DEF Asked, ObjectsSafe
    <2>4. /\ m_map' = m_map \cup {PERFOBJ} /\ heap' = heap \cup {PERFOBJ}
          /\ m_doc' = m_doc \cup {PERFOBJ} /\ m_root' = m_root \cup {PERFOBJ}
          /\ UNCHANGED <<m_bWork, crash>>
      BY <2>1, <2>3 DEF InitializeUnchecked, GetDocument, NewRoot
    <2>5. ObjectsSafe'
      BY <2>1, <2>2, <2>3, <2>4 DEF ObjectsSafe
    <2>6. TodoSafe'
      BY <2>1, <2>2, <2>4 DEF TodoSafe
    <2>7. ToPrint' = {}
      BY <2>1, <2>2 DEF ToPrint
    <2> QED BY <2>2, <2>3, <2>4, <2>5, <2>6, <2>7 DEF UseInv
  <1>2. CASE PerfObjFinalize
    <2> DEFINE p == "PerfObjEnumerator"
    <2>1. /\ Calling(p, "Finalize", ReadsNames) /\ FinalizeReport(PERFOBJ)
          /\ UNCHANGED <<job, pc, todo>>
      BY <1>2 DEF PerfObjFinalize, AtOnce
    <2>2. /\ ~misused /\ crash = {} /\ ObjectsSafe /\ TodoSafe
          /\ \A n \in m_map : Asked(n)
          /\ pc = "idle" /\ job = "none" /\ todo = << >>
          /\ Times(p, "Finalize") = 0 /\ Times(p, "Finalize")' = 1
          /\ Times(p, "Enumerate") > 0
          /\ \A q, o : <<q, o>> # <<p, "Finalize">> => Times(q, o)' = Times(q, o)
          /\ \A q, o : Times(q, o) \in Nat
          /\ \A n : Asked(n) => Asked(n)'
      BY <2>1, <1>op, ProperCall
    <2>3. PERFOBJ \in m_bWork /\ PERFOBJ \in m_doc /\ PERFOBJ \in m_root
      BY <2>2 DEF ObjectsSafe
    <2>4. Release(PERFOBJ) /\ UNCHANGED <<m_map, m_bWork, crash>>
      BY <2>1, <2>3 DEF FinalizeReport, CloseReport
    <2>5. ObjectsSafe'
      BY <2>1, <2>2, <2>4 DEF ObjectsSafe, Release
    <2>6. TodoSafe'
      BY <2>1, <2>2, <2>4 DEF TodoSafe, Release
    <2>7. ToPrint' = {}
      BY <2>1, <2>2 DEF ToPrint
    <2> QED BY <2>2, <2>4, <2>5, <2>6, <2>7 DEF UseInv
  <1>3. CASE TestPdhProcessFails
    <2> DEFINE p == "test_pdh_process"
    <2>1. /\ Calling(p, "run", ReadsNames) /\ UNCHANGED <<job, pc, todo, reportVars>>
      BY <1>3 DEF TestPdhProcessFails, AtOnce
    <2>2. /\ ~misused /\ crash = {} /\ ObjectsSafe /\ TodoSafe
          /\ \A n \in m_map : Asked(n)
          /\ pc = "idle" /\ job = "none" /\ todo = << >>
          /\ \A q, o : <<q, o>> # <<p, "run">> => Times(q, o)' = Times(q, o)
          /\ \A n : Asked(n) => Asked(n)'
      BY <2>1, <1>op, ProperCall
    <2>3. UNCHANGED <<m_map, heap, m_doc, m_root, m_bWork, crash>>
      BY <2>1 DEF reportVars
    <2>4. ObjectsSafe'
      BY <2>1, <2>2, <2>3 DEF ObjectsSafe
    <2>5. TodoSafe'
      BY <2>1, <2>2, <2>3 DEF TodoSafe
    <2>6. ToPrint' = {}
      BY <2>1, <2>2 DEF ToPrint
    <2> QED BY <2>2, <2>3, <2>4, <2>5, <2>6 DEF UseInv
  <1> QED BY <1>1, <1>2, <1>3

(* A function that prints a report it has still to open.                   *)
LEMMA PrintUse ==
    ASSUME TypeInv, UseInv, UNCHANGED <<called, misused, reportVars>>, todo = << >>,
           NEW n \in ToPrint, NEW rows \in Seq(Row), todo' = Printed(n, rows),
           ToPrint' \subseteq ToPrint \ {n},
           job' = "PerfObjEnumerator" => job = "PerfObjEnumerator"
    PROVE  UseInv'
  <1> SUFFICES ASSUME ~misused PROVE UseInv'
    BY DEF UseInv
  <1>1. /\ \A p, op : Times(p, op)' = Times(p, op)
        /\ \A m : Asked(m)' <=> Asked(m)
    BY DEF Times, Asked
  <1>2. UNCHANGED <<m_map, heap, m_doc, m_root, m_bWork, crash>>
    BY DEF reportVars
  <1>3. n \in Prints /\ Asked(n) /\ n \notin m_map
    BY DEF ToPrint, UseInv
  <1>4. ObjectsSafe'
    BY <1>1, <1>2 DEF ObjectsSafe, UseInv
  <1>5. PICK k \in Nat, t \in Seq(TodoStep) :
          /\ todo' = t /\ Len(t) = k + 2
          /\ \A i \in 1..(k + 2) : t[i] =
               IF i = 1 THEN [does |-> "open", on |-> n]
               ELSE IF i = k + 2 THEN [does |-> "close", on |-> n]
               ELSE [does |-> "row", on |-> n, row |-> rows[i - 1]]
    BY <1>3, PrintedIs
  <1>6. t # << >> /\ t[1].on = n /\ t[1].does = "open"
    <2>1. 1 \in 1..(k + 2) /\ t # << >>
      BY <1>5
    <2> QED BY <1>5, <2>1
  <1>7. ASSUME NEW i \in 1..Len(t)
        PROVE  /\ t[i].on = n
               /\ t[i].does = "close" <=> i = Len(t)
               /\ t[i].does = "open" => i = 1
    <2>1. i \in 1..(k + 2) /\ k + 2 # 1
      BY <1>5
    <2> QED BY <1>5, <2>1
  <1>8. heap \subseteq {PERFOBJ}
    BY DEF UseInv, TodoSafe
  <1>9. TodoSafe'
    BY <1>1, <1>2, <1>3, <1>5, <1>6, <1>7, <1>8 DEF TodoSafe
  <1> QED BY <1>1, <1>2, <1>4, <1>9 DEF UseInv

(* The next step on a report that is printed.                              *)
LEMMA WriteUse ==
    ASSUME TypeInv, UseInv, ~misused, WriteReport
    PROVE  UseInv'
  <1>1. /\ todo # << >> /\ todo' = Tail(todo) /\ todo[1].on \in Prints
        /\ \/ todo[1].does = "open" /\ InitializeUnchecked(todo[1].on)
           \/ todo[1].does = "row" /\ todo[1].row \in Row /\ LinkRow(todo[1].on, todo[1].row)
           \/ todo[1].does = "close" /\ CloseReport(todo[1].on)
        /\ UNCHANGED <<job, pc, called, misused>>
    BY WriteStep
  <1>2. /\ Len(todo) \in Nat \ {0} /\ Len(todo') = Len(todo) - 1 /\ todo' \in Seq(TodoStep)
        /\ \A i \in 1..(Len(todo) - 1) : todo'[i] = todo[i + 1]
    BY <1>1, NextStep
  <1>3. PICK n \in Prints, k \in Nat : n = todo[1].on /\ k = Len(todo) - 1
    BY <1>1, <1>2
  <1>4. /\ crash = {} /\ (\A m \in m_map \cup ToPrint : Asked(m)) /\ m_map \cap ToPrint = {}
        /\ ObjectsSafe /\ TodoSafe
    BY DEF UseInv
  <1>5. /\ \A p, op : Times(p, op)' = Times(p, op)
        /\ \A m : Asked(m)' <=> Asked(m)
    BY <1>1 DEF Times, Asked
  <1>6. ToPrint' = ToPrint
    BY <1>1 DEF ToPrint, TextFile
  <1>7. n # PERFOBJ /\ n \notin ToPrint /\ Asked(n)
        /\ \A m \in heap : m # PERFOBJ => m = n
    BY <1>1, <1>3, <1>4, NamesDiffer DEF TodoSafe
  <1>8. ASSUME todo[1].does # "close"
        PROVE  /\ todo' # << >> /\ todo'[1].on = n /\ todo'[1].does # "open"
               /\ \A i \in 1..Len(todo') :
                    /\ todo'[i].on = todo'[1].on
                    /\ todo'[i].does = "close" <=> i = Len(todo')
                    /\ todo'[i].does = "open" => i = 1
    <2>1. \A i \in 1..(k + 1) : /\ todo[i].on = n
                                /\ todo[i].does = "close" <=> i = k + 1
                                /\ todo[i].does = "open" => i = 1
      <3>1. \A i \in 1..Len(todo) : /\ todo[i].on = n
                                    /\ todo[i].does = "close" <=> i = Len(todo)
                                    /\ todo[i].does = "open" => i = 1
        BY <1>1, <1>3, <1>4 DEF TodoSafe
      <3>2. Len(todo) = k + 1
        BY <1>2, <1>3
      <3> QED BY <3>1, <3>2
    <2>2. k # 0 /\ Len(todo') = k /\ \A i \in 1..k : todo'[i] = todo[i + 1]
      <3>1. 1 \in 1..(k + 1)
        OBVIOUS
      <3>2. 1 # k + 1
        BY <1>8, <2>1, <3>1
      <3> QED BY <1>2, <1>3, <3>2
    <2>3. ASSUME NEW i \in 1..k
          PROVE  /\ todo'[i].on = n
                 /\ todo'[i].does = "close" <=> i = k
                 /\ todo'[i].does # "open"
      <3>1. i + 1 \in 1..(k + 1) /\ i + 1 # 1 /\ (i + 1 = k + 1 <=> i = k)
        OBVIOUS
      <3>2. todo'[i] = todo[i + 1]
        BY <2>2
      <3> QED BY <2>1, <3>1, <3>2
    <2>4. 1 \in 1..k /\ todo' # << >>
      BY <2>2
    <2> QED BY <2>2, <2>3, <2>4
  <1>9. CASE todo[1].does = "open"
    <2>1. InitializeUnchecked(n) /\ n \notin m_map /\ todo[1].does # "close"
      BY <1>1, <1>3, <1>4, <1>9 DEF TodoSafe
    <2>2. /\ m_map' = m_map \cup {n} /\ heap' = heap \cup {n}
          /\ m_doc' = m_doc \cup {n} /\ m_root' = m_root \cup {n}
          /\ UNCHANGED <<m_bWork, crash>>
      BY <2>1 DEF InitializeUnchecked, GetDocument, NewRoot
    <2>3. ObjectsSafe'
      BY <1>1, <1>4, <1>5, <1>7, <2>2 DEF ObjectsSafe
    <2>4. TodoSafe'
      BY <1>5, <1>6, <1>7, <1>8, <2>1, <2>2 DEF TodoSafe
    <2> QED BY <1>4, <1>5, <1>6, <1>7, <2>2, <2>3, <2>4 DEF UseInv
  <1>10. CASE todo[1].does = "row"
    <2>1. LinkRow(n, todo[1].row) /\ n \in m_doc \cap m_root /\ todo[1].does # "close"
      BY <1>1, <1>3, <1>4, <1>10 DEF TodoSafe
    <2>2. UNCHANGED <<m_map, heap, m_doc, m_root, m_bWork, crash>>
      BY <2>1 DEF LinkRow
    <2>3. ObjectsSafe'
      BY <1>1, <1>4, <1>5, <2>2 DEF ObjectsSafe
    <2>4. TodoSafe'
      BY <1>5, <1>6, <1>7, <1>8, <2>1, <2>2 DEF TodoSafe
    <2> QED BY <1>4, <1>5, <1>6, <2>2, <2>3, <2>4 DEF UseInv
  <1>11. CASE todo[1].does = "close"
    <2>1. CloseReport(n) /\ n \in m_doc \cap m_root
      BY <1>1, <1>3, <1>4, <1>11 DEF TodoSafe
    <2>2. Release(n) /\ UNCHANGED <<m_map, m_bWork, crash>>
      BY <2>1 DEF CloseReport
    <2>3. Len(todo) = 1
      <3>1. 1 \in 1..Len(todo)
        BY <1>2
      <3> QED BY <1>1, <1>4, <1>11, <3>1 DEF TodoSafe
    <2>4. todo' = << >>
      BY <1>2, <2>3
    <2>5. ObjectsSafe'
      BY <1>1, <1>4, <1>5, <1>7, <2>2 DEF ObjectsSafe, Release
    <2>6. TodoSafe'
      BY <1>7, <2>2, <2>4 DEF TodoSafe, Release
    <2> QED BY <1>4, <1>5, <1>6, <2>2, <2>5, <2>6 DEF UseInv
  <1> QED BY <1>1, <1>9, <1>10, <1>11

(* A row of PerfObjEnumerator finds its root.                              *)
LEMMA ObjectUse ==
    ASSUME TypeInv, UseInv, ~misused, NextObject
    PROVE  /\ UseInv'
           /\ HasName(Head(objs)) => PERFOBJ \in m_root
  <1>1. /\ pc = "row" /\ UNCHANGED <<job, pc, todo, called, misused>>
        /\ HasName(Head(objs)) =>
             LinkRow(PERFOBJ, [of |-> Head(objs), name |-> Overlay(NameOf(Head(objs)), szBuffer)])
        /\ ~HasName(Head(objs)) => UNCHANGED reportVars
    BY DEF NextObject, Step, At, callVars
  <1>2. PERFOBJ \in m_root
    <2>1. job = "PerfObjEnumerator"
      BY <1>1 DEF TypeInv, ControlOK, LabelOK
    <2> QED BY <2>1 DEF UseInv, ObjectsSafe
  <1>3. UNCHANGED <<m_map, heap, m_doc, m_root, m_bWork, crash>>
    BY <1>1, <1>2 DEF LinkRow, reportVars
  <1>4. /\ \A p, op : Times(p, op)' = Times(p, op)
        /\ \A m : Asked(m)' <=> Asked(m)
    BY <1>1 DEF Times, Asked
  <1>5. ToPrint' = ToPrint
    BY <1>1 DEF ToPrint, TextFile
  <1>6. ObjectsSafe => ObjectsSafe'
    BY <1>1, <1>3, <1>4 DEF ObjectsSafe
  <1>7. TodoSafe => TodoSafe'
    BY <1>1, <1>3, <1>4, <1>5 DEF TodoSafe
  <1> QED BY <1>1, <1>2, <1>3, <1>4, <1>5, <1>6, <1>7 DEF UseInv

(* What was read of the texts does not change what is to be printed after. *)
LEMMA AfterTextUse ==
    ASSUME TypeInv, pc \in {"size", "read"}, NEW read, AfterText(read)
    PROVE  /\ ToPrint' \subseteq ToPrint \ {TextFile} /\ TextFile \in ToPrint
           /\ job' = "PerfObjEnumerator" => job = "PerfObjEnumerator"
  <1>1. \/ pc' = "objects" /\ job' = job
        \/ pc' = "data" /\ job' = job
        \/ pc' = "idle" /\ job' = "none"
    BY DEF AfterText, BeginQuery, End
  <1>2. ToPrint' \subseteq ToPrint \ {TextFile}
    BY <1>1, NamesDiffer DEF ToPrint
  <1>3. TextFile \in ToPrint
    BY NamesDiffer DEF ToPrint
  <1> QED BY <1>1, <1>2, <1>3

(* The steps of the functions that read.                                   *)
LEMMA ReadUse ==
    ASSUME TypeInv, UseInv, QuerySize \/ ReadText \/ WalkProcess
    PROVE  UseInv'
  <1>1. CASE QuerySize
    <2>1. pc = "size" /\ UNCHANGED <<called, misused, todo, reportVars>>
      BY <1>1 DEF QuerySize, Step, At, callVars
    <2>2. CASE BeginQuery("read", Cardinality(named))
      <3>1. pc' = "read" /\ job' = job
        BY <2>2 DEF BeginQuery
      <3>2. ToPrint' \subseteq ToPrint
        BY <2>1, <3>1 DEF ToPrint, TextFile
      <3> QED BY <2>1, <3>1, <3>2, SilentUse
    <2>3. CASE AfterText({})
      <3>1. /\ ToPrint' \subseteq ToPrint
            /\ job' = "PerfObjEnumerator" => job = "PerfObjEnumerator"
        BY <2>1, <2>3, AfterTextUse
      <3> QED BY <2>1, <3>1, SilentUse
    <2> QED BY <1>1, <2>2, <2>3 DEF QuerySize
  <1>2. CASE ReadText
    <2>1. pc = "read" /\ todo = << >> /\ UNCHANGED <<called, misused, reportVars>>
      BY <1>2 DEF ReadText, Step, At, callVars
    <2>2. CASE todo' = Printed(TextFile, NameRows(named)) /\ AfterText(named)
      <3>1. PICK n \in ToPrint, rows \in Seq(Row) : n = TextFile /\ rows = NameRows(named)
        <4>1. TextFile \in ToPrint
          BY <2>1, <2>2, AfterTextUse
        <4>2. NameRows(named) \in Seq(Row)
          BY NameRowsAre DEF TypeInv, ControlOK
        <4> QED BY <4>1, <4>2
      <3>2. /\ ToPrint' \subseteq ToPrint \ {n}
            /\ job' = "PerfObjEnumerator" => job = "PerfObjEnumerator"
        BY <2>1, <2>2, <3>1, AfterTextUse
      <3>3. todo' = Printed(n, rows)
        BY <2>2, <3>1
      <3> QED BY <2>1, <3>2, <3>3, PrintUse
    <2>3. CASE todo' = todo /\ AfterText({})
      <3>1. /\ ToPrint' \subseteq ToPrint
            /\ job' = "PerfObjEnumerator" => job = "PerfObjEnumerator"
        BY <2>1, <2>3, AfterTextUse
      <3> QED BY <2>1, <2>3, <3>1, SilentUse
    <2> QED BY <1>2, <2>2, <2>3, ReadTextPrints
  <1>3. CASE WalkProcess
    <2>1. /\ pc = "walk" /\ End /\ todo = << >>
          /\ UNCHANGED <<called, misused, reportVars>>
          /\ \E rows \in Seq(Row) : todo' = Printed(COUNTERS_PROCESS, rows)
      BY <1>3, WalkPrints DEF callVars
    <2>2. PICK n \in ToPrint, rows \in Seq(Row) :
            n = COUNTERS_PROCESS /\ todo' = Printed(n, rows)
      <3>1. COUNTERS_PROCESS \in ToPrint
        BY <2>1, NamesDiffer DEF ToPrint, TypeInv, ControlOK, LabelOK
      <3> QED BY <2>1, <3>1
    <2>3. ToPrint' \subseteq ToPrint \ {n} /\ job' = "none"
      BY <2>1 DEF End, ToPrint
    <2> QED BY <2>1, <2>2, <2>3, PrintUse
  <1> QED BY <1>1, <1>2, <1>3

(* Every step keeps what a proper use has done to the documents.           *)
LEMMA UseStep == TypeInv /\ UseInv /\ [Next]_vars => UseInv'
  <1> SUFFICES ASSUME TypeInv, UseInv, [Next]_vars, ~misused' PROVE UseInv'
    BY DEF UseInv
  <1>1. CASE PerfObjInitialize \/ PerfObjFinalize \/ TestPdhProcessFails
    BY <1>1, AtOnceUse
  <1>2. CASE PerfObjEnumerate
    BY <1>2, BeginUse DEF PerfObjEnumerate, Texts
  <1>3. CASE TestTexts \/ TestPdhProcess
    <2>1. PICK p \in {"testHelp", "testCounter", "test_pdh_process"} : Begin(p, "run")
      BY <1>3 DEF TestTexts, TestPdhProcess
    <2>2. p \in Texts /\ p # "PerfObjEnumerator"
      BY DEF Texts
    <2> QED BY <2>1, <2>2, BeginUse
  <1>4. CASE WriteReport
    <2>1. ~misused
      BY <1>4 DEF WriteReport, Write, callVars
    <2> QED BY <1>4, <2>1, WriteUse
  <1>5. CASE NextObject
    <2>1. ~misused
      BY <1>5 DEF NextObject, Step, callVars
    <2> QED BY <1>5, <2>1, ObjectUse
  <1>6. CASE QuerySize \/ ReadText \/ WalkProcess
    BY <1>6, ReadUse
  <1>7. CASE \/ Machine \/ EnumPerfObjects \/ LoadObjectDataBegins \/ LoadObjectData
             \/ QueryProcess \/ MainReturns \/ UNCHANGED vars
    <2>1. UNCHANGED <<called, misused, todo, reportVars>>
      BY <1>7 DEF Machine, EnumPerfObjects, LoadObjectDataBegins, LoadObjectData, QueryProcess,
                  MainReturns, Step, callVars, vars
    <2>2. \/ pc' = pc /\ job' = job
          \/ pc' \in {"row", "load", "idle", "exited"} /\ job' \in {job, "none"}
          \/ pc = "data" /\ pc' = "walk" /\ job' = job
      BY <1>7 DEF Machine, EnumPerfObjects, LoadObjectDataBegins, LoadObjectData, QueryProcess,
                  MainReturns, Step, At, QueryAgain, BeginQuery, End, vars
    <2>3. ToPrint' \subseteq ToPrint
      BY <2>2 DEF ToPrint, TextFile
    <2> QED BY <2>1, <2>2, <2>3, SilentUse
  <1> QED BY <1>1, <1>2, <1>3, <1>4, <1>5, <1>6, <1>7 DEF Next, Calls, Steps, Terminating

(* What a proper use has done to the documents holds of every behaviour.   *)
LEMMA AlwaysUsed == Spec => [](TypeInv /\ UseInv)
  <1>1. Init => TypeInv /\ UseInv
    <2> SUFFICES ASSUME Init PROVE UseInv
      BY TypeInit
    <2>1. /\ m_map = {} /\ heap = {} /\ crash = {} /\ todo = << >> /\ pc = "idle"
          /\ job = "none" /\ m_bWork = Name /\ \A p, op : Times(p, op) = 0
      BY DEF Init, CallInit, ReportInit, Times
    <2>2. ToPrint = {}
      BY <2>1 DEF ToPrint
    <2> QED BY <2>1, <2>2, NamesDiffer DEF UseInv, ObjectsSafe, TodoSafe
  <1> QED BY <1>1, NextType, UseStep, PTL DEF Spec

(* Used as main shows, the programs follow no NULL, and the only document  *)
(* they leave is that of PerfObjEnumerator between its Initialize and its  *)
(* Finalize.                                                               *)
THEOREM UsedRight == Spec => []ProperUse
  <1>1. TypeInv /\ UseInv => ProperUse
    <2> SUFFICES ASSUME TypeInv, UseInv, ~misused
                 PROVE  /\ crash = {}
                        /\ At("idle") => \A n \in heap :
                             /\ n = PERFOBJ
                             /\ Times("PerfObjEnumerator", "Initialize") >
                                  Times("PerfObjEnumerator", "Finalize")
      BY DEF ProperUse, UsedAsShown
    <2> QED BY DEF UseInv, TodoSafe, ObjectsSafe, At
  <1> QED BY <1>1, AlwaysUsed, PTL

-----------------------------------------------------------------------------
(* The names in PerfObj.xml.                                               *)

(* PerfObj.xml is changed by its producer alone.                           *)
LEMMA ObjectTree ==
    ASSUME TypeInv, [Next]_vars
    PROVE  \/ NextObject
           \/ (PerfObjInitialize \/ PerfObjFinalize) /\ tree'[PERFOBJ] \in {tree[PERFOBJ], << >>}
           \/ tree'[PERFOBJ] = tree[PERFOBJ]
  <1>p. PERFOBJ \in Name /\ tree \in [Name -> Seq(Row)]
    BY NamesDiffer DEF TypeInv, ReportOK, ReportType
  <1>1. CASE PerfObjInitialize
    <2>1. InitializeUnchecked(PERFOBJ)
      BY <1>1 DEF PerfObjInitialize
    <2>2. tree' = [tree EXCEPT ![PERFOBJ] = << >>]
      BY <2>1 DEF InitializeUnchecked, NewRoot
    <2> QED BY <1>1, <1>p, <2>2
  <1>2. CASE PerfObjFinalize
    <2>1. FinalizeReport(PERFOBJ)
      BY <1>2 DEF PerfObjFinalize
    <2>2. tree' = [tree EXCEPT ![PERFOBJ] = << >>] \/ tree' = tree
      BY <2>1 DEF FinalizeReport, CloseReport, Release, Crash, reportVars
    <2> QED BY <1>2, <1>p, <2>2
  <1>3. CASE WriteReport
    <2>1. PICK n \in Prints : \/ InitializeUnchecked(n) \/ CloseReport(n)
                              \/ \E row \in Row : LinkRow(n, row)
      BY <1>3, WriteStep
    <2>2. tree' = tree \/ \E s : tree' = [tree EXCEPT ![n] = s]
      BY <2>1 DEF InitializeUnchecked, NewRoot, CloseReport, Release, Crash, LinkRow
    <2>3. n # PERFOBJ
      BY NamesDiffer
    <2> QED BY <1>p, <2>2, <2>3
  <1>4. CASE WalkProcess
    BY <1>4, WalkPrints DEF reportVars
  <1> QED BY <1>1, <1>2, <1>3, <1>4
          DEF Next, Machine, Calls, Steps, Terminating, PerfObjEnumerate, TestTexts,
              TestPdhProcess, TestPdhProcessFails, AtOnce, Begin, MainReturns, QuerySize,
              ReadText, EnumPerfObjects, LoadObjectDataBegins, LoadObjectData, QueryProcess,
              vars, reportVars

(* Where the loop over the objects is not, its buffer is as it was or has  *)
(* been left.                                                              *)
LEMMA BufferKept ==
    ASSUME TypeInv, [Next]_vars, ~NextObject
    PROVE  szBuffer' \in {szBuffer, << >>} /\ crash \subseteq crash'
  <1>1. crash \subseteq crash'
    BY StepIsReportStep
       DEF ReportStep, InitializeUnchecked, CloseReport, Crash, LinkRow, reportVars
  <1>2. szBuffer' \in {szBuffer, << >>}
    BY DEF Next, Machine, Calls, Steps, Terminating, PerfObjInitialize, PerfObjFinalize,
           PerfObjEnumerate, TestTexts, TestPdhProcess, TestPdhProcessFails, AtOnce, Begin,
           MainReturns, QuerySize, ReadText, WriteReport, EnumPerfObjects, NextObject,
           LoadObjectDataBegins, LoadObjectData, QueryProcess, WalkProcess, AfterText,
           BeginQuery, QueryAgain, End, vars, dataVars
  <1> QED BY <1>1, <1>2

(* A row that the loop adds, and what is left in its buffer.               *)
LEMMA ObjectAdded ==
    ASSUME TypeInv, NextObject
    PROVE  /\ objs # << >> /\ objs' = Tail(objs) /\ pc = "row"
           /\ UNCHANGED <<named, pc, job, names, steady, called, misused, todo>>
           /\ tree[PERFOBJ] \in Seq(Row)
           /\ \/ ~HasName(Head(objs)) /\ UNCHANGED <<szBuffer, reportVars>>
              \/ HasName(Head(objs)) /\ PERFOBJ \notin m_root /\ crash' # {}
                   /\ tree'[PERFOBJ] = tree[PERFOBJ]
              \/ /\ HasName(Head(objs)) /\ crash' = crash
                 /\ szBuffer' = Overlay(NameOf(Head(objs)), szBuffer)
                 /\ tree'[PERFOBJ] = Append(tree[PERFOBJ], [of |-> Head(objs), name |-> szBuffer'])
                 /\ [of |-> Head(objs), name |-> szBuffer'] \in Row
  <1>p. PERFOBJ \in Name /\ tree \in [Name -> Seq(Row)]
    BY NamesDiffer DEF TypeInv, ReportOK, ReportType
  <1>1. /\ objs # << >> /\ objs' = Tail(objs) /\ pc = "row"
        /\ UNCHANGED <<named, pc, job, names, steady, called, misused, todo>>
    BY DEF NextObject, Step, At, machineVars, callVars
  <1>2. CASE ~HasName(Head(objs))
    BY <1>p, <1>1, <1>2 DEF NextObject
  <1>3. CASE HasName(Head(objs))
    <2>1. /\ szBuffer' = Overlay(NameOf(Head(objs)), szBuffer)
          /\ LinkRow(PERFOBJ, [of |-> Head(objs), name |-> szBuffer'])
      BY <1>3 DEF NextObject
    <2>2. [of |-> Head(objs), name |-> szBuffer'] \in Row
      BY <1>1, <2>1, ObjectRow
    <2>3. \/ PERFOBJ \notin m_root /\ crash' # {} /\ tree' = tree
          \/ /\ crash' = crash
             /\ tree' = [tree EXCEPT ![PERFOBJ] =
                           Append(@, [of |-> Head(objs), name |-> szBuffer'])]
      BY <2>1 DEF LinkRow, Crash
    <2> QED BY <1>p, <1>1, <1>3, <2>1, <2>2, <2>3
  <1> QED BY <1>2, <1>3

(* The buffer is as long as the name of one of the rows.                   *)
NamesInv ==
    /\ NamesExactUnlessLonger
    /\ crash = {} /\ szBuffer # << >> =>
         \E j \in DOMAIN tree[PERFOBJ] : Len(NameOf(tree[PERFOBJ][j].of)) = Len(szBuffer)

(* A row has a name that begins with the object's own, and more only if an *)
(* earlier row is about an object with a longer name.                      *)
Exact(t, i) ==
    LET own == NameOf(t[i].of)
    IN  /\ Len(t[i].name) >= Len(own) /\ SubSeq(t[i].name, 1, Len(own)) = own
        /\ t[i].name # own => \E j \in 1..(i - 1) : Len(NameOf(t[j].of)) > Len(own)

(* A row that is written over a buffer as long as the name of some row.    *)
LEMMA NamesAppend ==
    ASSUME NEW t \in Seq(Row), NEW o \in Index, NEW old \in Seq(Index), Len(old) <= 2,
           old # << >> => \E j \in DOMAIN t : Len(NameOf(t[j].of)) = Len(old),
           \A i \in DOMAIN t : Exact(t, i),
           NEW u \in Seq(Row), u = Append(t, [of |-> o, name |-> Overlay(NameOf(o), old)])
    PROVE  /\ \A i \in DOMAIN u : Exact(u, i)
           /\ \E j \in DOMAIN u : Len(NameOf(u[j].of)) = Len(Overlay(NameOf(o), old))
  <1> DEFINE own == NameOf(o)
             new == Overlay(own, old)
             n == Len(t)
  <1>1. /\ own \in Seq(Index) /\ Len(own) \in Nat /\ Len(old) \in Nat
        /\ new \in Seq(Index)
        /\ Len(new) = IF Len(old) > Len(own) THEN Len(old) ELSE Len(own)
        /\ SubSeq(new, 1, Len(own)) = own
        /\ Len(old) <= Len(own) => new = own
    <2>1. own \in Seq(Index)
      BY NameIs
    <2> HIDE DEF own
    <2>2. Len(own) \in Nat /\ Len(old) \in Nat
      BY <2>1
    <2> QED BY <2>1, <2>2, OverlayIs
  <1>2. [of |-> o, name |-> new] \in Row
    BY OverlayLong, RowIs
  <1> HIDE DEF new
  <1>3. /\ n \in Nat /\ DOMAIN t = 1..n /\ DOMAIN u = 1..(n + 1)
        /\ \A i \in 1..n : u[i] = t[i]
        /\ u[n + 1].of = o /\ u[n + 1].name = new
    BY <1>2 DEF new
  <1> HIDE DEF own, n
  <1>4. Len(old) > Len(own) => \E j \in 1..n : Len(NameOf(u[j].of)) = Len(old)
    <2>1. Len(old) > Len(own) => old # << >>
      BY <1>1
    <2> QED BY <1>3, <2>1
  <1>5. ASSUME NEW i \in 1..n
        PROVE  Exact(u, i)
    <2>1. u[i] = t[i] /\ \A j \in 1..(i - 1) : u[j] = t[j]
      BY <1>3
    <2>2. Exact(t, i)
      BY <1>3
    <2> QED BY <2>1, <2>2 DEF Exact
  <1>6. Exact(u, n + 1)
    <2>1. new # own => Len(old) > Len(own)
      BY <1>1
    <2>2. new # own => \E j \in 1..n : Len(NameOf(u[j].of)) > Len(own)
      BY <1>1, <1>4, <2>1
    <2>3. (n + 1) - 1 = n /\ Len(new) >= Len(own)
      BY <1>1, <1>3
    <2>4. NameOf(u[n + 1].of) = own
      BY <1>3 DEF own
    <2> QED BY <1>1, <1>3, <2>2, <2>3, <2>4 DEF Exact
  <1>7. \E j \in 1..(n + 1) : Len(NameOf(u[j].of)) = Len(new)
    <2>1. CASE Len(old) > Len(own)
      <3>1. Len(new) = Len(old)
        BY <1>1, <2>1
      <3>2. PICK j \in 1..n : Len(NameOf(u[j].of)) = Len(old)
        BY <1>4, <2>1
      <3>3. j \in 1..(n + 1)
        BY <1>3
      <3> QED BY <3>1, <3>2, <3>3
    <2>2. CASE ~(Len(old) > Len(own))
      <3>1. Len(new) = Len(own) /\ n + 1 \in 1..(n + 1)
        BY <1>1, <1>3, <2>2
      <3>2. Len(NameOf(u[n + 1].of)) = Len(own)
        BY <1>3 DEF own
      <3> QED BY <3>1, <3>2
    <2> QED BY <2>1, <2>2
  <1>8. \A i \in 1..(n + 1) : i \in 1..n \/ i = n + 1
    BY <1>3
  <1> QED BY <1>3, <1>5, <1>6, <1>7, <1>8 DEF new, own

(* Every step keeps what is said of the names in the rows and the buffer.  *)
LEMMA NamesStep == TypeInv /\ NamesInv /\ [Next]_vars => NamesInv'
  <1> SUFFICES ASSUME TypeInv, NamesInv, [Next]_vars PROVE NamesInv'
    OBVIOUS
  <1>1. \A i \in DOMAIN tree[PERFOBJ] : Exact(tree[PERFOBJ], i)
    BY DEF NamesInv, NamesExactUnlessLonger, Exact
  <1>2. (\A i \in DOMAIN tree'[PERFOBJ] : Exact(tree'[PERFOBJ], i)) => NamesExactUnlessLonger'
    BY DEF NamesExactUnlessLonger, Exact
  <1>3. CASE ~NextObject
    <2>1. szBuffer' \in {szBuffer, << >>} /\ crash \subseteq crash'
      BY <1>3, BufferKept
    <2>2. CASE tree'[PERFOBJ] = tree[PERFOBJ]
      BY <1>1, <1>2, <2>1, <2>2 DEF NamesInv
    <2>3. CASE (PerfObjInitialize \/ PerfObjFinalize) /\ tree'[PERFOBJ] = << >>
      <3>1. At("idle") /\ szBuffer' = szBuffer
        BY <2>3 DEF PerfObjInitialize, PerfObjFinalize, AtOnce, Calling, dataVars
      <3>2. szBuffer' = << >>
        BY <3>1 DEF At, TypeInv, ControlOK
      <3>3. DOMAIN tree'[PERFOBJ] = {}
        BY <2>3
      <3> QED BY <1>2, <3>2, <3>3 DEF NamesInv
    <2> QED BY <1>3, <2>2, <2>3, ObjectTree
  <1>4. CASE NextObject
    <2>1. CASE ~HasName(Head(objs)) /\ UNCHANGED <<szBuffer, reportVars>>
      BY <1>1, <1>2, <2>1 DEF NamesInv, reportVars
    <2>2. CASE crash' # {} /\ tree'[PERFOBJ] = tree[PERFOBJ]
      BY <1>1, <1>2, <2>2 DEF NamesInv
    <2>3. CASE /\ crash' = crash
               /\ szBuffer' = Overlay(NameOf(Head(objs)), szBuffer)
               /\ tree'[PERFOBJ] = Append(tree[PERFOBJ], [of |-> Head(objs), name |-> szBuffer'])
      <3>1. PICK o \in Index, t \in Seq(Row), old \in Seq(Index) :
              o = Head(objs) /\ t = tree[PERFOBJ] /\ old = szBuffer /\ Len(old) <= 2
        BY <1>4, ObjectAdded, ObjectRow DEF TypeInv, ControlOK
      <3>2. PICK u \in Seq(Row) : u = Append(t, [of |-> o, name |-> Overlay(NameOf(o), old)])
        BY <1>4, <3>1, ObjectAdded, ObjectRow, AppendProperties
      <3>3. crash = {}
        BY <1>4 DEF NextObject, Step, At, Running
      <3>4. old # << >> => \E j \in DOMAIN t : Len(NameOf(t[j].of)) = Len(old)
        BY <3>1, <3>3 DEF NamesInv
      <3>5. /\ \A i \in DOMAIN u : Exact(u, i)
            /\ \E j \in DOMAIN u : Len(NameOf(u[j].of)) = Len(Overlay(NameOf(o), old))
        <4>1. \A i \in DOMAIN t : Exact(t, i)
          BY <1>1, <3>1
        <4>2. Len(old) <= 2
          BY <3>1
        <4> QED BY <3>2, <3>4, <4>1, <4>2, NamesAppend
      <3>6. tree'[PERFOBJ] = u /\ szBuffer' = Overlay(NameOf(o), old)
        BY <2>3, <3>1, <3>2
      <3> QED BY <1>2, <3>5, <3>6 DEF NamesInv
    <2> QED BY <1>4, <2>1, <2>2, <2>3, ObjectAdded
  <1> QED BY <1>3, <1>4

(* A name in PerfObj.xml begins with the object's own and is exactly that  *)
(* unless a longer name came before it, however often Enumerate is called. *)
THEOREM NamesRight == Spec => []NamesExactUnlessLonger
  <1>1. Init => NamesInv
    <2> SUFFICES ASSUME Init PROVE NamesInv
      OBVIOUS
    <2>1. tree[PERFOBJ] = << >> /\ szBuffer = << >>
      BY NamesDiffer DEF Init, ReportInit
    <2>2. DOMAIN tree[PERFOBJ] = {}
      BY <2>1
    <2> QED BY <2>1, <2>2 DEF NamesInv, NamesExactUnlessLonger
  <1>2. NamesInv => NamesExactUnlessLonger
    BY DEF NamesInv
  <1> QED BY <1>1, <1>2, NamesStep, TypeCorrect, PTL DEF Spec

-----------------------------------------------------------------------------
(* The objects that are listed.                                            *)

(* Before the loop over the objects no row has been made; in it, what has  *)
(* a row and what is still to get one are different, and an object that    *)
(* stays is one or the other, unless no names or no objects were read.     *)
Early ==
    \/ Times("PerfObjEnumerator", "Enumerate") = 0
    \/ pc \in {"size", "read", "objects"} /\ job = "PerfObjEnumerator"

Different(t, q) ==
    /\ \A i, j \in DOMAIN t : t[i].of = t[j].of => i = j
    /\ \A i, j \in DOMAIN q : q[i] = q[j] => i = j
    /\ \A i \in DOMAIN t, j \in DOMAIN q : t[i].of # q[j]

Complete(t, q) ==
    \/ t = << >> /\ (names = {} \/ q = << >>)
    \/ /\ names # {}
       /\ \A o \in steady \cap Object :
            (\E i \in DOMAIN t : t[i].of = o) \/ (\E j \in DOMAIN q : q[j] = o)

ListInv ==
    ~misused =>
        /\ Early => tree[PERFOBJ] = << >>
        /\ pc \in {"row", "load"} =>
             Different(tree[PERFOBJ], objs) /\ Complete(tree[PERFOBJ], objs)

(* One object less is to be listed, with a row or, if it has no name,      *)
(* without.                                                                *)
LEMMA ObjectTaken ==
    ASSUME NEW t \in Seq(Row), NEW q \in Seq(Object), q # << >>,
           Different(t, q), Complete(t, q), names # {} => steady \subseteq names
    PROVE  /\ Head(q) \notin names => Different(t, Tail(q)) /\ Complete(t, Tail(q))
           /\ \A u \in Seq(Row), row \in Row :
                Head(q) \in names /\ row.of = Head(q) /\ u = Append(t, row) =>
                  Different(u, Tail(q)) /\ Complete(u, Tail(q))
  <1> DEFINE n == Len(t)
             m == Len(q)
             r == Tail(q)
  <1>1. /\ n \in Nat /\ DOMAIN t = 1..n /\ m \in Nat \ {0} /\ DOMAIN q = 1..m
        /\ Head(q) = q[1] /\ DOMAIN r = 1..(m - 1) /\ \A j \in 1..(m - 1) : r[j] = q[j + 1]
    OBVIOUS
  <1> HIDE DEF n, m, r
  <1>2. /\ 1 \in 1..m
        /\ \A j \in 1..(m - 1) : j + 1 \in 1..m /\ j + 1 # 1 /\ r[j] = q[j + 1]
        /\ \A j \in 1..m : j = 1 \/ (j - 1 \in 1..(m - 1) /\ r[j - 1] = q[j])
    BY <1>1
  <1>3. /\ \A i, j \in DOMAIN r : r[i] = r[j] => i = j
        /\ \A j \in DOMAIN r : r[j] # q[1]
        /\ \A i \in DOMAIN t, j \in DOMAIN r : t[i].of # r[j]
    <2>1. ASSUME NEW i \in 1..(m - 1), NEW j \in 1..(m - 1), r[i] = r[j]
          PROVE  i = j
      <3>1. i + 1 \in DOMAIN q /\ j + 1 \in DOMAIN q /\ q[i + 1] = q[j + 1]
        BY <1>1, <1>2, <2>1
      <3>2. i + 1 = j + 1
        BY <3>1 DEF Different
      <3> QED BY <3>2
    <2>2. ASSUME NEW j \in 1..(m - 1)
          PROVE  r[j] # q[1] /\ \A i \in DOMAIN t : t[i].of # r[j]
      <3>1. j + 1 \in DOMAIN q /\ 1 \in DOMAIN q /\ j + 1 # 1 /\ r[j] = q[j + 1]
        BY <1>1, <1>2
      <3> QED BY <3>1 DEF Different
    <2> QED BY <1>1, <2>1, <2>2
  <1>4. \A o : (\E j \in DOMAIN q : q[j] = o) => o = q[1] \/ \E j \in DOMAIN r : r[j] = o
    BY <1>1, <1>2
  <1>5. ASSUME Head(q) \notin names
        PROVE  Different(t, r) /\ Complete(t, r)
    <2>1. Different(t, r)
      BY <1>3 DEF Different
    <2>2. CASE t = << >> /\ names = {}
      BY <2>1, <2>2 DEF Complete
    <2>3. CASE /\ names # {}
               /\ \A o \in steady \cap Object :
                    (\E i \in DOMAIN t : t[i].of = o) \/ (\E j \in DOMAIN q : q[j] = o)
      <3>1. q[1] \notin steady
        BY <1>1, <1>5, <2>3
      <3>2. \A o \in steady \cap Object :
              (\E i \in DOMAIN t : t[i].of = o) \/ (\E j \in DOMAIN r : r[j] = o)
        BY <1>4, <2>3, <3>1
      <3> QED BY <2>1, <2>3, <3>2 DEF Complete
    <2> QED BY <2>2, <2>3 DEF Complete
  <1>6. ASSUME NEW u \in Seq(Row), NEW row \in Row,
               Head(q) \in names, row.of = Head(q), u = Append(t, row)
        PROVE  Different(u, r) /\ Complete(u, r)
    <2>1. /\ DOMAIN u = 1..(n + 1) /\ u[n + 1].of = q[1]
          /\ \A i \in 1..n : u[i] = t[i]
      BY <1>1, <1>6 DEF n
    <2>2. \A i \in 1..(n + 1) : i = n + 1 \/ i \in 1..n
      BY <1>1
    <2>3. \A i \in 1..n : i \in 1..(n + 1) /\ i # n + 1 /\ t[i].of # q[1]
      BY <1>1, <1>2 DEF Different
    <2>4. n + 1 \in 1..(n + 1)
      BY <1>1
    <2>5. ASSUME NEW i \in 1..(n + 1), NEW j \in 1..(n + 1), u[i].of = u[j].of
          PROVE  i = j
      <3>1. \A k, l \in 1..n : t[k].of = t[l].of => k = l
        BY <1>1 DEF Different
      <3>2. CASE i \in 1..n /\ j \in 1..n
        BY <2>1, <2>5, <3>1, <3>2
      <3>3. CASE i = n + 1 \/ j = n + 1
        <4>1. \A k \in 1..n : u[k].of # q[1]
          BY <2>1, <2>3
        <4> QED BY <2>1, <2>2, <2>5, <3>3, <4>1
      <3> QED BY <2>2, <3>2, <3>3
    <2>6. ASSUME NEW i \in 1..(n + 1), NEW j \in DOMAIN r
          PROVE  u[i].of # r[j]
      <3>1. \A k \in 1..n : t[k].of # r[j]
        BY <1>1, <1>3
      <3> QED BY <1>3, <2>1, <2>2, <3>1
    <2>7. Different(u, r)
      BY <1>3, <2>1, <2>5, <2>6 DEF Different
    <2>8. /\ names # {}
          /\ \A o \in steady \cap Object :
               (\E i \in DOMAIN t : t[i].of = o) \/ (\E j \in DOMAIN q : q[j] = o)
      BY <1>6 DEF Complete
    <2>9. \A o : (\E i \in DOMAIN t : t[i].of = o) => \E i \in DOMAIN u : u[i].of = o
      BY <1>1, <2>1, <2>3
    <2>10. \E i \in DOMAIN u : u[i].of = q[1]
      BY <2>1, <2>4
    <2> QED BY <1>4, <2>7, <2>8, <2>9, <2>10 DEF Complete
  <1> QED BY <1>5, <1>6 DEF r

(* A call of another function leaves the calls of Enumerate.               *)
LEMMA NotEnumerate ==
    ASSUME TypeInv, UseInv, ~misused', NEW q, NEW op \in Op \ {"Enumerate"},
           Calling(q, op, ReadsNames)
    PROVE  /\ ~misused /\ pc = "idle"
           /\ Times("PerfObjEnumerator", "Enumerate")' = Times("PerfObjEnumerator", "Enumerate")
  <1>1. <<"PerfObjEnumerator", "Enumerate">> # <<q, op>>
    OBVIOUS
  <1>2. /\ ~misused /\ pc = "idle"
        /\ \A p, o : <<p, o>> # <<q, op>> => Times(p, o)' = Times(p, o)
    BY ProperCall
  <1> QED BY <1>1, <1>2

(* A step that neither calls nor lists an object leaves the lists.         *)
LEMMA ListKept ==
    ASSUME TypeInv, ListInv, ~misused',
           UNCHANGED <<called, misused>>, tree'[PERFOBJ] = tree[PERFOBJ],
           pc' \in {"size", "read", "objects"} /\ job' = "PerfObjEnumerator" =>
             pc \in {"size", "read", "objects"} /\ job = "PerfObjEnumerator",
           pc' \in {"row", "load"} =>
             pc \in {"row", "load"} /\ UNCHANGED <<objs, names>> /\ steady' \subseteq steady
    PROVE  ListInv'
  <1>1. Times("PerfObjEnumerator", "Enumerate")' = Times("PerfObjEnumerator", "Enumerate")
    BY DEF Times
  <1>2. Early' => Early
    BY <1>1 DEF Early
  <1>3. ASSUME pc' \in {"row", "load"}
        PROVE  Different(tree[PERFOBJ], objs)' /\ Complete(tree[PERFOBJ], objs)'
    <2>1. PICK t, q : t = tree[PERFOBJ] /\ q = objs
      OBVIOUS
    <2>2. Different(t, q) /\ Complete(t, q) /\ names' = names /\ steady' \subseteq steady
      BY <1>3, <2>1 DEF ListInv
    <2>3. Different(t, q)' /\ Complete(t, q)'
      BY <2>2 DEF Different, Complete
    <2>4. tree'[PERFOBJ] = t /\ objs' = q
      BY <1>3, <2>1
    <2> QED BY <2>3, <2>4 DEF Different, Complete
  <1> QED BY <1>2, <1>3 DEF ListInv

(* Every step keeps what is said of the rows and the objects.              *)
LEMMA ListStep == TypeInv /\ UseInv /\ ListInv /\ [Next]_vars => ListInv'
  <1> SUFFICES ASSUME TypeInv, UseInv, ListInv, [Next]_vars, ~misused' PROVE ListInv'
    BY DEF ListInv
  <1> DEFINE p == "PerfObjEnumerator"
             t == tree[PERFOBJ]
  <1>op. {"Initialize", "Enumerate", "Finalize", "run"} \subseteq Op
    BY DEF Op
  <1>1. CASE PerfObjInitialize \/ PerfObjFinalize
    <2>1. PICK op \in {"Initialize", "Finalize"} :
            Calling(p, op, ReadsNames) /\ pc' = pc
      BY <1>1 DEF PerfObjInitialize, PerfObjFinalize, AtOnce
    <2>2. /\ ~misused /\ pc = "idle"
          /\ Times(p, "Enumerate")' = Times(p, "Enumerate")
      BY <2>1, NotEnumerate DEF Op
    <2>3. t' \in {t, << >>}
      BY <1>1, ObjectTree DEF NextObject, Step, PerfObjInitialize, PerfObjFinalize, AtOnce,
                              Calling, At
    <2> QED BY <2>1, <2>2, <2>3 DEF ListInv, Early
  <1>2. CASE PerfObjEnumerate
    <2>1. Calling(p, "Enumerate", ReadsNames) /\ pc' = "size" /\ t' = t
      BY <1>2, <1>op, BeginFacts DEF PerfObjEnumerate, reportVars
    <2>2. ~misused /\ Times(p, "Enumerate") = 0
      BY <2>1, <1>op, ProperCall
    <2> QED BY <2>1, <2>2 DEF ListInv, Early
  <1>3. CASE TestTexts \/ TestPdhProcess \/ TestPdhProcessFails
    <2>1. PICK q \in {"testHelp", "testCounter", "test_pdh_process"} :
            /\ Calling(q, "run", ReadsNames) /\ t' = t
            /\ (pc' = "size" /\ job' = q) \/ (pc' = pc /\ job' = job)
      BY <1>3, <1>op, BeginFacts
         DEF TestTexts, TestPdhProcess, TestPdhProcessFails, AtOnce, reportVars
    <2>2. /\ ~misused /\ pc = "idle"
          /\ Times(p, "Enumerate")' = Times(p, "Enumerate")
      BY <2>1, NotEnumerate DEF Op
    <2> QED BY <2>1, <2>2 DEF ListInv, Early
  <1>4. CASE EnumPerfObjects
    <2>1. /\ pc = "objects" /\ job = p /\ UNCHANGED <<called, misused, named, tree>>
      BY <1>4 DEF EnumPerfObjects, Step, At, machineVars, callVars, reportVars, TypeInv,
                  ControlOK, LabelOK
    <2>2. Times(p, "Enumerate")' = Times(p, "Enumerate") /\ Times(p, "Enumerate") # 0
      BY <2>1, TimesNat DEF Times, UseInv, ObjectsSafe
    <2>3. t = << >> /\ DOMAIN t = {} /\ t' = t
      BY <2>1 DEF ListInv, Early
    <2>4. CASE QueryAgain
      BY <2>1, <2>3, <2>4 DEF QueryAgain, ListInv
    <2>5. CASE objs' = Copied(named) /\ pc' = "row" /\ UNCHANGED <<job, names, steady>>
      <3>1. PICK q \in Seq(Object) :
              /\ q = Copied(named)
              /\ \A i, j \in DOMAIN q : q[i] = q[j] => i = j
              /\ \A o \in named \cap Object : \E i \in DOMAIN q : q[i] = o
        BY CopiedIs DEF TypeInv, ControlOK
      <3>2. Different(t, q)'
        BY <2>3, <3>1 DEF Different
      <3>3. Complete(t, q)'
        BY <2>3, <2>5, <3>1 DEF Complete, TypeInv, ControlOK
      <3>4. objs' = q
        BY <2>5, <3>1
      <3> QED BY <2>1, <2>2, <2>3, <2>5, <3>2, <3>3, <3>4 DEF ListInv, Early, Different, Complete
    <2>6. CASE pc' = "row" /\ UNCHANGED <<job, dataVars, steady>>
      <3>1. objs' = << >> /\ DOMAIN objs' = {}
        BY <2>1, <2>6 DEF dataVars, TypeInv, ControlOK
      <3> QED BY <2>1, <2>2, <2>3, <2>6, <3>1 DEF ListInv, Early, Different, Complete
    <2> QED BY <1>4, <2>4, <2>5, <2>6 DEF EnumPerfObjects
  <1>5. CASE NextObject
    <2>1. /\ objs # << >> /\ objs' = Tail(objs) /\ pc = "row" /\ pc' = pc /\ job' = job
          /\ UNCHANGED <<names, steady, called, misused>>
      BY <1>5, ObjectAdded
    <2>2. ~misused /\ job = p /\ Times(p, "Enumerate")' = Times(p, "Enumerate")
          /\ Times(p, "Enumerate") # 0
      BY <2>1, TimesNat DEF Times, UseInv, ObjectsSafe, TypeInv, ControlOK, LabelOK
    <2>3. PICK s \in Seq(Row), q \in Seq(Object) : s = t /\ q = objs
      BY <1>5, ObjectAdded DEF TypeInv, ControlOK
    <2>4. /\ Different(s, q) /\ Complete(s, q) /\ (names # {} => steady \subseteq names)
          /\ q # << >>
      BY <2>1, <2>2, <2>3 DEF ListInv, TypeInv, ControlOK
    <2>5. /\ Head(q) \notin names => Different(s, Tail(q)) /\ Complete(s, Tail(q))
          /\ \A u \in Seq(Row), row \in Row :
               Head(q) \in names /\ row.of = Head(q) /\ u = Append(s, row) =>
                 Different(u, Tail(q)) /\ Complete(u, Tail(q))
      BY <2>4, ObjectTaken
    <2>6. PICK u \in Seq(Row) : u = t' /\ Different(u, Tail(q)) /\ Complete(u, Tail(q))
      <3>1. CASE ~HasName(Head(objs)) /\ UNCHANGED <<szBuffer, reportVars>>
        BY <2>3, <2>5, <3>1 DEF HasName, reportVars
      <3>2. CASE /\ HasName(Head(objs)) /\ [of |-> Head(objs), name |-> szBuffer'] \in Row
                 /\ t' = Append(t, [of |-> Head(objs), name |-> szBuffer'])
        <4>1. PICK row \in Row : row = [of |-> Head(objs), name |-> szBuffer']
          BY <3>2
        <4>2. Append(s, row) \in Seq(Row)
          BY AppendProperties
        <4> QED BY <2>3, <2>5, <3>2, <4>1, <4>2 DEF HasName
      <3>3. HasName(Head(objs)) => PERFOBJ \in m_root
        BY <1>5, <2>2, ObjectUse
      <3> QED BY <1>5, <3>1, <3>2, <3>3, ObjectAdded
    <2> QED BY <2>1, <2>2, <2>3, <2>6 DEF ListInv, Early, Different, Complete
  <1>6. CASE \/ Machine \/ QuerySize \/ ReadText \/ WriteReport \/ LoadObjectDataBegins
             \/ LoadObjectData \/ QueryProcess \/ WalkProcess \/ MainReturns
             \/ UNCHANGED vars
    <2>1. UNCHANGED <<called, misused>>
      BY <1>6 DEF Machine, QuerySize, ReadText, WriteReport, Write, LoadObjectDataBegins,
                  LoadObjectData, QueryProcess, WalkProcess, MainReturns, Step, callVars, vars
    <2>2. t' = t
      <3>1. CASE NextObject
        <4>1. pc = "row" /\ pc' = pc /\ objs # << >> /\ objs' # objs /\ todo = << >>
          BY <3>1, ObjectAdded DEF NextObject, Step, At, TypeInv, ControlOK
        <4> QED BY <1>6, <4>1
                DEF Machine, QuerySize, ReadText, WriteReport, Write, LoadObjectDataBegins,
                    LoadObjectData, QueryProcess, WalkProcess, MainReturns, Step, At, dataVars, vars
      <3>2. CASE PerfObjInitialize \/ PerfObjFinalize
        <4>1. called' # called
          <5>1. PICK op \in Op : Calling(p, op, ReadsNames)
            BY <3>2, <1>op DEF PerfObjInitialize, PerfObjFinalize, AtOnce
          <5>2. Times(p, op)' = Times(p, op) + 1 /\ Times(p, op) \in Nat
            BY <5>1, CallTimes
          <5>3. Times(p, op)' # Times(p, op)
            BY <5>2
          <5> QED BY <5>3 DEF Times
        <4> QED BY <2>1, <4>1
      <3> QED BY <3>1, <3>2, ObjectTree
    <2>3. CASE Machine \/ WriteReport \/ UNCHANGED vars
      <3>1. UNCHANGED <<pc, job, names, objs>> /\ steady' \subseteq steady
        BY <2>3 DEF Machine, Install, Remove, WriteReport, Write, dataVars, vars
      <3> QED BY <2>1, <2>2, <3>1, ListKept
    <2>4. CASE QuerySize \/ ReadText
      <3>1. \/ pc' = "read" /\ job' = job
            \/ job = p /\ pc' = "objects"
            \/ pc' \in {"data", "idle"}
        BY <2>4 DEF QuerySize, ReadText, BeginQuery, AfterText, End
      <3>2. pc \in {"size", "read"}
        BY <2>4 DEF QuerySize, ReadText, Step, At
      <3> QED BY <2>1, <2>2, <3>1, <3>2, ListKept
    <2>5. CASE LoadObjectDataBegins \/ (LoadObjectData /\ QueryAgain)
      <3>1. pc \in {"row", "load"} /\ pc' = "load" /\ UNCHANGED <<objs, names, steady>>
        BY <2>5 DEF LoadObjectDataBegins, LoadObjectData, Step, At, BeginQuery, QueryAgain
      <3> QED BY <2>1, <2>2, <3>1, ListKept
    <2>6. CASE (LoadObjectData /\ End) \/ QueryProcess \/ WalkProcess \/ MainReturns
      <3>1. pc' \in {"idle", "data", "walk", "exited"}
        BY <2>6 DEF LoadObjectData, QueryProcess, WalkProcess, MainReturns, Step, At,
                    QueryAgain, End
      <3> QED BY <2>1, <2>2, <3>1, ListKept
    <2> QED BY <1>6, <2>3, <2>4, <2>5, <2>6 DEF LoadObjectData
  <1> QED BY <1>1, <1>2, <1>3, <1>4, <1>5, <1>6 DEF Next, Calls, Steps, Terminating

(* Used as main shows, and when the names and the objects could be read,   *)
(* every object that was there throughout is in PerfObj.xml exactly once,  *)
(* and one that came or went meanwhile at most once, whatever libraries    *)
(* are installed and removed while the registry is asked.                  *)
THEOREM SteadyRight == Spec => []SteadyObjectsListed
  <1>1. Init => ListInv
    BY NamesDiffer DEF Init, CallInit, ReportInit, ListInv
  <1>2. TypeInv /\ ListInv => SteadyObjectsListed
    <2> SUFFICES ASSUME TypeInv, ListInv, ~misused, pc = "load", tree[PERFOBJ] # << >>,
                        NEW o \in Object
                 PROVE  Cardinality(RowsAbout(o)) <= 1 /\ (o \in steady => RowsAbout(o) # {})
      BY DEF SteadyObjectsListed
    <2>1. /\ Different(tree[PERFOBJ], objs) /\ Complete(tree[PERFOBJ], objs)
          /\ objs = << >> /\ DOMAIN objs = {}
      BY DEF ListInv, TypeInv, ControlOK
    <2>2. \A i, j \in RowsAbout(o) : i = j
      BY <2>1 DEF Different, RowsAbout
    <2>3. RowsAbout(o) = {} \/ \E i : RowsAbout(o) = {i}
      BY <2>2
    <2>4. Cardinality(RowsAbout(o)) <= 1
      <3>1. Cardinality(RowsAbout(o)) \in {0, 1}
        BY <2>3, FS_EmptySet, FS_Singleton
      <3> QED BY <3>1
    <2>5. o \in steady => RowsAbout(o) # {}
      BY <2>1 DEF Complete, RowsAbout
    <2> QED BY <2>4, <2>5
  <1> QED BY <1>1, <1>2, ListStep, AlwaysUsed, PTL DEF Spec

-----------------------------------------------------------------------------
(* The names in counterName.xml.                                           *)

(* Of the steps that print the rows, k are made and d are left, and t is   *)
(* what has been linked since the report was opened.                       *)
Left(rows, k, t, d) ==
    /\ Len(d) = Len(rows) + 2 - k
    /\ \A i \in 1..Len(d) : d[i] = Printed(COUNTERNAME, rows)[i + k]
    /\ k > 0 => Len(t) = k - 1 /\ \A i \in 1..(k - 1) : t[i] = rows[i]

(* While counterName.xml is printed, the names stay what they were, and    *)
(* what is left is the rest of their rows.                                 *)
IsText == \E i \in 1..Len(todo) : todo[i].on = COUNTERNAME

TextInv ==
    crash = {} /\ IsText =>
        /\ Core \subseteq names
        /\ \E k \in 0..(Len(NameRows(names)) + 1) :
             Left(NameRows(names), k, tree[COUNTERNAME], todo)

(* The next step opens the report, adds the next row or, when all are in,  *)
(* closes it.                                                              *)
LEMMA LeftStep ==
    ASSUME NEW rows \in Seq(Row), NEW t \in Seq(Row), NEW d \in Seq(TodoStep), d # << >>,
           NEW k \in 0..(Len(rows) + 1), Left(rows, k, t, d)
    PROVE  /\ d[1].on = COUNTERNAME
           /\ k = 0 => /\ d[1].does = "open"
                       /\ \A u \in Seq(Row) : u = << >> => Left(rows, 1, u, Tail(d))
           /\ k \in 1..Len(rows) =>
                /\ d[1].does = "row" /\ d[1].row = rows[k]
                /\ \A u \in Seq(Row) : u = Append(t, rows[k]) => Left(rows, k + 1, u, Tail(d))
           /\ k = Len(rows) + 1 => d[1].does = "close" /\ Tail(d) = << >> /\ t = rows
  <1> DEFINE n == Len(rows)
             p == Printed(COUNTERNAME, rows)
             r == Tail(d)
             m == Len(d)
  <1>1. /\ n \in Nat
        /\ \A i \in 1..(n + 2) : p[i] =
             IF i = 1 THEN [does |-> "open", on |-> COUNTERNAME]
             ELSE IF i = n + 2 THEN [does |-> "close", on |-> COUNTERNAME]
             ELSE [does |-> "row", on |-> COUNTERNAME, row |-> rows[i - 1]]
    <2>1. PICK c \in Prints : c = COUNTERNAME
      BY NamesDiffer
    <2> QED BY <2>1, PrintedIs
  <1>2. /\ m \in Nat \ {0} /\ r \in Seq(TodoStep) /\ Len(r) = m - 1
        /\ \A i \in 1..(m - 1) : r[i] = d[i + 1]
    OBVIOUS
  <1>3. /\ m = n + 2 - k /\ \A i \in 1..m : d[i] = p[i + k]
        /\ k > 0 => Len(t) = k - 1 /\ \A i \in 1..(k - 1) : t[i] = rows[i]
    BY DEF Left
  <1> HIDE DEF n, p, r, m
  <1>r. r = << >> <=> Len(r) = 0
    BY <1>2
  <1>4. k \in Nat /\ k <= n + 1
    BY <1>1 DEF n
  <1>5. d[1] = p[1 + k] /\ 1 + k \in 1..(n + 2)
    BY <1>1, <1>2, <1>3, <1>4
  <1>6. /\ Len(r) = n + 2 - (k + 1)
        /\ \A i \in 1..Len(r) : r[i] = p[i + (k + 1)]
    <2>1. Len(r) = n + 2 - (k + 1)
      BY <1>1, <1>2, <1>3, <1>4
    <2>2. ASSUME NEW i \in 1..Len(r)
          PROVE  r[i] = p[i + (k + 1)]
      <3>1. i \in 1..(m - 1) /\ i + 1 \in 1..m /\ (i + 1) + k = i + (k + 1)
        BY <1>2, <1>4
      <3> QED BY <1>2, <1>3, <3>1
    <2> QED BY <2>1, <2>2
  <1>7. CASE k = 0
    <2>1. d[1] = [does |-> "open", on |-> COUNTERNAME]
      <3>1. 1 + k = 1 /\ 1 \in 1..(n + 2)
        BY <1>1, <1>7
      <3> QED BY <1>1, <1>5, <3>1
    <2>2. ASSUME NEW u \in Seq(Row), u = << >>
          PROVE  Left(rows, 1, u, r)
      <3>1. k + 1 = 1 /\ Len(u) = 1 - 1 /\ \A i \in 1..(1 - 1) : u[i] = rows[i]
        BY <1>7, <2>2
      <3> QED BY <1>6, <3>1 DEF Left, n, p
    <2> QED BY <1>1, <1>7, <2>1, <2>2 DEF n, r
  <1>8. CASE k \in 1..n
    <2>1. d[1] = [does |-> "row", on |-> COUNTERNAME, row |-> rows[k]]
      <3>1. 1 + k # 1 /\ 1 + k # n + 2 /\ (1 + k) - 1 = k
        BY <1>1, <1>8
      <3> QED BY <1>1, <1>5, <3>1
    <2>2. ASSUME NEW u \in Seq(Row), u = Append(t, rows[k])
          PROVE  Left(rows, k + 1, u, r)
      <3>1. Len(t) = k - 1 /\ \A i \in 1..(k - 1) : t[i] = rows[i]
        BY <1>3, <1>8
      <3>2. rows[k] \in Row
        BY <1>8 DEF n
      <3>3. Len(u) = k /\ u[k] = rows[k] /\ \A i \in 1..(k - 1) : u[i] = t[i]
        BY <1>4, <1>8, <2>2, <3>1, <3>2
      <3>4. /\ Len(u) = (k + 1) - 1 /\ k + 1 > 0
            /\ \A i \in 1..((k + 1) - 1) : i = k \/ i \in 1..(k - 1)
        BY <1>4, <3>3
      <3> QED BY <1>6, <3>1, <3>3, <3>4 DEF Left, n, p
    <2>3. k # 0 /\ k # n + 1
      BY <1>1, <1>8
    <2> QED BY <1>8, <2>1, <2>2, <2>3 DEF n, r
  <1>9. CASE k = n + 1
    <2>1. d[1] = [does |-> "close", on |-> COUNTERNAME]
      <3>1. 1 + k # 1 /\ 1 + k = n + 2
        BY <1>1, <1>9
      <3> QED BY <1>1, <1>5, <3>1
    <2>2. r = << >>
      BY <1>1, <1>6, <1>9, <1>r
    <2>3. t = rows
      <3>1. Len(t) = n /\ \A i \in 1..n : t[i] = rows[i]
        BY <1>1, <1>3, <1>9
      <3>2. Len(t) = Len(rows) /\ \A i \in 1..Len(t) : t[i] = rows[i]
        BY <3>1 DEF n
      <3> QED BY <3>2, SeqEqual
    <2>4. k # 0 /\ k \notin 1..n
      BY <1>1, <1>9
    <2> QED BY <1>9, <2>1, <2>2, <2>3, <2>4 DEF n, r
  <1>10. k = 0 \/ k \in 1..n \/ k = n + 1
    BY <1>1, <1>4
  <1> QED BY <1>7, <1>8, <1>9, <1>10

(* A step that makes the steps on counterName.xml is the end of a read.    *)
LEMMA TextRead ==
    ASSUME TypeInv, [Next]_vars, ~WriteReport, ~UNCHANGED vars, IsText'
    PROVE  /\ Core \subseteq names'
           /\ todo' = Printed(COUNTERNAME, NameRows(names'))
           /\ NameRows(names') \in Seq(Row)
  <1>1. todo = << >>
    BY DEF Next, Machine, Calls, Steps, Terminating, PerfObjInitialize, PerfObjFinalize,
           PerfObjEnumerate, TestTexts, TestPdhProcess, TestPdhProcessFails, AtOnce, Begin,
           Calling, MainReturns, QuerySize, ReadText, EnumPerfObjects, NextObject,
           LoadObjectDataBegins, LoadObjectData, QueryProcess, WalkProcess, Step, At
  <1>2. todo' # todo
    BY <1>1 DEF IsText
  <1>3. ReadText \/ WalkProcess
    BY <1>2 DEF Next, Machine, Calls, Steps, Terminating, PerfObjInitialize, PerfObjFinalize,
           PerfObjEnumerate, TestTexts, TestPdhProcess, TestPdhProcessFails, AtOnce, Begin,
           MainReturns, QuerySize, EnumPerfObjects, NextObject,
           LoadObjectDataBegins, LoadObjectData, QueryProcess
  <1>4. ASSUME NEW n \in Prints, NEW rows \in Seq(Row), todo' = Printed(n, rows)
        PROVE  n = COUNTERNAME
    <2>1. PICK p \in Seq(TodoStep) : p = Printed(n, rows)
      BY PrintedIs
    <2>2. ASSUME NEW i \in 1..(Len(rows) + 2)
          PROVE  p[i].on = n
      <3>1. \/ p[i] = [does |-> "open", on |-> n]
            \/ p[i] = [does |-> "close", on |-> n]
            \/ p[i] = [does |-> "row", on |-> n, row |-> rows[i - 1]]
        <4>1. p[i] = IF i = 1 THEN [does |-> "open", on |-> n]
                     ELSE IF i = Len(rows) + 2 THEN [does |-> "close", on |-> n]
                     ELSE [does |-> "row", on |-> n, row |-> rows[i - 1]]
          BY <2>1, PrintedIs
        <4> QED BY <4>1
      <3> QED BY <3>1
    <2>3. Len(todo') = Len(rows) + 2 /\ todo' = p
      BY <1>4, <2>1, PrintedIs
    <2> QED BY <2>2, <2>3 DEF IsText
  <1>5. CASE WalkProcess
    <2>1. PICK rows \in Seq(Row) : todo' = Printed(COUNTERS_PROCESS, rows)
      BY <1>5, WalkPrints
    <2> QED BY <1>4, <2>1, NamesDiffer
  <1>6. CASE ReadText
    <2>1. /\ TextFile \in Prints /\ AfterText(named)
          /\ todo' = Printed(TextFile, NameRows(named))
      BY <1>2, <1>6, ReadTextPrints
    <2>2. NameRows(named) \in Seq(Row)
      BY NameRowsAre DEF TypeInv, ControlOK
    <2>3. TextFile = COUNTERNAME
      BY <1>4, <2>1, <2>2
    <2>4. job \notin {"testHelp", "testCounter"}
      BY <2>3, NamesDiffer DEF TextFile
    <2>5. names' = named
      BY <2>1, <2>4 DEF AfterText
    <2> QED BY <2>1, <2>2, <2>3, <2>5 DEF TypeInv, ControlOK
  <1> QED BY <1>3, <1>5, <1>6

(* Every step keeps what is said of the names that are being printed.      *)
LEMMA TextStep == TypeInv /\ TextInv /\ [Next]_vars => TextInv'
  <1> SUFFICES ASSUME TypeInv, TextInv, [Next]_vars, crash' = {}, IsText'
               PROVE  TextInv'
    BY DEF TextInv
  <1>1. CASE UNCHANGED vars
    <2>1. UNCHANGED <<crash, todo, names, tree>>
      BY <1>1 DEF vars, dataVars, reportVars
    <2>2. IsText
      BY <2>1 DEF IsText
    <2> QED BY <2>1, <2>2 DEF TextInv
  <1>2. CASE ~WriteReport /\ ~UNCHANGED vars
    <2>1. PICK rows \in Seq(Row) :
            /\ Core \subseteq names' /\ rows = NameRows(names')
            /\ todo' = Printed(COUNTERNAME, rows)
      BY <1>2, TextRead
    <2>2. Len(rows) \in Nat /\ Len(Printed(COUNTERNAME, rows)) = Len(rows) + 2
      <3>1. PICK c \in Prints : c = COUNTERNAME
        BY NamesDiffer
      <3> QED BY <3>1, PrintedIs
    <2>3. 0 \in 0..(Len(rows) + 1) /\ Len(todo') = Len(rows) + 2 - 0 /\ ~(0 > 0)
          /\ \A i \in 1..Len(todo') : i + 0 = i
      BY <2>1, <2>2
    <2>4. Left(rows, 0, tree'[COUNTERNAME], todo')
      BY <2>1, <2>3 DEF Left
    <2> QED BY <2>1, <2>3, <2>4 DEF TextInv
  <1>3. CASE WriteReport
    <2>1. /\ todo # << >> /\ todo' = Tail(todo) /\ crash = {} /\ names' = names
          /\ \/ todo[1].does = "open" /\ InitializeUnchecked(todo[1].on)
             \/ todo[1].does = "row" /\ LinkRow(todo[1].on, todo[1].row)
             \/ todo[1].does = "close"
      BY <1>3, WriteStep
    <2>2. IsText
      <3>1. PICK i \in 1..Len(todo') : todo'[i].on = COUNTERNAME
        BY DEF IsText
      <3>2. i \in 1..(Len(todo) - 1) /\ todo'[i] = todo[i + 1] /\ i + 1 \in 1..Len(todo)
        BY <2>1, <3>1, NextStep
      <3> QED BY <3>1, <3>2 DEF IsText
    <2>3. PICK rows \in Seq(Row) : rows = NameRows(names)
      BY NameRowsAre DEF TypeInv, ControlOK
    <2>4. PICK t \in Seq(Row), d \in Seq(TodoStep) : t = tree[COUNTERNAME] /\ d = todo
      BY NamesDiffer DEF TypeInv, ControlOK, ReportOK, ReportType, Prints
    <2>5. Core \subseteq names /\ \E k \in 0..(Len(rows) + 1) : Left(rows, k, t, d)
      BY <2>1, <2>2, <2>3, <2>4 DEF TextInv
    <2>6. PICK k \in 0..(Len(rows) + 1) : Left(rows, k, t, d)
      BY <2>5
    <2>7. /\ d[1].on = COUNTERNAME
          /\ k = 0 => /\ d[1].does = "open"
                      /\ \A u \in Seq(Row) : u = << >> => Left(rows, 1, u, Tail(d))
          /\ k \in 1..Len(rows) =>
               /\ d[1].does = "row" /\ d[1].row = rows[k]
               /\ \A u \in Seq(Row) : u = Append(t, rows[k]) => Left(rows, k + 1, u, Tail(d))
          /\ k = Len(rows) + 1 => d[1].does = "close" /\ Tail(d) = << >> /\ t = rows
      <3>1. d # << >>
        BY <2>1, <2>4
      <3> QED BY <2>6, <3>1, LeftStep
    <2>8. tree \in [Name -> Seq(Row)] /\ COUNTERNAME \in Name
      BY NamesDiffer DEF TypeInv, ReportOK, ReportType, Prints
    <2>9. PICK l \in 0..(Len(rows) + 1) : Left(rows, l, tree'[COUNTERNAME], Tail(d))
      <3>1. CASE k = 0
        <4>1. tree'[COUNTERNAME] = << >>
          BY <2>1, <2>4, <2>7, <2>8, <3>1 DEF InitializeUnchecked, NewRoot
        <4>2. 1 \in 0..(Len(rows) + 1) /\ << >> \in Seq(Row)
          OBVIOUS
        <4> QED BY <2>7, <3>1, <4>1, <4>2
      <3>2. CASE k \in 1..Len(rows)
        <4>1. LinkRow(COUNTERNAME, rows[k])
          BY <2>1, <2>4, <2>7, <3>2
        <4>2. tree'[COUNTERNAME] = Append(t, rows[k])
          BY <2>1, <2>4, <2>8, <4>1 DEF LinkRow, Crash
        <4>3. k + 1 \in 0..(Len(rows) + 1) /\ Append(t, rows[k]) \in Seq(Row)
          BY <3>2
        <4> QED BY <2>7, <3>2, <4>2, <4>3
      <3>3. CASE k = Len(rows) + 1
        <4>1. todo' = << >>
          BY <2>1, <2>4, <2>7, <3>3
        <4> QED BY <4>1 DEF IsText
      <3>4. k = 0 \/ k \in 1..Len(rows) \/ k = Len(rows) + 1
        OBVIOUS
      <3> QED BY <3>1, <3>2, <3>3, <3>4
    <2>10. NameRows(names') = rows /\ todo' = Tail(d) /\ Core \subseteq names'
      BY <2>1, <2>3, <2>4, <2>5
    <2> QED BY <2>9, <2>10 DEF TextInv
  <1> QED BY <1>1, <1>2, <1>3

(* counterName.xml is written by a function that closes it.                *)
LEMMA TextSaved ==
    ASSUME TypeInv, [Next]_vars, COUNTERNAME \in saved' \ saved
    PROVE  /\ WriteReport /\ todo # << >> /\ crash = {} /\ names' = names
           /\ todo[1].on = COUNTERNAME /\ todo[1].does = "close"
           /\ files'[COUNTERNAME] = tree[COUNTERNAME]
  <1>1. ASSUME NEW n \in Name, CloseReport(n)
        PROVE  n = COUNTERNAME /\ files'[COUNTERNAME] = tree[COUNTERNAME]
    <2>1. files' = [files EXCEPT ![n] = tree[n]] /\ saved' = saved \cup {n}
      BY <1>1 DEF CloseReport, Crash, SaveFile
    <2>2. files \in [Name -> Seq(Row)]
      BY DEF TypeInv, ReportOK, ReportType
    <2> QED BY <2>1, <2>2
  <1>2. ASSUME NEW n, InitializeUnchecked(n) \/ Crash(n) \/ \E row : LinkRow(n, row)
        PROVE  FALSE
    BY <1>2 DEF InitializeUnchecked, Crash, LinkRow
  <1>3. CASE WriteReport
    <2>1. CloseReport(todo[1].on) /\ todo[1].does = "close"
      BY <1>2, <1>3, WriteStep
    <2>2. todo[1].on \in Name
      BY <1>3, WriteStep DEF Prints
    <2> QED BY <1>1, <1>3, <2>1, <2>2, WriteStep
  <1>4. CASE PerfObjInitialize \/ PerfObjFinalize
    <2>1. CloseReport(PERFOBJ) \/ UNCHANGED reportVars
      BY <1>2, <1>4 DEF PerfObjInitialize, PerfObjFinalize, FinalizeReport
    <2> QED BY <1>1, <2>1, NamesDiffer DEF reportVars
  <1>5. CASE NextObject
    BY <1>2, <1>5 DEF NextObject, reportVars
  <1>6. CASE WalkProcess
    BY <1>6, WalkPrints DEF reportVars
  <1>7. CASE UNCHANGED reportVars
    BY <1>7 DEF reportVars
  <1> QED BY <1>3, <1>4, <1>5, <1>6, <1>7
          DEF Next, Machine, Calls, Steps, Terminating, PerfObjEnumerate, TestTexts,
              TestPdhProcess, TestPdhProcessFails, AtOnce, Begin, MainReturns, QuerySize,
              ReadText, EnumPerfObjects, LoadObjectDataBegins, LoadObjectData, QueryProcess,
              vars

(* counterName.xml, when it is written, has every name the registry had at *)
(* one moment, once and in order: a list that grew between the two queries *)
(* is dropped and never cut.                                               *)
THEOREM NamesWholeRight == Spec => NamesWhole
  <1>1. Init => TextInv
    <2> SUFFICES ASSUME Init PROVE TextInv
      OBVIOUS
    <2>1. Len(todo) = 0
      BY DEF Init, CallInit
    <2> QED BY <2>1 DEF TextInv, IsText
  <1>2. TypeInv /\ TextInv /\ [Next]_vars => [NamesWritten]_vars
    <2> SUFFICES ASSUME TypeInv, TextInv, [Next]_vars, COUNTERNAME \in saved' \ saved
                 PROVE  Core \subseteq names /\ files'[COUNTERNAME] = NameRows(names)
      BY DEF NamesWritten
    <2>1. /\ todo # << >> /\ crash = {}
          /\ todo[1].on = COUNTERNAME /\ todo[1].does = "close"
          /\ files'[COUNTERNAME] = tree[COUNTERNAME]
      BY TextSaved
    <2>2. IsText
      <3>1. 1 \in 1..Len(todo)
        BY <2>1, NextStep
      <3> QED BY <2>1, <3>1 DEF IsText
    <2>3. PICK rows \in Seq(Row), t \in Seq(Row), d \in Seq(TodoStep) :
            rows = NameRows(names) /\ t = tree[COUNTERNAME] /\ d = todo
      BY NameRowsAre, NamesDiffer DEF TypeInv, ControlOK, ReportOK, ReportType, Prints
    <2>4. Core \subseteq names /\ \E k \in 0..(Len(rows) + 1) : Left(rows, k, t, d)
      BY <2>1, <2>2, <2>3 DEF TextInv
    <2>5. PICK k \in 0..(Len(rows) + 1) : Left(rows, k, t, d)
      BY <2>4
    <2>6. /\ k = 0 => d[1].does = "open"
          /\ k \in 1..Len(rows) => d[1].does = "row"
          /\ k = Len(rows) + 1 => t = rows
      BY <2>1, <2>3, <2>5, LeftStep
    <2>7. k = 0 \/ k \in 1..Len(rows) \/ k = Len(rows) + 1
      OBVIOUS
    <2> QED BY <2>1, <2>3, <2>4, <2>6, <2>7
  <1> QED BY <1>1, <1>2, TextStep, TypeCorrect, PTL DEF Spec, NamesWhole
=============================================================================

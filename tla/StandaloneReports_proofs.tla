---------------------- MODULE StandaloneReports_proofs ----------------------
(***************************************************************************)
(* Proofs about StandaloneReports, for any number of drivers, addresses    *)
(* and calls: what the rows of driver.xml say of the drivers, that a main  *)
(* which keeps to its use loses no document and follows no NULL, and that  *)
(* every report keeps the promise of ReportLifecycle.                      *)
(***************************************************************************)
EXTENDS StandaloneReports, FiniteSetTheorems, SequenceTheorems, TLAPS

-----------------------------------------------------------------------------
(* Types.                                                                  *)

(* A step on a report that is still to be made.                            *)
TodoStep ==
    [does : {"open", "close"}, on : Name] \cup [does : {"row"}, on : Name, row : Row]

ReportOK == ReportType(Name, Row)

ControlOK ==
    /\ loaded \in [Address -> Driver \cup {None}]
    /\ szBuffer \subseteq Address
    /\ pc = "path" => szName \in [at : Address, of : Driver]
    /\ seen \in [Address -> SUBSET Driver]
    /\ steady \subseteq Address
    /\ first \in Nat
    /\ pc \in {"idle", "name", "path", "exited"}
    /\ todo \in Seq(TodoStep)
    /\ pc # "idle" => todo = << >>
    /\ called \in [Producer \X Op -> Nat]
    /\ misused \in BOOLEAN

TypeInv == ControlOK /\ ReportOK

(* Every operator of Report keeps the types of its variables.              *)
LEMMA LinkRowType ==
    ASSUME NEW n \in Name, NEW row \in Row, ReportOK, LinkRow(n, row)
    PROVE  ReportOK'
  <1>1. CASE n \in m_root
    <2>1. Append(tree[n], row) \in Seq(Row)
      BY DEF ReportOK, ReportType
    <2>2. tree' = [tree EXCEPT ![n] = Append(tree[n], row)]
      BY <1>1 DEF LinkRow
    <2>3. tree' \in [Name -> Seq(Row)]
      BY <2>1, <2>2 DEF ReportOK, ReportType
    <2> QED BY <1>1, <2>3 DEF LinkRow, ReportOK, ReportType
  <1>2. CASE n \notin m_root
    BY <1>2 DEF LinkRow, Crash, ReportOK, ReportType
  <1> QED BY <1>1, <1>2

(* Getting the documents of a report keeps the types.                      *)
LEMMA InitializeType ==
    ASSUME NEW n \in Name, ReportOK, InitializeChecked(n) \/ InitializeUnchecked(n)
    PROVE  ReportOK'
  <1>1. GetDocument(n) /\ (NewRoot(n) \/ UNCHANGED <<m_root, tree>>)
    BY DEF InitializeChecked, InitializeUnchecked
  <1>2. m_map' \subseteq Name /\ heap' \subseteq Name /\ m_doc' \subseteq Name
    BY <1>1 DEF GetDocument, ReportOK, ReportType
  <1>3. << >> \in Seq(Row)
    OBVIOUS
  <1>4. m_root' \subseteq Name /\ tree' \in [Name -> Seq(Row)]
    BY <1>1, <1>3 DEF NewRoot, ReportOK, ReportType
  <1>5. m_bWork' \subseteq Name /\ UNCHANGED <<files, saved, crash>>
    BY DEF InitializeChecked, InitializeUnchecked, ReportOK, ReportType
  <1> QED BY <1>2, <1>4, <1>5 DEF ReportOK, ReportType

(* Writing a report and freeing it keeps the types.                        *)
LEMMA CloseReportType ==
    ASSUME NEW n \in Name, ReportOK, CloseReport(n)
    PROVE  ReportOK'
  <1>1. CASE Crash(n)
    BY <1>1 DEF Crash, ReportOK, ReportType
  <1>2. CASE SaveFile(n) /\ Release(n) /\ UNCHANGED <<m_map, m_bWork, crash>>
    <2>1. << >> \in Seq(Row) /\ tree[n] \in Seq(Row)
      BY DEF ReportOK, ReportType
    <2>2. tree' \in [Name -> Seq(Row)] /\ files' \in [Name -> Seq(Row)]
      BY <1>2, <2>1 DEF SaveFile, Release, ReportOK, ReportType
    <2> QED BY <1>2, <2>2 DEF SaveFile, Release, ReportOK, ReportType
  <1> QED BY <1>1, <1>2 DEF CloseReport

(* A step that leaves the reports alone keeps their types.                 *)
LEMMA ReportStutterType == ReportOK /\ UNCHANGED reportVars => ReportOK'
  BY DEF reportVars, ReportOK, ReportType

-----------------------------------------------------------------------------
(* The steps that a function leaves to be made.                            *)
Plain(k) == [i \in 1..k |-> Item]

(* The elements of two sequences one after the other.                      *)
LEMMA Joined ==
    ASSUME NEW S, NEW s \in Seq(S), NEW t \in Seq(S)
    PROVE  /\ s \o t \in Seq(S) /\ Len(s \o t) = Len(s) + Len(t)
           /\ \A i \in 1..(Len(s) + Len(t)) :
                (s \o t)[i] = IF i <= Len(s) THEN s[i] ELSE t[i - Len(s)]
  OBVIOUS

(* The rows of a function are k rows of the same report.                   *)
LEMMA PlainRows ==
    ASSUME NEW n \in Name, NEW k \in Nat
    PROVE  /\ Items(n, k) \in Seq(TodoStep)
           /\ Len(Items(n, k)) = k
           /\ \A i \in 1..k : Items(n, k)[i] = [does |-> "row", on |-> n, row |-> Item]
  <1>1. Items(n, k) = [i \in 1..k |-> [does |-> "row", on |-> n, row |-> Item]]
    BY DEF Items, Rows
  <1>2. [does |-> "row", on |-> n, row |-> Item] \in TodoStep
    BY DEF TodoStep, Row
  <1> QED BY <1>1, <1>2

(* A printing function opens its report, adds its rows and closes it.      *)
LEMMA PrintedSteps ==
    ASSUME NEW n \in Name, NEW k \in Nat
    PROVE  /\ Printed(n, Plain(k)) \in Seq(TodoStep)
           /\ Len(Printed(n, Plain(k))) = k + 2
           /\ \A i \in 1..(k + 2) : Printed(n, Plain(k))[i] =
                IF i = 1 THEN [does |-> "open", on |-> n]
                ELSE IF i = k + 2 THEN [does |-> "close", on |-> n]
                ELSE [does |-> "row", on |-> n, row |-> Item]
  <1> DEFINE o == <<[does |-> "open", on |-> n]>>
             c == <<[does |-> "close", on |-> n]>>
             r == Items(n, k)
             s == o \o r
             u == s \o c
  <1>1. Printed(n, Plain(k)) = u
    BY DEF Printed, Plain, Items
  <1>2. o \in Seq(TodoStep) /\ Len(o) = 1 /\ o[1] = [does |-> "open", on |-> n]
    BY DEF TodoStep
  <1>3. c \in Seq(TodoStep) /\ Len(c) = 1 /\ c[1] = [does |-> "close", on |-> n]
    BY DEF TodoStep
  <1>4. /\ r \in Seq(TodoStep) /\ Len(r) = k
        /\ \A i \in 1..k : r[i] = [does |-> "row", on |-> n, row |-> Item]
    BY PlainRows
  <1> HIDE DEF o, c, r, s, u
  <1>5. /\ s \in Seq(TodoStep) /\ Len(s) = Len(o) + Len(r)
        /\ \A i \in 1..(Len(o) + Len(r)) :
             s[i] = IF i <= Len(o) THEN o[i] ELSE r[i - Len(o)]
    BY <1>2, <1>4, Joined, Zenon DEF s
  <1>6. /\ u \in Seq(TodoStep) /\ Len(u) = Len(s) + Len(c)
        /\ \A i \in 1..(Len(s) + Len(c)) :
             u[i] = IF i <= Len(s) THEN s[i] ELSE c[i - Len(s)]
    <2>1. s \in Seq(TodoStep) /\ c \in Seq(TodoStep)
      BY <1>3, <1>5
    <2> QED BY <2>1, Joined, Zenon DEF u
  <1>7. /\ Len(s) = 1 + k /\ Len(u) = k + 2
        /\ \A i \in 1..(1 + k) : s[i] = IF i <= 1 THEN o[i] ELSE r[i - 1]
        /\ \A i \in 1..(k + 2) : u[i] = IF i <= 1 + k THEN s[i] ELSE c[i - (1 + k)]
    <2>1. Len(o) = 1 /\ Len(r) = k /\ Len(c) = 1
      BY <1>2, <1>3, <1>4
    <2>2. Len(s) = 1 + k /\ Len(s) + Len(c) = k + 2
      BY <1>5, <2>1
    <2>3. \A i \in 1..(1 + k) : s[i] = IF i <= 1 THEN o[i] ELSE r[i - 1]
      BY <1>5, <2>1
    <2>4. \A i \in 1..(k + 2) : u[i] = IF i <= 1 + k THEN s[i] ELSE c[i - (1 + k)]
      BY <1>6, <2>2
    <2> QED BY <1>6, <2>2, <2>3, <2>4
  <1>8. ASSUME NEW i \in 1..(k + 2)
        PROVE  u[i] = IF i = 1 THEN [does |-> "open", on |-> n]
                             ELSE IF i = k + 2 THEN [does |-> "close", on |-> n]
                             ELSE [does |-> "row", on |-> n, row |-> Item]
    <2>1. CASE i = 1
      <3>1. i <= 1 + k /\ i \in 1..(1 + k)
        BY <2>1
      <3> QED BY <1>2, <1>7, <2>1, <3>1
    <2>2. CASE i = k + 2
      <3>1. ~(i <= 1 + k) /\ i - (1 + k) = 1 /\ i # 1
        BY <2>2
      <3> QED BY <1>3, <1>7, <2>2, <3>1
    <2>3. CASE i # 1 /\ i # k + 2
      <3>1. /\ i <= 1 + k /\ ~(i <= 1) /\ i \in 1..(1 + k)
            /\ i - 1 \in 1..k
        BY <2>3
      <3> QED BY <1>4, <1>7, <2>3, <3>1
    <2> QED BY <2>1, <2>2, <2>3
  <1> QED BY <1>1, <1>6, <1>7, <1>8

(* What Enumerate of pdhProcessEnumerator leaves to be made.               *)
PdhSteps(k) == Items(OBJINS, 2) \o Printed(PROCESSCOUNTERS, Plain(k)) \o Items(OBJINS, ObjectRows)

(* The pdh enumerator adds two rows, prints a report and goes on with its  *)
(* rows.                                                                   *)
LEMMA PdhStepsAre ==
    ASSUME NEW k \in Nat
    PROVE  /\ PdhSteps(k) \in Seq(TodoStep)
           /\ Len(PdhSteps(k)) = k + 4 + ObjectRows
           /\ \A i \in 1..(k + 4 + ObjectRows) : PdhSteps(k)[i] =
                IF i = 3 THEN [does |-> "open", on |-> PROCESSCOUNTERS]
                ELSE IF i = k + 4 THEN [does |-> "close", on |-> PROCESSCOUNTERS]
                ELSE IF 3 < i /\ i < k + 4
                     THEN [does |-> "row", on |-> PROCESSCOUNTERS, row |-> Item]
                ELSE [does |-> "row", on |-> OBJINS, row |-> Item]
  <1> DEFINE a == Items(OBJINS, 2)
             b == Printed(PROCESSCOUNTERS, Plain(k))
             c == Items(OBJINS, ObjectRows)
             m == ObjectRows
             s == a \o b
             u == s \o c
  <1>0. m \in Nat /\ OBJINS \in Name /\ PROCESSCOUNTERS \in Name
    BY BoundAssumption DEF Name
  <1>1. /\ a \in Seq(TodoStep) /\ Len(a) = 2
        /\ \A i \in 1..2 : a[i] = [does |-> "row", on |-> OBJINS, row |-> Item]
    BY <1>0, PlainRows
  <1>2. /\ b \in Seq(TodoStep) /\ Len(b) = k + 2
        /\ \A i \in 1..(k + 2) : b[i] =
             IF i = 1 THEN [does |-> "open", on |-> PROCESSCOUNTERS]
             ELSE IF i = k + 2 THEN [does |-> "close", on |-> PROCESSCOUNTERS]
             ELSE [does |-> "row", on |-> PROCESSCOUNTERS, row |-> Item]
    BY <1>0, PrintedSteps
  <1>3. /\ c \in Seq(TodoStep) /\ Len(c) = m
        /\ \A i \in 1..m : c[i] = [does |-> "row", on |-> OBJINS, row |-> Item]
    BY <1>0, PlainRows
  <1>4. PdhSteps(k) = u
    BY DEF PdhSteps
  <1> HIDE DEF a, b, c, m, s, u
  <1>5. /\ s \in Seq(TodoStep) /\ Len(s) = Len(a) + Len(b)
        /\ \A i \in 1..(Len(a) + Len(b)) :
             s[i] = IF i <= Len(a) THEN a[i] ELSE b[i - Len(a)]
    BY <1>1, <1>2, Joined, Zenon DEF s
  <1>6. /\ u \in Seq(TodoStep) /\ Len(u) = Len(s) + Len(c)
        /\ \A i \in 1..(Len(s) + Len(c)) :
             u[i] = IF i <= Len(s) THEN s[i] ELSE c[i - Len(s)]
    <2>1. s \in Seq(TodoStep) /\ c \in Seq(TodoStep)
      BY <1>3, <1>5
    <2> QED BY <2>1, Joined, Zenon DEF u
  <1>7. /\ Len(s) = k + 4 /\ Len(u) = k + 4 + m
        /\ \A i \in 1..(k + 4) : s[i] = IF i <= 2 THEN a[i] ELSE b[i - 2]
        /\ \A i \in 1..(k + 4 + m) : u[i] = IF i <= k + 4 THEN s[i] ELSE c[i - (k + 4)]
    <2>1. Len(a) = 2 /\ Len(b) = k + 2 /\ Len(c) = m
      BY <1>1, <1>2, <1>3
    <2>2. Len(s) = k + 4 /\ Len(s) + Len(c) = k + 4 + m /\ Len(a) + Len(b) = k + 4
      BY <1>5, <2>1
    <2>3. \A i \in 1..(k + 4) : s[i] = IF i <= 2 THEN a[i] ELSE b[i - 2]
      BY <1>5, <2>1, <2>2
    <2>4. \A i \in 1..(k + 4 + m) : u[i] = IF i <= k + 4 THEN s[i] ELSE c[i - (k + 4)]
      BY <1>6, <2>2
    <2> QED BY <1>6, <2>2, <2>3, <2>4
  <1>8. ASSUME NEW i \in 1..(k + 4 + m)
        PROVE  u[i] =
                 IF i = 3 THEN [does |-> "open", on |-> PROCESSCOUNTERS]
                 ELSE IF i = k + 4 THEN [does |-> "close", on |-> PROCESSCOUNTERS]
                 ELSE IF 3 < i /\ i < k + 4
                      THEN [does |-> "row", on |-> PROCESSCOUNTERS, row |-> Item]
                 ELSE [does |-> "row", on |-> OBJINS, row |-> Item]
    <2>1. CASE i <= 2
      <3>1. i <= k + 4 /\ i \in 1..(k + 4) /\ i \in 1..2 /\ i # 3 /\ i # k + 4 /\ ~(3 < i)
        BY <2>1
      <3> QED BY <1>1, <1>7, <2>1, <3>1
    <2>2. CASE ~(i <= 2) /\ i <= k + 4
      <3>1. i \in 1..(k + 4) /\ i - 2 \in 1..(k + 2)
        BY <2>2
      <3>2. u[i] = b[i - 2]
        BY <1>7, <2>2, <3>1
      <3>3. (i - 2 = 1 <=> i = 3) /\ (i - 2 = k + 2 <=> i = k + 4)
            /\ (i # 3 /\ i # k + 4 => 3 < i /\ i < k + 4)
        BY <2>2, <3>1
      <3> QED BY <1>2, <3>1, <3>2, <3>3
    <2>3. CASE ~(i <= k + 4)
      <3>1. i - (k + 4) \in 1..m /\ i # 3 /\ i # k + 4 /\ ~(i < k + 4)
        BY <1>0, <2>3
      <3> QED BY <1>3, <1>7, <2>3, <3>1
    <2> QED BY <1>0, <2>1, <2>2, <2>3
  <1> QED BY <1>4, <1>6, <1>7, <1>8 DEF m

-----------------------------------------------------------------------------
(* Every step does to the reports one of four things.                      *)
Checked == {DRIVER, PERFORMANCE}

Initialize(n) == (n \in Checked /\ InitializeChecked(n)) \/ InitializeUnchecked(n)

ReportStep ==
    \/ UNCHANGED reportVars
    \/ \E n \in Name : Initialize(n)
    \/ \E n \in Name, row \in Row : LinkRow(n, row)
    \/ \E n \in Name : CloseReport(n)

(* The step to make next, and those that are left.                         *)
LEMMA NextStep ==
    ASSUME TypeInv, todo # << >>
    PROVE  /\ Head(todo) = todo[1] /\ Head(todo) \in TodoStep
           /\ Tail(todo) \in Seq(TodoStep)
           /\ Len(todo) \in Nat \ {0} /\ Len(Tail(todo)) = Len(todo) - 1
           /\ \A i \in 1..(Len(todo) - 1) : Tail(todo)[i] = todo[i + 1]
  <1>1. todo \in Seq(TodoStep)
    BY DEF TypeInv, ControlOK
  <1> QED BY <1>1

(* Every step does at most one thing to one report.                        *)
LEMMA StepIsReportStep == TypeInv /\ [Next]_vars => ReportStep
  <1> SUFFICES ASSUME TypeInv, [Next]_vars PROVE ReportStep
    OBVIOUS
  <1>n. Checked \subseteq Name /\ OBJINS \in Name
    BY DEF Checked, Name
  <1>1. CASE UNCHANGED reportVars
    BY <1>1 DEF ReportStep
  <1>2. CASE DriverInitialize \/ PerformanceInitialize \/ PdhInitialize
    BY <1>2, <1>n DEF DriverInitialize, PerformanceInitialize, PdhInitialize, ReportStep,
                      Initialize, Checked
  <1>3. CASE DriverFinalize \/ PerformanceFinalize \/ PdhFinalize
    BY <1>3, <1>n DEF DriverFinalize, PerformanceFinalize, PdhFinalize, ReportStep,
                      FinalizeReport, Checked
  <1>4. CASE DriverFileName
    <2>1. UNCHANGED reportVars \/ (loaded[szName.at] # None /\
             LinkRow(DRIVER, [Name |-> szName.of, Path |-> loaded[szName.at]]))
      BY <1>4 DEF DriverFileName
    <2>2. pc = "path" /\ szName \in [at : Address, of : Driver]
      BY <1>4 DEF DriverFileName, Step, At, TypeInv, ControlOK
    <2>3. loaded[szName.at] # None => [Name |-> szName.of, Path |-> loaded[szName.at]] \in Row
      BY <2>2 DEF TypeInv, ControlOK, Row
    <2> QED BY <2>1, <2>3, <1>n DEF ReportStep, Checked
  <1>5. CASE WriteReport
    <2>1. todo # << >>
      BY <1>5 DEF WriteReport, Write
    <2>2. PICK step \in TodoStep : step = Head(todo)
      BY <2>1, NextStep
    <2>3. \/ step.does = "open" /\ InitializeUnchecked(step.on)
          \/ step.does = "row" /\ LinkRow(step.on, step.row)
          \/ step.does = "close" /\ CloseReport(step.on)
      BY <1>5, <2>2 DEF WriteReport, Write
    <2>4. step.on \in Name /\ (step.does = "row" => step.row \in Row)
      BY DEF TodoStep
    <2> QED BY <2>3, <2>4 DEF ReportStep, Initialize
  <1> QED BY <1>1, <1>2, <1>3, <1>4, <1>5
          DEF Next, Machine, Calls, Steps, Terminating, DriverEnumerate,
              DriverEnumerateFails, PerformanceEnumerate, PdhEnumerate, SavePerfTypes,
              Writes, AtOnce, MainReturns, DriverBaseName, DriverEnumerateEnds, vars

-----------------------------------------------------------------------------
(* The types hold before the first call.                                   *)
LEMMA TypeInit == Init => TypeInv
  <1> SUFFICES ASSUME Init PROVE TypeInv
    OBVIOUS
  <1>1. << >> \in Seq(Row) /\ << >> \in Seq(TodoStep)
    OBVIOUS
  <1>2. ReportOK
    BY <1>1 DEF Init, ReportInit, ReportOK, ReportType
  <1> QED BY <1>1, <1>2 DEF Init, CallInit, TypeInv, ControlOK

(* Every step keeps the types of the reports.                              *)
LEMMA ReportTypeStep == TypeInv /\ [Next]_vars => ReportOK'
  BY StepIsReportStep, ReportStutterType, InitializeType, LinkRowType, CloseReportType
     DEF ReportStep, Initialize, TypeInv

(* A call counts itself.                                                   *)
LEMMA CallTimes ==
    ASSUME TypeInv, NEW p, NEW op \in Op, NEW S, Calling(p, op, S)
    PROVE  /\ p \in Producer /\ At("idle")
           /\ called' \in [Producer \X Op -> Nat]
           /\ Times(p, op)' = Times(p, op) + 1 /\ Times(p, op) \in Nat
           /\ \A q, o : <<q, o>> # <<p, op>> => Times(q, o)' = Times(q, o)
           /\ misused' = (misused \/ ~Proper(p, op, S))
           /\ misused' \in BOOLEAN
  <1>1. /\ At("idle") /\ p \in Producer
        /\ called' = [called EXCEPT ![<<p, op>>] = @ + 1]
        /\ misused' = (misused \/ ~Proper(p, op, S))
    BY DEF Calling
  <1>2. called \in [Producer \X Op -> Nat] /\ misused \in BOOLEAN
    BY DEF TypeInv, ControlOK
  <1>3. <<p, op>> \in Producer \X Op
    BY <1>1
  <1>4. called[<<p, op>>] \in Nat
    BY <1>2, <1>3
  <1>5. /\ called' \in [Producer \X Op -> Nat]
        /\ called'[<<p, op>>] = called[<<p, op>>] + 1
        /\ \A c \in Producer \X Op : c # <<p, op>> => called'[c] = called[c]
    BY <1>1, <1>2, <1>3, <1>4
  <1>6. Times(p, op)' = Times(p, op) + 1 /\ Times(p, op) \in Nat
    BY <1>2, <1>3, <1>4, <1>5 DEF Times
  <1>7. \A q, o : <<q, o>> # <<p, op>> => Times(q, o)' = Times(q, o)
    BY <1>2, <1>5 DEF Times
  <1> QED BY <1>1, <1>2, <1>5, <1>6, <1>7

(* What Enumerate and SavePerfTypes leave to be made is of the right type. *)
LEMMA WritesType ==
    ASSUME TypeInv, NEW p, NEW op \in Op, NEW steps \in Seq(TodoStep), Writes(p, op, steps)
    PROVE  ControlOK'
  <1>1. called' \in [Producer \X Op -> Nat] /\ misused' \in BOOLEAN /\ At("idle")
    BY CallTimes DEF Writes, Call
  <1>2. /\ todo' = steps /\ pc = "idle"
        /\ UNCHANGED <<loaded, szBuffer, szName, seen, steady, first, pc>>
    BY <1>1 DEF Writes, Call, At, machineVars, driverVars, historyVars
  <1> QED BY <1>1, <1>2 DEF TypeInv, ControlOK

(* A call that is done at once keeps the types of the calls.               *)
LEMMA AtOnceType ==
    ASSUME TypeInv, NEW p, NEW op \in Op, AtOnce(p, op)
    PROVE  ControlOK'
  <1>1. called' \in [Producer \X Op -> Nat] /\ misused' \in BOOLEAN
    BY CallTimes DEF AtOnce, Call
  <1>2. UNCHANGED <<loaded, szBuffer, szName, seen, steady, first, pc, todo>>
    BY DEF AtOnce, Call, machineVars, driverVars, historyVars
  <1> QED BY <1>1, <1>2 DEF TypeInv, ControlOK

(* Every step keeps all the types.                                         *)
LEMMA NextType == TypeInv /\ [Next]_vars => TypeInv'
  <1> SUFFICES ASSUME TypeInv, [Next]_vars PROVE ControlOK'
    BY ReportTypeStep DEF TypeInv
  <1> USE DEF TypeInv
  <1>op. {"Initialize", "Enumerate", "Finalize", "run"} \subseteq Op
    BY DEF Op
  <1>0. CASE UNCHANGED <<loaded, szBuffer, szName, seen, steady, first, pc, todo, called, misused>>
    BY <1>0 DEF ControlOK
  <1>1. CASE Machine
    <2>1. PICK a \in Address : Unload(a) \/ \E d \in Driver : Load(d, a)
      BY <1>1 DEF Machine
    <2>2. loaded' \in [Address -> Driver \cup {None}] /\ steady' \subseteq Address
      BY <2>1 DEF Unload, Load, ControlOK
    <2>3. seen' \in [Address -> SUBSET Driver]
      BY <2>1 DEF Unload, Load, ControlOK
    <2> QED BY <1>1, <2>2, <2>3 DEF Machine, driverVars, callVars, ControlOK
  <1>2. CASE \/ DriverInitialize \/ DriverEnumerateFails \/ DriverFinalize
             \/ PerformanceInitialize \/ PerformanceFinalize
             \/ PdhInitialize \/ PdhFinalize
    BY <1>2, <1>op, AtOnceType
       DEF DriverInitialize, DriverEnumerateFails, DriverFinalize, PerformanceInitialize,
           PerformanceFinalize, PdhInitialize, PdhFinalize
  <1>3. CASE DriverEnumerate
    <2>1. called' \in [Producer \X Op -> Nat] /\ misused' \in BOOLEAN /\ At("idle")
      BY <1>3, <1>op, CallTimes DEF DriverEnumerate
    <2>2. Len(tree[DRIVER]) \in Nat
      BY DEF ReportOK, ReportType, Name
    <2>3. seen' \in [Address -> SUBSET Driver]
      BY <1>3 DEF DriverEnumerate, ControlOK
    <2>4. pc' = "name" /\ todo = << >> /\ UNCHANGED <<loaded, szName, todo>>
      BY <1>3, <2>1 DEF DriverEnumerate, At, machineVars
    <2> QED BY <1>3, <2>1, <2>2, <2>3, <2>4 DEF DriverEnumerate, LoadedAt, ControlOK
  <1>4. CASE PerformanceEnumerate
    <2>1. PICK k \in {0, InfoRows} : Writes("PerformanceInfo", "Enumerate", Items(PERFORMANCE, k))
      BY <1>4 DEF PerformanceEnumerate
    <2>2. k \in Nat /\ PERFORMANCE \in Name
      BY BoundAssumption DEF Name
    <2> QED BY <2>1, <2>2, <1>op, PlainRows, WritesType
  <1>5. CASE PdhEnumerate
    <2>1. PICK k \in 0..MaxProcessRows :
            Writes("pdhProcessEnumerator", "Enumerate", PdhSteps(k))
      BY <1>5 DEF PdhEnumerate, PdhSteps, Plain
    <2>2. k \in Nat
      BY BoundAssumption
    <2> QED BY <2>1, <2>2, <1>op, PdhStepsAre, WritesType
  <1>6. CASE SavePerfTypes
    <2>1. Writes("SavePerfTypes", "run", Printed(PERF_TYPE, Plain(TypeRows)))
      BY <1>6 DEF SavePerfTypes, Plain
    <2>2. TypeRows \in Nat /\ PERF_TYPE \in Name
      BY BoundAssumption DEF Name
    <2> QED BY <2>1, <2>2, <1>op, PrintedSteps, WritesType
  <1>7. CASE MainReturns
    BY <1>7 DEF MainReturns, Step, At, machineVars, callVars, driverVars, historyVars, ControlOK
  <1>8. CASE DriverBaseName
    <2>1. PICK a \in szBuffer :
            /\ szBuffer' = szBuffer \ {a}
            /\ IF loaded[a] # None
               THEN szName' = [at |-> a, of |-> loaded[a]] /\ pc' = "path"
               ELSE UNCHANGED <<szName, pc>>
      BY <1>8 DEF DriverBaseName
    <2>2. pc = "name" /\ todo = << >>
      BY <1>8 DEF DriverBaseName, Step, At
    <2>3. pc' = "path" => szName' \in [at : Address, of : Driver]
      BY <2>1, <2>2 DEF ControlOK
    <2> QED BY <1>8, <2>1, <2>2, <2>3
            DEF DriverBaseName, Step, machineVars, callVars, historyVars, ControlOK
  <1>9. CASE DriverFileName
    BY <1>9 DEF DriverFileName, Step, At, machineVars, callVars, historyVars, ControlOK
  <1>10. CASE DriverEnumerateEnds
    BY <1>10 DEF DriverEnumerateEnds, Step, At, machineVars, callVars, driverVars, ControlOK
  <1>11. CASE WriteReport
    <2>1. todo # << >> /\ todo' = Tail(todo)
      BY <1>11 DEF WriteReport, Write
    <2>2. todo' \in Seq(TodoStep)
      BY <2>1, NextStep
    <2> QED BY <1>11, <2>1, <2>2
            DEF WriteReport, Write, machineVars, callVars, driverVars, historyVars, ControlOK
  <1> QED BY <1>0, <1>1, <1>2, <1>3, <1>4, <1>5, <1>6, <1>7, <1>8, <1>9, <1>10, <1>11
          DEF Next, Calls, Steps, Terminating, vars, machineVars, driverVars, historyVars, callVars

(* Everything keeps its type, what is still to be made included.           *)
THEOREM TypeCorrect == Spec => []TypeInv
  BY TypeInit, NextType, PTL DEF Spec

-----------------------------------------------------------------------------
(* The reports keep the promise of ReportLifecycle.                        *)

(* The reports whose document exists were asked for, have a root and were  *)
(* not written; a producer that tests its document and has not asked for   *)
(* it is working, so that it gets its root together with it.               *)
LifeInv ==
    /\ m_doc \subseteq m_map
    /\ saved \subseteq m_map
    /\ saved \cap m_doc = {}
    /\ m_doc \subseteq m_root
    /\ Checked \ m_map \subseteq m_bWork

(* Every step keeps what is said of the documents.                         *)
LEMMA LifeStep == TypeInv /\ LifeInv /\ [Next]_vars => LifeInv'
  <1> SUFFICES ASSUME TypeInv, LifeInv, ReportStep PROVE LifeInv'
    BY StepIsReportStep
  <1>1. CASE UNCHANGED reportVars
    BY <1>1 DEF reportVars, LifeInv
  <1>2. ASSUME NEW n \in Name, Initialize(n) PROVE LifeInv'
    <2>1. CASE n \in Checked /\ InitializeChecked(n)
      BY <2>1 DEF InitializeChecked, GetDocument, NewRoot, LifeInv
    <2>2. CASE InitializeUnchecked(n)
      BY <2>2 DEF InitializeUnchecked, GetDocument, NewRoot, LifeInv
    <2> QED BY <1>2, <2>1, <2>2 DEF Initialize
  <1>3. ASSUME NEW n \in Name, NEW row \in Row, LinkRow(n, row) PROVE LifeInv'
    BY <1>3 DEF LinkRow, Crash, LifeInv
  <1>4. ASSUME NEW n \in Name, CloseReport(n) PROVE LifeInv'
    BY <1>4 DEF CloseReport, SaveFile, Release, Crash, LifeInv
  <1> QED BY <1>1, <1>2, <1>3, <1>4 DEF ReportStep

(* What is said of the documents holds in every reachable state.           *)
LEMMA LifeInvariant == Spec => []LifeInv
  <1>1. Init => LifeInv
    BY DEF Init, ReportInit, LifeInv, Name, Checked
  <1> QED BY <1>1, LifeStep, TypeCorrect, PTL DEF Spec

(* The refinement mapping of ImplementsLifecycle.                          *)
phaseMap == [n \in Name |-> phaseOf(n)]
contentMap == [n \in Name |-> contentOf(n)]

(* The reports start where the lifecycle starts.                           *)
LEMMA InitMaps == Init => Lifecycle!Init
  BY DEF Init, ReportInit, Lifecycle!Init, phaseOf, contentOf

(* Initialize opens a report, and asked again gives up the open one.       *)
LEMMA InitializeMaps ==
    ASSUME TypeInv, LifeInv, NEW m \in Name, Initialize(m)
    PROVE  Lifecycle!Next \/ UNCHANGED <<phaseMap, contentMap>>
  <1>1. /\ GetDocument(m) /\ UNCHANGED <<files, saved>>
        /\ \A n \in Name : n # m => tree'[n] = tree[n]
        /\ m \notin m_map => tree'[m] = << >>
    BY DEF Initialize, InitializeChecked, InitializeUnchecked, NewRoot, GetDocument,
           LifeInv, TypeInv, ReportOK, ReportType
  <1>2. \A n \in Name : n # m => phaseOf(n)' = phaseOf(n)
    BY <1>1 DEF phaseOf, GetDocument
  <1>3. CASE m \notin m_map
    <2>1. phaseOf(m) = "new" /\ phaseOf(m)' = "open"
      BY <1>1, <1>3 DEF phaseOf, GetDocument
    <2>2. phaseMap' = [phaseMap EXCEPT ![m] = "open"] /\ contentMap' = contentMap
      <3>1. phaseMap' = [phaseMap EXCEPT ![m] = "open"]
        BY <1>2, <2>1 DEF phaseMap
      <3>2. tree'[m] = << >> /\ files' = files
        BY <1>1, <1>3
      <3>3. ASSUME NEW n \in Name
            PROVE  contentMap'[n] = contentMap[n]
        BY <1>1, <1>2, <2>1, <3>2 DEF contentMap, contentOf
      <3> QED BY <3>1, <3>3 DEF contentMap, contentOf
    <2>3. Lifecycle!Open(m)
      BY <2>1, <2>2 DEF Lifecycle!Open, phaseMap, contentMap, contentOf
    <2> QED BY <2>3 DEF Lifecycle!Next
  <1>4. CASE m \in m_map /\ m \in m_doc
    <2>1. phaseOf(m) = "open" /\ phaseOf(m)' = "dead"
      BY <1>1, <1>4 DEF phaseOf, GetDocument, LifeInv
    <2>2. phaseMap' = [phaseMap EXCEPT ![m] = "dead"]
            /\ contentMap' = [contentMap EXCEPT ![m] = << >>]
      BY <1>1, <1>2, <2>1 DEF phaseMap, contentMap, contentOf
    <2>3. Lifecycle!GiveUp(m)
      BY <2>1, <2>2 DEF Lifecycle!GiveUp, phaseMap, contentMap, contentOf
    <2> QED BY <2>3 DEF Lifecycle!Next
  <1>5. CASE m \in m_map /\ m \notin m_doc
    <2>1. phaseOf(m)' = phaseOf(m) /\ phaseOf(m) # "open"
      BY <1>1, <1>5 DEF phaseOf, GetDocument
    <2> QED BY <1>1, <1>2, <2>1 DEF phaseMap, contentMap, contentOf
  <1> QED BY <1>3, <1>4, <1>5

(* Linking a row adds one to an open report; a crash maps to a stutter.           *)
LEMMA LinkRowMaps ==
    ASSUME TypeInv, LifeInv, NEW m \in Name, NEW row \in Row, LinkRow(m, row)
    PROVE  Lifecycle!Next \/ UNCHANGED <<phaseMap, contentMap>>
  <1>1. \A n \in Name : phaseOf(n)' = phaseOf(n) /\ files'[n] = files[n]
    BY DEF LinkRow, Crash, phaseOf
  <1>2. phaseMap' = phaseMap
    BY <1>1 DEF phaseMap
  <1>3. CASE m \in m_doc
    <2>1. tree' = [tree EXCEPT ![m] = Append(tree[m], row)]
      BY <1>3 DEF LinkRow, LifeInv
    <2>2. phaseOf(m) = "open"
      BY <1>3 DEF phaseOf, LifeInv
    <2>3. contentMap' = [contentMap EXCEPT ![m] = Append(contentMap[m], row)]
      BY <1>1, <2>1, <2>2 DEF contentMap, contentOf, TypeInv, ReportOK, ReportType
    <2>4. Lifecycle!Add(m)
      BY <1>2, <2>2, <2>3 DEF Lifecycle!Add, phaseMap, contentMap, contentOf
    <2> QED BY <2>4 DEF Lifecycle!Next
  <1>4. CASE m \notin m_doc
    <2>1. phaseOf(m) # "open"
      BY <1>4 DEF phaseOf
    <2>2. \A n \in Name : n # m => tree'[n] = tree[n]
      BY DEF LinkRow, Crash, TypeInv, ReportOK, ReportType
    <2>3. contentMap' = contentMap
      BY <1>1, <2>1, <2>2 DEF contentMap, contentOf
    <2> QED BY <1>2, <2>3
  <1> QED BY <1>3, <1>4

(* Closing a report publishes it or, when the save fails, gives it up.         *)
LEMMA CloseReportMaps ==
    ASSUME TypeInv, LifeInv, NEW m \in Name, CloseReport(m)
    PROVE  Lifecycle!Next \/ UNCHANGED <<phaseMap, contentMap>>
  <1>1. CASE Crash(m)
    BY <1>1 DEF Crash, phaseMap, contentMap, contentOf, phaseOf
  <1>2. CASE m \in m_doc /\ m \in m_root /\ SaveFile(m) /\ Release(m) /\ UNCHANGED m_map
    <2>1. phaseOf(m) = "open" /\ m \notin saved /\ m \in m_map
      BY <1>2 DEF phaseOf, LifeInv
    <2>2. \A n \in Name : n # m =>
             phaseOf(n)' = phaseOf(n) /\ tree'[n] = tree[n] /\ files'[n] = files[n]
      BY <1>2 DEF phaseOf, SaveFile, Release, TypeInv, ReportOK, ReportType
    <2>3. CASE saved' = saved \cup {m} /\ files' = [files EXCEPT ![m] = tree[m]]
      <3>1. phaseOf(m)' = "published"
        BY <1>2, <2>1, <2>3 DEF phaseOf, Release
      <3>2. phaseMap' = [phaseMap EXCEPT ![m] = "published"] /\ contentMap' = contentMap
        BY <2>1, <2>2, <2>3, <3>1 DEF phaseMap, contentMap, contentOf, TypeInv, ReportOK, ReportType
      <3>3. Lifecycle!Publish(m)
        BY <2>1, <3>2 DEF Lifecycle!Publish, phaseMap, contentMap, contentOf
      <3> QED BY <3>3 DEF Lifecycle!Next
    <2>4. CASE UNCHANGED <<files, saved>>
      <3>1. phaseOf(m)' = "dead"
        BY <1>2, <2>1, <2>4 DEF phaseOf, Release
      <3>2. phaseMap' = [phaseMap EXCEPT ![m] = "dead"]
              /\ contentMap' = [contentMap EXCEPT ![m] = << >>]
        BY <2>1, <2>2, <3>1 DEF phaseMap, contentMap, contentOf
      <3>3. Lifecycle!GiveUp(m)
        BY <2>1, <3>2 DEF Lifecycle!GiveUp, phaseMap, contentMap, contentOf
      <3> QED BY <3>3 DEF Lifecycle!Next
    <2> QED BY <1>2, <2>3, <2>4 DEF SaveFile
  <1> QED BY <1>1, <1>2 DEF CloseReport

(* Every report of these producers is opened at most once, only grows at   *)
(* its end while it is open, and is published once, whole, or given up -   *)
(* for any calls in any order, the misuses included.                       *)
THEOREM ReportsImplementLifecycle == Spec => ImplementsLifecycle
  <1>1. TypeInv /\ LifeInv /\ [Next]_vars =>
          Lifecycle!Next \/ UNCHANGED <<phaseMap, contentMap>>
    <2> SUFFICES ASSUME TypeInv, LifeInv, ReportStep
                 PROVE  Lifecycle!Next \/ UNCHANGED <<phaseMap, contentMap>>
      BY StepIsReportStep
    <2>1. CASE UNCHANGED reportVars
      BY <2>1 DEF reportVars, phaseMap, contentMap, phaseOf, contentOf
    <2> QED BY <2>1, InitializeMaps, LinkRowMaps, CloseReportMaps DEF ReportStep
  <1>2. TypeInv /\ LifeInv /\ [Next]_vars =>
          [Lifecycle!Next]_<<[n \in Name |-> phaseOf(n)], [n \in Name |-> contentOf(n)]>>
    BY <1>1 DEF phaseMap, contentMap
  <1> QED BY <1>2, InitMaps, LifeInvariant, TypeCorrect, PTL
          DEF Spec, ImplementsLifecycle, Lifecycle!Spec

-----------------------------------------------------------------------------
(* The rows of driver.xml.                                                 *)
Enumerating == pc \in {"name", "path"}

(* While the loop of DriverEnumerator runs only its own steps and the      *)
(* machine's come.                                                         *)
LEMMA DriverSteps ==
    ASSUME TypeInv, [Next]_vars, Enumerating'
    PROVE  \/ DriverEnumerate
           \/ Enumerating /\ Machine
           \/ DriverBaseName
           \/ DriverFileName
           \/ UNCHANGED vars
  <1>1. pc' # "idle" /\ pc' # "exited"
    BY DEF Enumerating
  <1>2. ~DriverEnumerateEnds /\ ~MainReturns
    BY <1>1 DEF DriverEnumerateEnds, MainReturns
  <1>3. \A p, op : ~AtOnce(p, op) /\ \A steps : ~Writes(p, op, steps)
    BY <1>1 DEF AtOnce, Writes, Call, Calling, At
  <1>4. ~WriteReport
    BY <1>1 DEF WriteReport, Write, TypeInv, ControlOK
  <1>5. Machine => Enumerating
    BY DEF Machine, Enumerating
  <1> QED BY <1>2, <1>3, <1>4, <1>5
          DEF Next, Calls, Steps, Terminating, DriverInitialize, DriverEnumerateFails,
              DriverFinalize, PerformanceInitialize, PerformanceEnumerate, PerformanceFinalize,
              PdhInitialize, PdhEnumerate, PdhFinalize, SavePerfTypes

(* The rows there are, and one more.                                       *)
LEMMA DriverRows ==
    ASSUME TypeInv
    PROVE  /\ tree[DRIVER] \in Seq(Row) /\ Len(tree[DRIVER]) \in Nat
           /\ DOMAIN tree[DRIVER] = 1..Len(tree[DRIVER])
           /\ \A i : i \in NewRows <=> i \in 1..Len(tree[DRIVER]) /\ i > first
           /\ first \in Nat
  <1>1. tree[DRIVER] \in Seq(Row) /\ first \in Nat
    BY DEF TypeInv, ControlOK, ReportOK, ReportType, Name
  <1> QED BY <1>1 DEF NewRows

(* A row that is added is a new one and changes none before it.            *)
LEMMA RowAdded ==
    ASSUME TypeInv, NEW row \in Row, LinkRow(DRIVER, row), DRIVER \in m_root,
           first <= Len(tree[DRIVER]), first' = first
    PROVE  /\ Len(tree'[DRIVER]) = Len(tree[DRIVER]) + 1
           /\ \A i \in NewRows : tree'[DRIVER][i] = tree[DRIVER][i]
           /\ tree'[DRIVER][Len(tree[DRIVER]) + 1] = row
           /\ \A i : i \in NewRows' <=> i \in NewRows \/ i = Len(tree[DRIVER]) + 1
           /\ Len(tree[DRIVER]) + 1 \notin NewRows
           /\ m_root' = m_root
  <1> DEFINE t == tree[DRIVER]
             n == Len(tree[DRIVER])
  <1>1. /\ t \in Seq(Row) /\ n \in Nat /\ DOMAIN t = 1..n /\ first \in Nat
        /\ \A i : i \in NewRows <=> i \in 1..n /\ i > first
    BY DriverRows
  <1>2. tree'[DRIVER] = Append(t, row) /\ m_root' = m_root
    BY DEF LinkRow, TypeInv, ReportOK, ReportType, Name
  <1>3. /\ Len(Append(t, row)) = n + 1 /\ DOMAIN Append(t, row) = 1..(n + 1)
        /\ \A i \in 1..n : Append(t, row)[i] = t[i]
        /\ Append(t, row)[n + 1] = row
    BY <1>1
  <1>4. /\ Len(tree'[DRIVER]) = n + 1 /\ DOMAIN tree'[DRIVER] = 1..(n + 1)
        /\ \A i \in 1..n : tree'[DRIVER][i] = t[i]
        /\ tree'[DRIVER][n + 1] = row
    BY <1>2, <1>3
  <1>5. first <= n
    OBVIOUS
  <1> HIDE DEF t, n
  <1>6. \A i : i \in 1..(n + 1) /\ i > first <=> (i \in 1..n /\ i > first) \/ i = n + 1
    BY <1>1, <1>5
  <1>7. \A i : i \in NewRows' <=> i \in NewRows \/ i = n + 1
    BY <1>1, <1>4, <1>6 DEF NewRows
  <1>8. n + 1 \notin 1..n
    BY <1>1
  <1> QED BY <1>1, <1>2, <1>4, <1>7, <1>8 DEF t, n

(* What is at an address has been seen there, and so has what the pending  *)
(* name was asked of.                                                      *)
SeenRows ==
    Enumerating =>
        /\ \A a \in Address : loaded[a] # None => loaded[a] \in seen[a]
        /\ pc = "path" => szName.of \in seen[szName.at]
        /\ first <= Len(tree[DRIVER])
        /\ RowsOfOneAddress

(* Every step keeps what is said of the names that an address has had.     *)
LEMMA SeenStep == TypeInv /\ SeenRows /\ [Next]_vars => SeenRows'
  <1> SUFFICES ASSUME TypeInv, SeenRows, [Next]_vars, Enumerating' PROVE SeenRows'
    BY DEF SeenRows, Enumerating
  <1>1. CASE DriverEnumerate
    <2>1. /\ loaded' = loaded /\ tree' = tree /\ first' = Len(tree[DRIVER]) /\ pc' = "name"
          /\ seen' = [a \in Address |-> {loaded[a]} \ {None}]
      BY <1>1 DEF DriverEnumerate, machineVars, reportVars
    <2>2. NewRows' = {}
      BY <2>1, DriverRows DEF NewRows
    <2> QED BY <2>1, <2>2, DriverRows DEF SeenRows, RowsOfOneAddress, Enumerating
  <1>2. CASE Enumerating /\ Machine
    <2>1. PICK a \in Address : Unload(a) \/ \E d \in Driver : Load(d, a)
      BY <1>2 DEF Machine
    <2>2. UNCHANGED <<pc, szName, first, tree>>
      BY <1>2 DEF Machine, driverVars, reportVars
    <2>3. \A b \in Address : seen[b] \subseteq seen'[b]
      BY <2>1 DEF Unload, Load, TypeInv, ControlOK
    <2>4. \A b \in Address : loaded'[b] # None => loaded'[b] \in seen'[b]
      BY <1>2, <2>1 DEF Unload, Load, TypeInv, ControlOK, SeenRows, Enumerating
    <2>5. pc = "path" => szName.at \in Address
      BY DEF TypeInv, ControlOK
    <2>6. NewRows' = NewRows
      BY <2>2 DEF NewRows
    <2>7. ASSUME NEW i \in NewRows
          PROVE  \E b \in Address : {tree[DRIVER][i].Name, tree[DRIVER][i].Path} \subseteq seen'[b]
      BY <1>2, <2>3 DEF SeenRows, RowsOfOneAddress, Enumerating
    <2> QED BY <1>2, <2>2, <2>3, <2>4, <2>5, <2>6, <2>7 DEF SeenRows, RowsOfOneAddress, Enumerating
  <1>3. CASE DriverBaseName
    <2>1. PICK a \in szBuffer :
            IF loaded[a] # None
            THEN szName' = [at |-> a, of |-> loaded[a]] /\ pc' = "path"
            ELSE UNCHANGED <<szName, pc>>
      BY <1>3 DEF DriverBaseName
    <2>2. pc = "name" /\ UNCHANGED <<loaded, seen, first, tree>>
      BY <1>3 DEF DriverBaseName, Step, At, machineVars, historyVars, reportVars
    <2>3. NewRows' = NewRows /\ a \in Address
      BY <2>2 DEF NewRows, TypeInv, ControlOK
    <2> QED BY <2>1, <2>2, <2>3 DEF SeenRows, RowsOfOneAddress, Enumerating
  <1>4. CASE DriverFileName
    <2>1. /\ pc = "path" /\ pc' = "name" /\ UNCHANGED <<loaded, seen, first>>
          /\ szName.at \in Address /\ szName.of \in Driver
      BY <1>4 DEF DriverFileName, Step, At, machineVars, historyVars, TypeInv, ControlOK
    <2>2. \A a \in Address : loaded[a] # None => loaded[a] \in seen[a]
      BY <2>1 DEF SeenRows, Enumerating
    <2>3. CASE tree' = tree
      <3>1. NewRows' = NewRows
        BY <2>1, <2>3 DEF NewRows
      <3> QED BY <2>1, <2>2, <2>3, <3>1 DEF SeenRows, RowsOfOneAddress, Enumerating
    <2>4. CASE tree' # tree
      <3> DEFINE row == [Name |-> szName.of, Path |-> loaded[szName.at]]
      <3>1. LinkRow(DRIVER, row) /\ loaded[szName.at] # None /\ DRIVER \in m_root
        BY <1>4, <2>4 DEF DriverFileName, LinkRow, Crash, reportVars
      <3>2. row \in Row
        BY <2>1, <3>1 DEF Row, TypeInv, ControlOK
      <3>3. {row.Name, row.Path} \subseteq seen[szName.at]
        BY <2>1, <2>2, <3>1 DEF SeenRows, Enumerating
      <3> HIDE DEF row
      <3>4. first <= Len(tree[DRIVER]) /\ first' = first
        BY <2>1 DEF SeenRows, Enumerating
      <3>5. /\ Len(tree'[DRIVER]) = Len(tree[DRIVER]) + 1
            /\ \A i \in NewRows : tree'[DRIVER][i] = tree[DRIVER][i]
            /\ tree'[DRIVER][Len(tree[DRIVER]) + 1] = row
            /\ \A i : i \in NewRows' <=> i \in NewRows \/ i = Len(tree[DRIVER]) + 1
        BY <3>1, <3>2, <3>4, RowAdded
      <3>6. ASSUME NEW i \in NewRows'
            PROVE  \E a \in Address : {tree'[DRIVER][i].Name, tree'[DRIVER][i].Path} \subseteq seen[a]
        <4>1. CASE i \in NewRows
          BY <2>1, <3>5, <4>1 DEF SeenRows, RowsOfOneAddress, Enumerating
        <4>2. CASE i = Len(tree[DRIVER]) + 1
          BY <2>1, <3>3, <3>5, <4>2
        <4> QED BY <3>5, <4>1, <4>2
      <3>7. first' <= Len(tree'[DRIVER])
        BY <3>4, <3>5, DriverRows
      <3> QED BY <2>1, <2>2, <3>6, <3>7 DEF SeenRows, RowsOfOneAddress, Enumerating
    <2> QED BY <2>3, <2>4
  <1>5. CASE UNCHANGED vars
    BY <1>5 DEF vars, machineVars, driverVars, historyVars, reportVars, SeenRows,
                RowsOfOneAddress, NewRows, Enumerating
  <1> QED BY <1>1, <1>2, <1>3, <1>4, <1>5, DriverSteps

(* A row never joins the name of one driver with the path of another that  *)
(* was not loaded, while Enumerate ran, at the same address.               *)
THEOREM RowsRight == Spec => []RowsOfOneAddress
  <1>1. Init => SeenRows
    BY DEF Init, CallInit, SeenRows, Enumerating
  <1>2. SeenRows => RowsOfOneAddress
    BY DEF SeenRows, RowsOfOneAddress, Enumerating
  <1> QED BY <1>1, <1>2, SeenStep, TypeCorrect, PTL DEF Spec

-----------------------------------------------------------------------------
(* Drivers that stay.                                                      *)

(* No driver is at two addresses.                                          *)
OneAddress == \A a, b \in LoadedAt(loaded) : loaded[a] = loaded[b] => a = b

(* The row of a driver that stays at a, and whether it is still to come.   *)
Own(a) == [Name |-> loaded[a], Path |-> loaded[a]]
Waiting(a) == a \in szBuffer \/ (pc = "path" /\ szName.at = a)

ListedOnce(a) ==
    IF Waiting(a) THEN \A i \in NewRows : tree[DRIVER][i] # Own(a)
    ELSE \E i \in NewRows : \A j \in NewRows : tree[DRIVER][j] = Own(a) <=> j = i

(* A driver that stays has no row before it was asked about and one row    *)
(* afterwards; the name that is pending is its own, and not asked again.   *)
SteadyRows ==
    Enumerating =>
        /\ steady \subseteq LoadedAt(loaded)
        /\ first <= Len(tree[DRIVER])
        /\ pc = "path" =>
             /\ szName.at \notin szBuffer
             /\ szName.at \in steady => szName.of = loaded[szName.at]
        /\ DRIVER \in m_root => \A a \in steady : ListedOnce(a)

(* Every step leaves every driver at one address at most.                  *)
LEMMA OneAddressStep == TypeInv /\ OneAddress /\ [Next]_vars => OneAddress'
  <1> SUFFICES ASSUME TypeInv, OneAddress, [Next]_vars PROVE OneAddress'
    OBVIOUS
  <1>1. CASE loaded' = loaded
    BY <1>1 DEF OneAddress, LoadedAt
  <1>2. CASE Machine
    BY <1>2 DEF Machine, Load, Unload, OneAddress, LoadedAt, TypeInv, ControlOK
  <1> QED
    BY <1>1, <1>2 DEF Next, Calls, Steps, Terminating, DriverInitialize, DriverEnumerate,
       DriverEnumerateFails, DriverFinalize, PerformanceInitialize, PerformanceEnumerate,
       PerformanceFinalize, PdhInitialize, PdhEnumerate, PdhFinalize, SavePerfTypes,
       MainReturns, DriverBaseName, DriverFileName, DriverEnumerateEnds, WriteReport,
       AtOnce, Writes, Call, Step, machineVars, vars

(* The steps of the loop that link no row.                                 *)
LEMMA SteadyBaseName ==
    ASSUME TypeInv, SteadyRows, DriverBaseName
    PROVE  SteadyRows'
  <1>1. PICK a \in szBuffer :
          /\ szBuffer' = szBuffer \ {a}
          /\ IF loaded[a] # None
             THEN szName' = [at |-> a, of |-> loaded[a]] /\ pc' = "path"
             ELSE UNCHANGED <<szName, pc>>
    BY DEF DriverBaseName
  <1>2. pc = "name" /\ UNCHANGED <<loaded, steady, first, tree, m_root>>
    BY DEF DriverBaseName, Step, At, machineVars, historyVars, reportVars
  <1>3. a \in steady => loaded[a] # None
    BY <1>2 DEF SteadyRows, Enumerating, LoadedAt
  <1>4. \A b \in steady : Waiting(b)' <=> Waiting(b)
    BY <1>1, <1>2, <1>3 DEF Waiting
  <1>5. \A b \in steady : ListedOnce(b)' <=> ListedOnce(b)
    BY <1>2, <1>4 DEF ListedOnce, NewRows, Own
  <1>6. pc' = "path" => szName'.at \notin szBuffer' /\ szName'.of = loaded[szName'.at]
    BY <1>1, <1>2
  <1> QED BY <1>2, <1>5, <1>6 DEF SteadyRows, Enumerating, LoadedAt

(* Drivers that come and go are not steady, the others keep their rows.    *)
LEMMA SteadyMachine ==
    ASSUME TypeInv, SteadyRows, Enumerating, Machine
    PROVE  SteadyRows'
  <1>1. PICK a \in Address : Unload(a) \/ \E d \in Driver : Load(d, a)
    BY DEF Machine
  <1>2. UNCHANGED <<pc, szName, szBuffer, first, tree, m_root>>
    BY DEF Machine, driverVars, reportVars
  <1>3. steady \subseteq LoadedAt(loaded)
    BY DEF SteadyRows
  <1>4. steady' \subseteq steady /\ \A b \in steady' : loaded'[b] = loaded[b]
    BY <1>1, <1>3 DEF Unload, Load, LoadedAt, TypeInv, ControlOK
  <1>5. steady' \subseteq LoadedAt(loaded')
    BY <1>3, <1>4 DEF LoadedAt
  <1>6. \A b \in steady' : ListedOnce(b)' <=> ListedOnce(b)
    BY <1>2, <1>4 DEF ListedOnce, NewRows, Own, Waiting
  <1> QED BY <1>2, <1>4, <1>5, <1>6 DEF SteadyRows, Enumerating, LoadedAt

(* The step that asks for a path and links the row.                        *)
LEMMA SteadyFileName ==
    ASSUME TypeInv, OneAddress, SteadyRows, DriverFileName
    PROVE  SteadyRows'
  <1>0. PICK at : at = szName.at
    OBVIOUS
  <1> DEFINE row == [Name |-> szName.of, Path |-> loaded[at]]
             n == Len(tree[DRIVER])
  <1>1. /\ pc = "path" /\ pc' = "name"
        /\ UNCHANGED <<loaded, szBuffer, steady, first>>
        /\ at \in Address /\ szName.of \in Driver
    BY <1>0 DEF DriverFileName, Step, At, machineVars, historyVars, TypeInv, ControlOK
  <1>2. /\ steady \subseteq LoadedAt(loaded) /\ first <= n
        /\ at \notin szBuffer
        /\ at \in steady => szName.of = loaded[at]
        /\ DRIVER \in m_root => \A a \in steady : ListedOnce(a)
    BY <1>0, <1>1 DEF SteadyRows, Enumerating
  <1>3. loaded'[at] # None => row \in Row
    BY <1>1 DEF Row, TypeInv, ControlOK
  <1>4. \A a \in steady : a # at => (Waiting(a)' <=> Waiting(a))
    BY <1>0, <1>1 DEF Waiting
  <1>5. ~Waiting(at)' /\ Waiting(at)
    BY <1>0, <1>1, <1>2 DEF Waiting
  <1>6. \A a \in steady : a # at /\ loaded[at] # None => row # Own(a)
    BY <1>1, <1>2 DEF OneAddress, LoadedAt, Own
  <1>7. at \in steady => loaded[at] # None /\ row = Own(at)
    BY <1>2 DEF LoadedAt, Own
  <1>8. CASE DRIVER \in m_root /\ loaded[at] # None
    <2>1. LinkRow(DRIVER, row) /\ row \in Row
      BY <1>0, <1>1, <1>3, <1>8 DEF DriverFileName
    <2> HIDE DEF row
    <2>2. /\ Len(tree'[DRIVER]) = n + 1
          /\ \A i \in NewRows : tree'[DRIVER][i] = tree[DRIVER][i]
          /\ tree'[DRIVER][n + 1] = row
          /\ \A i : i \in NewRows' <=> i \in NewRows \/ i = n + 1
          /\ n + 1 \notin NewRows
      BY <1>1, <1>2, <1>8, <2>1, RowAdded
    <2>3. first' <= Len(tree'[DRIVER])
      BY <1>1, <1>2, <2>2, DriverRows
    <2>4. ASSUME NEW a \in steady
          PROVE  ListedOnce(a)'
      <3>1. ListedOnce(a) /\ Own(a)' = Own(a)
        BY <1>1, <1>2, <1>8 DEF Own
      <3>2. CASE a # at
        <4>1. row # Own(a)
          BY <1>6, <1>8, <3>2
        <4>2. CASE Waiting(a)
          BY <1>4, <2>2, <3>1, <3>2, <4>1, <4>2 DEF ListedOnce
        <4>3. CASE ~Waiting(a)
          <5>1. PICK i \in NewRows : \A j \in NewRows : tree[DRIVER][j] = Own(a) <=> j = i
            BY <3>1, <4>3 DEF ListedOnce
          <5>2. \A j \in NewRows' : tree'[DRIVER][j] = Own(a)' <=> j = i
            BY <2>2, <3>1, <4>1, <5>1
          <5> QED BY <1>4, <2>2, <3>2, <4>3, <5>1, <5>2 DEF ListedOnce
        <4> QED BY <4>2, <4>3
      <3>3. CASE a = at
        <4>1. \A i \in NewRows : tree[DRIVER][i] # Own(a)
          BY <1>5, <3>1, <3>3 DEF ListedOnce
        <4>2. \A j \in NewRows' : tree'[DRIVER][j] = Own(a)' <=> j = n + 1
          BY <1>7, <2>2, <3>1, <3>3, <4>1
        <4> QED BY <1>5, <2>2, <3>3, <4>2 DEF ListedOnce
      <3> QED BY <3>2, <3>3
    <2> QED BY <1>1, <1>2, <2>3, <2>4 DEF SteadyRows, Enumerating, LoadedAt
  <1>9. CASE DRIVER \notin m_root \/ loaded[at] = None
    <2>1. tree' = tree /\ m_root' = m_root
      BY <1>0, <1>1, <1>9 DEF DriverFileName, LinkRow, Crash, reportVars
    <2>2. ASSUME DRIVER \in m_root, NEW a \in steady
          PROVE  ListedOnce(a)'
      <3>1. ListedOnce(a) /\ (Waiting(a)' <=> Waiting(a))
        BY <1>2, <1>4, <1>7, <1>9, <2>2
      <3> QED BY <1>1, <2>1, <3>1 DEF ListedOnce, NewRows, Own
    <2> QED BY <1>1, <1>2, <2>1, <2>2 DEF SteadyRows, Enumerating, LoadedAt
  <1> QED BY <1>8, <1>9

(* Every step keeps what is said of the drivers that stay.                 *)
LEMMA SteadyStep == TypeInv /\ OneAddress /\ SteadyRows /\ [Next]_vars => SteadyRows'
  <1> SUFFICES ASSUME TypeInv, OneAddress, SteadyRows, [Next]_vars, Enumerating'
               PROVE  SteadyRows'
    BY DEF SteadyRows, Enumerating
  <1>1. CASE DriverEnumerate
    <2>1. /\ loaded' = loaded /\ tree' = tree /\ first' = Len(tree[DRIVER]) /\ pc' = "name"
          /\ steady' = LoadedAt(loaded) /\ szBuffer' = LoadedAt(loaded)
      BY <1>1 DEF DriverEnumerate, machineVars, reportVars
    <2>2. NewRows' = {}
      BY <2>1, DriverRows DEF NewRows
    <2>3. \A a \in steady' : ListedOnce(a)'
      BY <2>1, <2>2 DEF ListedOnce, Waiting
    <2> QED BY <2>1, <2>3, DriverRows DEF SteadyRows, Enumerating
  <1>2. CASE UNCHANGED vars
    BY <1>2 DEF vars, machineVars, driverVars, historyVars, reportVars, SteadyRows,
                ListedOnce, Waiting, Own, NewRows, Enumerating
  <1> QED BY <1>1, <1>2, DriverSteps, SteadyMachine, SteadyBaseName, SteadyFileName

(* When the loop of DriverEnumerator ends, a driver that stayed loaded has *)
(* exactly one row of its own, whatever came and went at other addresses.  *)
THEOREM SteadyRight == Spec => []SteadyDriversListed
  <1>1. Init => OneAddress /\ SteadyRows
    BY DEF Init, CallInit, OneAddress, SteadyRows, Enumerating
  <1>2. TypeInv /\ SteadyRows => SteadyDriversListed
    <2> SUFFICES ASSUME TypeInv, SteadyRows, pc = "name", szBuffer = {}, DRIVER \in m_root,
                        NEW a \in steady
                 PROVE  Cardinality({i \in NewRows : tree[DRIVER][i] = Own(a)}) = 1
      BY DEF SteadyDriversListed, Own
    <2>1. PICK i \in NewRows : \A j \in NewRows : tree[DRIVER][j] = Own(a) <=> j = i
      BY DEF SteadyRows, Enumerating, ListedOnce, Waiting
    <2>2. {j \in NewRows : tree[DRIVER][j] = Own(a)} = {i}
      BY <2>1
    <2> QED BY <2>2, FS_Singleton
  <1> QED BY <1>1, <1>2, OneAddressStep, SteadyStep, TypeCorrect, PTL DEF Spec

-----------------------------------------------------------------------------
(* A main that keeps to its use.                                           *)

(* The documents that wait for a Finalize, and those that one function     *)
(* opens, prints and closes.                                               *)
Docs == {DRIVER, PERFORMANCE, OBJINS}
Prints == {PROCESSCOUNTERS, PERF_TYPE}

(* The producer of n is between its Initialize and its Finalize.           *)
Live(n) == Times(ProducerOf[n], "Initialize") > 0 /\ Times(ProducerOf[n], "Finalize") = 0

(* Each report has a producer of its own.                                  *)
LEMMA Producers ==
    /\ DOMAIN ProducerOf = Docs
    /\ ProducerOf[DRIVER] = "DriverEnumerator"
    /\ ProducerOf[PERFORMANCE] = "PerformanceInfo"
    /\ ProducerOf[OBJINS] = "pdhProcessEnumerator"
    /\ \A m, n \in Docs : ProducerOf[m] = ProducerOf[n] => m = n
    /\ \A n \in Docs : ProducerOf[n] # "SavePerfTypes"
    /\ Docs \cup Prints = Name /\ Docs \cap Prints = {} /\ Checked \subseteq Docs
  BY DEF ProducerOf, Docs, Prints, Name, Checked, DRIVER, PERFORMANCE, OBJINS,
         PROCESSCOUNTERS, PERF_TYPE

(* The function that prints n was called.                                  *)
Asked(n) ==
    /\ n = PROCESSCOUNTERS => Times("pdhProcessEnumerator", "Enumerate") > 0
    /\ n = PERF_TYPE => Times("SavePerfTypes", "run") > 0

(* Among the steps still to be made: one that opens n before the i-th, and *)
(* one that closes n after it.                                             *)
OpenAhead(n, i) == \E j \in 1..(i - 1) : todo[j].does = "open" /\ todo[j].on = n
CloseAfter(n, i) == \E j \in (i + 1)..Len(todo) : todo[j].does = "close" /\ todo[j].on = n

(* The steps still to be made find what they need: a row of a document has *)
(* its producer live; a report that a function prints is opened for the    *)
(* first time, before its rows and its end, and nothing of it comes after. *)
StepSafe(i) ==
    LET n == todo[i].on
    IN  /\ n \in Docs => todo[i].does = "row" /\ Live(n)
        /\ n \in Prints /\ todo[i].does = "open" =>
             /\ n \notin m_map /\ Asked(n)
             /\ \A j \in 1..(i - 1) : todo[j].on # n
             /\ CloseAfter(n, i)
        /\ n \in Prints /\ todo[i].does # "open" =>
             (n \in m_doc /\ n \in m_root) \/ OpenAhead(n, i)
        /\ n \in Prints /\ todo[i].does = "close" =>
             \A j \in (i + 1)..Len(todo) : todo[j].on # n

TodoSafe ==
    /\ \A i \in 1..Len(todo) : StepSafe(i)
    /\ \A n \in Prints : n \in heap => CloseAfter(n, 0)

(* What the calls made so far say of the documents.                        *)
DocsSafe ==
    /\ Checked \subseteq m_bWork
    /\ \A n \in Docs :
         /\ Times(ProducerOf[n], "Enumerate") > 0 => Times(ProducerOf[n], "Initialize") > 0
         /\ Times(ProducerOf[n], "Finalize") > 0 => Times(ProducerOf[n], "Enumerate") > 0
         /\ n \in m_map => Times(ProducerOf[n], "Initialize") > 0
         /\ n \in heap => Live(n)
         /\ Live(n) => n \in m_doc /\ n \in m_root
    /\ \A n \in Prints : n \in m_map => Asked(n)
    /\ Enumerating => Live(DRIVER)

UseInv == ~misused => crash = {} /\ DocsSafe /\ TodoSafe

(* How often an operation was called is a natural number.                  *)
LEMMA TimesNat == TypeInv => \A p, op : Times(p, op) \in Nat
  BY DEF TypeInv, ControlOK, Times

(* What a proper call finds.                                               *)
LEMMA ProperCall ==
    ASSUME TypeInv, UseInv, ~misused', NEW p, NEW op \in Op, Calling(p, op, {})
    PROVE  /\ ~misused /\ crash = {} /\ DocsSafe
           /\ pc = "idle" /\ todo = << >> /\ Len(todo) = 0
           /\ \A n \in Prints : n \notin heap
           /\ Times(p, op) = 0 /\ Times(p, op)' = 1
           /\ op = "Enumerate" => Times(p, "Initialize") > 0
           /\ op = "Finalize" => Times(p, "Enumerate") > 0
           /\ \A q, o : <<q, o>> # <<p, op>> => Times(q, o)' = Times(q, o)
  <1>1. /\ At("idle") /\ Times(p, op)' = Times(p, op) + 1
        /\ \A q, o : <<q, o>> # <<p, op>> => Times(q, o)' = Times(q, o)
        /\ misused' = (misused \/ ~Proper(p, op, {}))
    BY CallTimes
  <1>2. ~misused /\ Proper(p, op, {})
    BY <1>1
  <1>3. pc = "idle" /\ todo = << >> /\ Len(todo) = 0
    BY <1>1 DEF At
  <1>4. crash = {} /\ DocsSafe /\ TodoSafe
    BY <1>2 DEF UseInv
  <1>5. \A n \in Prints : n \notin heap
    BY <1>3, <1>4 DEF TodoSafe, CloseAfter
  <1>6. /\ Times(p, op) = 0
        /\ op = "Enumerate" => Times(p, "Initialize") > 0
        /\ op = "Finalize" => Times(p, "Enumerate") > 0
    BY <1>2 DEF Proper
  <1> QED BY <1>1, <1>2, <1>3, <1>4, <1>5, <1>6

(* With nothing to be made and no printed report on the heap all is safe.  *)
LEMMA NothingToDo ==
    ASSUME todo = << >>, \A n \in Prints : n \notin heap
    PROVE  TodoSafe
  BY DEF TodoSafe

(* Initialize.                                                             *)
LEMMA InitializeUse ==
    ASSUME TypeInv, UseInv, ~misused', NEW n \in Docs,
           AtOnce(ProducerOf[n], "Initialize"), Initialize(n)
    PROVE  UseInv'
  <1> DEFINE p == ProducerOf[n]
  <1>1. /\ crash = {} /\ DocsSafe /\ pc = "idle" /\ todo = << >>
        /\ \A m \in Prints : m \notin heap
        /\ Times(p, "Initialize") = 0 /\ Times(p, "Initialize")' = 1
        /\ \A q, o : <<q, o>> # <<p, "Initialize">> => Times(q, o)' = Times(q, o)
    BY ProperCall DEF AtOnce, Call, Op
  <1>2. UNCHANGED <<pc, todo>>
    BY DEF AtOnce, Call
  <1>3. n \notin m_map /\ (n \in Checked => n \in m_bWork) /\ ~Live(n)
        /\ Times(p, "Enumerate") = 0 /\ Times(p, "Finalize") = 0
    BY <1>1, TimesNat DEF DocsSafe, Live
  <1>4. /\ m_map' = m_map \cup {n} /\ heap' = heap \cup {n}
        /\ m_doc' = m_doc \cup {n} /\ m_root' = m_root \cup {n}
        /\ m_bWork' = m_bWork /\ crash' = crash
    BY <1>3 DEF Initialize, InitializeChecked, InitializeUnchecked, GetDocument, NewRoot
  <1>5. Live(n)'
    BY <1>1, <1>3 DEF Live
  <1>6. \A m \in Docs : m # n => (Live(m)' <=> Live(m))
    BY <1>1, Producers DEF Live
  <1>7. n \notin Prints /\ n # PROCESSCOUNTERS /\ n # PERF_TYPE
    BY Producers DEF Prints
  <1>8. TodoSafe'
    BY <1>1, <1>2, <1>4, <1>7, NothingToDo DEF TodoSafe, StepSafe
  <1>a. \A m \in Prints : Asked(m)' <=> Asked(m)
    BY <1>1 DEF Asked
  <1>b. \A m \in Docs :
          /\ Times(ProducerOf[m], "Initialize") > 0 => Times(ProducerOf[m], "Initialize")' > 0
          /\ Times(ProducerOf[m], "Enumerate")' = Times(ProducerOf[m], "Enumerate")
          /\ Times(ProducerOf[m], "Finalize")' = Times(ProducerOf[m], "Finalize")
    BY <1>1, Producers
  <1>9. DocsSafe'
    BY <1>1, <1>2, <1>3, <1>4, <1>5, <1>6, <1>7, <1>a, <1>b DEF DocsSafe, Enumerating
  <1> QED BY <1>1, <1>4, <1>8, <1>9 DEF UseInv

(* Finalize finds the document and the root.                               *)
LEMMA FinalizeUse ==
    ASSUME TypeInv, UseInv, ~misused', NEW n \in Docs,
           AtOnce(ProducerOf[n], "Finalize"),
           (n \in Checked /\ FinalizeReport(n)) \/ CloseReport(n)
    PROVE  UseInv'
  <1> DEFINE p == ProducerOf[n]
  <1>1. /\ crash = {} /\ DocsSafe /\ pc = "idle" /\ todo = << >>
        /\ \A m \in Prints : m \notin heap
        /\ Times(p, "Finalize") = 0 /\ Times(p, "Finalize")' = 1
        /\ Times(p, "Enumerate") > 0
        /\ \A q, o : <<q, o>> # <<p, "Finalize">> => Times(q, o)' = Times(q, o)
    BY ProperCall DEF AtOnce, Call, Op
  <1>2. UNCHANGED <<pc, todo>>
    BY DEF AtOnce, Call
  <1>3. Live(n) /\ n \in m_doc /\ n \in m_root /\ (n \in Checked => n \in m_bWork)
    BY <1>1 DEF DocsSafe, Live
  <1>4. CloseReport(n)
    BY <1>3 DEF FinalizeReport
  <1>5. /\ heap' = heap \ {n} /\ m_doc' = m_doc \ {n} /\ m_root' = m_root \ {n}
        /\ UNCHANGED <<m_map, m_bWork, crash>>
    BY <1>3, <1>4 DEF CloseReport, Release
  <1>6. ~Live(n)'
    BY <1>1 DEF Live
  <1>7. \A m \in Docs : m # n => (Live(m)' <=> Live(m))
    BY <1>1, Producers DEF Live
  <1>8. TodoSafe'
    BY <1>1, <1>2, <1>5, NothingToDo DEF TodoSafe, StepSafe
  <1>a. \A m \in Prints : Asked(m)' <=> Asked(m)
    BY <1>1 DEF Asked
  <1>b. \A m \in Docs :
          /\ Times(ProducerOf[m], "Initialize")' = Times(ProducerOf[m], "Initialize")
          /\ Times(ProducerOf[m], "Enumerate")' = Times(ProducerOf[m], "Enumerate")
          /\ m # n => Times(ProducerOf[m], "Finalize")' = Times(ProducerOf[m], "Finalize")
    BY <1>1, Producers
  <1>9. DocsSafe'
    BY <1>1, <1>2, <1>5, <1>6, <1>7, <1>a, <1>b DEF DocsSafe, Enumerating
  <1> QED BY <1>1, <1>5, <1>8, <1>9 DEF UseInv

(* A function that enumerates finds its producer live, and touches no      *)
(* report before its first step.                                           *)
LEMMA EnumerateUse ==
    ASSUME TypeInv, UseInv, ~misused', NEW p, NEW op \in {"Enumerate", "run"},
           Calling(p, op, {}), UNCHANGED reportVars,
           Enumerating' => p = "DriverEnumerator" /\ op = "Enumerate"
    PROVE  /\ crash' = {} /\ DocsSafe'
           /\ \A n \in Prints : n \notin heap'
           /\ \A n \in Docs : op = "Enumerate" /\ p = ProducerOf[n] => Live(n)'
           /\ op = "Enumerate" /\ p = "pdhProcessEnumerator" =>
                PROCESSCOUNTERS \notin m_map' /\ Asked(PROCESSCOUNTERS)'
           /\ op = "run" /\ p = "SavePerfTypes" => PERF_TYPE \notin m_map' /\ Asked(PERF_TYPE)'
  <1>1. /\ crash = {} /\ DocsSafe
        /\ \A n \in Prints : n \notin heap
        /\ Times(p, op) = 0 /\ Times(p, op)' = 1
        /\ op = "Enumerate" => Times(p, "Initialize") > 0
        /\ \A q, o : <<q, o>> # <<p, op>> => Times(q, o)' = Times(q, o)
    BY ProperCall DEF Op
  <1>2. UNCHANGED <<m_map, heap, m_doc, m_root, m_bWork, crash>>
    BY DEF reportVars
  <1>3. \A n \in Docs : Live(n)' <=> Live(n)
    BY <1>1 DEF Live
  <1>4. \A n \in Docs : op = "Enumerate" /\ p = ProducerOf[n] => Live(n)
    <2> SUFFICES ASSUME NEW n \in Docs, op = "Enumerate", p = ProducerOf[n] PROVE Live(n)
      OBVIOUS
    <2>1. Times(p, "Initialize") > 0 /\ ~(Times(p, "Finalize") > 0)
      BY <1>1, TimesNat DEF DocsSafe
    <2> QED BY <2>1, TimesNat DEF Live
  <1>5. \A n \in Docs :
          /\ Times(ProducerOf[n], "Initialize")' = Times(ProducerOf[n], "Initialize")
          /\ Times(ProducerOf[n], "Finalize")' = Times(ProducerOf[n], "Finalize")
          /\ Times(ProducerOf[n], "Enumerate") > 0 => Times(ProducerOf[n], "Enumerate")' > 0
          /\ Times(ProducerOf[n], "Enumerate")' > 0 => Times(ProducerOf[n], "Initialize")' > 0
    BY <1>1, Producers DEF DocsSafe
  <1>6. /\ \A n \in Prints : n \in m_map' => Asked(n)'
        /\ op = "Enumerate" /\ p = "pdhProcessEnumerator" =>
             PROCESSCOUNTERS \notin m_map /\ Asked(PROCESSCOUNTERS)'
        /\ op = "run" /\ p = "SavePerfTypes" => PERF_TYPE \notin m_map /\ Asked(PERF_TYPE)'
    <2>1. PROCESSCOUNTERS \in Prints /\ PERF_TYPE \in Prints /\ PROCESSCOUNTERS # PERF_TYPE
      BY DEF Prints, PROCESSCOUNTERS, PERF_TYPE
    <2> QED BY <1>1, <1>2, <2>1 DEF DocsSafe, Asked
  <1>7. Enumerating' => Live(DRIVER)'
    BY <1>3, <1>4, Producers DEF Docs
  <1>8. DocsSafe'
    BY <1>1, <1>2, <1>3, <1>5, <1>6, <1>7 DEF DocsSafe
  <1> QED BY <1>1, <1>2, <1>3, <1>4, <1>6, <1>8

(* DriverEnumerator::Enumerate, or the EnumDeviceDrivers that fails in it. *)
LEMMA DriverEnumerateUse ==
    ASSUME TypeInv, UseInv, ~misused', DriverEnumerate \/ DriverEnumerateFails
    PROVE  UseInv'
  <1>1. /\ Calling("DriverEnumerator", "Enumerate", {})
        /\ UNCHANGED reportVars /\ UNCHANGED todo
    BY DEF DriverEnumerate, DriverEnumerateFails, AtOnce, Call
  <1>2. todo = << >>
    BY <1>1 DEF Calling, At
  <1>3. crash' = {} /\ DocsSafe' /\ \A n \in Prints : n \notin heap'
    BY <1>1, EnumerateUse
  <1>4. TodoSafe'
    BY <1>1, <1>2, <1>3 DEF TodoSafe
  <1> QED BY <1>3, <1>4 DEF UseInv

(* PerformanceInfo::Enumerate.                                             *)
LEMMA PerformanceEnumerateUse ==
    ASSUME TypeInv, UseInv, ~misused', PerformanceEnumerate
    PROVE  UseInv'
  <1>1. PICK k \in {0, InfoRows} : Writes("PerformanceInfo", "Enumerate", Items(PERFORMANCE, k))
    BY DEF PerformanceEnumerate
  <1>2. /\ Calling("PerformanceInfo", "Enumerate", {})
        /\ UNCHANGED reportVars /\ todo' = Items(PERFORMANCE, k) /\ ~Enumerating'
    BY <1>1 DEF Writes, Call, Calling, At, Enumerating
  <1>3. k \in Nat /\ PERFORMANCE \in Docs /\ PERFORMANCE \notin Prints /\ PERFORMANCE \in Name
    BY BoundAssumption, Producers DEF Docs
  <1>4. /\ crash' = {} /\ DocsSafe' /\ \A n \in Prints : n \notin heap'
        /\ Live(PERFORMANCE)'
    BY <1>2, <1>3, Producers, EnumerateUse
  <1>5. /\ Len(todo') = k
        /\ \A i \in 1..k : todo'[i].does = "row" /\ todo'[i].on = PERFORMANCE
    <2>1. /\ Len(todo') = k
          /\ \A i \in 1..k : todo'[i] = [does |-> "row", on |-> PERFORMANCE, row |-> Item]
      BY <1>2, <1>3, PlainRows
    <2> QED BY <2>1
  <1>6. TodoSafe'
    BY <1>3, <1>4, <1>5 DEF TodoSafe, StepSafe
  <1> QED BY <1>4, <1>6 DEF UseInv

(* SavePerfTypes.                                                          *)
LEMMA SavePerfTypesUse ==
    ASSUME TypeInv, UseInv, ~misused', SavePerfTypes
    PROVE  UseInv'
  <1> DEFINE k == TypeRows
             n == PERF_TYPE
  <1>1. /\ Calling("SavePerfTypes", "run", {})
        /\ UNCHANGED reportVars /\ todo' = Printed(n, Plain(k)) /\ ~Enumerating'
    BY DEF SavePerfTypes, Writes, Call, Calling, At, Enumerating, Plain
  <1>2. k \in Nat /\ n \notin Docs /\ n \in Prints /\ n \in Name
    BY BoundAssumption, Producers DEF Prints
  <1>3. crash' = {} /\ DocsSafe' /\ n \notin m_map' /\ Asked(n)' /\ \A m \in Prints : m \notin heap'
    BY <1>1, EnumerateUse
  <1>4. /\ Len(todo') = k + 2
        /\ \A i \in 1..(k + 2) :
             /\ todo'[i].on = n
             /\ todo'[i].does = IF i = 1 THEN "open" ELSE IF i = k + 2 THEN "close" ELSE "row"
    <2>1. /\ Len(todo') = k + 2
          /\ \A i \in 1..(k + 2) : todo'[i] =
               IF i = 1 THEN [does |-> "open", on |-> n]
               ELSE IF i = k + 2 THEN [does |-> "close", on |-> n]
               ELSE [does |-> "row", on |-> n, row |-> Item]
      BY <1>1, <1>2, PrintedSteps
    <2> HIDE DEF k, n
    <2> QED BY <2>1
  <1> HIDE DEF k, n
  <1>5. CloseAfter(n, 1)'
    <2>1. k + 2 \in (1 + 1)..(k + 2) /\ k + 2 \in 1..(k + 2) /\ k + 2 # 1
      BY <1>2
    <2> QED BY <1>4, <2>1 DEF CloseAfter
  <1>6. ASSUME NEW i \in 1..(k + 2)
        PROVE  StepSafe(i)'
    <2>1. CASE i = 1
      <3>1. todo'[i].on = n /\ todo'[i].does = "open" /\ 1..(i - 1) = {}
        BY <1>4, <2>1
      <3> QED BY <1>2, <1>3, <1>5, <2>1, <3>1 DEF StepSafe
    <2>2. CASE i # 1
      <3>1. todo'[i].on = n /\ todo'[i].does # "open"
        BY <1>4, <2>2
      <3>2. OpenAhead(n, i)'
        <4>1. 1 \in 1..(i - 1) /\ 1 \in 1..(k + 2)
          BY <1>2, <2>2
        <4> QED BY <1>4, <4>1 DEF OpenAhead
      <3>3. todo'[i].does = "close" => (i + 1)..Len(todo') = {}
        BY <1>2, <1>4, <2>2
      <3> QED BY <1>2, <3>1, <3>2, <3>3 DEF StepSafe
    <2> QED BY <2>1, <2>2
  <1>7. TodoSafe'
    BY <1>3, <1>4, <1>6 DEF TodoSafe
  <1> QED BY <1>3, <1>7 DEF UseInv

(* Enumerate of the pdh enumerator.                                        *)
LEMMA PdhEnumerateUse ==
    ASSUME TypeInv, UseInv, ~misused', PdhEnumerate
    PROVE  UseInv'
  <1>1. PICK k \in 0..MaxProcessRows :
          Writes("pdhProcessEnumerator", "Enumerate", PdhSteps(k))
    BY DEF PdhEnumerate, PdhSteps, Plain
  <1>2. /\ Calling("pdhProcessEnumerator", "Enumerate", {})
        /\ UNCHANGED reportVars /\ todo' = PdhSteps(k) /\ ~Enumerating'
    BY <1>1 DEF Writes, Call, Calling, At, Enumerating
  <1> DEFINE n == PROCESSCOUNTERS
             N == k + 4 + ObjectRows
  <1>3. /\ k \in Nat /\ N \in Nat /\ k + 4 <= N /\ n \notin Docs /\ n \in Prints
        /\ OBJINS \in Docs /\ OBJINS \notin Prints /\ n # OBJINS
    <2>1. k \in Nat /\ N \in Nat /\ k + 4 <= N
      BY BoundAssumption
    <2>2. n \in Prints /\ OBJINS \in Docs
      BY DEF Prints, Docs
    <2> QED BY <2>1, <2>2, Producers
  <1>4. /\ crash' = {} /\ DocsSafe' /\ n \notin m_map' /\ Asked(n)' /\ \A m \in Prints : m \notin heap'
        /\ Live(OBJINS)'
    BY <1>2, <1>3, Producers, EnumerateUse
  <1>5. /\ Len(todo') = N
        /\ \A i \in 1..N : 3 <= i /\ i <= k + 4 =>
             /\ todo'[i].on = n
             /\ todo'[i].does = IF i = 3 THEN "open" ELSE IF i = k + 4 THEN "close" ELSE "row"
        /\ \A i \in 1..N : i < 3 \/ k + 4 < i => todo'[i].on = OBJINS /\ todo'[i].does = "row"
    <2>1. /\ Len(todo') = N
          /\ \A i \in 1..N : todo'[i] =
               IF i = 3 THEN [does |-> "open", on |-> n]
               ELSE IF i = k + 4 THEN [does |-> "close", on |-> n]
               ELSE IF 3 < i /\ i < k + 4 THEN [does |-> "row", on |-> n, row |-> Item]
               ELSE [does |-> "row", on |-> OBJINS, row |-> Item]
      BY <1>2, <1>3, PdhStepsAre
    <2> HIDE DEF N, n
    <2>2. ASSUME NEW i \in 1..N
          PROVE  /\ 3 <= i /\ i <= k + 4 =>
                      i = 3 \/ i = k + 4 \/ (i # 3 /\ i # k + 4 /\ 3 < i /\ i < k + 4)
                 /\ i < 3 \/ k + 4 < i => i # 3 /\ i # k + 4 /\ ~(3 < i /\ i < k + 4)
      BY <1>3
    <2> QED BY <2>1, <2>2
  <1> HIDE DEF N, n
  <1>6. CloseAfter(n, 3)'
    <2>1. k + 4 \in (3 + 1)..N /\ k + 4 \in 1..N /\ k + 4 # 3
      BY <1>3
    <2> QED BY <1>3, <1>5, <2>1 DEF CloseAfter
  <1>7. ASSUME NEW i \in 1..N
        PROVE  StepSafe(i)'
    <2>1. CASE i < 3 \/ k + 4 < i
      <3>1. todo'[i].on = OBJINS /\ todo'[i].does = "row"
        BY <1>5, <2>1
      <3> QED BY <1>3, <1>4, <3>1 DEF StepSafe
    <2>2. CASE i = 3
      <3>1. todo'[i].on = n /\ todo'[i].does = "open"
        BY <1>3, <1>5, <2>2
      <3>2. \A j \in 1..(i - 1) : j \in 1..N /\ j < 3
        BY <1>3, <2>2
      <3>3. \A j \in 1..(i - 1) : todo'[j].on # n
        BY <1>3, <1>5, <3>2
      <3> QED BY <1>3, <1>4, <1>6, <2>2, <3>1, <3>3 DEF StepSafe
    <2>3. CASE 3 < i /\ i <= k + 4
      <3>1. todo'[i].on = n /\ todo'[i].does # "open"
        BY <1>3, <1>5, <2>3
      <3>2. OpenAhead(n, i)'
        <4>1. 3 \in 1..(i - 1) /\ 3 \in 1..N /\ 3 <= k + 4
          BY <1>3, <2>3
        <4> QED BY <1>5, <4>1 DEF OpenAhead
      <3>3. ASSUME todo'[i].does = "close", NEW j \in (i + 1)..N
            PROVE  todo'[j].on # n
        <4>1. i = k + 4
          BY <1>5, <2>3, <3>3
        <4>2. j \in 1..N /\ k + 4 < j
          BY <1>3, <3>3, <4>1
        <4> QED BY <1>3, <1>5, <4>2
      <3> QED BY <1>3, <1>5, <3>1, <3>2, <3>3 DEF StepSafe
    <2> QED BY <1>3, <2>1, <2>2, <2>3
  <1>8. TodoSafe'
    BY <1>4, <1>5, <1>7 DEF TodoSafe
  <1> QED BY <1>4, <1>8 DEF UseInv

-----------------------------------------------------------------------------
(* What is still to be made once the first step is made.                   *)
LEMMA Shift ==
    ASSUME TypeInv, todo # << >>, todo' = Tail(todo)
    PROVE  /\ Len(todo) \in Nat \ {0} /\ Len(todo') = Len(todo) - 1
           /\ \A i \in 1..Len(todo') : todo'[i] = todo[i + 1] /\ i + 1 \in 1..Len(todo)
           /\ 1 \in 1..Len(todo) /\ todo[1] \in TodoStep /\ Head(todo) = todo[1]
           /\ \A n, i : i \in 1..Len(todo') /\ OpenAhead(n, i + 1) =>
                OpenAhead(n, i)' \/ (todo[1].does = "open" /\ todo[1].on = n)
           /\ \A n, i : i \in 0..Len(todo') /\ CloseAfter(n, i + 1) => CloseAfter(n, i)'
           /\ \A n : CloseAfter(n, 0) =>
                CloseAfter(n, 0)' \/ (todo[1].does = "close" /\ todo[1].on = n)
  <1>1. /\ Head(todo) = todo[1] /\ Head(todo) \in TodoStep
        /\ Len(todo) \in Nat \ {0} /\ Len(todo') = Len(todo) - 1
        /\ \A i \in 1..(Len(todo) - 1) : todo'[i] = todo[i + 1]
    BY NextStep
  <1>2. PICK N \in Nat : Len(todo) = N + 1 /\ Len(todo') = N
    <2>1. Len(todo) - 1 \in Nat /\ Len(todo) = (Len(todo) - 1) + 1
      BY <1>1
    <2> QED BY <1>1, <2>1
  <1>3. \A i \in 1..N : todo'[i] = todo[i + 1] /\ i + 1 \in 1..(N + 1)
    BY <1>1, <1>2
  <1>4. ASSUME NEW j \in 1..(N + 1), j # 1
        PROVE  j - 1 \in 1..N /\ todo[j] = todo'[j - 1]
    <2>1. j - 1 \in 1..N /\ (j - 1) + 1 = j
      BY <1>4
    <2> QED BY <1>3, <2>1
  <1>5. ASSUME NEW n, NEW i \in 1..N, OpenAhead(n, i + 1)
        PROVE  OpenAhead(n, i)' \/ (todo[1].does = "open" /\ todo[1].on = n)
    <2>1. PICK j \in 1..((i + 1) - 1) : todo[j].does = "open" /\ todo[j].on = n
      BY <1>5 DEF OpenAhead
    <2>2. CASE j # 1
      <3>1. j - 1 \in 1..(i - 1) /\ j \in 1..(N + 1)
        BY <2>2
      <3> QED BY <1>4, <2>1, <2>2, <3>1 DEF OpenAhead
    <2> QED BY <2>1, <2>2
  <1>6. ASSUME NEW n, NEW i \in 0..N, CloseAfter(n, i + 1)
        PROVE  CloseAfter(n, i)'
    <2>1. PICK j \in (i + 1 + 1)..(N + 1) : todo[j].does = "close" /\ todo[j].on = n
      BY <1>2, <1>6 DEF CloseAfter
    <2>2. j - 1 \in (i + 1)..N /\ j \in 1..(N + 1) /\ j # 1
      OBVIOUS
    <2> QED BY <1>2, <1>4, <2>1, <2>2 DEF CloseAfter
  <1>7. ASSUME NEW n, CloseAfter(n, 0)
        PROVE  CloseAfter(n, 0)' \/ (todo[1].does = "close" /\ todo[1].on = n)
    <2>1. PICK j \in 1..(N + 1) : todo[j].does = "close" /\ todo[j].on = n
      BY <1>2, <1>7 DEF CloseAfter
    <2>2. CASE j # 1
      <3>1. j - 1 \in (0 + 1)..Len(todo') /\ todo[j] = todo'[j - 1]
        BY <1>2, <1>4, <2>2
      <3>2. todo'[j - 1].does = "close" /\ todo'[j - 1].on = n
        BY <2>1, <3>1
      <3> QED BY <3>1, <3>2 DEF CloseAfter
    <2> QED BY <2>1, <2>2
  <1> QED BY <1>1, <1>2, <1>3, <1>5, <1>6, <1>7

(* What the step made leaves safe of the i-th of the others: the reports   *)
(* of other names are as they were, and one of its own name that is still  *)
(* to be written has its document and its root.                            *)
LEMMA StepPassed ==
    ASSUME TypeInv, todo # << >>, todo' = Tail(todo), UNCHANGED called,
           NEW m, todo[1].on = m,
           \A n \in Prints : n # m =>
             /\ n \in m_map' <=> n \in m_map
             /\ n \in m_doc /\ n \in m_root => n \in m_doc' /\ n \in m_root',
           NEW i \in 1..Len(todo'), StepSafe(i + 1),
           m \in Prints /\ todo'[i].on = m => m \in m_doc' /\ m \in m_root'
    PROVE  StepSafe(i)'
  <1>1. PICK n : n = todo'[i].on
    OBVIOUS
  <1>2. /\ Len(todo) \in Nat \ {0} /\ Len(todo') = Len(todo) - 1
        /\ todo'[i] = todo[i + 1]
        /\ \A j \in 1..Len(todo') : todo'[j] = todo[j + 1]
        /\ i \in 0..Len(todo')
    BY Shift
  <1>3. /\ Live(n)' <=> Live(n)
        /\ Asked(n)' <=> Asked(n)
    BY DEF Live, Asked, Times
  <1>4. n \in Docs => todo'[i].does = "row" /\ Live(n)'
    BY <1>1, <1>2, <1>3 DEF StepSafe
  <1>5. ASSUME n \in Prints, todo'[i].does = "open"
        PROVE  /\ n \notin m_map' /\ Asked(n)'
               /\ \A j \in 1..(i - 1) : todo'[j].on # n
               /\ CloseAfter(n, i)'
    <2>1. /\ n \notin m_map /\ Asked(n) /\ CloseAfter(n, i + 1)
          /\ \A j \in 1..((i + 1) - 1) : todo[j].on # n
      BY <1>1, <1>2, <1>5 DEF StepSafe
    <2>2. 1 \in 1..((i + 1) - 1)
          /\ \A j \in 1..(i - 1) : j + 1 \in 1..((i + 1) - 1) /\ j \in 1..Len(todo')
      BY <1>2
    <2>3. n # m /\ \A j \in 1..(i - 1) : todo'[j].on # n
      BY <1>2, <2>1, <2>2
    <2>4. CloseAfter(n, i)'
      BY <1>2, <2>1, Shift
    <2> QED BY <1>3, <1>5, <2>1, <2>3, <2>4
  <1>6. ASSUME n \in Prints, todo'[i].does # "open"
        PROVE  (n \in m_doc' /\ n \in m_root') \/ OpenAhead(n, i)'
    <2>1. (n \in m_doc /\ n \in m_root) \/ OpenAhead(n, i + 1)
      BY <1>1, <1>2, <1>6 DEF StepSafe
    <2>2. CASE n = m
      BY <1>1, <1>6, <2>2
    <2>3. CASE n # m
      <3>1. OpenAhead(n, i + 1) => OpenAhead(n, i)'
        BY <2>3, Shift
      <3> QED BY <1>6, <2>1, <2>3, <3>1
    <2> QED BY <2>2, <2>3
  <1>7. ASSUME n \in Prints, todo'[i].does = "close"
        PROVE  \A j \in (i + 1)..Len(todo') : todo'[j].on # n
    <2>1. \A j \in ((i + 1) + 1)..Len(todo) : todo[j].on # n
      BY <1>1, <1>2, <1>7 DEF StepSafe
    <2>2. \A j \in (i + 1)..Len(todo') :
            j + 1 \in ((i + 1) + 1)..Len(todo) /\ j \in 1..Len(todo')
      BY <1>2
    <2> QED BY <1>2, <2>1, <2>2
  <1> QED BY <1>1, <1>4, <1>5, <1>6, <1>7 DEF StepSafe

(* A step on a report finds what it needs, and leaves the others safe.     *)
LEMMA WriteUse ==
    ASSUME TypeInv, UseInv, ~misused, WriteReport
    PROVE  UseInv'
  <1>1. todo # << >> /\ todo' = Tail(todo) /\ UNCHANGED <<pc, called, misused>>
    BY DEF WriteReport, Write, callVars
  <1>2. PICK step \in TodoStep : step = todo[1] /\ Head(todo) = step
    BY <1>1, Shift
  <1>3. PICK m \in Name : m = step.on
    BY DEF TodoStep
  <1>4. \/ step.does = "open" /\ InitializeUnchecked(m)
        \/ step.does = "row" /\ LinkRow(m, step.row)
        \/ step.does = "close" /\ CloseReport(m)
    BY <1>2, <1>3 DEF WriteReport, Write
  <1>5. crash = {} /\ DocsSafe /\ TodoSafe /\ StepSafe(1)
    BY <1>1, <1>2, Shift DEF UseInv, TodoSafe
  <1>6. /\ \A n : Live(n)' <=> Live(n)
        /\ \A p, op : Times(p, op)' = Times(p, op)
        /\ \A n : Asked(n)' <=> Asked(n)
    BY <1>1 DEF Live, Times, Asked
  <1>7. (m \in Docs \/ m \in Prints) /\ ~(m \in Docs /\ m \in Prints)
    BY Producers
  <1>8. \A n : ~OpenAhead(n, 1)
    BY DEF OpenAhead
  <1>9. /\ \A i \in 1..Len(todo') : todo'[i] = todo[i + 1] /\ StepSafe(i + 1)
        /\ \A n, i : i \in 1..Len(todo') /\ OpenAhead(n, i + 1) =>
             OpenAhead(n, i)' \/ (step.does = "open" /\ m = n)
        /\ \A n, i : i \in 1..Len(todo') /\ CloseAfter(n, i + 1) => CloseAfter(n, i)'
        /\ \A n : CloseAfter(n, 1) => CloseAfter(n, 0)'
        /\ \A n : CloseAfter(n, 0) => CloseAfter(n, 0)' \/ (step.does = "close" /\ m = n)
    <2>1. 0 \in 0..Len(todo') /\ 0 + 1 = 1 /\ \A i \in 1..Len(todo') : i \in 0..Len(todo')
      BY <1>1, Shift
    <2> QED BY <1>1, <1>2, <1>3, <1>5, <2>1, Shift DEF TodoSafe
  <1>11. CASE step.does = "open"
    <2>1. m \in Prints /\ m \notin m_map /\ Asked(m) /\ CloseAfter(m, 1)
      BY <1>2, <1>3, <1>5, <1>7, <1>11 DEF StepSafe
    <2>2. /\ m_map' = m_map \cup {m} /\ heap' = heap \cup {m}
          /\ m_doc' = m_doc \cup {m} /\ m_root' = m_root \cup {m}
          /\ UNCHANGED <<m_bWork, crash>>
      BY <1>4, <1>11, <2>1 DEF InitializeUnchecked, GetDocument, NewRoot
    <2>3. ASSUME NEW i \in 1..Len(todo')
          PROVE  StepSafe(i)'
      BY <1>1, <1>2, <1>3, <1>9, <2>2, StepPassed
    <2>4. \A n \in Prints : n \in heap' => CloseAfter(n, 0)'
      BY <1>5, <1>9, <1>11, <2>1, <2>2 DEF TodoSafe
    <2>5. DocsSafe'
      BY <1>1, <1>5, <1>6, <1>7, <2>1, <2>2 DEF DocsSafe, Enumerating
    <2> QED BY <1>5, <2>2, <2>3, <2>4, <2>5 DEF UseInv, TodoSafe
  <1>12. CASE step.does = "row"
    <2>1. m \in m_root
      BY <1>2, <1>3, <1>5, <1>7, <1>8, <1>12 DEF StepSafe, DocsSafe
    <2>2. UNCHANGED <<m_map, heap, m_doc, m_root, m_bWork, crash>>
      BY <1>4, <1>12, <2>1 DEF LinkRow
    <2>3. ASSUME NEW i \in 1..Len(todo')
          PROVE  StepSafe(i)'
      <3>1. m \in Prints => m \in m_doc
        BY <1>2, <1>3, <1>5, <1>8, <1>12 DEF StepSafe
      <3> QED BY <1>1, <1>2, <1>3, <1>9, <2>1, <2>2, <3>1, StepPassed
    <2>4. \A n \in Prints : n \in heap' => CloseAfter(n, 0)'
      BY <1>5, <1>9, <1>12, <2>2 DEF TodoSafe
    <2>5. DocsSafe'
      BY <1>1, <1>5, <1>6, <2>2 DEF DocsSafe, Enumerating
    <2> QED BY <1>5, <2>2, <2>3, <2>4, <2>5 DEF UseInv, TodoSafe
  <1>13. CASE step.does = "close"
    <2>1. /\ m \in Prints /\ m \in m_doc /\ m \in m_root
          /\ \A j \in (1 + 1)..Len(todo) : todo[j].on # m
      BY <1>2, <1>3, <1>5, <1>7, <1>8, <1>13 DEF StepSafe
    <2>2. /\ heap' = heap \ {m} /\ m_doc' = m_doc \ {m} /\ m_root' = m_root \ {m}
          /\ UNCHANGED <<m_map, m_bWork, crash>>
      BY <1>4, <1>13, <2>1 DEF CloseReport, Release
    <2>3. ASSUME NEW i \in 1..Len(todo')
          PROVE  StepSafe(i)'
      <3>1. i + 1 \in (1 + 1)..Len(todo) /\ todo'[i] = todo[i + 1]
        BY <1>1, Shift
      <3>2. todo'[i].on # m
        BY <2>1, <3>1
      <3> QED BY <1>1, <1>2, <1>3, <1>9, <2>2, <3>2, StepPassed
    <2>4. \A n \in Prints : n \in heap' => CloseAfter(n, 0)'
      BY <1>5, <1>9, <2>2 DEF TodoSafe
    <2>5. DocsSafe'
      BY <1>1, <1>5, <1>6, <1>7, <2>1, <2>2 DEF DocsSafe, Enumerating
    <2> QED BY <1>5, <2>2, <2>3, <2>4, <2>5 DEF UseInv, TodoSafe
  <1> QED BY <1>4, <1>11, <1>12, <1>13

(* Nothing that is said of a report, a call or a step left is touched.     *)
LEMMA OtherUse ==
    ASSUME UseInv, UNCHANGED <<called, misused, todo, reportVars>>,
           Enumerating' => Enumerating
    PROVE  UseInv'
  <1>1. /\ \A n : Live(n)' <=> Live(n)
        /\ \A p, op : Times(p, op)' = Times(p, op)
        /\ \A n : Asked(n)' <=> Asked(n)
        /\ \A n, i : CloseAfter(n, i)' <=> CloseAfter(n, i)
        /\ \A n, i : OpenAhead(n, i)' <=> OpenAhead(n, i)
    BY DEF Live, Times, Asked, CloseAfter, OpenAhead
  <1>2. UNCHANGED <<m_map, heap, m_doc, m_root, m_bWork, crash, todo, misused>>
    BY DEF reportVars
  <1>3. DocsSafe => DocsSafe'
    BY <1>1, <1>2 DEF DocsSafe
  <1>4. \A i : StepSafe(i) => StepSafe(i)'
    BY <1>1, <1>2 DEF StepSafe
  <1>5. TodoSafe => TodoSafe'
    BY <1>1, <1>2, <1>4 DEF TodoSafe
  <1> QED BY <1>2, <1>3, <1>5 DEF UseInv

(* The row of a driver finds the root of its report.                       *)
LEMMA FileNameUse ==
    ASSUME TypeInv, UseInv, ~misused, DriverFileName
    PROVE  UseInv'
  <1>1. /\ UNCHANGED <<called, misused, todo>> /\ Enumerating /\ todo = << >>
        /\ crash = {} /\ DocsSafe /\ TodoSafe
    BY DEF DriverFileName, Step, At, callVars, Enumerating, UseInv
  <1>2. DRIVER \in m_root
    BY <1>1, Producers DEF DocsSafe, Docs
  <1>3. UNCHANGED <<m_map, heap, m_doc, m_root, m_bWork, crash>>
    BY <1>2 DEF DriverFileName, LinkRow, reportVars
  <1>4. /\ \A n : Live(n)' <=> Live(n)
        /\ \A p, op : Times(p, op)' = Times(p, op)
        /\ \A n : Asked(n)' <=> Asked(n)
        /\ \A n : CloseAfter(n, 0)' <=> CloseAfter(n, 0)
    BY <1>1 DEF Live, Times, Asked, CloseAfter
  <1>5. DocsSafe'
    BY <1>1, <1>3, <1>4 DEF DocsSafe
  <1>6. TodoSafe'
    BY <1>1, <1>3, <1>4 DEF TodoSafe
  <1> QED BY <1>1, <1>3, <1>5, <1>6 DEF UseInv

(* Every step keeps what a proper use has done to the documents.           *)
LEMMA UseStep == TypeInv /\ UseInv /\ [Next]_vars => UseInv'
  <1> SUFFICES ASSUME TypeInv, UseInv, [Next]_vars, ~misused' PROVE UseInv'
    BY DEF UseInv
  <1>1. CASE DriverInitialize \/ PerformanceInitialize \/ PdhInitialize
    BY <1>1, InitializeUse, Producers
       DEF DriverInitialize, PerformanceInitialize, PdhInitialize, Initialize, Checked, Docs
  <1>2. CASE DriverFinalize \/ PerformanceFinalize \/ PdhFinalize
    BY <1>2, FinalizeUse, Producers
       DEF DriverFinalize, PerformanceFinalize, PdhFinalize, Checked, Docs
  <1>3. CASE WriteReport
    BY <1>3, WriteUse DEF WriteReport, Write, callVars
  <1>4. CASE DriverFileName
    BY <1>4, FileNameUse DEF DriverFileName, Step, callVars
  <1>5. CASE Machine \/ DriverBaseName \/ DriverEnumerateEnds \/ MainReturns \/ UNCHANGED vars
    <2>1. UNCHANGED <<called, misused, todo, reportVars>> /\ (Enumerating' => Enumerating)
      BY <1>5 DEF Machine, DriverBaseName, DriverEnumerateEnds, MainReturns, Step, At,
                  callVars, vars, Enumerating
    <2> QED BY <2>1, OtherUse
  <1> QED BY <1>1, <1>2, <1>3, <1>4, <1>5, DriverEnumerateUse, PerformanceEnumerateUse,
             PdhEnumerateUse, SavePerfTypesUse
          DEF Next, Calls, Steps, Terminating

(* A main that calls each function once, in the order it shows, crashes    *)
(* nowhere, and when a function has returned the documents on the heap are *)
(* those of the producers that wait for their Finalize.                    *)
THEOREM UsedRight == Spec => []UsedInOrderIsSafe
  <1>1. Init => UseInv
    <2> SUFFICES ASSUME Init PROVE crash = {} /\ DocsSafe /\ TodoSafe
      BY DEF UseInv
    <2>1. /\ todo = << >> /\ pc = "idle" /\ crash = {} /\ heap = {} /\ m_map = {}
          /\ m_bWork = Name /\ \A p, op : Times(p, op) = 0
      BY DEF Init, CallInit, ReportInit, Times
    <2>2. DocsSafe
      BY <2>1, Producers DEF DocsSafe, Live, Enumerating
    <2> QED BY <2>1, <2>2 DEF TodoSafe
  <1>2. TypeInv /\ UseInv => UsedInOrderIsSafe
    <2> SUFFICES ASSUME TypeInv, UseInv, ~misused
                 PROVE  /\ crash = {}
                        /\ At("idle") => \A n \in heap :
                             /\ n \in DOMAIN ProducerOf
                             /\ Times(ProducerOf[n], "Initialize")
                                   > Times(ProducerOf[n], "Finalize")
      BY DEF UsedInOrderIsSafe, UsedAsShown
    <2>1. crash = {} /\ DocsSafe /\ TodoSafe
      BY DEF UseInv
    <2>2. ASSUME At("idle"), NEW n \in heap
          PROVE  n \in Docs /\ Live(n)
      <3>1. Len(todo) = 0
        BY <2>2 DEF At
      <3>2. n \notin Prints
        BY <2>1, <3>1 DEF TodoSafe, CloseAfter
      <3>3. n \in Name
        BY DEF TypeInv, ReportOK, ReportType
      <3> QED BY <2>1, <3>2, <3>3, Producers DEF DocsSafe
    <2> QED BY <2>1, <2>2, Producers DEF Live
  <1> QED BY <1>1, <1>2, UseStep, TypeCorrect, PTL DEF Spec
=============================================================================

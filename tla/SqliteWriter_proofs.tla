------------------------- MODULE SqliteWriter_proofs -------------------------
(***************************************************************************)
(* Proofs about SqliteWriter, for any number of runs of the program, any   *)
(* set of columns and any bound on the faults: the types, that a run       *)
(* stores its row once unless its insert failed, that a run which is alone *)
(* stores it, and that the handle of the database is closed.               *)
(***************************************************************************)
EXTENDS SqliteWriter, TLAPS

(* The rows are of runs that have passed the insert.                       *)
RowsAreLater ==
    \A n \in DOMAIN rows : pc[rows[n]] \in {"select", "close", "done", "killed"}

(* A statement cannot have failed before it was tried.                     *)
FailedAreTried ==
    \A i \in Instance :
        /\ pc[i] = "new" => failed[i] = {}
        /\ pc[i] \in {"create", "insert"} => "insert" \notin failed[i]

(* A lock is held inside a statement only.                                 *)
LocksInStatements == \A i \in locked : pc[i] \in Statement

(* While a run that met no other is active, no other is.                   *)
AloneIsOnly ==
    \A i \in alone, j \in Instance : Active(i) /\ Active(j) => i = j

(* A run alone has a table from its second statement on.                   *)
AloneHasTable ==
    \A i \in alone :
        pc[i] \in {"insert", "select", "close", "done"} /\ faults = 0 => table # {}

IInv ==
    /\ TypeOK
    /\ OneRowPerRun /\ HandleClosed /\ AloneStores
    /\ RowsAreLater /\ FailedAreTried /\ LocksInStatements
    /\ AloneIsOnly /\ AloneHasTable

-----------------------------------------------------------------------------
(* The invariant holds before any run of the program has begun.            *)
LEMMA InitIInv == Init => IInv
  <1> SUFFICES ASSUME Init PROVE IInv
    OBVIOUS
  <1>1. TypeOK
    BY FaultAssumption DEF Init, TypeOK, Label, Statement
  <1> QED BY <1>1 DEF Init, IInv, OneRowPerRun, Stored, HandleClosed, AloneStores,
                     RowsAreLater, FailedAreTried, LocksInStatements, AloneIsOnly,
                     AloneHasTable, Active

(* A run whose statement s fails goes on at the next label.  The last      *)
(* assumption says what a failure means to a run that is alone.            *)
LEMMA FailStep ==
    ASSUME IInv, NEW i \in Instance, NEW s \in Statement,
           pc[i] = s, Fails(i, s),
           locked' = locked \ {i}, faults' \in 0..MaxFaults, faults <= faults',
           UNCHANGED <<handle, alone>>,
           i \in alone /\ faults' = 0 =>
               /\ s = "create" => table # {}
               /\ s = "insert" => ~(Column \subseteq table)
    PROVE  IInv'
  <1> USE DEF IInv, Fails, Goes, dbVars
  <1>1. /\ pc' = [pc EXCEPT ![i] = After(s)]
        /\ After(s) \in {"insert", "select", "close"}
        /\ s = "create" => After(s) = "insert"
        /\ s = "insert" => After(s) = "select"
        /\ s = "select" => After(s) = "close"
        /\ failed' = [failed EXCEPT ![i] = @ \cup {s}]
        /\ UNCHANGED <<table, rows, ret>>
        /\ s \in {"create", "insert", "select"}
    BY DEF After, Statement
  <1>2. TypeOK'
    BY <1>1 DEF TypeOK, Label, Statement
  <1>3. OneRowPerRun'
    BY <1>1 DEF TypeOK, OneRowPerRun, Stored, FailedAreTried, RowsAreLater
  <1>4. HandleClosed'
    BY <1>1 DEF TypeOK, HandleClosed
  <1>5. AloneStores'
    <2> SUFFICES ASSUME NEW j \in alone, pc'[j] \in {"select", "close", "done"}, faults' = 0,
                        Column \subseteq table
                 PROVE  Stored(j)'
      BY <1>1 DEF AloneStores
    <2>1. faults = 0 /\ j \in Instance
      BY DEF TypeOK
    <2>2. pc[j] \in {"select", "close", "done"}
      BY <1>1, <2>1 DEF TypeOK
    <2> QED BY <1>1, <2>1, <2>2 DEF AloneStores, Stored
  <1>6. RowsAreLater' /\ FailedAreTried' /\ LocksInStatements'
    BY <1>1 DEF TypeOK, RowsAreLater, FailedAreTried, LocksInStatements
  <1>7. AloneIsOnly'
    BY <1>1 DEF TypeOK, AloneIsOnly, Active
  <1>8. AloneHasTable'
    <2> SUFFICES ASSUME NEW j \in alone, pc'[j] \in {"insert", "select", "close", "done"},
                        faults' = 0
                 PROVE  table # {}
      BY <1>1 DEF AloneHasTable
    <2>1. faults = 0 /\ j \in Instance
      BY DEF TypeOK
    <2> QED BY <1>1, <2>1 DEF TypeOK, AloneHasTable
  <1> QED BY <1>2, <1>3, <1>4, <1>5, <1>6, <1>7, <1>8

(* A statement s of a run succeeds, with any effect on the table, and on   *)
(* the rows the effect of an insert, if it is one.                         *)
LEMMA WorkStep ==
    ASSUME IInv, NEW i \in Instance, NEW s \in Statement,
           pc[i] = s, Works(i, s), i \in locked,
           \/ s = "create" /\ table = {} /\ table' = Column /\ rows' = rows
           \/ s = "insert" /\ table' = table /\ rows' = Append(rows, i)
           \/ s = "select" /\ table' = table /\ rows' = rows,
           locked' = locked \ {i},
           UNCHANGED <<handle, alone, faults>>
    PROVE  IInv'
  <1> USE DEF IInv, Works, Goes
  <1>1. /\ pc' = [pc EXCEPT ![i] = After(s)]
        /\ After(s) \in {"insert", "select", "close"}
        /\ s = "create" => After(s) = "insert"
        /\ s = "insert" => After(s) = "select"
        /\ s = "select" => After(s) = "close"
        /\ UNCHANGED <<failed, ret>>
    BY DEF After, Statement
  <1>2. TypeOK'
    <2>1. rows' \in Seq(Instance)
      BY DEF TypeOK
    <2>2. pc' \in [Instance -> Label] /\ printed' \in [Instance -> SUBSET Statement]
      BY <1>1 DEF TypeOK, Label
    <2> QED BY <1>1, <2>1, <2>2 DEF TypeOK
  <1>a. CASE s = "insert"
    <2> DEFINE k == Len(rows) + 1
    <2>1. /\ Len(rows) \in Nat /\ DOMAIN rows = 1..Len(rows) /\ DOMAIN rows' = 1..k
          /\ rows'[k] = i
          /\ \A n \in 1..Len(rows) : rows'[n] = rows[n] /\ rows[n] # i
          /\ \A n \in 1..k : n \in 1..Len(rows) \/ n = k
          /\ k \in 1..k /\ \A n \in 1..Len(rows) : n \in 1..k
      <3>1. rows \in Seq(Instance) /\ rows' = Append(rows, i)
        BY <1>a DEF TypeOK
      <3>2. /\ Len(rows) \in Nat /\ DOMAIN rows = 1..Len(rows) /\ DOMAIN rows' = 1..k
            /\ rows'[k] = i /\ \A n \in 1..Len(rows) : rows'[n] = rows[n]
        BY <3>1
      <3>3. \A n \in 1..Len(rows) : rows[n] # i
        BY <1>a, <3>2 DEF RowsAreLater
      <3> QED BY <3>2, <3>3
    <2> HIDE DEF k
    <2>2. Stored(i)' /\ \A j \in Instance \ {i} : Stored(j)' <=> Stored(j)
      BY <2>1 DEF Stored
    <2>3. OneRowPerRun'
      <3> SUFFICES ASSUME NEW j \in Instance
                   PROVE  /\ \A m, n \in DOMAIN rows' : rows'[m] = j /\ rows'[n] = j => m = n
                          /\ pc'[j] \in {"select", "close"} => (Stored(j)' <=> "insert" \notin failed'[j])
        BY DEF OneRowPerRun
      <3>1. \A m, n \in DOMAIN rows' : rows'[m] = j /\ rows'[n] = j => m = n
        BY <2>1 DEF OneRowPerRun
      <3>2. pc'[j] \in {"select", "close"} => (Stored(j)' <=> "insert" \notin failed'[j])
        BY <1>1, <1>a, <2>2 DEF OneRowPerRun, FailedAreTried, TypeOK
      <3> QED BY <3>1, <3>2
    <2>4. AloneStores'
      BY <1>1, <1>a, <2>2 DEF AloneStores, TypeOK
    <2>5. RowsAreLater'
      BY <1>1, <1>a, <2>1 DEF RowsAreLater, TypeOK
    <2>6. HandleClosed' /\ FailedAreTried' /\ LocksInStatements'
      BY <1>1, <1>a DEF TypeOK, HandleClosed, FailedAreTried, LocksInStatements
    <2>7. AloneIsOnly' /\ AloneHasTable'
      BY <1>1, <1>a DEF TypeOK, AloneIsOnly, AloneHasTable, Active
    <2> QED BY <1>2, <2>3, <2>4, <2>5, <2>6, <2>7
  <1>b. CASE s # "insert"
    <2>1. rows' = rows /\ (table' = table \/ (s = "create" /\ table = {} /\ table' = Column))
      BY <1>b
    <2>2. OneRowPerRun'
      BY <1>1, <1>b, <2>1 DEF TypeOK, OneRowPerRun, Stored, Statement
    <2>3. AloneStores'
      <3> SUFFICES ASSUME NEW j \in alone, pc'[j] \in {"select", "close", "done"}, faults = 0,
                          Column \subseteq table'
                   PROVE  Stored(j)'
        BY <1>1 DEF AloneStores
      <3>1. j \in Instance /\ pc[j] \in {"select", "close", "done"}
        BY <1>1, <1>b DEF TypeOK, Statement
      <3>2. table # {}
        BY <3>1 DEF AloneHasTable
      <3> QED BY <2>1, <3>1, <3>2 DEF AloneStores, Stored
    <2>4. RowsAreLater' /\ HandleClosed' /\ FailedAreTried' /\ LocksInStatements'
      BY <1>1, <1>b, <2>1 DEF TypeOK, RowsAreLater, HandleClosed, FailedAreTried,
                            LocksInStatements, Statement
    <2>5. AloneIsOnly'
      BY <1>1, <1>b DEF TypeOK, AloneIsOnly, Active, Statement
    <2>6. AloneHasTable'
      BY <1>1, <1>b, <2>1, ColumnAssumption DEF TypeOK, AloneHasTable, Statement
    <2> QED BY <1>2, <2>2, <2>3, <2>4, <2>5, <2>6
  <1> QED BY <1>a, <1>b

-----------------------------------------------------------------------------
(* One step of each action.                                                *)
LEMMA OpenStep ==
    ASSUME IInv, NEW i \in Instance, Open(i)
    PROVE  IInv'
  <1> USE DEF IInv, Open, dbVars
  <1>1. TypeOK'
    <2>1. pc' \in [Instance -> Label] /\ alone' \subseteq Instance
      BY DEF TypeOK, Label
    <2>2. faults' \in 0..MaxFaults /\ ret' \in [Instance -> {"OK", "ERROR"}]
      BY FaultAssumption DEF TypeOK
    <2> QED BY <2>1, <2>2 DEF TypeOK
  <1>2. OneRowPerRun' /\ RowsAreLater' /\ FailedAreTried'
    BY DEF TypeOK, OneRowPerRun, Stored, RowsAreLater, FailedAreTried
  <1>3. HandleClosed' /\ LocksInStatements'
    BY DEF TypeOK, HandleClosed, LocksInStatements, FailedAreTried, Statement
  <1>4. faults' = 0 => faults = 0 /\ pc' = [pc EXCEPT ![i] = "create"] /\ alone' \subseteq alone
    BY DEF TypeOK
  <1>5. AloneStores' /\ AloneHasTable'
    BY <1>4 DEF TypeOK, AloneStores, AloneHasTable, Stored
  <1>6. AloneIsOnly'
    BY DEF TypeOK, AloneIsOnly, Active
  <1> QED BY <1>1, <1>2, <1>3, <1>5, <1>6

(* A statement that begins takes the lock and changes no table.            *)
LEMMA BeginStep ==
    ASSUME IInv, NEW i \in Instance, BeginStatement(i)
    PROVE  IInv'
  <1>1. pc[i] \in Statement /\ i \notin locked /\ UNCHANGED <<handle, alone, faults>>
    BY DEF BeginStatement
  <1>2. CASE /\ ~Blocked(i) /\ locked' = locked \cup {i}
             /\ UNCHANGED <<dbVars, pc, ret, printed, failed>>
    BY <1>1, <1>2 DEF IInv, dbVars, TypeOK, OneRowPerRun, Stored, HandleClosed, AloneStores,
         RowsAreLater, FailedAreTried, LocksInStatements, AloneIsOnly, AloneHasTable, Active
  <1>3. CASE Blocked(i) /\ Fails(i, pc[i]) /\ UNCHANGED locked
    <2>1. i \notin alone
      <3>1. PICK j \in locked : TRUE
        BY <1>3 DEF Blocked
      <3> QED BY <1>1, <3>1 DEF IInv, TypeOK, LocksInStatements, AloneIsOnly, Active, Statement
    <2>2. faults' \in 0..MaxFaults /\ faults <= faults' /\ locked' = locked \ {i}
      BY <1>1, <1>3, FaultAssumption DEF IInv, TypeOK
    <2> QED BY <1>1, <1>3, <2>1, <2>2, FailStep
  <1> QED BY <1>2, <1>3 DEF BeginStatement

(* A statement that ends has worked or has failed.                         *)
LEMMA EndStep ==
    ASSUME IInv, NEW i \in Instance, EndStatement(i)
    PROVE  IInv'
  <1> USE DEF EndStatement
  <1>1. /\ i \in locked /\ locked' = locked \ {i} /\ UNCHANGED <<handle, alone>>
        /\ pc[i] \in Statement
    BY DEF IInv, LocksInStatements
  <1>2. UNCHANGED faults => faults' \in 0..MaxFaults /\ faults <= faults'
    BY FaultAssumption DEF IInv, TypeOK
  <1>3. CASE pc[i] = "create" /\ Create(i) /\ UNCHANGED faults
    <2>1. CASE table # {} /\ Fails(i, "create")
      BY <1>1, <1>2, <1>3, <2>1, FailStep
    <2>2. CASE table = {} /\ table' = Created /\ UNCHANGED rows /\ Works(i, "create")
      BY <1>1, <1>3, <2>2, WorkStep DEF Created
    <2> QED BY <1>3, <2>1, <2>2 DEF Create
  <1>4. CASE pc[i] = "insert" /\ Insert(i) /\ UNCHANGED faults
    <2>1. CASE ~(Inserted \subseteq table) /\ Fails(i, "insert")
      BY <1>1, <1>2, <1>4, <2>1, FailStep DEF Inserted
    <2>2. CASE rows' = Append(rows, i) /\ UNCHANGED table /\ Works(i, "insert")
      BY <1>1, <1>4, <2>2, WorkStep
    <2> QED BY <1>4, <2>1, <2>2 DEF Insert
  <1>5. CASE pc[i] = "select" /\ SelectAll(i) /\ UNCHANGED faults
    <2>1. CASE table = {} /\ Fails(i, "select")
      BY <1>1, <1>2, <1>5, <2>1, FailStep
    <2>2. CASE UNCHANGED dbVars /\ Works(i, "select")
      BY <1>1, <1>5, <2>2, WorkStep DEF dbVars
    <2> QED BY <1>5, <2>1, <2>2 DEF SelectAll
  <1>6. CASE faults < MaxFaults /\ faults' = faults + 1 /\ Fails(i, pc[i])
    <2>1. faults' \in 0..MaxFaults /\ faults <= faults' /\ faults' # 0
      BY <1>6, FaultAssumption DEF IInv, TypeOK
    <2> QED BY <1>1, <1>6, <2>1, FailStep
  <1> QED BY <1>3, <1>4, <1>5, <1>6

(* Closing and being killed end a run; they differ in what they say of its *)
(* handle.                                                                 *)
LEMMA EndRunStep ==
    ASSUME IInv, NEW i \in Instance, Close(i) \/ Kill(i)
    PROVE  IInv'
  <1> DEFINE end == IF pc[i] = "close" /\ pc'[i] = "done" THEN "done" ELSE "killed"
  <1>1. /\ pc' = [pc EXCEPT ![i] = end] /\ end \in {"done", "killed"}
        /\ end = "done" => pc[i] = "close"
        /\ locked' = locked \ {i} /\ handle' = handle \ {i}
        /\ UNCHANGED <<table, rows, ret, printed, failed, alone, faults>>
    BY DEF IInv, Close, Kill, dbVars, TypeOK, LocksInStatements, Statement
  <1> HIDE DEF end
  <1> USE DEF IInv
  <1>2. TypeOK'
    BY <1>1 DEF TypeOK, Label
  <1>3. OneRowPerRun' /\ RowsAreLater' /\ FailedAreTried'
    BY <1>1 DEF TypeOK, OneRowPerRun, Stored, RowsAreLater, FailedAreTried
  <1>4. HandleClosed' /\ LocksInStatements'
    BY <1>1 DEF TypeOK, HandleClosed, LocksInStatements
  <1>5. AloneStores' /\ AloneHasTable' /\ AloneIsOnly'
    BY <1>1 DEF TypeOK, AloneStores, AloneHasTable, AloneIsOnly, Stored, Active
  <1> QED BY <1>2, <1>3, <1>4, <1>5

(* A step that changes nothing keeps the invariant.                        *)
LEMMA StutterStep == IInv /\ UNCHANGED vars => IInv'
  BY DEF vars, dbVars, IInv, TypeOK, OneRowPerRun, Stored, HandleClosed, AloneStores,
         RowsAreLater, FailedAreTried, LocksInStatements, AloneIsOnly, AloneHasTable, Active

(* The invariant holds in every reachable state.                           *)
LEMMA AlwaysIInv == Spec => []IInv
  <1>1. IInv /\ [Next]_vars => IInv'
    <2> SUFFICES ASSUME IInv, [Next]_vars PROVE IInv'
      OBVIOUS
    <2>1. CASE UNCHANGED vars
      BY <2>1, StutterStep
    <2>2. ASSUME NEW i \in Instance, Open(i)
          PROVE  IInv'
      BY <2>2, OpenStep
    <2>3. ASSUME NEW i \in Instance, BeginStatement(i)
          PROVE  IInv'
      BY <2>3, BeginStep
    <2>4. ASSUME NEW i \in Instance, EndStatement(i)
          PROVE  IInv'
      BY <2>4, EndStep
    <2>5. ASSUME NEW i \in Instance, Close(i) \/ Kill(i)
          PROVE  IInv'
      BY <2>5, EndRunStep
    <2> QED BY <2>1, <2>2, <2>3, <2>4, <2>5 DEF Next, Terminating
  <1> QED BY <1>1, InitIInv, PTL DEF Spec

-----------------------------------------------------------------------------
(* Every variable keeps its type: no statement is left in the middle, and  *)
(* only columns that the code names are ever in the table.                 *)
THEOREM TypeCorrect == Spec => []TypeOK
  BY AlwaysIInv, PTL DEF IInv

(* A run of the program stores its row once, and it is missing exactly     *)
(* when its insert has failed, however the runs meet and are killed.       *)
THEOREM RowsRight == Spec => []OneRowPerRun
  BY AlwaysIInv, PTL DEF IInv

(* A run that meets no other run and no fault stores its row, although the *)
(* CREATE fails from the second run on.                                    *)
THEOREM AloneRight == Spec => []AloneStores
  BY AlwaysIInv, PTL DEF IInv

(* A run that ends by itself leaves a handle behind only if it could not   *)
(* open the database.                                                      *)
THEOREM HandleRight == Spec => []HandleClosed
  BY AlwaysIInv, PTL DEF IInv
=============================================================================

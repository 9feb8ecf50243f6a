---------------------------- MODULE SqliteWriter ----------------------------
(***************************************************************************)
(* SqliteWritter::test: open process.db, create a table, insert one row,   *)
(* select all rows, close.  Several instances of the program may run on    *)
(* the same file, at the same time or one after the other, be killed       *)
(* between any two calls, and find a file that an earlier version left.    *)
(*                                                                         *)
(* SQLite is modelled as far as the code can see it: a statement is        *)
(* atomic, and fails when it makes no sense for the table there is, when   *)
(* another connection has a lock in its way (the code sets no time-out),   *)
(* or for a reason of its own such as a full disk.                         *)
(***************************************************************************)
EXTENDS Naturals, Sequences, FiniteSets

CONSTANTS
    Instance,   \* the runs of the program
    Column,     \* the columns that the code names
    MaxFaults   \* bound: statements that fail for a reason of their own

ASSUME ColumnAssumption == IsFiniteSet(Column) /\ Column # {}
ASSUME FaultAssumption == MaxFaults \in Nat

Statement == {"create", "insert", "select"}

VARIABLES
    table,      \* the columns of the table, {} when there is none
    rows,       \* its rows: the instances that inserted them
    pc,         \* where each instance is
    locked,     \* the instances inside a statement, which hold a lock
    handle,     \* the instances that hold a handle of the database
    ret,        \* ret: what each instance's ret holds
    printed,    \* the statements each printed an error for
    failed,     \* history: the statements of each that failed
    alone,      \* history: the instances that met no other one
    faults      \* history: how many statements failed for their own reason

dbVars == <<table, rows>>
vars == <<dbVars, pc, locked, handle, ret, printed, failed, alone, faults>>

Label == {"new", "create", "insert", "select", "close", "done", "killed"}

TypeOK ==
    /\ table \subseteq Column
    /\ rows \in Seq(Instance)
    /\ pc \in [Instance -> Label]
    /\ locked \subseteq Instance /\ handle \subseteq Instance /\ alone \subseteq Instance
    /\ ret \in [Instance -> {"OK", "ERROR"}]
    /\ printed \in [Instance -> SUBSET Statement]
    /\ failed \in [Instance -> SUBSET Statement]
    /\ faults \in 0..MaxFaults

Init ==
    /\ table \in SUBSET Column /\ rows = << >>
    /\ pc = [i \in Instance |-> "new"]
    /\ locked = {} /\ handle = {}
    /\ ret = [i \in Instance |-> "OK"]
    /\ printed = [i \in Instance |-> {}] /\ failed = [i \in Instance |-> {}]
    /\ alone = Instance /\ faults = 0

Active(i) == pc[i] \notin {"new", "done", "killed"}

-----------------------------------------------------------------------------
(* sqlite3_open: a handle, even when it fails; and then test returns.      *)
Open(i) ==
    /\ pc[i] = "new"
    /\ handle' = handle \cup {i}
    /\ \/ /\ pc' = [pc EXCEPT ![i] = "create"]
          /\ alone' = alone \ (IF \E j \in Instance : Active(j)
                               THEN {j \in Instance : Active(j)} \cup {i} ELSE {})
          /\ UNCHANGED <<ret, faults>>
       \/ /\ faults < MaxFaults
          /\ faults' = faults + 1
          /\ ret' = [ret EXCEPT ![i] = "ERROR"]
          /\ pc' = [pc EXCEPT ![i] = "done"]
          /\ UNCHANGED alone
    /\ UNCHANGED <<dbVars, locked, printed, failed>>

(* The columns of the two maps.                                            *)
Created == Column
Inserted == Column

(* The statement after which the code goes on at the next label.           *)
After(s) == CASE s = "create" -> "insert" [] s = "insert" -> "select" [] s = "select" -> "close"

(* Seeded fault: ret is assigned, and test returns when it is not OK, as   *)
(* it does after the open.                                                 *)
GoesOrReturns(i, s, r) ==
    /\ ret' = [ret EXCEPT ![i] = r]
    /\ printed' = [printed EXCEPT ![i] = IF r = "OK" THEN @ ELSE @ \cup {s}]
    /\ pc' = [pc EXCEPT ![i] = IF r = "OK" THEN After(s) ELSE "done"]

(* What the code does with the result r of a statement: ret is not         *)
(* assigned, so what is tested, and may be printed, is the result of the   *)
(* open.                                                                   *)
Goes(i, s, r) ==
    /\ printed' = [printed EXCEPT ![i] = IF ret[i] = "OK" THEN @ ELSE @ \cup {s}]
    /\ pc' = [pc EXCEPT ![i] = After(s)]
    /\ UNCHANGED ret

Fails(i, s) ==
    /\ failed' = [failed EXCEPT ![i] = @ \cup {s}]
    /\ Goes(i, s, "ERROR")
    /\ UNCHANGED dbVars

Works(i, s) ==
    /\ Goes(i, s, "OK")
    /\ UNCHANGED failed

(* A statement begins when the locks allow it, or fails with SQLITE_BUSY;  *)
(* two that only read do not disturb each other.                           *)
Reading == {i \in locked : pc[i] = "select"}

Blocked(i) == locked \ (IF pc[i] = "select" THEN Reading ELSE {}) # {}

BeginStatement(i) ==
    /\ pc[i] \in Statement /\ i \notin locked
    /\ \/ /\ ~Blocked(i)
          /\ locked' = locked \cup {i}
          /\ UNCHANGED <<dbVars, pc, ret, printed, failed>>
       \/ /\ Blocked(i)
          /\ Fails(i, pc[i])
          /\ UNCHANGED locked
    /\ UNCHANGED <<handle, alone, faults>>

Create(i) ==
    \/ table = {} /\ table' = Created /\ UNCHANGED rows /\ Works(i, "create")
    \/ table # {} /\ Fails(i, "create")

(* Seeded fault: the row is inserted and sent a second time.               *)
InsertTwice(i) ==
    \/ Inserted \subseteq table /\ rows' = rows \o <<i, i>> /\ UNCHANGED table /\ Works(i, "insert")
    \/ ~(Inserted \subseteq table) /\ Fails(i, "insert")

Insert(i) ==
    \/ Inserted \subseteq table /\ rows' = Append(rows, i) /\ UNCHANGED table /\ Works(i, "insert")
    \/ ~(Inserted \subseteq table) /\ Fails(i, "insert")

SelectAll(i) ==
    \/ table # {} /\ UNCHANGED dbVars /\ Works(i, "select")
    \/ table = {} /\ Fails(i, "select")

EndStatement(i) ==
    /\ i \in locked
    /\ \/ /\ \/ pc[i] = "create" /\ Create(i)
             \/ pc[i] = "insert" /\ Insert(i)
             \/ pc[i] = "select" /\ SelectAll(i)
          /\ UNCHANGED faults
       \/ /\ faults < MaxFaults
          /\ faults' = faults + 1
          /\ Fails(i, pc[i])
    /\ locked' = locked \ {i}
    /\ UNCHANGED <<handle, alone>>

Close(i) ==
    /\ pc[i] = "close"
    /\ handle' = handle \ {i}
    /\ pc' = [pc EXCEPT ![i] = "done"]
    /\ UNCHANGED <<dbVars, locked, ret, printed, failed, alone, faults>>

(* A killed instance leaves no lock, and its statement undone.             *)
Kill(i) ==
    /\ Active(i)
    /\ pc' = [pc EXCEPT ![i] = "killed"]
    /\ locked' = locked \ {i} /\ handle' = handle \ {i}
    /\ UNCHANGED <<dbVars, ret, printed, failed, alone, faults>>

Terminating == (\A i \in Instance : pc[i] \in {"done", "killed"}) /\ UNCHANGED vars

Next ==
    \/ \E i \in Instance :
         Open(i) \/ BeginStatement(i) \/ EndStatement(i) \/ Close(i) \/ Kill(i)
    \/ Terminating

Spec == Init /\ [][Next]_vars

-----------------------------------------------------------------------------
(* Correctness.                                                            *)

(* A run that meets no other run and no fault stores its row, whether it   *)
(* made the table or found one with its columns: that the statement which  *)
(* creates the table fails the second time must not stop it.               *)
Stored(i) == \E n \in DOMAIN rows : rows[n] = i

AloneStores ==
    \A i \in alone :
        pc[i] \in {"select", "close", "done"} /\ faults = 0 /\ Column \subseteq table
            => Stored(i)

(* A run stores its row once, and it is missing exactly when the insert    *)
(* has failed.                                                             *)
OneRowPerRun ==
    \A i \in Instance :
        /\ \A m, n \in DOMAIN rows : rows[m] = i /\ rows[n] = i => m = n
        /\ pc[i] \in {"select", "close"} => (Stored(i) <=> "insert" \notin failed[i])

(* A run that ends by itself leaves a handle of the database behind only   *)
(* when it could not open it, and whatever statement failed.               *)
HandleClosed ==
    \A i \in handle : pc[i] = "done" => ret[i] = "ERROR" /\ failed[i] = {}

(* What the tests after each statement say: a statement that failed gets   *)
(* its "SQL error".                                                        *)
ErrorsPrinted == \A i \in Instance : failed[i] \subseteq printed[i]
=============================================================================

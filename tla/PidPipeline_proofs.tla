------------------------- MODULE PidPipeline_proofs -------------------------
(***************************************************************************)
(* Theorems about the pid pipeline, for every machine, every set of        *)
(* receivers and every way of registering them.                            *)
(***************************************************************************)
EXTENDS PidPipeline, FiniteSetTheorems, TLAPS

(* Every receiver is one of the six producers of the pipeline.             *)
LEMMA ReceiverName == Receiver \subseteq Name /\ TH \in Name /\ TH \notin Receiver
BY ReceiverAssumption DEF Name, Checked, Unchecked, DLL, REGION, MEMINFO, HEAP,
                          MODULES, THREAD, TH

-----------------------------------------------------------------------------
(* The operators of Report keep the types of its variables.                *)
ReportOK == ReportType(Name, Row)

(* Linking a row, whether it lands in a tree or crashes, keeps the types.  *)
LEMMA LinkRowType ==
    ASSUME NEW n \in Name, NEW row, row \in Row, ReportOK, LinkRow(n, row)
    PROVE  ReportOK'
<1>1. CASE n \in m_root
  <2>1. tree' = [tree EXCEPT ![n] = Append(tree[n], row)]
    BY <1>1 DEF LinkRow
  <2>2. tree[n] \in Seq(Row)
    BY DEF ReportOK, ReportType
  <2>3. Append(tree[n], row) \in Seq(Row)
    BY <2>2
  <2>4. tree' \in [Name -> Seq(Row)]
    BY <2>1, <2>3 DEF ReportOK, ReportType
  <2> QED BY <1>1, <2>4 DEF LinkRow, ReportOK, ReportType
<1>2. CASE n \notin m_root
  BY <1>2 DEF LinkRow, Crash, ReportOK, ReportType
<1> QED BY <1>1, <1>2

(* CReport::GetDocument keeps the maps and the heap within the names.      *)
LEMMA GetDocumentType ==
    ASSUME NEW n \in Name, ReportOK, GetDocument(n)
    PROVE  m_map' \subseteq Name /\ heap' \subseteq Name /\ m_doc' \subseteq Name
BY DEF GetDocument, ReportOK, ReportType

(* A new root element starts an empty sequence of rows.                    *)
LEMMA NewRootType ==
    ASSUME NEW n \in Name, ReportOK, NewRoot(n)
    PROVE  m_root' \subseteq Name /\ tree' \in [Name -> Seq(Row)]
<1>1. << >> \in Seq(Row)
  OBVIOUS
<1> QED BY <1>1 DEF NewRoot, ReportOK, ReportType

(* Both forms of Initialize keep the types.                                *)
LEMMA InitializeType ==
    ASSUME NEW n \in Name, ReportOK, InitializeChecked(n) \/ InitializeUnchecked(n)
    PROVE  ReportOK'
<1>1. GetDocument(n)
  BY DEF InitializeChecked, InitializeUnchecked
<1>2. m_map' \subseteq Name /\ heap' \subseteq Name /\ m_doc' \subseteq Name
  BY <1>1, GetDocumentType
<1>3. m_root' \subseteq Name /\ tree' \in [Name -> Seq(Row)]
  <2>1. NewRoot(n) \/ UNCHANGED <<m_root, tree>>
    BY DEF InitializeChecked, InitializeUnchecked
  <2> QED BY <2>1, NewRootType DEF ReportOK, ReportType
<1>4. m_bWork' \subseteq Name /\ UNCHANGED <<files, saved, crash>>
  BY DEF InitializeChecked, InitializeUnchecked, ReportOK, ReportType
<1> QED BY <1>2, <1>3, <1>4 DEF ReportOK, ReportType

(* closeReport keeps the types, whether it saves or crashes.               *)
LEMMA CloseReportType ==
    ASSUME NEW n \in Name, ReportOK, CloseReport(n)
    PROVE  ReportOK'
<1>1. CASE n \in m_doc /\ n \in m_root /\ SaveFile(n) /\ Release(n)
             /\ UNCHANGED <<m_map, m_bWork, crash>>
  <2>1. << >> \in Seq(Row) /\ tree[n] \in Seq(Row)
    BY DEF ReportOK, ReportType
  <2>2. tree' \in [Name -> Seq(Row)] /\ files' \in [Name -> Seq(Row)]
    BY <1>1, <2>1 DEF SaveFile, Release, ReportOK, ReportType
  <2>3. heap' \subseteq Name /\ m_doc' \subseteq Name /\ m_root' \subseteq Name
          /\ saved' \subseteq Name
    BY <1>1 DEF SaveFile, Release, ReportOK, ReportType
  <2> QED BY <1>1, <2>2, <2>3 DEF ReportOK, ReportType
<1>2. CASE Crash(n)
  BY <1>2 DEF Crash, ReportOK, ReportType
<1> QED BY <1>1, <1>2 DEF CloseReport

(* Finalize closes the report or does nothing.                             *)
LEMMA FinalizeReportType ==
    ASSUME NEW n \in Name, ReportOK, FinalizeReport(n)
    PROVE  ReportOK'
<1>1. CASE CloseReport(n)
  BY <1>1, CloseReportType
<1>2. CASE UNCHANGED reportVars
  BY <1>2 DEF reportVars, ReportOK, ReportType
<1> QED BY <1>1, <1>2 DEF FinalizeReport

(* The empty registry has its type.                                        *)
LEMMA ReportInitType == ReportInit(Name) => ReportOK
<1>1. << >> \in Seq(Row)
  OBVIOUS
<1> QED BY <1>1 DEF ReportInit, ReportOK, ReportType

(* A step that leaves the reports alone keeps their types.                 *)
LEMMA ReportStutterType == ReportOK /\ UNCHANGED reportVars => ReportOK'
BY DEF reportVars, ReportOK, ReportType

-----------------------------------------------------------------------------
(* Type correctness.  While a pid is being sent the position in the        *)
(* listing is within it; without that a row could be about no pid at all.  *)
(* The positions are first of all numbers, and then within their bounds.   *)
ControlOK ==
    /\ alive \subseteq Pid
    /\ gen \in [Pid -> 0..MaxGen]
    /\ handles \subseteq Pid
    /\ m_vecReceivers \in [Enumerator -> Seq(Receiver)]
    /\ pc \in {"idle", "init", "pid", "send", "final", "close", "hung", "exited"}
    /\ caller \in Enumerator
    /\ pids \in Seq(Identity)
    /\ ip \in Nat \ {0}
    /\ ir \in Nat \ {0}
    /\ present \subseteq Identity
    /\ sessions \in [Enumerator -> Nat]
    /\ pc = "send" => ip <= Len(pids)
    /\ ip <= Len(pids) + 1
    /\ ir <= Len(m_vecReceivers[caller]) + 1

TypeInv == ControlOK /\ ReportOK

(* The inductive invariant is at least the type invariant.                 *)
LEMMA TypeInvIsTypeOK == TypeInv => TypeOK
<1> SUFFICES ASSUME TypeInv PROVE TypeOK
  OBVIOUS
<1>1. Vec \in Seq(Receiver) /\ pids \in Seq(Identity)
  BY DEF TypeInv, ControlOK, Vec
<1>2. Len(Vec) \in Nat /\ Len(pids) \in Nat
  BY <1>1
<1>3. ip \in 1..(Len(pids) + 1) /\ ir \in 1..(Len(Vec) + 1)
  BY <1>2 DEF TypeInv, ControlOK, Vec
<1> QED BY <1>3 DEF TypeInv, ControlOK, ReportOK, TypeOK

(* A listing of running processes is a sequence of identities.             *)
LEMMA ListingType ==
    ASSUME ControlOK, NEW n \in Nat, NEW s \in Listings(n)
    PROVE  [i \in DOMAIN s |-> Listed(s[i])] \in Seq(Identity)
<1>1. IsFiniteSet(alive)
  BY PidAssumption, FS_Subset DEF ControlOK
<1>2. Cardinality(alive) \in Nat
  BY <1>1, FS_CardinalityType
<1>3. PICK k \in Nat : s \in [1..k -> alive]
  BY <1>2 DEF Listings
<1>4. \A i \in 1..k : Listed(s[i]) \in Identity
  BY <1>3 DEF ControlOK, Listed, Identity
<1> QED BY <1>3, <1>4

(* The program starts well typed.                                          *)
LEMMA TypeInit == Init => TypeInv
<1> SUFFICES ASSUME Init PROVE TypeInv
  OBVIOUS
<1>1. ReportOK
  BY ReportInitType DEF Init
<1>2. << >> \in Seq(Receiver) /\ << >> \in Seq(Identity)
  OBVIOUS
<1>3. gen \in [Pid -> 0..MaxGen]
  BY BoundAssumption DEF Init
<1> QED BY <1>1, <1>2, <1>3 DEF Init, TypeInv, ControlOK, Enumerator

(* Processes that exit and start keep the types.                           *)
LEMMA MachineType == TypeInv /\ Machine => TypeInv'
<1> SUFFICES ASSUME TypeInv, NEW p \in Pid, Exit(p) \/ Start(p) PROVE TypeInv'
  BY DEF Machine
<1>1. ReportOK'
  BY ReportStutterType DEF Exit, Start, TypeInv
<1>2. alive' \subseteq Pid
  BY DEF Exit, Start, TypeInv, ControlOK
<1>3. gen' \in [Pid -> 0..MaxGen]
  <2>1. gen \in [Pid -> 0..MaxGen] /\ MaxGen \in Nat
    BY BoundAssumption DEF TypeInv, ControlOK
  <2>2. CASE Exit(p)
    BY <2>1, <2>2 DEF Exit
  <2>3. CASE Start(p)
    <3>1. gen' = [gen EXCEPT ![p] = gen[p] + 1] /\ gen[p] < MaxGen
      BY <2>3 DEF Start
    <3>2. gen[p] + 1 \in 0..MaxGen
      BY <2>1, <3>1
    <3> QED BY <2>1, <3>1, <3>2
  <2> QED BY <2>2, <2>3
<1> QED BY <1>1, <1>2, <1>3 DEF Exit, Start, TypeInv, ControlOK, controlVars

(* A call of Enumerate sets its control variables within their types.      *)
LEMMA BeginSessionType ==
    ASSUME TypeInv, NEW e \in Enumerator, BeginSession(e), pids' \in Seq(Identity)
    PROVE  ControlOK'
<1>1. present' \subseteq Identity
  BY DEF BeginSession, TypeInv, ControlOK, Listed, Identity
<1>2. sessions' \in [Enumerator -> Nat]
  BY DEF BeginSession, TypeInv, ControlOK
<1> QED BY <1>1, <1>2 DEF BeginSession, machineVars, TypeInv, ControlOK

(* Every call main makes keeps the types.                                  *)
LEMMA MainType == TypeInv /\ Main => TypeInv'
<1> SUFFICES ASSUME TypeInv, Main PROVE TypeInv'
  OBVIOUS
<1>1. ASSUME NEW e \in Enumerator, NEW r \in Receiver, AddReceiver(e, r)
      PROVE  TypeInv'
  <2>1. ReportOK'
    BY <1>1, ReportStutterType DEF AddReceiver, TypeInv
  <2>2. Append(m_vecReceivers[e], r) \in Seq(Receiver)
    BY DEF TypeInv, ControlOK
  <2>3. m_vecReceivers' \in [Enumerator -> Seq(Receiver)]
    BY <1>1, <2>2 DEF AddReceiver, TypeInv, ControlOK
  <2> QED BY <1>1, <2>1, <2>3 DEF AddReceiver, machineVars, TypeInv, ControlOK
<1>2. CASE thEnumerateFails
  BY <1>2 DEF thEnumerateFails, machineVars, controlVars, TypeInv, ControlOK,
              ReportOK, ReportType
<1>3. CASE ProcessEnumerate
  <2>1. pids' \in Seq(Identity)
    BY <1>3, ListingType, BoundAssumption DEF ProcessEnumerate, TypeInv
  <2>2. ControlOK'
    BY <1>3, <2>1, BeginSessionType DEF ProcessEnumerate, Enumerator
  <2> QED BY <1>3, <2>2, ReportStutterType DEF ProcessEnumerate, TypeInv
<1>4. CASE thProcessEnumerate
  <2>1. Cardinality(alive) \in Nat
    BY PidAssumption, FS_Subset, FS_CardinalityType DEF TypeInv, ControlOK
  <2>2. pids' \in Seq(Identity)
    BY <1>4, <2>1, ListingType DEF thProcessEnumerate, TypeInv
  <2>3. ControlOK'
    BY <1>4, <2>2, BeginSessionType DEF thProcessEnumerate, Enumerator
  <2>4. ReportOK'
    BY <1>4, InitializeType, ReceiverName DEF thProcessEnumerate, TypeInv
  <2> QED BY <2>3, <2>4 DEF TypeInv
<1>5. CASE MainReturns
  <2>1. ReportOK'
    BY <1>5, ReportStutterType DEF MainReturns, TypeInv
  <2> QED BY <1>5, <2>1 DEF MainReturns, machineVars, TypeInv, ControlOK
<1> QED BY <1>1, <1>2, <1>3, <1>4, <1>5 DEF Main

(* What a receiver does with a pid keeps the types, and can change of the  *)
(* control only pc, when the walk of a module ring does not end.           *)
LEMMA ReceivePidType ==
    ASSUME TypeInv, NEW r \in Receiver, NEW p \in Pid, ReceivePid(r, p)
    PROVE  ReportOK' /\ handles' \subseteq Pid /\ pc' \in {pc, "hung"}
<1> USE DEF TypeInv
<1> gen[p] \in 0..MaxGen /\ 0 \in 0..MaxGen
  BY BoundAssumption DEF ControlOK
<1> handles \subseteq Pid
  BY DEF ControlOK
<1>n. {DLL, REGION, MEMINFO, HEAP, MODULES, THREAD} \subseteq Name
  BY DEF Name, Checked, Unchecked
<1>r. \A g \in 0..MaxGen : RowOf(p, g) \in Row
  BY DEF RowOf, Row
<1>1. CASE DllReceivePid(p)
  <2>1. LinkRow(DLL, RowOf(p, gen[p])) \/ UNCHANGED reportVars
    BY <1>1 DEF DllReceivePid
  <2>2. ReportOK'
    BY <2>1, <1>n, <1>r, LinkRowType, ReportStutterType
  <2> QED BY <1>1, <2>2 DEF DllReceivePid, OpenProcess
<1>2. CASE MemoryRegionReceivePid(p)
  <2>1. LinkRow(REGION, RowOf(p, gen[p])) \/ UNCHANGED reportVars
    BY <1>2 DEF MemoryRegionReceivePid
  <2>2. ReportOK'
    BY <2>1, <1>n, <1>r, LinkRowType, ReportStutterType
  <2> QED BY <1>2, <2>2 DEF MemoryRegionReceivePid, OpenProcess
<1>3. CASE MemoryInfoReceivePid(p)
  <2>1. ReportOK'
    BY <1>3, <1>n, <1>r, LinkRowType DEF MemoryInfoReceivePid
  <2> QED BY <1>3, <2>1 DEF MemoryInfoReceivePid, OpenProcess
<1>4. CASE \E h \in {HEAP, MODULES} : SnapshotReceivePid(h, p)
  <2>1. SnapshotPid(p) \in Pid
    BY PidAssumption DEF SnapshotPid
  <2>2. [pid |-> p, of |-> SnapshotPid(p), gen |-> gen[SnapshotPid(p)]] \in Row
    BY <2>1 DEF ControlOK, Row
  <2>3. ReportOK'
    BY <1>4, <2>2, <1>n, LinkRowType, ReportStutterType DEF SnapshotReceivePid
  <2> QED BY <1>4, <2>3 DEF SnapshotReceivePid
<1>5. CASE ThreadReceivePid(p)
  <2>1. ReportOK'
    BY <1>5, <1>n, <1>r, LinkRowType, ReportStutterType DEF ThreadReceivePid
  <2> QED BY <1>5, <2>1 DEF ThreadReceivePid
<1> QED BY <1>1, <1>2, <1>3, <1>4, <1>5 DEF ReceivePid, HeapReceivePid, ModuleReceivePid

(* Every step of an enumeration keeps the types.                           *)
LEMMA EnumerateType == TypeInv /\ Enumerate => TypeInv'
<1> SUFFICES ASSUME TypeInv, Enumerate PROVE TypeInv'
  OBVIOUS
<1> USE DEF TypeInv
<1>l. Len(m_vecReceivers[caller]) \in Nat /\ Len(pids) \in Nat
  <2>1. m_vecReceivers[caller] \in Seq(Receiver) /\ pids \in Seq(Identity)
    BY DEF ControlOK
  <2> QED BY <2>1
<1>1. CASE InitializeReceivers
  <2>1. ReportOK'
    <3>1. CASE UNCHANGED reportVars
      BY <3>1, ReportStutterType
    <3>2. CASE \E r \in Receiver : InitializeReceiver(r)
      BY <3>2, InitializeType, ReceiverName DEF InitializeReceiver
    <3> QED BY <1>1, <3>1, <3>2 DEF InitializeReceivers
  <2>2. ir' \in Nat \ {0} /\ ir' <= Len(m_vecReceivers[caller]) + 1
    <3>1. CASE MoreReceivers /\ ir' = ir + 1
      BY <1>l, <3>1 DEF MoreReceivers, Vec, ControlOK
    <3>2. CASE ir' = ir
      BY <3>2 DEF ControlOK
    <3> QED BY <1>1, <3>1, <3>2 DEF InitializeReceivers
  <2>3. UNCHANGED <<alive, gen, handles, m_vecReceivers, caller, pids, ip, present, sessions>>
          /\ pc' \in {"init", "pid"}
    BY <1>1 DEF InitializeReceivers, machineVars
  <2> QED BY <2>1, <2>2, <2>3 DEF ControlOK
<1>2. CASE NextPid
  <2>1. ReportOK'
    <3>1. CASE UNCHANGED reportVars
      BY <3>1, ReportStutterType
    <3>2. CASE \E entry \in Identity : printProcess(entry)
      <4>1. PICK entry \in Identity : LinkRow(TH, RowOf(entry.pid, entry.gen))
        BY <3>2 DEF printProcess
      <4>2. RowOf(entry.pid, entry.gen) \in Row
        BY DEF Identity, Row, RowOf
      <4> QED BY <4>1, <4>2, LinkRowType, ReceiverName
    <3> QED BY <1>2, <3>1, <3>2 DEF NextPid
  <2>2. pc' = "send" => ip <= Len(pids)
    BY <1>2 DEF NextPid, MorePids
  <2>3. ir' = 1 /\ ir' <= Len(m_vecReceivers[caller]) + 1
    BY <1>2, <1>l DEF NextPid
  <2> QED BY <1>2, <2>1, <2>2, <2>3 DEF NextPid, machineVars, ControlOK
<1>3. CASE SendPid2Receivers
  <2>0. UNCHANGED <<alive, gen, m_vecReceivers, caller, pids, present, sessions>>
          /\ pc = "send" /\ ip <= Len(pids)
    BY <1>3 DEF SendPid2Receivers, ControlOK
  <2>1. CASE /\ \E r \in Receiver, p \in Pid : ReceivePid(r, p)
             /\ UNCHANGED ip /\ ir' = ir + 1 /\ MoreReceivers
    <3>1. ReportOK' /\ handles' \subseteq Pid /\ pc' \in {pc, "hung"}
      BY <2>1, ReceivePidType
    <3>2. ir' \in Nat \ {0} /\ ir' <= Len(m_vecReceivers[caller]) + 1
      BY <1>l, <2>1 DEF MoreReceivers, Vec, ControlOK
    <3> QED BY <2>0, <2>1, <3>1, <3>2 DEF ControlOK
  <2>2. CASE pc' = "pid" /\ Advance /\ UNCHANGED <<ir, handles, reportVars>>
    <3>1. ReportOK'
      BY <2>2, ReportStutterType
    <3>2. ip' \in Nat \ {0} /\ ip' <= Len(pids) + 1
      BY <1>l, <2>0, <2>2 DEF Advance, ControlOK
    <3> QED BY <2>0, <2>2, <3>1, <3>2 DEF ControlOK
  <2> QED BY <1>3, <2>1, <2>2 DEF SendPid2Receivers
<1>4. CASE FinalizeReceivers
  <2>1. ReportOK'
    <3>1. CASE UNCHANGED reportVars
      BY <3>1, ReportStutterType
    <3>2. CASE \E r \in Receiver : FinalizeReport(r)
      BY <3>2, FinalizeReportType, ReceiverName
    <3> QED BY <1>4, <3>1, <3>2 DEF FinalizeReceivers
  <2>2. << >> \in Seq(Identity)
    OBVIOUS
  <2>3. ir' \in Nat \ {0} /\ ip' \in Nat \ {0}
    BY <1>4 DEF FinalizeReceivers, EndSession, ControlOK
  <2>4. pids' \in Seq(Identity) /\ present' \subseteq Identity
    BY <1>4, <2>2 DEF FinalizeReceivers, EndSession, ControlOK
  <2>5. pc' \in {"final", "close", "idle"}
    BY <1>4 DEF FinalizeReceivers, EndSession
  <2>6. UNCHANGED <<machineVars, m_vecReceivers, caller, sessions>>
    BY <1>4 DEF FinalizeReceivers
  <2>7. ip' <= Len(pids') + 1 /\ ir' <= Len(m_vecReceivers[caller]) + 1
    <3>1. CASE ir' = ir + 1 /\ UNCHANGED <<pids, ip>> /\ MoreReceivers
      BY <1>l, <3>1 DEF MoreReceivers, Vec, ControlOK
    <3>2. CASE UNCHANGED <<pids, ip, ir>>
      BY <3>2 DEF ControlOK
    <3>3. CASE pids' = << >> /\ ip' = 1 /\ ir' = 1
      <4>1. Len(pids') = 0
        BY <3>3
      <4> QED BY <1>l, <3>3, <4>1
    <3> QED BY <1>4, <3>1, <3>2, <3>3 DEF FinalizeReceivers, EndSession
  <2> QED BY <2>1, <2>3, <2>4, <2>5, <2>6, <2>7 DEF machineVars, ControlOK
<1>5. CASE thCloseReport
  <2>1. ReportOK'
    BY <1>5, CloseReportType, ReceiverName DEF thCloseReport
  <2>2. << >> \in Seq(Identity)
    OBVIOUS
  <2> QED BY <1>5, <2>1, <2>2 DEF thCloseReport, EndSession, machineVars, ControlOK
<1> QED BY <1>1, <1>2, <1>3, <1>4, <1>5 DEF Enumerate

(* So does a step that changes nothing.                                    *)
LEMMA StutterType == TypeInv /\ UNCHANGED vars => TypeInv'
<1> SUFFICES ASSUME TypeInv, UNCHANGED vars PROVE TypeInv'
  OBVIOUS
<1>1. ReportOK'
  BY ReportStutterType DEF vars, TypeInv
<1> QED BY <1>1 DEF vars, machineVars, controlVars, TypeInv, ControlOK

(* Hence every step of the specification keeps the types.                  *)
LEMMA NextType == TypeInv /\ [Next]_vars => TypeInv'
BY MachineType, EnumerateType, MainType, StutterType DEF Next, Terminating

(* The inductive invariant holds in every reachable state.                 *)
LEMMA TypeInvariant == Spec => []TypeInv
BY TypeInit, NextType, PTL DEF Spec

(* Type correctness: whatever the machine does and however the receivers   *)
(* are registered, every variable keeps its type; in particular every row  *)
(* is about a pid of the machine.                                          *)
THEOREM TypeCorrect == Spec => []TypeOK
BY TypeInvariant, TypeInvIsTypeOK, PTL

-----------------------------------------------------------------------------
(* What the operators do to one another's variables.                       *)

(* A document is allocated before it is entered in the map.                *)
LEMMA GetDocumentKeepsNoDangling ==
    ASSUME NEW n, NoDangling, GetDocument(n)
    PROVE  NoDangling'
BY DEF GetDocument, NoDangling

(* A document that is freed leaves the receiver that points to it.         *)
LEMMA CloseReportKeepsNoDangling ==
    ASSUME NEW n, NoDangling, CloseReport(n)
    PROVE  NoDangling'
BY DEF CloseReport, Release, Crash, NoDangling

(* Receiving a pid only ever adds a row to a tree, or crashes.             *)
LEMMA ReceivePidFrame ==
    ASSUME NEW r, NEW p, ReceivePid(r, p)
    PROVE  UNCHANGED <<m_map, heap, m_doc, m_root, m_bWork, files, saved>>
<1> USE DEF LinkRow, Crash, reportVars
<1>1. CASE DllReceivePid(p)
  BY <1>1 DEF DllReceivePid
<1>2. CASE MemoryRegionReceivePid(p)
  BY <1>2 DEF MemoryRegionReceivePid
<1>3. CASE MemoryInfoReceivePid(p)
  BY <1>3 DEF MemoryInfoReceivePid
<1>4. CASE HeapReceivePid(p) \/ ModuleReceivePid(p)
  BY <1>4 DEF HeapReceivePid, ModuleReceivePid, SnapshotReceivePid
<1>5. CASE ThreadReceivePid(p)
  BY <1>5 DEF ThreadReceivePid
<1> QED BY <1>1, <1>2, <1>3, <1>4, <1>5 DEF ReceivePid, HeapReceivePid, ModuleReceivePid

(* Moving to the next pid leaves the registry and the saved files alone.   *)
LEMMA NextPidFrame ==
    NextPid => UNCHANGED <<m_map, heap, m_doc, m_root, m_bWork, files, saved>>
BY DEF NextPid, printProcess, LinkRow, Crash, reportVars

(* No step leaves a receiver with a document that was freed.               *)
LEMMA NoDanglingStep == NoDangling /\ [Next]_vars => NoDangling'
<1> SUFFICES ASSUME NoDangling, [Next]_vars PROVE NoDangling'
  OBVIOUS
<1>0. CASE UNCHANGED <<m_doc, heap>>
  BY <1>0 DEF NoDangling
<1>1. CASE Machine
  BY <1>0, <1>1 DEF Machine, Exit, Start, reportVars
<1>2. CASE InitializeReceivers
  BY <1>0, <1>2, GetDocumentKeepsNoDangling DEF InitializeReceivers, InitializeReceiver,
     InitializeChecked, InitializeUnchecked, reportVars
<1>3. CASE NextPid
  BY <1>0, <1>3, NextPidFrame
<1>4. CASE SendPid2Receivers
  BY <1>0, <1>4, ReceivePidFrame DEF SendPid2Receivers, reportVars
<1>5. CASE FinalizeReceivers
  BY <1>0, <1>5, CloseReportKeepsNoDangling DEF FinalizeReceivers, FinalizeReport, reportVars
<1>6. CASE thCloseReport
  BY <1>6, CloseReportKeepsNoDangling DEF thCloseReport
<1>7. CASE Main
  BY <1>0, <1>7, GetDocumentKeepsNoDangling DEF Main, AddReceiver, thEnumerateFails,
     ProcessEnumerate, thProcessEnumerate, InitializeUnchecked, MainReturns, reportVars
<1>8. CASE UNCHANGED vars
  BY <1>0, <1>8 DEF vars, reportVars
<1> QED BY <1>1, <1>2, <1>3, <1>4, <1>5, <1>6, <1>7, <1>8 DEF Next, Enumerate, Terminating

(* No producer ever holds a pointer to a document that was deleted, even   *)
(* when its receiver is registered twice, with both enumerators, or runs   *)
(* in several sessions, and whichever saves fail.                          *)
THEOREM NeverDangling == Spec => []NoDangling
<1>1. Init => NoDangling
  BY DEF Init, ReportInit, NoDangling
<1> QED BY <1>1, NoDanglingStep, PTL DEF Spec

-----------------------------------------------------------------------------
(* One process per pid.  A row of a report made through OpenProcess, if it *)
(* holds a process's data at all, names the process the pid belongs to     *)
(* now, and a handle keeps it that way.                                    *)
Pinned(a) == a.gen > 0 => a.pid \in handles /\ gen[a.pid] = a.gen

PinInv ==
    \A n \in Checked :
        /\ \A i \in DOMAIN tree[n] : Pinned(tree[n][i])
        /\ \A i \in DOMAIN files[n] : Pinned(files[n][i])

(* Two rows pinned to one pid are about one generation of it.              *)
LEMMA PinInvIsOneProcessPerPid == PinInv => OneProcessPerPid
<1> SUFFICES ASSUME PinInv,
                    NEW m \in Checked, NEW n \in Checked,
                    NEW a \in RowsOf(m), NEW b \in RowsOf(n),
                    a.pid = b.pid, a.gen > 0, b.gen > 0
             PROVE  a.gen = b.gen
  BY DEF OneProcessPerPid
<1>1. Pinned(a) /\ Pinned(b)
  BY DEF PinInv, RowsOf
<1> QED BY <1>1 DEF Pinned

(* Linking a row adds it at the end of one tree or changes no tree.        *)
LEMMA LinkRowTrees ==
    ASSUME NEW m \in Name, NEW row, row \in Row, ReportOK, LinkRow(m, row), NEW n \in Name
    PROVE  /\ files'[n] = files[n]
           /\ \A i \in DOMAIN tree'[n] :
                \/ i \in DOMAIN tree[n] /\ tree'[n][i] = tree[n][i]
                \/ n = m /\ tree'[n][i] = row
<1>1. tree[n] \in Seq(Row)
  BY DEF ReportOK, ReportType
<1>2. CASE n = m /\ n \in m_root
  <2>1. tree'[n] = Append(tree[n], row)
    BY <1>2 DEF LinkRow, Crash, ReportOK, ReportType
  <2> QED BY <2>1, <1>1, <1>2 DEF LinkRow, Crash
<1>3. CASE ~(n = m /\ n \in m_root)
  BY <1>3 DEF LinkRow, Crash, ReportOK, ReportType
<1> QED BY <1>2, <1>3

(* The rows of producer n, before and after a step: each new one was there *)
(* before, or is the row that the step linked.                             *)
NoNewRows(n) ==
    /\ \A i \in DOMAIN tree'[n] : \E j \in DOMAIN tree[n] : tree'[n][i] = tree[n][j]
    /\ \A i \in DOMAIN files'[n] :
         \/ \E j \in DOMAIN tree[n] : files'[n][i] = tree[n][j]
         \/ \E j \in DOMAIN files[n] : files'[n][i] = files[n][j]

(* A report that does not change gets no new row.                          *)
LEMMA StutterRows ==
    ASSUME NEW n \in Name, UNCHANGED <<tree, files>>
    PROVE  NoNewRows(n)
BY DEF NoNewRows

(* Initialize empties a tree at most.                                      *)
LEMMA InitializeRows ==
    ASSUME NEW m \in Name, NEW n \in Name, ReportOK,
           InitializeChecked(m) \/ InitializeUnchecked(m)
    PROVE  NoNewRows(n)
<1>1. files' = files
  BY DEF InitializeChecked, InitializeUnchecked
<1>2. tree'[n] = tree[n] \/ tree'[n] = << >>
  BY DEF InitializeChecked, InitializeUnchecked, NewRoot, ReportOK, ReportType
<1> QED BY <1>1, <1>2 DEF NoNewRows

(* Closing writes to the file only rows that were in the tree.             *)
LEMMA CloseReportRows ==
    ASSUME NEW m \in Name, NEW n \in Name, ReportOK, CloseReport(m)
    PROVE  NoNewRows(n)
<1>1. tree'[n] = tree[n] \/ tree'[n] = << >>
  BY DEF CloseReport, Release, Crash, ReportOK, ReportType
<1>2. files'[n] = files[n] \/ files'[n] = tree[n]
  BY DEF CloseReport, SaveFile, Crash, ReportOK, ReportType
<1> QED BY <1>1, <1>2 DEF NoNewRows

(* Without new rows and with the handles kept, the rows stay pinned.       *)
LEMMA NoNewRowsKeepPinInv ==
    ASSUME PinInv, \A n \in Checked : NoNewRows(n), UNCHANGED <<handles, gen>>
    PROVE  PinInv'
BY DEF PinInv, NoNewRows, Pinned

(* A pid with an open handle is not reused, so its rows stay pinned.       *)
LEMMA PinMachine == TypeInv /\ PinInv /\ Machine => PinInv'
<1> SUFFICES ASSUME TypeInv, PinInv, NEW p \in Pid, Exit(p) \/ Start(p),
                    NEW n \in Checked
             PROVE  /\ \A i \in DOMAIN tree[n] : Pinned(tree[n][i])'
                    /\ \A i \in DOMAIN files[n] : Pinned(files[n][i])'
  BY DEF Machine, PinInv, Exit, Start, reportVars
<1>1. \A q \in handles : gen'[q] = gen[q]
  BY DEF Exit, Start, TypeInv, ControlOK
<1>2. handles' = handles /\ tree' = tree /\ files' = files
  BY DEF Exit, Start, reportVars
<1> QED BY <1>1, <1>2 DEF PinInv, Pinned

(* A checked receiver links a row only for the process it has opened.      *)
LEMMA PinReceivePid ==
    ASSUME TypeInv, PinInv, NEW r \in Receiver, NEW p \in Pid, ReceivePid(r, p),
           UNCHANGED gen
    PROVE  PinInv'
<1> USE DEF TypeInv
<1> DEFINE g == IF CanOpen(p) THEN gen[p] ELSE 0
<1>n. {DLL, REGION, MEMINFO, HEAP, MODULES, THREAD} \subseteq Name /\ Checked \subseteq Name
  BY DEF Name, Checked, Unchecked
<1>g. gen[p] \in 0..MaxGen /\ g \in 0..MaxGen
  BY BoundAssumption DEF ControlOK
<1>h. handles \subseteq handles'
  BY DEF ReceivePid, DllReceivePid, MemoryRegionReceivePid, MemoryInfoReceivePid,
         HeapReceivePid, ModuleReceivePid, SnapshotReceivePid, ThreadReceivePid, OpenProcess
<1>k. \A a : Pinned(a) => (a.gen > 0 => a.pid \in handles' /\ gen'[a.pid] = a.gen)
  BY <1>h DEF Pinned
<1>1. ASSUME NEW m \in Checked, LinkRow(m, RowOf(p, g)), OpenProcess(p)
      PROVE  PinInv'
  <2> DEFINE row == RowOf(p, g)
  <2>1. row \in Row
    BY <1>g DEF RowOf, Row
  <2>2. row.gen > 0 => row.pid \in handles' /\ gen'[row.pid] = row.gen
    BY <1>1 DEF RowOf, OpenProcess
  <2>3. ASSUME NEW n \in Checked
        PROVE  /\ files'[n] = files[n]
               /\ \A i \in DOMAIN tree'[n] :
                    \/ i \in DOMAIN tree[n] /\ tree'[n][i] = tree[n][i]
                    \/ n = m /\ tree'[n][i] = row
    <3> HIDE DEF row
    <3> QED BY <1>1, <1>n, <2>1, <2>3, LinkRowTrees DEF row
  <2> HIDE DEF row
  <2> QED BY <2>2, <2>3, <1>k DEF PinInv, Pinned
<1>2. ASSUME UNCHANGED reportVars
      PROVE  PinInv'
  BY <1>2, <1>k DEF PinInv, Pinned, reportVars
<1>3. ASSUME NEW m \in Unchecked, NEW row \in Row, LinkRow(m, row)
      PROVE  PinInv'
  <2>1. m \in Name /\ \A n \in Checked : n # m
    BY DEF Name, Checked, Unchecked, DLL, REGION, MEMINFO, HEAP, MODULES, THREAD
  <2>2. \A n \in Checked : tree'[n] = tree[n] /\ files'[n] = files[n]
    BY <1>3, <2>1, <1>n DEF LinkRow, Crash, ReportOK, ReportType
  <2> QED BY <2>2, <1>k DEF PinInv, Pinned
<1>4. CASE DllReceivePid(p)
  BY <1>1, <1>2, <1>4 DEF DllReceivePid, Checked
<1>5. CASE MemoryRegionReceivePid(p)
  BY <1>1, <1>2, <1>5 DEF MemoryRegionReceivePid, Checked
<1>6. CASE MemoryInfoReceivePid(p)
  BY <1>1, <1>6 DEF MemoryInfoReceivePid, Checked
<1>7. CASE HeapReceivePid(p) \/ ModuleReceivePid(p)
  <2>1. SnapshotPid(p) \in Pid
    BY PidAssumption DEF SnapshotPid
  <2>2. [pid |-> p, of |-> SnapshotPid(p), gen |-> gen[SnapshotPid(p)]] \in Row
    BY <2>1 DEF ControlOK, Row
  <2> QED BY <1>7, <1>2, <1>3, <2>2
          DEF HeapReceivePid, ModuleReceivePid, SnapshotReceivePid, Unchecked
<1>8. CASE ThreadReceivePid(p)
  <2>1. RowOf(p, IF p \in alive THEN gen[p] ELSE 0) \in Row
    BY <1>g, BoundAssumption DEF RowOf, Row
  <2> QED BY <1>8, <1>2, <1>3, <2>1 DEF ThreadReceivePid, Unchecked
<1> QED BY <1>4, <1>5, <1>6, <1>7, <1>8 DEF ReceivePid

(* Every step of an enumeration keeps the rows pinned.                     *)
LEMMA PinEnumerate == TypeInv /\ PinInv /\ Enumerate => PinInv'
<1> SUFFICES ASSUME TypeInv, PinInv, Enumerate PROVE PinInv'
  OBVIOUS
<1> USE DEF TypeInv
<1>n. Checked \subseteq Name
  BY DEF Name
<1>1. CASE UNCHANGED <<handles, gen>> /\ UNCHANGED reportVars
  BY <1>1, <1>n, StutterRows, NoNewRowsKeepPinInv DEF reportVars
<1>2. ASSUME NEW m \in Name, UNCHANGED <<handles, gen>>,
             InitializeChecked(m) \/ InitializeUnchecked(m) \/ CloseReport(m)
      PROVE  PinInv'
  BY <1>2, <1>n, InitializeRows, CloseReportRows, NoNewRowsKeepPinInv
<1>3. CASE InitializeReceivers
  <2>1. UNCHANGED <<handles, gen>>
    BY <1>3 DEF InitializeReceivers, machineVars
  <2> QED BY <1>3, <2>1, <1>1, <1>2, ReceiverName DEF InitializeReceivers, InitializeReceiver
<1>4. CASE NextPid
  <2>1. UNCHANGED <<handles, gen>>
    BY <1>4 DEF NextPid, machineVars
  <2>2. ASSUME NEW entry \in Identity, printProcess(entry)
        PROVE  PinInv'
    <3>1. TH \in Name /\ \A n \in Checked : n # TH
      BY DEF Name, Checked, DLL, REGION, MEMINFO, TH
    <3>2. \A n \in Checked : tree'[n] = tree[n] /\ files'[n] = files[n]
      BY <2>2, <3>1, <1>n DEF printProcess, LinkRow, Crash, ReportOK, ReportType
    <3> QED BY <3>2, <2>1 DEF PinInv, Pinned
  <2> QED BY <1>4, <2>1, <2>2, <1>1 DEF NextPid
<1>5. CASE SendPid2Receivers
  <2>1. gen' = gen
    BY <1>5 DEF SendPid2Receivers
  <2> QED BY <1>5, <2>1, <1>1, PinReceivePid DEF SendPid2Receivers
<1>6. CASE FinalizeReceivers
  <2>1. UNCHANGED <<handles, gen>>
    BY <1>6 DEF FinalizeReceivers, machineVars
  <2> QED BY <1>6, <2>1, <1>1, <1>2, ReceiverName DEF FinalizeReceivers, FinalizeReport
<1>7. CASE thCloseReport
  <2>1. UNCHANGED <<handles, gen>>
    BY <1>7 DEF thCloseReport, machineVars
  <2> QED BY <1>7, <2>1, <1>2, ReceiverName DEF thCloseReport
<1> QED BY <1>3, <1>4, <1>5, <1>6, <1>7 DEF Enumerate

(* Every call main makes keeps the rows pinned.                            *)
LEMMA PinMain == TypeInv /\ PinInv /\ Main => PinInv'
<1> SUFFICES ASSUME TypeInv, PinInv, Main PROVE PinInv'
  OBVIOUS
<1>n. Checked \subseteq Name
  BY DEF Name
<1>1. UNCHANGED <<handles, gen>>
  BY DEF Main, AddReceiver, thEnumerateFails, ProcessEnumerate, thProcessEnumerate,
         BeginSession, MainReturns, machineVars
<1>2. CASE UNCHANGED <<tree, files>>
  BY <1>1, <1>2, <1>n, StutterRows, NoNewRowsKeepPinInv
<1>3. CASE InitializeUnchecked(TH)
  BY <1>1, <1>3, <1>n, InitializeRows, ReceiverName, NoNewRowsKeepPinInv DEF TypeInv
<1> QED BY <1>2, <1>3 DEF Main, AddReceiver, thEnumerateFails, ProcessEnumerate,
                          thProcessEnumerate, MainReturns, reportVars

(* Hence every step of the specification keeps the rows pinned.            *)
LEMMA PinStep == TypeInv /\ PinInv /\ [Next]_vars => PinInv'
<1> SUFFICES ASSUME TypeInv, PinInv, UNCHANGED vars PROVE PinInv'
  BY PinMachine, PinEnumerate, PinMain DEF Next, Terminating
<1> QED BY DEF PinInv, Pinned, vars, machineVars, reportVars

(* Whatever exits, starts and reuses pids between its calls, all the data  *)
(* the DllEnumerator, MemoryRegionEnumerator and ProcessMemoryInfo reports *)
(* hold for one pid is data of one process.  The handle leak is what the   *)
(* argument rests on: PinInv says that a pid with a row keeps a handle.    *)
THEOREM RowsNameOneProcess == Spec => []OneProcessPerPid
<1>1. Init => PinInv
  BY DEF Init, ReportInit, PinInv, Name
<1>2. Spec => []PinInv
  BY <1>1, PinStep, TypeInvariant, PTL DEF Spec
<1> QED BY <1>2, PinInvIsOneProcessPerPid, PTL

-----------------------------------------------------------------------------
(* Used as it is written for, the program is safe and frees everything.    *)
(* The reason: the documents, the roots and the allocated documents are    *)
(* at every moment those of exactly the producers the running Enumerate    *)
(* has initialised and not yet finalised; and a producer that is about to  *)
(* be initialised has never asked for its document before.                 *)
Busy == {"init", "pid", "send", "final", "close"}

Initialised(i) ==
    \/ pc = "init" /\ i < ir
    \/ pc \in {"pid", "send"}
    \/ pc = "final" /\ i >= ir

IsOpen(n) ==
    \/ n = TH /\ caller = "thProcessEnumerator" /\ pc \in Busy
    \/ \E i \in DOMAIN Vec : Vec[i] = n /\ Initialised(i)

Asked(n) ==
    \E e \in Enumerator :
        /\ sessions[e] >= 1
        /\ \/ n = TH /\ e = "thProcessEnumerator"
           \/ \E i \in DOMAIN m_vecReceivers[e] : m_vecReceivers[e][i] = n

UseOK ==
    /\ crash = {}
    /\ Receiver \subseteq m_bWork
    /\ \A n \in m_map : Asked(n)
    /\ pc # "hung" => \A n \in Name : /\ n \in m_doc <=> IsOpen(n)
                                      /\ n \in m_root <=> IsOpen(n)
                                      /\ n \in heap <=> IsOpen(n)
    /\ pc \in Busy => sessions[caller] >= 1
    /\ pc = "init" => \A i \in DOMAIN Vec : i >= ir => Vec[i] \notin m_map

UseInv == UsedOnce => UseOK

(* The registered receivers are a sequence of receivers.                   *)
LEMMA VecType == TypeInv => Vec \in Seq(Receiver) /\ DOMAIN Vec = 1..Len(Vec) /\ Len(Vec) \in Nat
BY DEF TypeInv, ControlOK, Vec

(* Under UsedOnce two positions of one enumerator hold different receivers. *)
LEMMA VecDistinct ==
    TypeInv /\ UsedOnce => \A i, j \in DOMAIN Vec : Vec[i] = Vec[j] => i = j
BY DEF TypeInv, ControlOK, UsedOnce, Vec

(* A producer that has not asked for its document gets one.                *)
LEMMA FreshInitialize ==
    ASSUME NEW n, n \notin m_map,
           (n \in m_bWork /\ InitializeChecked(n)) \/ InitializeUnchecked(n)
    PROVE  /\ m_map' = m_map \cup {n} /\ heap' = heap \cup {n}
           /\ m_doc' = m_doc \cup {n} /\ m_root' = m_root \cup {n}
           /\ m_bWork' = m_bWork /\ crash' = crash
BY DEF InitializeChecked, InitializeUnchecked, GetDocument, NewRoot

(* A producer that has its root takes a pid without crashing.              *)
LEMMA RootedReceivePid ==
    ASSUME NEW r, r \in m_root, NEW p, ReceivePid(r, p)
    PROVE  crash' = crash
BY DEF ReceivePid, DllReceivePid, MemoryRegionReceivePid, MemoryInfoReceivePid,
       HeapReceivePid, ModuleReceivePid, SnapshotReceivePid, ThreadReceivePid,
       LinkRow, reportVars

(* Closing an open report releases it: no crash is possible.               *)
LEMMA OpenClose ==
    ASSUME NEW n, n \in m_doc, n \in m_root, CloseReport(n)
    PROVE  /\ heap' = heap \ {n} /\ m_doc' = m_doc \ {n} /\ m_root' = m_root \ {n}
           /\ UNCHANGED <<m_map, m_bWork, crash>>
BY DEF CloseReport, Release

(* Steps that register nothing and begin nothing keep UsedOnce.            *)
LEMMA UsedOnceSame ==
    UNCHANGED <<m_vecReceivers, sessions>> => (UsedOnce <=> UsedOnce')
BY DEF UsedOnce

(* Initializing the receivers opens each report for the first time.        *)
LEMMA UseInitialize ==
    ASSUME TypeInv, UsedOnce, UseOK, InitializeReceivers
    PROVE  UseOK'
<1>1. UNCHANGED <<m_vecReceivers, sessions, caller>> /\ Vec' = Vec /\ pc = "init"
  BY DEF InitializeReceivers, Vec
<1>2. CASE MoreReceivers
  <2>1. PICK r \in Receiver : r = Vec[ir] /\ InitializeReceiver(r)
    BY <1>2 DEF InitializeReceivers
  <2>2. ir \in DOMAIN Vec /\ ir \in Nat
    BY <1>2, VecType DEF MoreReceivers, TypeInv, ControlOK
  <2>3. r \notin m_map /\ r \in m_bWork
    BY <1>1, <2>1, <2>2 DEF UseOK
  <2>4. /\ m_map' = m_map \cup {r} /\ heap' = heap \cup {r}
        /\ m_doc' = m_doc \cup {r} /\ m_root' = m_root \cup {r}
        /\ m_bWork' = m_bWork /\ crash' = crash
    BY <2>1, <2>3, FreshInitialize DEF InitializeReceiver
  <2>5. ir' = ir + 1 /\ pc' = "init"
    BY <1>1, <1>2 DEF InitializeReceivers
  <2>6. \A n : IsOpen(n)' <=> IsOpen(n) \/ n = r
    BY <1>1, <2>1, <2>2, <2>5, VecType DEF IsOpen, Initialised, Busy
  <2>7. \A n \in m_map' : Asked(n)'
    <3>1. Asked(r)
      BY <1>1, <2>1, <2>2 DEF UseOK, Asked, Busy, Vec, TypeInv, ControlOK
    <3>2. \A n : Asked(n) <=> Asked(n)'
      BY <1>1 DEF Asked
    <3> QED BY <2>4, <3>1, <3>2 DEF UseOK
  <2>8. \A i \in DOMAIN Vec : i >= ir + 1 => Vec[i] \notin m_map'
    BY <1>1, <2>1, <2>2, <2>4, VecDistinct, VecType DEF UseOK
  <2> QED BY <1>1, <2>4, <2>5, <2>6, <2>7, <2>8 DEF UseOK
<1>3. CASE ~MoreReceivers
  <2>1. pc' = "pid" /\ UNCHANGED <<ir, reportVars>>
    BY <1>3 DEF InitializeReceivers
  <2>2. \A n : IsOpen(n)' <=> IsOpen(n)
    BY <1>1, <1>3, <2>1, VecType DEF IsOpen, Initialised, Busy, MoreReceivers, TypeInv, ControlOK
  <2>3. \A n : Asked(n) <=> Asked(n)'
    BY <1>1 DEF Asked
  <2> QED BY <1>1, <2>1, <2>2, <2>3 DEF UseOK, Busy, reportVars
<1> QED BY <1>2, <1>3

(* The enumerator links its own row in a report that is open.              *)
LEMMA UseNextPid ==
    ASSUME TypeInv, UseOK, NextPid
    PROVE  UseOK'
<1>1. UNCHANGED <<m_vecReceivers, sessions, caller>> /\ Vec' = Vec /\ pc = "pid"
  BY DEF NextPid, Vec
<1>2. caller = "thProcessEnumerator" => TH \in m_root
  BY <1>1, ReceiverName DEF UseOK, IsOpen, Busy
<1>3. UNCHANGED <<m_map, heap, m_doc, m_root, m_bWork>> /\ crash' = crash
  BY <1>2 DEF NextPid, printProcess, LinkRow, reportVars
<1>4. pc' \in {"send", "final"} /\ ir' = 1
  BY DEF NextPid
<1>5. \A n : IsOpen(n)' <=> IsOpen(n)
  BY <1>1, <1>4, VecType DEF IsOpen, Initialised, Busy
<1>6. \A n : Asked(n) <=> Asked(n)'
  BY <1>1 DEF Asked
<1> QED BY <1>1, <1>3, <1>4, <1>5, <1>6 DEF UseOK, Busy

(* Every receiver a pid is sent to has an open report.                     *)
LEMMA UseSend ==
    ASSUME TypeInv, UseOK, SendPid2Receivers
    PROVE  UseOK'
<1>1. UNCHANGED <<m_vecReceivers, sessions, caller>> /\ Vec' = Vec /\ pc = "send"
  BY DEF SendPid2Receivers, Vec
<1>2. \A n : Asked(n) <=> Asked(n)'
  BY <1>1 DEF Asked
<1>3. CASE MoreReceivers
  <2>1. PICK r \in Receiver, p \in Pid : r = Vec[ir] /\ ReceivePid(r, p)
    BY <1>3 DEF SendPid2Receivers
  <2>2. ir \in DOMAIN Vec
    BY <1>3, VecType DEF MoreReceivers, TypeInv, ControlOK
  <2>3. r \in m_root
    BY <1>1, <2>1, <2>2, ReceiverName DEF UseOK, IsOpen, Initialised
  <2>4. crash' = crash
    BY <2>1, <2>3, RootedReceivePid
  <2>5. UNCHANGED <<m_map, heap, m_doc, m_root, m_bWork>>
    BY <2>1, ReceivePidFrame
  <2>6. pc' \in {"send", "hung"}
    BY <1>1, <2>1, ReceivePidType
  <2>7. pc' = "send" => \A n : IsOpen(n)' <=> IsOpen(n)
    BY <1>1 DEF IsOpen, Initialised
  <2> QED BY <1>1, <1>2, <2>4, <2>5, <2>6, <2>7 DEF UseOK, Busy
<1>4. CASE ~MoreReceivers
  <2>1. pc' = "pid" /\ UNCHANGED reportVars
    BY <1>4 DEF SendPid2Receivers
  <2>2. \A n : IsOpen(n)' <=> IsOpen(n)
    BY <1>1, <2>1 DEF IsOpen, Initialised, Busy
  <2> QED BY <1>1, <1>2, <2>1, <2>2 DEF UseOK, Busy, reportVars
<1> QED BY <1>3, <1>4

(* Finalizing the receivers closes each report once.                       *)
LEMMA UseFinalize ==
    ASSUME TypeInv, UsedOnce, UseOK, FinalizeReceivers
    PROVE  UseOK'
<1>1. UNCHANGED <<m_vecReceivers, sessions, caller>> /\ Vec' = Vec /\ pc = "final"
  BY DEF FinalizeReceivers, Vec
<1>2. \A n : Asked(n) <=> Asked(n)'
  BY <1>1 DEF Asked
<1>3. CASE MoreReceivers
  <2>1. PICK r \in Receiver : r = Vec[ir] /\ FinalizeReport(r)
    BY <1>3 DEF FinalizeReceivers
  <2>2. ir \in DOMAIN Vec /\ ir \in Nat
    BY <1>3, VecType DEF MoreReceivers, TypeInv, ControlOK
  <2>3. r \in m_doc /\ r \in m_root /\ r \in m_bWork
    BY <1>1, <2>1, <2>2, ReceiverName DEF UseOK, IsOpen, Initialised
  <2>4. /\ heap' = heap \ {r} /\ m_doc' = m_doc \ {r} /\ m_root' = m_root \ {r}
        /\ UNCHANGED <<m_map, m_bWork, crash>>
    BY <2>1, <2>3, OpenClose DEF FinalizeReport
  <2>5. ir' = ir + 1 /\ pc' = "final"
    BY <1>1, <1>3 DEF FinalizeReceivers
  <2>6. \A n : IsOpen(n)' <=> IsOpen(n) /\ n # r
    BY <1>1, <2>1, <2>2, <2>5, VecType, VecDistinct, ReceiverName
    DEF IsOpen, Initialised, Busy
  <2> QED BY <1>1, <1>2, <2>4, <2>5, <2>6 DEF UseOK, Busy
<1>4. CASE ~MoreReceivers /\ caller = "thProcessEnumerator" /\ pc' = "close"
           /\ UNCHANGED reportVars
  <2>1. \A n : IsOpen(n)' <=> IsOpen(n)
    BY <1>1, <1>4, VecType DEF IsOpen, Initialised, Busy, MoreReceivers, TypeInv, ControlOK
  <2> QED BY <1>1, <1>2, <1>4, <2>1 DEF UseOK, Busy, reportVars
<1>5. CASE ~MoreReceivers /\ caller = "ProcessEnumerator" /\ pc' = "idle"
           /\ UNCHANGED reportVars
  <2>1. \A n : IsOpen(n)' <=> IsOpen(n)
    BY <1>1, <1>5, VecType DEF IsOpen, Initialised, Busy, MoreReceivers, TypeInv, ControlOK
  <2> QED BY <1>1, <1>2, <1>5, <2>1 DEF UseOK, Busy, reportVars
<1> QED BY <1>3, <1>4, <1>5 DEF FinalizeReceivers, EndSession

(* The enumerator closes its own report, which is open.                    *)
LEMMA UseClose ==
    ASSUME TypeInv, UseOK, thCloseReport, caller = "thProcessEnumerator"
    PROVE  UseOK'
<1>1. UNCHANGED <<m_vecReceivers, sessions, caller>> /\ Vec' = Vec /\ pc = "close" /\ pc' = "idle"
  BY DEF thCloseReport, EndSession, Vec
<1>2. \A n : Asked(n) <=> Asked(n)'
  BY <1>1 DEF Asked
<1>3. TH \in m_doc /\ TH \in m_root
  BY <1>1, ReceiverName DEF UseOK, IsOpen, Busy
<1>4. /\ heap' = heap \ {TH} /\ m_doc' = m_doc \ {TH} /\ m_root' = m_root \ {TH}
      /\ UNCHANGED <<m_map, m_bWork, crash>>
  BY <1>3, OpenClose DEF thCloseReport
<1>5. \A n : (IsOpen(n) <=> n = TH) /\ ~IsOpen(n)'
  BY <1>1 DEF IsOpen, Initialised, Busy
<1> QED BY <1>1, <1>2, <1>4, <1>5 DEF UseOK, Busy

(* Beginning a session of an enumerator that had none, the receivers       *)
(* registered with it, and thProcesses.xml for thProcessEnumerator, have   *)
(* not asked for their documents.                                          *)
LEMMA FreshSession ==
    ASSUME TypeInv, UsedOnce, UsedOnce', UseOK, NEW e \in Enumerator, BeginSession(e)
    PROVE  /\ \A i \in DOMAIN m_vecReceivers[e] : m_vecReceivers[e][i] \notin m_map
           /\ e = "thProcessEnumerator" => TH \notin m_map
<1>1. sessions[e] = 0
  BY DEF BeginSession, UsedOnce, TypeInv, ControlOK
<1>2. \A f \in Enumerator : \A i \in DOMAIN m_vecReceivers[f] :
        m_vecReceivers[f][i] \in Receiver
  BY DEF TypeInv, ControlOK
<1>3. ASSUME NEW i \in DOMAIN m_vecReceivers[e], m_vecReceivers[e][i] \in m_map
      PROVE  FALSE
  <2>1. m_vecReceivers[e][i] # TH
    BY <1>2, ReceiverName
  <2>2. Asked(m_vecReceivers[e][i])
    BY <1>3 DEF UseOK
  <2>3. PICK f \in Enumerator :
            /\ sessions[f] >= 1
            /\ \E j \in DOMAIN m_vecReceivers[f] : m_vecReceivers[f][j] = m_vecReceivers[e][i]
    BY <2>1, <2>2 DEF Asked
  <2>4. f = e
    BY <2>3 DEF UsedOnce
  <2> QED BY <1>1, <2>3, <2>4
<1>4. ASSUME e = "thProcessEnumerator", TH \in m_map
      PROVE  FALSE
  <2>1. Asked(TH)
    BY <1>4 DEF UseOK
  <2>2. sessions["thProcessEnumerator"] >= 1
    BY <2>1, <1>2, ReceiverName DEF Asked
  <2> QED BY <1>1, <1>4, <2>2
<1> QED BY <1>3, <1>4

(* While main keeps to UsedOnce its calls keep the invariant.              *)
LEMMA UseMain ==
    ASSUME TypeInv, UsedOnce, UsedOnce', UseOK, Main
    PROVE  UseOK'
<1>0. pc = "idle" /\ \A n : ~IsOpen(n)
  BY DEF Main, AddReceiver, thEnumerateFails, ProcessEnumerate, thProcessEnumerate,
         BeginSession, MainReturns, IsOpen, Initialised, Busy
<1>1. ASSUME NEW e \in Enumerator, NEW r \in Receiver, AddReceiver(e, r)
      PROVE  UseOK'
  <2>1. pc' = "idle" /\ UNCHANGED <<sessions, reportVars>>
    BY <1>0, <1>1 DEF AddReceiver
  <2>2. \A n : ~IsOpen(n)'
    BY <2>1 DEF IsOpen, Initialised, Busy
  <2>3. ASSUME NEW f \in Enumerator, NEW i \in DOMAIN m_vecReceivers[f]
        PROVE  i \in DOMAIN m_vecReceivers'[f] /\ m_vecReceivers'[f][i] = m_vecReceivers[f][i]
    BY <1>1 DEF AddReceiver, TypeInv, ControlOK
  <2>4. \A n : Asked(n) => Asked(n)'
    BY <2>1, <2>3 DEF Asked
  <2> QED BY <1>0, <2>1, <2>2, <2>4 DEF UseOK, Busy, reportVars
<1>2. CASE thEnumerateFails
  <2>1. \A n : (Asked(n) <=> Asked(n)') /\ ~IsOpen(n)'
    BY <1>0, <1>2 DEF thEnumerateFails, controlVars, Asked, IsOpen, Initialised, Busy
  <2> QED BY <1>0, <1>2, <2>1, ReceiverName DEF thEnumerateFails, controlVars, UseOK, Busy
<1>3. CASE ProcessEnumerate \/ thProcessEnumerate
  <2>1. PICK e \in Enumerator : BeginSession(e) /\ caller' = e
    BY <1>3 DEF ProcessEnumerate, thProcessEnumerate, BeginSession, Enumerator
  <2>2. pc' = "init" /\ ir' = 1 /\ m_vecReceivers' = m_vecReceivers /\ Vec' = m_vecReceivers[e]
    BY <2>1 DEF BeginSession, Vec
  <2>3. sessions'[e] >= 1
    BY <2>1 DEF BeginSession, TypeInv, ControlOK
  <2>4. \A n : Asked(n) => Asked(n)'
    <3>1. \A f \in Enumerator : sessions[f] >= 1 => sessions'[f] >= 1
      BY <2>1 DEF BeginSession, TypeInv, ControlOK
    <3> QED BY <2>2, <3>1 DEF Asked
  <2>5. \A i \in DOMAIN Vec' : i \in Nat /\ i >= 1 /\ Vec'[i] \in Receiver
    BY <2>1, <2>2 DEF TypeInv, ControlOK
  <2>6. \A i \in DOMAIN Vec' : ~Initialised(i)'
    BY <2>2, <2>5 DEF Initialised
  <2>7. \A n : IsOpen(n)' <=> n = TH /\ e = "thProcessEnumerator"
    BY <2>1, <2>2, <2>6 DEF IsOpen, Busy
  <2>8. \A i \in DOMAIN Vec' : Vec'[i] \notin m_map
    BY <2>1, <2>2, FreshSession
  <2>9. CASE ProcessEnumerate
    <3>1. UNCHANGED reportVars /\ e = "ProcessEnumerator"
      BY <2>1, <2>9 DEF ProcessEnumerate, BeginSession
    <3> QED BY <1>0, <2>1, <2>2, <2>3, <2>4, <2>7, <2>8, <3>1 DEF UseOK, Busy, reportVars
  <2>10. CASE thProcessEnumerate
    <3>1. InitializeUnchecked(TH) /\ e = "thProcessEnumerator"
      BY <2>1, <2>10 DEF thProcessEnumerate, BeginSession
    <3>2. TH \notin m_map
      BY <2>1, <3>1, FreshSession
    <3>3. /\ m_map' = m_map \cup {TH} /\ heap' = heap \cup {TH}
          /\ m_doc' = m_doc \cup {TH} /\ m_root' = m_root \cup {TH}
          /\ m_bWork' = m_bWork /\ crash' = crash
      BY <3>1, <3>2, FreshInitialize
    <3>4. Asked(TH)'
      BY <2>3, <3>1 DEF Asked, Enumerator
    <3>5. \A i \in DOMAIN Vec' : Vec'[i] \notin m_map'
      BY <2>5, <2>8, <3>3, ReceiverName
    <3> QED BY <1>0, <2>1, <2>2, <2>3, <2>4, <2>7, <3>1, <3>3, <3>4, <3>5 DEF UseOK, Busy
  <2> QED BY <1>3, <2>9, <2>10
<1>4. CASE MainReturns
  <2>1. \A n : (Asked(n) <=> Asked(n)') /\ ~IsOpen(n)'
    BY <1>4 DEF MainReturns, Asked, IsOpen, Initialised, Busy
  <2> QED BY <1>0, <1>4, <2>1 DEF MainReturns, UseOK, Busy, reportVars
<1> QED BY <1>1, <1>2, <1>3, <1>4 DEF Main

(* Processes that exit and start do not touch the reports.                 *)
LEMMA UseMachine ==
    ASSUME UseOK, Machine \/ UNCHANGED vars
    PROVE  UseOK'
BY DEF Machine, Exit, Start, vars, controlVars, reportVars, UseOK, Asked, IsOpen,
       Initialised, Vec, Busy

(* UsedOnce is about what was done: once it fails it fails for ever.       *)
LEMMA UsedOnceBefore ==
    ASSUME TypeInv, [Next]_vars, UsedOnce'
    PROVE  UsedOnce
<1>1. CASE UNCHANGED <<m_vecReceivers, sessions>>
  BY <1>1, UsedOnceSame
<1>2. ASSUME NEW e \in Enumerator, NEW r \in Receiver, AddReceiver(e, r)
      PROVE  UsedOnce
  <2>1. ASSUME NEW f \in Enumerator, NEW i \in DOMAIN m_vecReceivers[f]
        PROVE  i \in DOMAIN m_vecReceivers'[f] /\ m_vecReceivers'[f][i] = m_vecReceivers[f][i]
    BY <1>2 DEF AddReceiver, TypeInv, ControlOK
  <2>2. sessions' = sessions
    BY <1>2 DEF AddReceiver
  <2> QED BY <2>1, <2>2 DEF UsedOnce
<1>3. ASSUME NEW e \in Enumerator, BeginSession(e)
      PROVE  UsedOnce
  <2>1. m_vecReceivers' = m_vecReceivers
    BY <1>3 DEF BeginSession
  <2>2. \A f \in Enumerator : sessions[f] <= sessions'[f] /\ sessions[f] \in Nat
                                /\ sessions'[f] \in Nat
    BY <1>3 DEF BeginSession, TypeInv, ControlOK
  <2> QED BY <2>1, <2>2 DEF UsedOnce
<1>4. CASE Machine \/ Enumerate \/ UNCHANGED vars
  BY <1>1, <1>4 DEF Machine, Exit, Start, Enumerate, InitializeReceivers, NextPid,
     SendPid2Receivers, FinalizeReceivers, thCloseReport, vars, controlVars
<1>5. CASE Main
  BY <1>1, <1>2, <1>3, <1>5 DEF Main, thEnumerateFails, ProcessEnumerate,
     thProcessEnumerate, MainReturns, controlVars, Enumerator
<1> QED BY <1>4, <1>5 DEF Next, Terminating

(* Only thProcessEnumerator closes a report of its own.                    *)
CloserInv == pc = "close" => caller = "thProcessEnumerator"

(* Every step keeps that.                                                  *)
LEMMA CloserStep == CloserInv /\ [Next]_vars => CloserInv'
<1>1. CloserInv /\ SendPid2Receivers => CloserInv'
  BY DEF CloserInv, SendPid2Receivers, ReceivePid, DllReceivePid, MemoryRegionReceivePid,
     MemoryInfoReceivePid, HeapReceivePid, ModuleReceivePid, SnapshotReceivePid,
     ThreadReceivePid
<1>2. CloserInv /\ (Machine \/ Main \/ UNCHANGED vars) => CloserInv'
  BY DEF CloserInv, Machine, Exit, Start, Main, AddReceiver, thEnumerateFails,
     ProcessEnumerate, thProcessEnumerate, BeginSession, MainReturns, vars, controlVars
<1>3. CloserInv /\ (InitializeReceivers \/ NextPid \/ FinalizeReceivers \/ thCloseReport)
        => CloserInv'
  BY DEF CloserInv, InitializeReceivers, NextPid, FinalizeReceivers, thCloseReport, EndSession
<1> QED BY <1>1, <1>2, <1>3 DEF Next, Enumerate, Terminating

(* Hence every step under UsedOnce keeps the invariant.                    *)
LEMMA UseStep == TypeInv /\ CloserInv /\ UseInv /\ [Next]_vars => UseInv'
<1> SUFFICES ASSUME TypeInv, CloserInv, UseInv, [Next]_vars, UsedOnce' PROVE UseOK'
  BY DEF UseInv
<1>1. UsedOnce /\ UseOK
  BY UsedOnceBefore DEF UseInv
<1>2. CASE Machine \/ UNCHANGED vars
  BY <1>1, <1>2, UseMachine
<1>3. CASE Main
  BY <1>1, <1>3, UseMain
<1>4. CASE thCloseReport
  BY <1>1, <1>4, UseClose DEF CloserInv, thCloseReport
<1>5. CASE InitializeReceivers \/ NextPid \/ SendPid2Receivers \/ FinalizeReceivers
  BY <1>1, <1>5, UseInitialize, UseNextPid, UseSend, UseFinalize
<1> QED BY <1>2, <1>3, <1>4, <1>5 DEF Next, Enumerate, Terminating

(* The invariant holds before main makes its first call.                   *)
LEMMA UseInit == Init => UseInv /\ CloserInv
<1> SUFFICES ASSUME Init PROVE UseOK /\ CloserInv
  BY DEF UseInv
<1>1. \A n : ~IsOpen(n)
  BY DEF Init, IsOpen, Initialised, Busy
<1> QED BY <1>1, ReceiverName DEF Init, ReportInit, UseOK, CloserInv, Busy

(* While UsedOnce holds the invariant holds.                               *)
LEMMA UseInvariant == Spec => []UseInv
BY UseInit, UseStep, CloserStep, TypeInvariant, PTL DEF Spec

(* When every receiver is registered once and each enumerator runs once,   *)
(* no null pointer is dereferenced, for any machine, any failing save and  *)
(* any number of receivers and pids.                                       *)
THEOREM UsedOnceNeverCrashes == Spec => []UsedOnceIsSafe
<1>1. UseInv => UsedOnceIsSafe
  BY DEF UseInv, UseOK, UsedOnceIsSafe
<1> QED BY <1>1, UseInvariant, PTL

(* And between two Enumerate calls nothing it allocated is left.           *)
THEOREM UsedOnceLeaksNothing == Spec => []NothingLeaked
<1>1. TypeInv /\ UseInv => NothingLeaked
  <2> SUFFICES ASSUME TypeInv, UseOK, pc \in {"idle", "exited"}
               PROVE  heap = {} /\ m_root = {}
    BY DEF UseInv, NothingLeaked
  <2>1. \A n : ~IsOpen(n)
    BY DEF IsOpen, Initialised, Busy
  <2>2. heap \subseteq Name /\ m_root \subseteq Name
    BY DEF TypeInv, ReportOK, ReportType
  <2> QED BY <2>1, <2>2 DEF UseOK
<1> QED BY <1>1, UseInvariant, TypeInvariant, PTL
-----------------------------------------------------------------------------
(* One row per pid, and none missing.  A process that still runs:          *)
Lives(q) == q.pid \in alive \ Protected /\ gen[q.pid] = q.gen

(* The processes that were running and did not get into the listing.       *)
Unlisted == {q \in present : \A j \in DOMAIN pids : pids[j] # q}

(* What the listing is while Enumerate works on it: every pid once, no     *)
(* process that is not there yet, and no more processes left out than did  *)
(* not fit.                                                                *)
ListInv ==
    /\ \A j, k \in DOMAIN pids : pids[j].pid = pids[k].pid => j = k
    /\ \A j \in DOMAIN pids : pids[j].gen <= gen[pids[j].pid]
    /\ \A q \in present : q.gen <= gen[q.pid]
    /\ pc \in Busy => Cardinality(Unlisted) <= Overflow
    /\ pc = "init" => ip = 1
    /\ pc \in {"final", "close"} => ip > Len(pids)

(* There are as many identities of running processes as processes.         *)
LEMMA PresentSize ==
    ASSUME ControlOK
    PROVE  /\ IsFiniteSet({Listed(p) : p \in alive})
           /\ Cardinality({Listed(p) : p \in alive}) = Cardinality(alive)
<1>1. IsFiniteSet(alive)
  BY PidAssumption, FS_Subset DEF ControlOK
<1> DEFINE f == [p \in alive |-> Listed(p)]
           T == {Listed(p) : p \in alive}
<1>2. f \in [alive -> T] /\ \A p, q \in alive : f[p] = f[q] => p = q
  BY DEF Listed
<1>3. \A t \in T : \E p \in alive : f[p] = t
  OBVIOUS
<1>4. f \in Bijection(alive, T)
  BY <1>2, <1>3 DEF Bijection, Injection, IsInjective, Surjection
<1>5. ExistsBijection(alive, T)
  BY <1>4 DEF ExistsBijection
<1> QED BY <1>1, <1>5, FS_Bijection

(* There are finitely many identities at all, hence of processes listed    *)
(* and of processes left out.                                              *)
LEMMA PresentFinite ==
    ASSUME TypeInv
    PROVE  IsFiniteSet(present) /\ IsFiniteSet(Unlisted)
<1>1. IsFiniteSet(0..MaxGen)
  BY FS_Interval, BoundAssumption
<1>2. IsFiniteSet(Pid \X (0..MaxGen))
  BY <1>1, FS_Product, PidAssumption
<1> DEFINE f == [i \in Identity |-> <<i.pid, i.gen>>]
<1>3. f \in Injection(Identity, Pid \X (0..MaxGen))
  <2>1. f \in [Identity -> Pid \X (0..MaxGen)]
    BY DEF Identity
  <2>2. \A i, j \in Identity : f[i] = f[j] => i = j
    BY DEF Identity
  <2> QED BY <2>1, <2>2 DEF Injection, IsInjective
<1>4. IsFiniteSet(Identity)
  BY <1>2, <1>3, FS_Injection
<1>5. present \subseteq Identity /\ Unlisted \subseteq present
  BY DEF TypeInv, ControlOK, Unlisted
<1> QED BY <1>4, <1>5, FS_Subset

(* A listing has no pid twice, and leaves out no more processes than it    *)
(* has no room for.                                                        *)
LEMMA ListingIs ==
    ASSUME ControlOK, NEW n \in Nat, NEW s \in Listings(n),
           NEW l, l = [i \in DOMAIN s |-> Listed(s[i])]
    PROVE  /\ \A i, j \in DOMAIN l : l[i].pid = l[j].pid => i = j
           /\ \A i \in DOMAIN l : l[i].gen = gen[l[i].pid]
           /\ Cardinality({q \in {Listed(p) : p \in alive} : \A i \in DOMAIN l : l[i] # q})
                = IF Cardinality(alive) > n THEN Cardinality(alive) - n ELSE 0
<1>1. IsFiniteSet(alive) /\ Cardinality(alive) \in Nat
  BY PidAssumption, FS_Subset, FS_CardinalityType DEF ControlOK
<1>2. PICK k \in Nat :
        /\ s \in [1..k -> alive]
        /\ \A i, j \in 1..k : s[i] = s[j] => i = j
        /\ k = IF Cardinality(alive) < n THEN Cardinality(alive) ELSE n
  BY <1>1 DEF Listings
<1>3. DOMAIN l = 1..k /\ \A i \in 1..k : l[i] = Listed(s[i])
  BY <1>2
<1>4. \A i \in 1..k : l[i].pid = s[i] /\ l[i].gen = gen[s[i]]
  BY <1>3 DEF Listed
<1> DEFINE T == {Listed(p) : p \in alive}
           R == {l[i] : i \in 1..k}
           Out == {q \in T : \A i \in DOMAIN l : l[i] # q}
<1>5. IsFiniteSet(T) /\ Cardinality(T) = Cardinality(alive)
  BY PresentSize
<1>6. R \subseteq T
  BY <1>2, <1>3
<1>7. IsFiniteSet(R) /\ Cardinality(R) = k
  <2> DEFINE f == [i \in 1..k |-> l[i]]
  <2>1. f \in Bijection(1..k, R)
    <3>1. f \in [1..k -> R] /\ \A q \in R : \E i \in 1..k : f[i] = q
      OBVIOUS
    <3>2. ASSUME NEW i \in 1..k, NEW j \in 1..k, f[i] = f[j]
          PROVE  i = j
      <4>1. l[i] = l[j]
        BY <3>2
      <4>2. l[i].pid = s[i] /\ l[j].pid = s[j]
        BY <1>4
      <4>3. s[i] = s[j]
        BY <4>1, <4>2
      <4> QED BY <1>2, <4>3
    <3> HIDE DEF f, R
    <3> QED BY <3>1, <3>2 DEF Bijection, Injection, IsInjective, Surjection
  <2>2. IsFiniteSet(1..k) /\ Cardinality(1..k) = k
    BY FS_Interval
  <2>3. ExistsBijection(1..k, R)
    BY <2>1 DEF ExistsBijection
  <2> QED BY <1>2, <2>2, <2>3, FS_Bijection
<1>8. Out = T \ R
  BY <1>3
<1>9. Cardinality(Out) = Cardinality(alive) - k
  <2>1. T \cap R = R
    BY <1>6
  <2>2. \A A, B : IsFiniteSet(A) => Cardinality(A \ B) = Cardinality(A) - Cardinality(A \cap B)
    BY FS_Difference
  <2> HIDE DEF T, R, Out
  <2> QED BY <1>5, <1>7, <1>8, <2>1, <2>2
<1> HIDE DEF Out
<1>10. Cardinality(Out) = IF Cardinality(alive) > n THEN Cardinality(alive) - n ELSE 0
  BY <1>1, <1>2, <1>9
<1>11. \A i, j \in DOMAIN l : l[i].pid = l[j].pid => i = j
  <2> SUFFICES ASSUME NEW i \in 1..k, NEW j \in 1..k, l[i].pid = l[j].pid
               PROVE  i = j
    BY <1>3
  <2>1. s[i] = s[j]
    BY <1>4
  <2> QED BY <1>2, <2>1
<1>12. \A i \in DOMAIN l : l[i].gen = gen[l[i].pid]
  <2> SUFFICES ASSUME NEW i \in 1..k
               PROVE  l[i].gen = gen[l[i].pid]
    BY <1>3
  <2> QED BY <1>4
<1> QED BY <1>10, <1>11, <1>12 DEF Out

(* Every step keeps what the listing is.                                   *)
LEMMA ListStep == TypeInv /\ ListInv /\ [Next]_vars => ListInv'
<1> SUFFICES ASSUME TypeInv, ListInv, [Next]_vars PROVE ListInv'
  OBVIOUS
<1> USE DEF ListInv
<1>0. ASSUME UNCHANGED <<pids, present, caller>>
      PROVE  Unlisted' = Unlisted /\ Overflow' = Overflow
  BY <1>0 DEF Unlisted, Overflow
<1>1. CASE Machine
  <2>1. PICK p \in Pid : Exit(p) \/ Start(p)
    BY <1>1 DEF Machine
  <2>2. UNCHANGED <<pids, present, pc, caller, ip>>
    BY <2>1 DEF Exit, Start, controlVars
  <2>3. \A q \in Pid : gen[q] <= gen'[q] /\ gen[q] \in Nat /\ gen'[q] \in Nat
    <3>1. gen \in [Pid -> Nat]
      BY BoundAssumption DEF TypeInv, ControlOK
    <3>2. CASE Exit(p)
      BY <3>1, <3>2 DEF Exit
    <3>3. CASE Start(p)
      <4>1. gen' = [gen EXCEPT ![p] = gen[p] + 1]
        BY <3>3 DEF Start
      <4> QED BY <3>1, <4>1
    <3> QED BY <2>1, <3>2, <3>3
  <2>4. \A j \in DOMAIN pids : pids[j].pid \in Pid /\ pids[j].gen \in Nat
    <3>1. \A j \in DOMAIN pids : pids[j] \in Identity
      BY DEF TypeInv, ControlOK
    <3> QED BY <3>1 DEF Identity
  <2>5. \A q \in present : q.pid \in Pid /\ q.gen \in Nat
    BY DEF TypeInv, ControlOK, Identity
  <2> QED BY <1>0, <2>2, <2>3, <2>4, <2>5
<1>2. CASE ProcessEnumerate \/ thProcessEnumerate
  <2>a. Cardinality(alive) \in Nat /\ Capacity \in Nat
    BY PidAssumption, BoundAssumption, FS_Subset, FS_CardinalityType DEF TypeInv, ControlOK
  <2>p. present' = {Listed(p) : p \in alive}
    BY <1>2 DEF ProcessEnumerate, thProcessEnumerate, BeginSession
  <2>0. PICK n \in Nat :
          /\ \E s \in Listings(n) : pids' = [i \in DOMAIN s |-> Listed(s[i])]
          /\ Overflow' = IF Cardinality(alive) > n THEN Cardinality(alive) - n ELSE 0
    <3>0. Cardinality(present') = Cardinality(alive)
      BY <2>p, PresentSize DEF TypeInv
    <3>1. CASE ProcessEnumerate
      <4>1. caller' = "ProcessEnumerator"
        BY <3>1 DEF ProcessEnumerate, BeginSession
      <4>2. Overflow' = IF Cardinality(alive) > Capacity THEN Cardinality(alive) - Capacity ELSE 0
        BY <3>0, <4>1 DEF Overflow
      <4> QED BY <2>a, <3>1, <4>2 DEF ProcessEnumerate
    <3>2. CASE thProcessEnumerate
      <4>1. caller' = "thProcessEnumerator"
        BY <3>2 DEF thProcessEnumerate, BeginSession
      <4>2. Overflow' = 0
        BY <4>1 DEF Overflow
      <4>3. \E s \in Listings(Cardinality(alive)) : pids' = [i \in DOMAIN s |-> Listed(s[i])]
        BY <3>2 DEF thProcessEnumerate
      <4>4. Overflow' = IF Cardinality(alive) > Cardinality(alive)
                        THEN Cardinality(alive) - Cardinality(alive) ELSE 0
        BY <2>a, <4>2
      <4> QED BY <2>a, <4>3, <4>4
    <3> QED BY <1>2, <3>1, <3>2
  <2>1. PICK s \in Listings(n) : pids' = [i \in DOMAIN s |-> Listed(s[i])]
    BY <2>0
  <2>2. /\ present' = {Listed(p) : p \in alive} /\ gen' = gen /\ ip' = 1 /\ pc' = "init"
    BY <1>2 DEF ProcessEnumerate, thProcessEnumerate, BeginSession, machineVars
  <2>s. PICK l : l = pids'
    OBVIOUS
  <2>t. /\ \A i, j \in DOMAIN l : l[i].pid = l[j].pid => i = j
        /\ \A i \in DOMAIN l : l[i].gen = gen[l[i].pid]
        /\ Cardinality({q \in {Listed(p) : p \in alive} : \A i \in DOMAIN l : l[i] # q})
             = IF Cardinality(alive) > n THEN Cardinality(alive) - n ELSE 0
    BY <2>1, <2>s, ListingIs DEF TypeInv
  <2>3. /\ \A i, j \in DOMAIN pids' : pids'[i].pid = pids'[j].pid => i = j
        /\ \A i \in DOMAIN pids' : pids'[i].gen = gen[pids'[i].pid]
        /\ Cardinality({q \in {Listed(p) : p \in alive} : \A i \in DOMAIN pids' : pids'[i] # q})
             = IF Cardinality(alive) > n THEN Cardinality(alive) - n ELSE 0
    BY <2>s, <2>t
  <2>4. \A q \in present' : q.gen = gen[q.pid]
    BY <2>2 DEF Listed
  <2>5. \A i \in DOMAIN pids' : pids'[i].pid \in Pid
    <3>1. pids' \in Seq(Identity)
      BY NextType DEF TypeInv, ControlOK
    <3>2. \A i \in DOMAIN pids' : pids'[i] \in Identity
      BY <3>1
    <3> QED BY <3>2 DEF Identity
  <2>6. \A q \in present' : q.pid \in Pid
    BY <2>2 DEF Listed, TypeInv, ControlOK
  <2>7. \A p \in Pid : gen'[p] = gen[p] /\ gen[p] \in Nat
    BY <2>2 DEF TypeInv, ControlOK
  <2>8. Cardinality(Unlisted') <= Overflow'
    <3>1. Cardinality(Unlisted') = Overflow'
      BY <2>0, <2>2, <2>3 DEF Unlisted
    <3>2. Overflow' \in Int
      BY <2>a, <2>0
    <3> QED BY <3>1, <3>2
  <2> QED BY <2>2, <2>3, <2>4, <2>5, <2>6, <2>7, <2>8
<1>3. CASE UNCHANGED <<pids, present, gen, caller, ip>> /\ (pc' \in Busy => pc \in Busy)
           /\ pc' # "init" /\ (pc' \in {"final", "close"} => ip > Len(pids))
  BY <1>0, <1>3
<1>4. CASE pids' = << >> /\ present' = {} /\ pc' = "idle"
  BY <1>4 DEF Busy
<1>5. CASE InitializeReceivers
  BY <1>0, <1>5 DEF InitializeReceivers, machineVars, Busy
<1>6. CASE NextPid
  <2>1. Len(pids) \in Nat /\ ip \in Nat
    BY DEF TypeInv, ControlOK
  <2> QED BY <1>3, <1>6, <2>1 DEF NextPid, MorePids, machineVars, Busy
<1>7. CASE SendPid2Receivers
  <2>1. UNCHANGED <<pids, present, gen, caller>> /\ pc = "send" /\ pc' \in {"send", "pid", "hung"}
    BY <1>7, ReceivePidType DEF SendPid2Receivers
  <2> QED BY <1>0, <2>1 DEF Busy
<1>8. CASE FinalizeReceivers
  BY <1>3, <1>4, <1>8 DEF FinalizeReceivers, EndSession, machineVars, Busy
<1>9. CASE thCloseReport
  BY <1>4, <1>9 DEF thCloseReport, EndSession
<1>10. CASE Main
  BY <1>2, <1>3, <1>10 DEF Main, AddReceiver, thEnumerateFails, MainReturns, machineVars,
                           controlVars, Busy
<1>11. CASE UNCHANGED vars
  BY <1>0, <1>11 DEF vars, machineVars, controlVars
<1> QED BY <1>1, <1>5, <1>6, <1>7, <1>8, <1>9, <1>10, <1>11 DEF Next, Enumerate, Terminating

(* While no step went wrong, a document that is open is thProcesses.xml,   *)
(* or belongs to exactly one of the positions Enumerate has initialised:   *)
(* a second request of a name gives NULL and takes the first one's away.   *)
Steady == pc # "hung" /\ crash = {}

Spot(n, i) ==
    /\ i \in DOMAIN Vec /\ Vec[i] = n /\ Initialised(i)
    /\ \A j \in DOMAIN Vec : Vec[j] = n /\ (pc = "init" => j < ir) => j = i

OpenInv ==
    /\ m_doc \subseteq m_map /\ m_doc \subseteq m_root
    /\ m_doc \subseteq m_bWork \cup {TH}
    /\ Receiver \subseteq m_bWork \cup m_map
    /\ pc = "init" => \A i \in DOMAIN Vec : i < ir => Vec[i] \in m_map
    /\ Steady => \A n \in m_doc :
         \/ n = TH /\ caller = "thProcessEnumerator" /\ pc \in Busy
         \/ n # TH /\ \E i \in DOMAIN Vec : Spot(n, i)

(* Producer n has had entry j of the listing.                              *)
Sent(n, j) ==
    \/ j < ip
    \/ /\ j = ip /\ pc = "send"
       /\ n = TH \/ \E i \in DOMAIN Vec : Vec[i] = n /\ i < ir

(* What a row is about, and that the rows of a report are about different  *)
(* pids.                                                                   *)
Describes(n, a) == a.of = IF n \in {HEAP, MODULES} THEN SnapshotPid(a.pid) ELSE a.pid

Once(n, s) ==
    /\ \A i \in DOMAIN s : Describes(n, s[i])
    /\ \A i, j \in DOMAIN s : s[i].pid = s[j].pid => i = j

(* The rows of an open report are those of the entries its producer has    *)
(* had: none of another pid, and none missing of a process that still runs *)
(* - unless the report is one of those whose snapshots may fail.           *)
RowsFit(n) ==
    /\ Once(n, tree[n])
    /\ \A k \in DOMAIN tree[n] : \E j \in DOMAIN pids :
         pids[j].pid = tree[n][k].pid /\ Sent(n, j)
    /\ n \notin Snapshots =>
         \A j \in DOMAIN pids : Lives(pids[j]) /\ Sent(n, j) =>
           \E k \in DOMAIN tree[n] :
             tree[n][k].pid = pids[j].pid /\ tree[n][k].gen = pids[j].gen

RowsInv ==
    /\ \A n \in saved : Once(n, files[n])
    /\ Steady => \A n \in m_doc : RowsFit(n)

(* A report without a new row still fits when no entry was taken from its  *)
(* producer, and none was given to it that needs a row.                    *)
LEMMA FitsSame ==
    ASSUME NEW n, RowsFit(n), UNCHANGED <<pids, tree[n]>>,
           \A j \in DOMAIN pids : Sent(n, j) => Sent(n, j)',
           \A j \in DOMAIN pids :
             n \notin Snapshots /\ Lives(pids[j])' /\ Sent(n, j)' =>
               Lives(pids[j]) /\ Sent(n, j)
    PROVE  RowsFit(n)'
<1>1. Once(n, tree[n])'
  BY DEF RowsFit, Once
<1>2. \A k \in DOMAIN tree'[n] : \E j \in DOMAIN pids' :
        pids'[j].pid = tree'[n][k].pid /\ Sent(n, j)'
  BY DEF RowsFit
<1>3. ASSUME n \notin Snapshots, NEW j \in DOMAIN pids', Lives(pids[j])', Sent(n, j)'
      PROVE  \E k \in DOMAIN tree'[n] :
               tree'[n][k].pid = pids'[j].pid /\ tree'[n][k].gen = pids'[j].gen
  BY <1>3 DEF RowsFit
<1> QED BY <1>1, <1>2, <1>3 DEF RowsFit

(* It still fits when the entry its producer is given gets its row.        *)
LEMMA FitsAppend ==
    ASSUME TypeInv, ListInv, NEW n \in Name, RowsFit(n), NEW a, a \in Row,
           tree'[n] = Append(tree[n], a),
           pids' = pids, ip \in DOMAIN pids, a.pid = pids[ip].pid, Describes(n, a),
           ~Sent(n, ip),
           \A j \in DOMAIN pids : Sent(n, j)' <=> Sent(n, j) \/ j = ip,
           \A j \in DOMAIN pids : Lives(pids[j])' => Lives(pids[j]),
           n \notin Snapshots /\ Lives(pids[ip]) => a.gen = pids[ip].gen
    PROVE  RowsFit(n)'
<1>1. tree[n] \in Seq(Row)
  BY DEF TypeInv, ReportOK, ReportType
<1> DEFINE new == Len(tree[n]) + 1
<1>2. /\ DOMAIN tree'[n] = DOMAIN tree[n] \cup {new} /\ new \notin DOMAIN tree[n]
      /\ tree'[n][new] = a
      /\ \A k \in DOMAIN tree[n] : tree'[n][k] = tree[n][k]
  <2> HIDE DEF Row
  <2> QED BY <1>1
<1> HIDE DEF new
<1>3. \A k \in DOMAIN tree[n] : tree[n][k].pid # a.pid
  BY DEF RowsFit, ListInv
<1>4. Once(n, tree[n])'
  BY <1>2, <1>3 DEF RowsFit, Once, Describes
<1>5. \A k \in DOMAIN tree'[n] : \E j \in DOMAIN pids' :
        pids'[j].pid = tree'[n][k].pid /\ Sent(n, j)'
  BY <1>2 DEF RowsFit
<1>6. ASSUME n \notin Snapshots, NEW j \in DOMAIN pids', Lives(pids[j])', Sent(n, j)'
      PROVE  \E k \in DOMAIN tree'[n] :
               tree'[n][k].pid = pids'[j].pid /\ tree'[n][k].gen = pids'[j].gen
  BY <1>2, <1>6 DEF RowsFit
<1> QED BY <1>4, <1>5, <1>6 DEF RowsFit

(* A process that runs and has had its pid since it was listed ran before. *)
LEMMA LivesBefore ==
    ASSUME TypeInv, ListInv, Machine \/ UNCHANGED <<alive, gen>>, pids' = pids,
           NEW j \in DOMAIN pids, Lives(pids[j])'
    PROVE  Lives(pids[j])
<1>1. CASE UNCHANGED <<alive, gen>>
  BY <1>1 DEF Lives
<1>2. CASE Machine
  <2>1. PICK p \in Pid : Exit(p) \/ Start(p)
    BY <1>2 DEF Machine
  <2>2. pids[j] \in Identity
    BY DEF TypeInv, ControlOK
  <2>3. pids[j].pid \in Pid /\ pids[j].gen \in Nat
    BY <2>2 DEF Identity
  <2>4. gen \in [Pid -> Nat]
    BY BoundAssumption DEF TypeInv, ControlOK
  <2>5. CASE Exit(p)
    BY <2>5 DEF Exit, Lives
  <2>6. CASE Start(p)
    <3>1. gen' = [gen EXCEPT ![p] = gen[p] + 1] /\ alive' = alive \cup {p}
      BY <2>6 DEF Start
    <3>2. pids[j].gen <= gen[pids[j].pid] /\ gen'[pids[j].pid] = pids[j].gen
      BY DEF ListInv, Lives
    <3>3. pids[j].pid # p
      BY <2>3, <2>4, <3>1, <3>2
    <3> QED BY <2>3, <2>4, <3>1, <3>3 DEF Lives
  <2> QED BY <2>1, <2>5, <2>6
<1> QED BY <1>1, <1>2

(* What a receiver does with a pid: a row about that pid at the end of its *)
(* own report, or no row and then a reason.                                *)
LEMMA LinkRowAppends ==
    ASSUME ReportOK, NEW n \in Name, NEW row, LinkRow(n, row)
    PROVE  /\ \A m \in Name \ {n} : tree'[m] = tree[m]
           /\ crash' # {} \/ tree'[n] = Append(tree[n], row)
BY DEF LinkRow, Crash, ReportOK, ReportType

(* A receiver that lists every process that can be opened.                 *)
NeedsRow(r, p) == r \notin Snapshots /\ p \in alive \ Protected

(* The row that a receiver adds describes the process that is alive now,   *)
(* and a process that can be opened gets its row.                          *)
LEMMA ReceivePidRows ==
    ASSUME TypeInv, NEW r \in Receiver, NEW p \in Pid, ReceivePid(r, p)
    PROVE  /\ \A n \in Name \ {r} : tree'[n] = tree[n]
           /\ \/ ~Steady'
              \/ tree'[r] = tree[r] /\ ~NeedsRow(r, p)
              \/ \E a \in Row : /\ tree'[r] = Append(tree[r], a)
                                /\ a.pid = p /\ Describes(r, a)
                                /\ NeedsRow(r, p) => a.gen = gen[p]
<1> USE DEF TypeInv
<1> gen[p] \in 0..MaxGen /\ 0 \in 0..MaxGen
  BY BoundAssumption DEF ControlOK
<1>0. r \in Name
  BY ReceiverName
<1>1. CASE tree' = tree /\ ~NeedsRow(r, p)
  BY <1>1
<1>2. CASE pc' = "hung" /\ tree' = tree
  BY <1>2 DEF Steady
<1>3. ASSUME NEW g \in 0..MaxGen, LinkRow(r, RowOf(p, g)), r \notin {HEAP, MODULES},
             NeedsRow(r, p) => g = gen[p]
      PROVE  /\ \A n \in Name \ {r} : tree'[n] = tree[n]
             /\ ~Steady' \/ \E a \in Row : /\ tree'[r] = Append(tree[r], a)
                                           /\ a.pid = p /\ Describes(r, a)
                                           /\ NeedsRow(r, p) => a.gen = gen[p]
  <2> DEFINE a == RowOf(p, g)
  <2>1. a \in Row /\ a.pid = p /\ Describes(r, a) /\ (NeedsRow(r, p) => a.gen = gen[p])
    BY <1>3 DEF RowOf, Row, Describes
  <2>2. LinkRow(r, a)
    BY <1>3
  <2> HIDE DEF a
  <2> QED BY <1>0, <2>1, <2>2, LinkRowAppends DEF Steady
<1>4. ASSUME SnapshotReceivePid(r, p), r \in {HEAP, MODULES}
      PROVE  /\ \A n \in Name \ {r} : tree'[n] = tree[n]
             /\ \/ ~Steady'
                \/ tree'[r] = tree[r] /\ ~NeedsRow(r, p)
                \/ \E a \in Row : /\ tree'[r] = Append(tree[r], a)
                                  /\ a.pid = p /\ Describes(r, a)
                                  /\ NeedsRow(r, p) => a.gen = gen[p]
  <2> DEFINE a == [pid |-> p, of |-> SnapshotPid(p), gen |-> gen[SnapshotPid(p)]]
  <2>1. SnapshotPid(p) \in Pid
    BY PidAssumption DEF SnapshotPid
  <2>2. a \in Row /\ a.pid = p /\ Describes(r, a)
    BY <1>4, <2>1 DEF Row, Describes, ControlOK
  <2>3. ~NeedsRow(r, p)
    BY <1>4 DEF NeedsRow, Snapshots
  <2>4. LinkRow(r, a) \/ tree' = tree
    BY <1>4 DEF SnapshotReceivePid, reportVars
  <2> HIDE DEF a
  <2> QED BY <1>0, <2>2, <2>3, <2>4, LinkRowAppends DEF Steady
<1>c. NeedsRow(r, p) => CanOpen(p)
  BY DEF NeedsRow, CanOpen
<1>d. /\ DLL \notin {HEAP, MODULES} /\ REGION \notin {HEAP, MODULES}
      /\ MEMINFO \notin {HEAP, MODULES} /\ THREAD \notin {HEAP, MODULES}
  BY DEF DLL, REGION, MEMINFO, HEAP, MODULES, THREAD
<1>5. CASE r = DLL /\ DllReceivePid(p)
  <2>1. CASE LinkRow(r, RowOf(p, gen[p]))
    BY <1>3, <1>5, <1>d, <2>1
  <2> QED BY <1>1, <1>2, <1>5, <1>c, <2>1 DEF DllReceivePid, reportVars
<1>6. CASE r = REGION /\ MemoryRegionReceivePid(p)
  <2>1. CASE LinkRow(r, RowOf(p, gen[p]))
    BY <1>3, <1>6, <1>d, <2>1
  <2> QED BY <1>1, <1>6, <1>c, <2>1 DEF MemoryRegionReceivePid, reportVars
<1>7. CASE r = MEMINFO /\ MemoryInfoReceivePid(p)
  <2>1. CASE CanOpen(p)
    BY <1>3, <1>7, <1>d, <2>1 DEF MemoryInfoReceivePid
  <2>2. CASE ~CanOpen(p)
    BY <1>3, <1>7, <1>c, <1>d, <2>2 DEF MemoryInfoReceivePid
  <2> QED BY <2>1, <2>2
<1>8. CASE r = THREAD /\ ThreadReceivePid(p)
  <2>1. ~NeedsRow(r, p)
    BY <1>8 DEF NeedsRow, Snapshots
  <2>2. CASE UNCHANGED reportVars
    BY <1>1, <2>1, <2>2 DEF reportVars
  <2>3. CASE LinkRow(THREAD, RowOf(p, IF p \in alive THEN gen[p] ELSE 0))
    BY <1>3, <1>8, <1>d, <2>1, <2>3
  <2> QED BY <1>8, <2>2, <2>3 DEF ThreadReceivePid
<1>9. CASE (r = HEAP /\ HeapReceivePid(p)) \/ (r = MODULES /\ ModuleReceivePid(p))
  BY <1>4, <1>9 DEF HeapReceivePid, ModuleReceivePid
<1> QED BY <1>5, <1>6, <1>7, <1>8, <1>9 DEF ReceivePid

(* A report that a step leaves alone fits after it.                        *)
LEMMA FitsKept ==
    ASSUME TypeInv, ListInv, Machine \/ UNCHANGED <<alive, gen>>,
           NEW n, RowsFit(n), UNCHANGED <<pids, tree[n]>>,
           \A j \in DOMAIN pids : Sent(n, j)' <=> Sent(n, j)
    PROVE  RowsFit(n)'
BY FitsSame, LivesBefore

(* Processes that exit and start disturb no report.                        *)
LEMMA RowsMachine ==
    ASSUME TypeInv, ListInv, OpenInv, RowsInv, Machine \/ UNCHANGED vars
    PROVE  OpenInv' /\ RowsInv'
<1>1. UNCHANGED <<controlVars, reportVars>>
  BY DEF Machine, Exit, Start, vars
<1>2. UNCHANGED <<pids, pc, caller, ip, ir, m_vecReceivers, Vec>>
  BY <1>1 DEF controlVars, Vec
<1>3. OpenInv'
  BY <1>1, <1>2 DEF OpenInv, Steady, Spot, Initialised, reportVars
<1>4. \A n, j : Sent(n, j)' <=> Sent(n, j)
  BY <1>2 DEF Sent
<1>5. Machine \/ UNCHANGED <<alive, gen>>
  BY DEF vars, machineVars
<1>6. \A n \in m_doc : RowsFit(n) => RowsFit(n)'
  BY <1>1, <1>2, <1>4, <1>5, FitsKept DEF reportVars
<1> QED BY <1>1, <1>2, <1>3, <1>6 DEF RowsInv, Steady, reportVars

(* Initialize opens a report that nobody has asked for before, without     *)
(* rows, and closes to its producer one that was asked for.                *)
LEMMA InitializeOpens ==
    ASSUME TypeInv, OpenInv, NEW r \in Name,
           (r \in Receiver /\ InitializeReceiver(r)) \/ InitializeUnchecked(r)
    PROVE  /\ m_doc' = IF r \in m_map THEN m_doc \ {r} ELSE m_doc \cup {r}
           /\ m_map' = m_map \cup {r}
           /\ UNCHANGED <<files, saved, crash>>
           /\ m_doc' \subseteq m_root'
           /\ m_bWork \subseteq m_bWork' \cup {r}
           /\ r \notin m_map /\ r \in Receiver => m_bWork' = m_bWork
           /\ r \notin Receiver => m_bWork' = m_bWork
           /\ \A n \in m_doc' : tree'[n] = IF n = r THEN << >> ELSE tree[n]
<1>1. GetDocument(r) /\ UNCHANGED <<files, saved, crash>>
  BY DEF InitializeReceiver, InitializeChecked, InitializeUnchecked
<1>2. NewRoot(r) \/ (r \notin m_bWork' /\ UNCHANGED <<m_root, tree>>)
  BY DEF InitializeReceiver, InitializeChecked, InitializeUnchecked
<1>3. m_bWork' = m_bWork \/ (r \in m_map /\ r \in Receiver /\ m_bWork' = m_bWork \ {r})
  BY DEF InitializeReceiver, InitializeChecked, InitializeUnchecked, GetDocument
<1>4. NewRoot(r) \/ (r \in m_map /\ UNCHANGED <<m_root, tree>>)
  <2>1. CASE r \in Receiver
    BY <1>2, <1>3, <2>1 DEF OpenInv
  <2>2. CASE r \notin Receiver
    BY <2>2 DEF InitializeUnchecked
  <2> QED BY <2>1, <2>2
<1>5. m_doc' = (IF r \in m_map THEN m_doc \ {r} ELSE m_doc \cup {r}) /\ m_map' = m_map \cup {r}
  BY <1>1 DEF GetDocument
<1>6. m_doc' \subseteq m_root'
  BY <1>4, <1>5 DEF NewRoot, OpenInv
<1>7. \A n \in m_doc' : tree'[n] = IF n = r THEN << >> ELSE tree[n]
  <2>1. m_doc' \subseteq Name /\ tree \in [Name -> Seq(Row)]
    BY <1>5 DEF TypeInv, ReportOK, ReportType
  <2> QED BY <1>4, <1>5, <2>1 DEF NewRoot
<1> QED BY <1>1, <1>3, <1>5, <1>6, <1>7

(* While the receivers are initialised no entry has been sent.             *)
LEMMA RowsInitialize ==
    ASSUME TypeInv, ListInv, OpenInv, RowsInv, InitializeReceivers
    PROVE  OpenInv' /\ RowsInv'
<1>1. /\ UNCHANGED <<alive, gen, pids, caller, ip, m_vecReceivers, Vec>>
      /\ pc = "init" /\ ip = 1 /\ Steady
  BY DEF InitializeReceivers, machineVars, Vec, ListInv, Steady, Running
<1>2. ir \in Nat \ {0} /\ Vec \in Seq(Receiver) /\ DOMAIN Vec = 1..Len(Vec) /\ Len(Vec) \in Nat
  BY VecType DEF TypeInv, ControlOK
<1>3. \A n : \A j \in DOMAIN pids : ~Sent(n, j)
  BY <1>1 DEF Sent, TypeInv, ControlOK
<1>4. CASE MoreReceivers
  <2>1. PICK r \in Receiver : r = Vec[ir] /\ InitializeReceiver(r)
    BY <1>4 DEF InitializeReceivers
  <2>2. ir' = ir + 1 /\ pc' = "init" /\ ir \in DOMAIN Vec
    BY <1>1, <1>2, <1>4 DEF InitializeReceivers, MoreReceivers
  <2>3. /\ m_doc' = IF r \in m_map THEN m_doc \ {r} ELSE m_doc \cup {r}
        /\ m_map' = m_map \cup {r}
        /\ UNCHANGED <<files, saved, crash>>
        /\ m_doc' \subseteq m_root'
        /\ m_bWork \subseteq m_bWork' \cup {r}
        /\ r \notin m_map => m_bWork' = m_bWork
        /\ \A n \in m_doc' : tree'[n] = IF n = r THEN << >> ELSE tree[n]
    BY <2>1, InitializeOpens, ReceiverName
  <2>4. \A n \in m_doc' : n # TH => \E i \in DOMAIN Vec' : Spot(n, i)'
    <3>1. ASSUME r \notin m_map
          PROVE  \E i \in DOMAIN Vec' : Spot(r, i)'
      <4>1. \A j \in DOMAIN Vec : Vec[j] = r /\ j < ir + 1 => j = ir
        BY <1>1, <1>2, <2>2, <3>1 DEF OpenInv
      <4>2. PICK i \in DOMAIN Vec : i = ir
        BY <2>2
      <4>3. Spot(r, i)'
        BY <1>1, <1>2, <2>1, <2>2, <4>1, <4>2 DEF Spot, Initialised
      <4> QED BY <1>1, <4>3
    <3>2. ASSUME NEW n \in m_doc, n # r, n # TH
          PROVE  \E i \in DOMAIN Vec' : Spot(n, i)'
      <4>1. PICK i \in DOMAIN Vec : Spot(n, i)
        BY <1>1, <3>2 DEF OpenInv
      <4>2. Spot(n, i)'
        BY <1>1, <1>2, <2>1, <2>2, <3>2, <4>1 DEF Spot, Initialised
      <4> QED BY <1>1, <4>2
    <3> QED BY <1>1, <2>2, <2>3, <3>1, <3>2
  <2>5. OpenInv'
    <3>1. \A n \in m_doc' : n = TH => caller' = "thProcessEnumerator" /\ pc' \in Busy
      BY <1>1, <2>1, <2>2, <2>3, ReceiverName DEF OpenInv, Busy, Spot
    <3>2. \A i \in DOMAIN Vec : i < ir + 1 => Vec[i] \in m_map'
      BY <1>1, <1>2, <2>1, <2>3 DEF OpenInv
    <3>3. m_doc' \subseteq m_map' /\ m_doc' \subseteq m_bWork' \cup {TH}
      BY <2>1, <2>3 DEF OpenInv
    <3>4. Receiver \subseteq m_bWork' \cup m_map'
      BY <2>3 DEF OpenInv
    <3> QED BY <1>1, <2>2, <2>3, <2>4, <3>1, <3>2, <3>3, <3>4 DEF OpenInv
  <2>6. \A n \in m_doc' : RowsFit(n)'
    <3>1. \A n : \A j \in DOMAIN pids' : ~Sent(n, j)'
      BY <1>1, <2>2 DEF Sent, TypeInv, ControlOK
    <3>2. ASSUME r \in m_doc' PROVE RowsFit(r)'
      <4>1. tree'[r] = << >>
        BY <2>3, <3>2
      <4> QED BY <3>1, <4>1 DEF RowsFit, Once
    <3>3. ASSUME NEW n \in m_doc', n # r PROVE RowsFit(n)'
      <4>1. n \in m_doc /\ tree'[n] = tree[n]
        BY <2>3, <3>3
      <4>2. RowsFit(n)
        BY <1>1, <4>1 DEF RowsInv
      <4> QED BY <1>1, <1>3, <3>1, <4>1, <4>2, FitsKept
    <3> QED BY <3>2, <3>3
  <2> QED BY <2>3, <2>5, <2>6 DEF RowsInv
<1>5. CASE ~MoreReceivers
  <2>1. pc' = "pid" /\ UNCHANGED <<ir, reportVars>>
    BY <1>5 DEF InitializeReceivers
  <2>2. \A n : \A i \in DOMAIN Vec : Spot(n, i) => Spot(n, i)'
    BY <1>1, <1>2, <1>5, <2>1 DEF Spot, Initialised, MoreReceivers
  <2>3. OpenInv'
    BY <1>1, <2>1, <2>2 DEF OpenInv, Busy, reportVars
  <2>4. \A n : \A j \in DOMAIN pids : ~Sent(n, j)'
    BY <1>1, <2>1 DEF Sent, TypeInv, ControlOK
  <2>5. \A n \in m_doc : RowsFit(n)'
    BY <1>1, <1>3, <2>1, <2>4, FitsKept DEF RowsInv, reportVars
  <2> QED BY <2>1, <2>3, <2>5 DEF RowsInv, reportVars
<1> QED BY <1>4, <1>5

(* At the head of the loop thProcessEnumerator makes the row of the entry  *)
(* it is about to send.                                                    *)
LEMMA RowsNextPid ==
    ASSUME TypeInv, ListInv, OpenInv, RowsInv, NextPid
    PROVE  OpenInv' /\ RowsInv'
<1>1. /\ UNCHANGED <<alive, gen, pids, caller, ip, m_vecReceivers, Vec>>
      /\ pc = "pid" /\ pc' \in {"send", "final"} /\ ir' = 1 /\ Steady
  BY DEF NextPid, machineVars, Vec, Steady, Running
<1>2. UNCHANGED <<m_map, m_doc, m_root, m_bWork, files, saved>>
  BY NextPidFrame
<1>3. ip \in Nat /\ \A i \in DOMAIN Vec : i \in Nat /\ i >= 1
  BY VecType DEF TypeInv, ControlOK
<1>4. OpenInv'
  <2>1. \A n : \A i \in DOMAIN Vec : Spot(n, i) => Spot(n, i)'
    BY <1>1, <1>3 DEF Spot, Initialised
  <2> QED BY <1>1, <1>2, <2>1 DEF OpenInv, Busy
<1>5. \A n : \A j \in DOMAIN pids : n # TH \/ pc' = "final" => (Sent(n, j)' <=> Sent(n, j))
  BY <1>1, <1>3 DEF Sent
<1>6. ASSUME NEW n \in m_doc, UNCHANGED tree[n], n # TH \/ pc' = "final"
      PROVE  RowsFit(n)'
  <2>1. RowsFit(n)
    BY <1>1 DEF RowsInv
  <2> QED BY <1>1, <1>5, <1>6, <2>1, FitsKept
<1>7. CASE MorePids /\ caller = "thProcessEnumerator"
  <2>1. PICK entry \in Identity : entry = pids[ip] /\ LinkRow(TH, RowOf(entry.pid, entry.gen))
    BY <1>7 DEF NextPid, printProcess
  <2> DEFINE a == RowOf(entry.pid, entry.gen)
  <2>2. a \in Row /\ a.pid = entry.pid /\ a.gen = entry.gen /\ Describes(TH, a)
    BY DEF RowOf, Row, Identity, Describes, TH, HEAP, MODULES
  <2>3. LinkRow(TH, a)
    BY <2>1
  <2> HIDE DEF a
  <2>4. pc' = "send" /\ ip \in DOMAIN pids
    <3>1. DOMAIN pids = 1..Len(pids) /\ Len(pids) \in Nat /\ ip >= 1
      BY DEF TypeInv, ControlOK
    <3> QED BY <1>3, <1>7, <3>1 DEF NextPid, MorePids
  <2>5. ASSUME Steady', TH \in m_doc
        PROVE  RowsFit(TH)'
    <3>1. tree'[TH] = Append(tree[TH], a)
      BY <2>3, <2>5, LinkRowAppends, ReceiverName DEF Steady, TypeInv
    <3>2. RowsFit(TH)
      BY <1>1, <2>5 DEF RowsInv
    <3>3. ~Sent(TH, ip) /\ \A j \in DOMAIN pids : Sent(TH, j)' <=> Sent(TH, j) \/ j = ip
      BY <1>1, <1>3, <2>4 DEF Sent
    <3>4. \A j \in DOMAIN pids : Lives(pids[j])' => Lives(pids[j])
      BY <1>1, LivesBefore
    <3> QED BY <1>1, <2>1, <2>2, <2>4, <3>1, <3>2, <3>3, <3>4, FitsAppend, ReceiverName
  <2>6. \A n \in m_doc \ {TH} : RowsFit(n)'
    <3>1. \A n \in m_doc \ {TH} : tree'[n] = tree[n]
      <4>1. m_doc \subseteq Name /\ TH \in Name /\ ReportOK
        BY ReceiverName DEF TypeInv, ReportOK, ReportType
      <4> QED BY <2>3, <4>1, LinkRowAppends
    <3> QED BY <1>6, <3>1
  <2> QED BY <1>1, <1>2, <1>4, <2>5, <2>6 DEF RowsInv
<1>8. CASE ~(MorePids /\ caller = "thProcessEnumerator")
  <2>1. tree' = tree
    BY <1>8 DEF NextPid, reportVars
  <2>2. \A n \in m_doc : n # TH \/ pc' = "final"
    BY <1>1, <1>8 DEF OpenInv, NextPid
  <2> QED BY <1>1, <1>2, <1>4, <1>6, <2>1, <2>2 DEF RowsInv
<1> QED BY <1>7, <1>8

(* Each pid is sent to every producer with an open report once.            *)
LEMMA RowsSend ==
    ASSUME TypeInv, ListInv, OpenInv, RowsInv, SendPid2Receivers
    PROVE  OpenInv' /\ RowsInv'
<1>1. /\ UNCHANGED <<alive, gen, pids, caller, m_vecReceivers, Vec>>
      /\ pc = "send" /\ Steady
  BY DEF SendPid2Receivers, Vec, Steady, Running
<1>2. /\ ip \in Nat \ {0} /\ ip \in DOMAIN pids
      /\ ir \in Nat \ {0} /\ DOMAIN Vec = 1..Len(Vec) /\ Len(Vec) \in Nat
      /\ \A j \in DOMAIN pids : j \in Nat
  BY <1>1, VecType DEF TypeInv, ControlOK
<1>3. \A j \in DOMAIN pids : Lives(pids[j])' <=> Lives(pids[j])
  BY <1>1 DEF Lives
<1>4. CASE MoreReceivers
  <2>1. PICK r \in Receiver, p \in Pid : r = Vec[ir] /\ p = pids[ip].pid /\ ReceivePid(r, p)
    BY <1>4 DEF SendPid2Receivers
  <2>2. UNCHANGED <<m_map, m_doc, m_root, m_bWork, files, saved>>
    BY <2>1, ReceivePidFrame
  <2>3. ir' = ir + 1 /\ ip' = ip /\ pc' \in {"send", "hung"} /\ ir \in DOMAIN Vec
    BY <1>1, <1>2, <1>4, <2>1, ReceivePidType DEF SendPid2Receivers, MoreReceivers
  <2>4. OpenInv'
    <3>1. pc' = "send" => \A n : \A i \in DOMAIN Vec : Spot(n, i) => Spot(n, i)'
      BY <1>1 DEF Spot, Initialised
    <3> QED BY <1>1, <2>2, <2>3, <3>1 DEF OpenInv, Busy, Steady
  <2>5. ASSUME Steady', NEW n \in m_doc, n # r
        PROVE  RowsFit(n)'
    <3>1. tree'[n] = tree[n]
      BY <2>1, <2>5, ReceivePidRows DEF TypeInv, ReportOK, ReportType
    <3>2. \A j \in DOMAIN pids : Sent(n, j)' <=> Sent(n, j)
      BY <1>1, <1>2, <2>1, <2>3, <2>5 DEF Sent, Steady
    <3>3. RowsFit(n)
      BY <1>1, <2>5 DEF RowsInv
    <3> QED BY <1>1, <3>1, <3>2, <3>3, FitsKept
  <2>6. ASSUME Steady', r \in m_doc
        PROVE  RowsFit(r)'
    <3>1. r # TH /\ r \in Name
      BY ReceiverName
    <3>2. \A i \in DOMAIN Vec : Vec[i] = r => i = ir
      BY <1>1, <2>1, <2>3, <2>6, <3>1 DEF OpenInv, Spot
    <3>3. ~Sent(r, ip) /\ \A j \in DOMAIN pids : Sent(r, j)' <=> Sent(r, j) \/ j = ip
      <4>1. pc' = "send"
        BY <2>3, <2>6 DEF Steady
      <4> QED BY <1>1, <1>2, <2>1, <2>3, <3>1, <3>2, <4>1 DEF Sent
    <3>4. RowsFit(r)
      BY <1>1, <2>6 DEF RowsInv
    <3>5. NeedsRow(r, p) <=> r \notin Snapshots /\ p \in alive \ Protected
      BY DEF NeedsRow
    <3>6. CASE tree'[r] = tree[r] /\ ~NeedsRow(r, p)
      BY <1>1, <1>3, <2>1, <3>3, <3>4, <3>5, <3>6, FitsSame DEF Lives
    <3>7. ASSUME NEW a \in Row, tree'[r] = Append(tree[r], a), a.pid = p, Describes(r, a),
                 NeedsRow(r, p) => a.gen = gen[p]
          PROVE  RowsFit(r)'
      <4>1. r \notin Snapshots /\ Lives(pids[ip]) => a.gen = pids[ip].gen
        BY <2>1, <3>5, <3>7 DEF Lives
      <4> QED BY <1>1, <1>2, <1>3, <2>1, <3>1, <3>3, <3>4, <3>7, <4>1, FitsAppend
    <3> QED BY <2>1, <2>6, <3>6, <3>7, ReceivePidRows
  <2> QED BY <1>1, <2>2, <2>4, <2>5, <2>6 DEF RowsInv
<1>5. CASE ~MoreReceivers
  <2>1. pc' = "pid" /\ ip' = ip + 1 /\ UNCHANGED <<ir, reportVars>>
    BY <1>5 DEF SendPid2Receivers, Advance
  <2>2. OpenInv'
    <3>1. \A n : \A i \in DOMAIN Vec : Spot(n, i) => Spot(n, i)'
      BY <1>1, <2>1 DEF Spot, Initialised
    <3> QED BY <1>1, <2>1, <3>1 DEF OpenInv, Busy, reportVars
  <2>3. ASSUME NEW n \in m_doc
        PROVE  RowsFit(n)'
    <3>1. \A i \in DOMAIN Vec : i < ir
      BY <1>2, <1>5 DEF MoreReceivers
    <3>2. n = TH \/ \E i \in DOMAIN Vec : Vec[i] = n
      BY <1>1, <2>3 DEF OpenInv, Spot
    <3>3. \A j \in DOMAIN pids : Sent(n, j)' <=> Sent(n, j)
      BY <1>1, <1>2, <2>1, <3>1, <3>2 DEF Sent
    <3>4. RowsFit(n)
      BY <1>1, <2>3 DEF RowsInv
    <3> QED BY <1>1, <2>1, <3>3, <3>4, FitsKept DEF reportVars
  <2> QED BY <1>1, <2>1, <2>2, <2>3 DEF RowsInv, reportVars
<1> QED BY <1>4, <1>5

(* Closing a report writes its rows, all of them, and leaves every other   *)
(* report alone.                                                           *)
LEMMA CloseWrites ==
    ASSUME ReportOK, NEW n \in Name, CloseReport(n), crash' = {}
    PROVE  /\ n \in m_doc /\ n \in m_root
           /\ m_doc' = m_doc \ {n} /\ m_root' = m_root \ {n}
           /\ UNCHANGED <<m_map, m_bWork>>
           /\ \A m \in Name \ {n} : tree'[m] = tree[m]
           /\ UNCHANGED <<saved, files>> \/ (saved' = saved \cup {n} /\ files'[n] = tree[n])
           /\ \A m \in Name \ {n} : files'[m] = files[m]
<1>1. CASE n \in m_doc /\ n \in m_root /\ SaveFile(n) /\ Release(n)
             /\ UNCHANGED <<m_map, m_bWork, crash>>
  BY <1>1 DEF SaveFile, Release, ReportOK, ReportType
<1>2. CASE Crash(n)
  BY <1>2 DEF Crash
<1> QED BY <1>1, <1>2 DEF CloseReport

(* Or the thread is lost before anything is written.                       *)
LEMMA CloseCrashes ==
    ASSUME NEW n, CloseReport(n), crash = {}, crash' # {}
    PROVE  UNCHANGED <<m_map, heap, m_doc, m_root, m_bWork, tree, files, saved>>
BY DEF CloseReport, Crash

(* What is saved is a report that fits, and what stays open still fits.    *)
LEMMA RowsClose ==
    ASSUME TypeInv, ListInv, OpenInv, RowsInv, Steady, NEW n \in Name, CloseReport(n),
           UNCHANGED <<alive, gen>>,
           \A m \in m_doc' : m # n =>
             pids' = pids /\ \A j \in DOMAIN pids : Sent(m, j)' <=> Sent(m, j)
    PROVE  RowsInv'
<1> USE DEF TypeInv
<1>1. CASE crash' = {}
  <2>1. /\ n \in m_doc /\ m_doc' = m_doc \ {n}
        /\ \A m \in Name \ {n} : tree'[m] = tree[m]
        /\ UNCHANGED <<saved, files>> \/ (saved' = saved \cup {n} /\ files'[n] = tree[n])
        /\ \A m \in Name \ {n} : files'[m] = files[m]
    BY <1>1, CloseWrites
  <2>2. Once(n, tree[n])
    BY <2>1 DEF RowsInv, RowsFit
  <2>3. \A m \in saved' : Once(m, files'[m])
    <3>1. saved \subseteq Name
      BY DEF ReportOK, ReportType
    <3> QED BY <2>1, <2>2, <3>1 DEF RowsInv
  <2>4. ASSUME NEW m \in m_doc'
        PROVE  RowsFit(m)'
    <3>1. m \in m_doc /\ m # n /\ m \in Name
      BY <2>1, <2>4 DEF ReportOK, ReportType
    <3>2. RowsFit(m) /\ tree'[m] = tree[m]
      BY <2>1, <3>1 DEF RowsInv
    <3> QED BY <3>1, <3>2, FitsKept
  <2> QED BY <2>3, <2>4 DEF RowsInv, Once
<1>2. CASE crash' # {}
  BY <1>2, CloseCrashes DEF RowsInv, Steady, Once
<1> QED BY <1>1, <1>2

(* Finalize closes the open reports one by one.                            *)
LEMMA RowsFinalize ==
    ASSUME TypeInv, ListInv, OpenInv, RowsInv, FinalizeReceivers
    PROVE  OpenInv' /\ RowsInv'
<1>1. /\ UNCHANGED <<alive, gen, caller, m_vecReceivers, Vec>>
      /\ pc = "final" /\ Steady
  BY DEF FinalizeReceivers, machineVars, Vec, Steady, Running
<1>2. /\ ip \in Nat \ {0} /\ ir \in Nat \ {0} /\ DOMAIN Vec = 1..Len(Vec) /\ Len(Vec) \in Nat
  BY VecType DEF TypeInv, ControlOK
<1>3. CASE MoreReceivers
  <2>1. PICK r \in Receiver : r = Vec[ir] /\ FinalizeReport(r)
    BY <1>3 DEF FinalizeReceivers
  <2>2. ir' = ir + 1 /\ UNCHANGED <<pc, pids, ip>>
    BY <1>1, <1>3 DEF FinalizeReceivers
  <2>3. r \in Name /\ r # TH
    BY ReceiverName
  <2>4. \A m, j : Sent(m, j)' <=> Sent(m, j)
    BY <1>1, <2>2 DEF Sent
  <2>5. CASE crash' # {} /\ CloseReport(r)
    <3>1. UNCHANGED <<m_map, m_doc, m_root, m_bWork>>
      BY <1>1, <2>5, CloseCrashes DEF Steady
    <3>2. OpenInv'
      BY <1>1, <2>2, <2>5, <3>1 DEF OpenInv, Steady
    <3>3. RowsInv'
      BY <1>1, <2>2, <2>3, <2>4, <2>5, RowsClose
    <3> QED BY <3>2, <3>3
  <2>6. CASE crash' = {} /\ CloseReport(r)
    <3>1. /\ r \in m_doc /\ m_doc' = m_doc \ {r} /\ m_root' = m_root \ {r}
          /\ UNCHANGED <<m_map, m_bWork>>
      BY <2>3, <2>6, CloseWrites DEF TypeInv
    <3>2. ASSUME NEW n \in m_doc', n # TH
          PROVE  \E i \in DOMAIN Vec' : Spot(n, i)'
      <4>1. PICK i \in DOMAIN Vec : Spot(n, i)
        BY <1>1, <3>1, <3>2 DEF OpenInv
      <4>2. Spot(n, i)'
        BY <1>1, <1>2, <2>1, <2>2, <3>1, <3>2, <4>1 DEF Spot, Initialised
      <4> QED BY <1>1, <4>2
    <3>3. OpenInv'
      BY <1>1, <2>2, <2>6, <3>1, <3>2 DEF OpenInv, Steady, Busy
    <3>4. RowsInv'
      BY <1>1, <2>2, <2>3, <2>4, <2>6, RowsClose
    <3> QED BY <3>3, <3>4
  <2>7. CASE r \notin m_bWork /\ UNCHANGED reportVars
    <3>1. \A n \in m_doc : n # r
      BY <2>3, <2>7 DEF OpenInv
    <3>2. ASSUME NEW n \in m_doc, n # TH
          PROVE  \E i \in DOMAIN Vec' : Spot(n, i)'
      <4>1. PICK i \in DOMAIN Vec : Spot(n, i)
        BY <1>1, <3>2 DEF OpenInv
      <4>2. Spot(n, i)'
        BY <1>1, <1>2, <2>1, <2>2, <3>1, <3>2, <4>1 DEF Spot, Initialised
      <4> QED BY <1>1, <4>2
    <3>3. OpenInv'
      BY <1>1, <2>2, <2>7, <3>2 DEF OpenInv, Steady, Busy, reportVars
    <3>4. \A n \in m_doc : RowsFit(n)'
      BY <1>1, <2>2, <2>4, <2>7, FitsKept DEF RowsInv, reportVars
    <3> QED BY <2>7, <3>3, <3>4 DEF RowsInv, Once, reportVars
  <2> QED BY <2>1, <2>5, <2>6, <2>7 DEF FinalizeReport
<1>4. CASE ~MoreReceivers
  <2>1. UNCHANGED reportVars
    BY <1>4 DEF FinalizeReceivers
  <2>2. \A n \in m_doc : n = TH /\ caller = "thProcessEnumerator"
    <3>1. \A n : \A i \in DOMAIN Vec : ~Spot(n, i)
      BY <1>1, <1>2, <1>4 DEF Spot, Initialised, MoreReceivers
    <3> QED BY <1>1, <3>1 DEF OpenInv
  <2>3. \/ pc' = "close" /\ UNCHANGED <<pids, ip>>
        \/ pc' = "idle" /\ caller = "ProcessEnumerator"
    BY <1>4 DEF FinalizeReceivers, EndSession
  <2>4. OpenInv'
    BY <1>1, <2>1, <2>2, <2>3 DEF OpenInv, Steady, Busy, reportVars
  <2>5. \A n \in m_doc : RowsFit(n)'
    <3>1. \A n \in m_doc : UNCHANGED <<pids, ip>> /\ pc' = "close"
      BY <2>2, <2>3
    <3>2. \A n \in m_doc : \A j \in DOMAIN pids : Sent(n, j)' <=> Sent(n, j)
      BY <1>1, <3>1 DEF Sent
    <3> QED BY <1>1, <2>1, <3>1, <3>2, FitsKept DEF RowsInv, reportVars
  <2> QED BY <1>1, <2>1, <2>4, <2>5 DEF RowsInv, Once, reportVars
<1> QED BY <1>3, <1>4

(* thProcesses.xml is the last one to be closed.                           *)
LEMMA RowsCloseOwn ==
    ASSUME TypeInv, ListInv, OpenInv, RowsInv, thCloseReport
    PROVE  OpenInv' /\ RowsInv'
<1>1. /\ UNCHANGED <<alive, gen, caller, m_vecReceivers, Vec>>
      /\ pc = "close" /\ pc' = "idle" /\ CloseReport(TH) /\ Steady
  BY DEF thCloseReport, EndSession, machineVars, Vec, Steady, Running
<1>2. \A n \in m_doc : n = TH
  BY <1>1 DEF OpenInv, Spot, Initialised
<1>3. /\ \A n \in m_doc' : n = TH
      /\ crash' = {} => m_doc' = {} /\ UNCHANGED <<m_map, m_bWork>>
      /\ crash' # {} => UNCHANGED <<m_map, m_doc, m_root, m_bWork>>
  BY <1>1, <1>2, CloseWrites, CloseCrashes, ReceiverName DEF Steady, TypeInv
<1>4. OpenInv'
  BY <1>1, <1>3 DEF OpenInv, Steady
<1>5. RowsInv'
  BY <1>1, <1>3, RowsClose, ReceiverName
<1> QED BY <1>4, <1>5

(* Between two Enumerate calls no report is open.                          *)
LEMMA RowsMain ==
    ASSUME TypeInv, ListInv, OpenInv, RowsInv, Main
    PROVE  OpenInv' /\ RowsInv'
<1>1. pc = "idle" /\ Steady
  BY DEF Main, AddReceiver, thEnumerateFails, ProcessEnumerate, thProcessEnumerate,
         BeginSession, MainReturns, Steady, Running
<1>2. m_doc = {}
  BY <1>1 DEF OpenInv, Spot, Initialised, Busy
<1>3. CASE UNCHANGED reportVars /\ pc' # "init"
  BY <1>2, <1>3 DEF OpenInv, RowsInv, Once, reportVars
<1>4. CASE thEnumerateFails
  <2>1. TH \notin Receiver
    BY ReceiverName
  <2> QED BY <1>1, <1>2, <1>4, <2>1
          DEF thEnumerateFails, controlVars, OpenInv, RowsInv, Once, reportVars
<1>5. ASSUME NEW e \in Enumerator, BeginSession(e)
      PROVE  pc' = "init" /\ caller' = e /\ ir' = 1 /\ \A i \in DOMAIN Vec' : ~(i < ir')
  <2>1. pc' = "init" /\ caller' = e /\ ir' = 1 /\ Vec' = m_vecReceivers[e]
    BY <1>5 DEF BeginSession, Vec
  <2>2. \A i \in DOMAIN m_vecReceivers[e] : i \in Nat /\ i >= 1
    BY DEF TypeInv, ControlOK
  <2> QED BY <2>1, <2>2
<1>6. CASE ProcessEnumerate
  <2>1. pc' = "init" /\ UNCHANGED reportVars /\ \A i \in DOMAIN Vec' : ~(i < ir')
    BY <1>5, <1>6 DEF ProcessEnumerate, Enumerator
  <2> QED BY <1>2, <2>1 DEF OpenInv, RowsInv, Once, reportVars
<1>7. CASE thProcessEnumerate
  <2>1. /\ pc' = "init" /\ caller' = "thProcessEnumerator" /\ InitializeUnchecked(TH)
        /\ \A i \in DOMAIN Vec' : ~(i < ir')
    BY <1>5, <1>7 DEF thProcessEnumerate, Enumerator
  <2>2. /\ m_doc' = IF TH \in m_map THEN m_doc \ {TH} ELSE m_doc \cup {TH}
        /\ m_map' = m_map \cup {TH}
        /\ UNCHANGED <<files, saved, crash>>
        /\ m_doc' \subseteq m_root' /\ m_bWork' = m_bWork
        /\ \A n \in m_doc' : tree'[n] = IF n = TH THEN << >> ELSE tree[n]
    BY <2>1, InitializeOpens, ReceiverName
  <2>3. OpenInv'
    BY <1>2, <2>1, <2>2 DEF OpenInv, Busy
  <2>4. ASSUME TH \in m_doc'
        PROVE  RowsFit(TH)'
    <3>1. tree'[TH] = << >>
      BY <2>2, <2>4
    <3>2. \A j \in DOMAIN pids' : ~Sent(TH, j)'
      <4>1. ip' = 1
        BY <1>7 DEF thProcessEnumerate, BeginSession
      <4>2. pids' \in Seq(Identity)
        BY NextType DEF TypeInv, ControlOK, Next
      <4> QED BY <2>1, <4>1, <4>2 DEF Sent
    <3> QED BY <3>1, <3>2 DEF RowsFit, Once
  <2> QED BY <1>2, <2>2, <2>3, <2>4 DEF RowsInv, Once
<1> QED BY <1>1, <1>3, <1>4, <1>6, <1>7 DEF Main, AddReceiver, MainReturns

(* Hence every step keeps the three.                                       *)
LEMMA RowsStep ==
    TypeInv /\ ListInv /\ OpenInv /\ RowsInv /\ [Next]_vars => OpenInv' /\ RowsInv'
BY RowsMachine, RowsInitialize, RowsNextPid, RowsSend, RowsFinalize, RowsCloseOwn, RowsMain
   DEF Next, Enumerate, Terminating

(* They hold before main makes its first call.                             *)
LEMMA RowsStart == Init => ListInv /\ OpenInv /\ RowsInv
<1> SUFFICES ASSUME Init PROVE ListInv /\ OpenInv /\ RowsInv
  OBVIOUS
<1>1. Receiver \subseteq m_bWork
  BY ReceiverName DEF Init, ReportInit
<1> QED BY <1>1 DEF Init, ReportInit, ListInv, OpenInv, RowsInv, Busy

(* And in every reachable state.                                           *)
LEMMA RowsInvariant == Spec => [](ListInv /\ OpenInv /\ RowsInv)
<1>1. TypeInv /\ (ListInv /\ OpenInv /\ RowsInv) /\ [Next]_vars
        => (ListInv /\ OpenInv /\ RowsInv)'
  BY ListStep, RowsStep
<1> QED BY <1>1, RowsStart, TypeInvariant, PTL DEF Spec

(* Whatever receivers are registered, how often and with which enumerator, *)
(* a written report has at most one row for a pid, and two rows about one  *)
(* process only where a snapshot of pid 0 describes enum_process itself.   *)
THEOREM AtMostOneRow == Spec => []OneRowPerPid
<1>1. RowsInv => OneRowPerPid
  <2> SUFFICES ASSUME RowsInv, NEW n \in saved, NEW i \in DOMAIN files[n],
                      NEW j \in DOMAIN files[n]
               PROVE  LET a == files[n][i]
                          b == files[n][j]
                      IN  /\ a.pid = b.pid => i = j
                          /\ a.of = b.of =>
                               \/ i = j
                               \/ n \in {HEAP, MODULES} /\ {a.pid, b.pid} = {Idle, Self}
    BY DEF OneRowPerPid
  <2>1. /\ Describes(n, files[n][i]) /\ Describes(n, files[n][j])
        /\ files[n][i].pid = files[n][j].pid => i = j
    BY DEF RowsInv, Once
  <2> QED BY <2>1 DEF Describes, SnapshotPid
<1> QED BY <1>1, RowsInvariant, PTL

(* A report is written with a row of every process that was listed and     *)
(* still runs, so that it misses no more processes than the listing was    *)
(* short of, for any number of processes that exit and start and any reuse *)
(* of pids in the meantime.                                                *)
THEOREM NoRowMissing == Spec => SavedIsComplete
<1> DEFINE Complete ==
      \A n \in (saved' \ saved) \ Snapshots : Cardinality(Missing(files'[n])) <= Overflow
<1>1. TypeInv /\ (ListInv /\ OpenInv /\ RowsInv) /\ [Next]_vars => Complete \/ UNCHANGED vars
  <2> SUFFICES ASSUME TypeInv, ListInv, OpenInv, RowsInv, Next,
                      NEW n \in (saved' \ saved) \ Snapshots
               PROVE  Cardinality(Missing(files'[n])) <= Overflow
    OBVIOUS
  <2>1. CASE Machine \/ InitializeReceivers \/ NextPid \/ SendPid2Receivers \/ Main
             \/ UNCHANGED saved
    <3>1. saved' = saved
      BY <2>1, ReceivePidFrame, NextPidFrame
         DEF Machine, Exit, Start, InitializeReceivers, InitializeReceiver, InitializeChecked,
             InitializeUnchecked, SendPid2Receivers, Main, AddReceiver, thEnumerateFails,
             ProcessEnumerate, thProcessEnumerate, MainReturns, controlVars, reportVars
    <3> QED BY <3>1
  <2>2. CASE FinalizeReceivers \/ thCloseReport
    <3>1. pc \in {"final", "close"} /\ Steady
      BY <2>2 DEF FinalizeReceivers, thCloseReport, Steady, Running
    <3>2. PICK m \in Name : CloseReport(m)
      BY <2>2, ReceiverName DEF FinalizeReceivers, FinalizeReport, thCloseReport, reportVars
    <3>3. n = m /\ n \in m_doc /\ files'[n] = tree[n]
      <4>1. crash' = {}
        BY <3>1, <3>2, CloseCrashes DEF Steady
      <4> QED BY <3>2, <4>1, CloseWrites DEF TypeInv
    <3>4. Missing(files'[n]) \subseteq Unlisted
      <4> SUFFICES ASSUME NEW q \in Missing(files'[n]), NEW j \in DOMAIN pids, pids[j] = q
                   PROVE  FALSE
        BY DEF Missing, Unlisted
      <4>1. Sent(n, j)
        BY <3>1 DEF ListInv, Sent, TypeInv, ControlOK
      <4> QED BY <3>1, <3>3, <4>1 DEF RowsInv, RowsFit, Missing, Lives
    <3>5. IsFiniteSet(Unlisted) /\ Cardinality(Unlisted) <= Overflow
      BY <3>1, PresentFinite DEF ListInv, Busy
    <3>6. Overflow \in Int
      BY PresentFinite, FS_CardinalityType, BoundAssumption DEF Overflow
    <3>7. /\ Cardinality(Missing(files'[n])) <= Cardinality(Unlisted)
          /\ Cardinality(Missing(files'[n])) \in Nat /\ Cardinality(Unlisted) \in Nat
      BY <3>4, <3>5, FS_Subset, FS_CardinalityType
    <3> QED BY <3>5, <3>6, <3>7
  <2> QED BY <2>1, <2>2 DEF Next, Enumerate, Terminating, vars, reportVars
<1> QED BY <1>1, RowsInvariant, TypeInvariant, PTL DEF Spec, SavedIsComplete

-----------------------------------------------------------------------------
(* The pid pipeline implements ReportLifecycle.                            *)

(* The reports whose document exists were asked for, have a root and were  *)
(* not written; a producer that tests its document and has not asked for   *)
(* it is working, so that it gets its root together with it.               *)
LifeInv ==
    /\ m_doc \subseteq m_map
    /\ saved \subseteq m_map
    /\ saved \cap m_doc = {}
    /\ m_doc \subseteq m_root
    /\ Checked \ m_map \subseteq m_bWork

(* A receiver's or thProcessEnumerator's initialisation, as one action.    *)
Initialize(n) == (n \in Checked /\ InitializeChecked(n)) \/ InitializeUnchecked(n)

-----------------------------------------------------------------------------
(* Every step that touches the reports is one of four kinds.               *)
ReportStep ==
    \/ UNCHANGED <<m_map, m_doc, m_root, tree, files, saved>> /\ m_bWork \ {TH} \subseteq m_bWork'
    \/ \E n \in Name : Initialize(n)
    \/ \E n \in Name, row \in Row : LinkRow(n, row)
    \/ \E n \in Name : CloseReport(n)

(* What a receiver does with a pid is nothing or one row.                  *)
LEMMA ReceivePidLinks ==
    ASSUME TypeInv, NEW r \in Receiver, NEW p \in Pid, ReceivePid(r, p)
    PROVE  UNCHANGED reportVars \/ \E n \in Name, row \in Row : LinkRow(n, row)
<1>n. {DLL, REGION, MEMINFO, HEAP, MODULES, THREAD} \subseteq Name
  BY DEF Name, Checked, Unchecked
<1>r. \A g \in 0..MaxGen : RowOf(p, g) \in Row
  BY DEF RowOf, Row
<1>g. gen[p] \in 0..MaxGen /\ 0 \in 0..MaxGen
  BY BoundAssumption DEF TypeInv, ControlOK
<1>1. CASE DllReceivePid(p)
  BY <1>1, <1>n, <1>r, <1>g DEF DllReceivePid
<1>2. CASE MemoryRegionReceivePid(p)
  BY <1>2, <1>n, <1>r, <1>g DEF MemoryRegionReceivePid
<1>3. CASE MemoryInfoReceivePid(p)
  BY <1>3, <1>n, <1>r, <1>g DEF MemoryInfoReceivePid
<1>4. CASE HeapReceivePid(p) \/ ModuleReceivePid(p)
  <2>1. SnapshotPid(p) \in Pid
    BY PidAssumption DEF SnapshotPid
  <2>2. [pid |-> p, of |-> SnapshotPid(p), gen |-> gen[SnapshotPid(p)]] \in Row
    BY <2>1 DEF TypeInv, ControlOK, Row
  <2> QED BY <1>4, <2>2, <1>n DEF HeapReceivePid, ModuleReceivePid, SnapshotReceivePid
<1>5. CASE ThreadReceivePid(p)
  BY <1>5, <1>n, <1>r, <1>g DEF ThreadReceivePid
<1> QED BY <1>1, <1>2, <1>3, <1>4, <1>5 DEF ReceivePid

(* Every step of the pipeline is one of the few kinds of step of one report.*)
LEMMA StepIsReportStep == TypeInv /\ [Next]_vars => ReportStep
<1> SUFFICES ASSUME TypeInv, [Next]_vars PROVE ReportStep
  OBVIOUS
<1>0. CASE UNCHANGED reportVars
  BY <1>0 DEF ReportStep, reportVars
<1>1. CASE Machine \/ UNCHANGED vars
  BY <1>0, <1>1 DEF Machine, Exit, Start, vars
<1>2. CASE InitializeReceivers
  <2>1. UNCHANGED reportVars \/ \E r \in Receiver : InitializeReceiver(r)
    BY <1>2 DEF InitializeReceivers
  <2> QED BY <1>0, <2>1, ReceiverName DEF InitializeReceiver, Initialize, ReportStep
<1>3. CASE NextPid
  <2>1. UNCHANGED reportVars \/ \E entry \in Identity : printProcess(entry)
    BY <1>3 DEF NextPid
  <2>2. \A entry \in Identity : RowOf(entry.pid, entry.gen) \in Row
    BY DEF Identity, RowOf, Row
  <2> QED BY <1>0, <2>1, <2>2, ReceiverName DEF printProcess, ReportStep
<1>4. CASE SendPid2Receivers
  <2>1. UNCHANGED reportVars \/ \E r \in Receiver, p \in Pid : ReceivePid(r, p)
    BY <1>4 DEF SendPid2Receivers
  <2> QED BY <1>0, <2>1, ReceivePidLinks DEF ReportStep
<1>5. CASE FinalizeReceivers
  <2>1. UNCHANGED reportVars \/ \E r \in Receiver : FinalizeReport(r)
    BY <1>5 DEF FinalizeReceivers
  <2> QED BY <1>0, <2>1, ReceiverName DEF FinalizeReport, ReportStep
<1>6. CASE thCloseReport
  BY <1>6, ReceiverName DEF thCloseReport, ReportStep
<1>7. CASE thProcessEnumerate
  BY <1>7, ReceiverName DEF thProcessEnumerate, Initialize, ReportStep
<1>8. CASE thEnumerateFails
  BY <1>8 DEF thEnumerateFails, ReportStep
<1>9. CASE Main
  BY <1>0, <1>7, <1>8, <1>9 DEF Main, AddReceiver, ProcessEnumerate, MainReturns
<1> QED BY <1>1, <1>2, <1>3, <1>4, <1>5, <1>6, <1>9 DEF Next, Enumerate, Terminating

(* The invariant, one kind of step at a time.                              *)
LEMMA LifeStep == TypeInv /\ LifeInv /\ [Next]_vars => LifeInv'
<1> SUFFICES ASSUME TypeInv, LifeInv, ReportStep PROVE LifeInv'
  BY StepIsReportStep
<1>1. CASE /\ UNCHANGED <<m_map, m_doc, m_root, tree, files, saved>>
         /\ m_bWork \ {TH} \subseteq m_bWork'
  <2>1. TH \notin Checked
    BY DEF Checked, DLL, REGION, MEMINFO, TH
  <2> QED BY <1>1, <2>1 DEF LifeInv
<1>2. ASSUME NEW n \in Name, Initialize(n) PROVE LifeInv'
  <2>1. CASE n \in Checked /\ InitializeChecked(n)
    BY <2>1 DEF InitializeChecked, GetDocument, NewRoot, LifeInv
  <2>2. CASE InitializeUnchecked(n)
    BY <2>2 DEF InitializeUnchecked, GetDocument, NewRoot, LifeInv
  <2> QED BY <1>2, <2>1, <2>2 DEF Initialize
<1>3. ASSUME NEW n \in Name, NEW row \in Row, LinkRow(n, row) PROVE LifeInv'
  BY <1>3 DEF LinkRow, Crash, LifeInv
<1>4. ASSUME NEW n \in Name, CloseReport(n) PROVE LifeInv'
  BY <1>4 DEF CloseReport, SaveFile, Release, Crash, LifeInv
<1> QED BY <1>1, <1>2, <1>3, <1>4 DEF ReportStep

(* The invariant holds in every reachable state.                           *)
LEMMA LifeInvariant == Spec => []LifeInv
<1>1. Init => LifeInv
  BY DEF Init, ReportInit, LifeInv, Name
<1> QED BY <1>1, LifeStep, TypeInvariant, PTL DEF Spec

-----------------------------------------------------------------------------
(* The refinement mapping of ImplementsLifecycle.                          *)
phaseMap == [n \in Name |-> phaseOf(n)]
contentMap == [n \in Name |->
    IF phaseOf(n) = "open" THEN tree[n]
    ELSE IF phaseOf(n) = "published" THEN files[n] ELSE << >>]

(* The pipeline starts where the lifecycle starts.                         *)
LEMMA InitMaps == Init => Lifecycle!Init
BY DEF Init, ReportInit, Lifecycle!Init, phaseOf

(* Initialize opens a report, and asked again gives up the open one.                    *)
LEMMA InitializeMaps ==
    ASSUME TypeInv, LifeInv, NEW m \in Name, Initialize(m)
    PROVE  Lifecycle!Next \/ UNCHANGED <<phaseMap, contentMap>>
<1>1. /\ GetDocument(m) /\ UNCHANGED <<files, saved>>
      /\ \A n \in Name : n # m => tree'[n] = tree[n]
      /\ m \notin m_map => tree'[m] = << >>
  BY DEF Initialize, InitializeChecked, InitializeUnchecked, NewRoot, GetDocument,
         LifeInv, TypeInv, ReportOK, ReportType
<1>2. \A n \in Name : n # m => phaseOf(n)' = phaseOf(n)
  BY <1>1 DEF phaseOf, GetDocument
<1>3. CASE m \notin m_map
  <2>1. phaseOf(m) = "new" /\ phaseOf(m)' = "open"
    BY <1>1, <1>3 DEF phaseOf, GetDocument
  <2>2. phaseMap' = [phaseMap EXCEPT ![m] = "open"] /\ contentMap' = contentMap
    <3>1. phaseMap' = [phaseMap EXCEPT ![m] = "open"]
      BY <1>2, <2>1 DEF phaseMap
    <3>2. tree'[m] = << >> /\ files' = files
      BY <1>1, <1>3
    <3>3. ASSUME NEW n \in Name
          PROVE  contentMap'[n] = contentMap[n]
      BY <1>1, <1>2, <2>1, <3>2 DEF contentMap
    <3> QED BY <3>1, <3>3 DEF contentMap
  <2>3. Lifecycle!Open(m)
    BY <2>1, <2>2 DEF Lifecycle!Open, phaseMap, contentMap
  <2> QED BY <2>3 DEF Lifecycle!Next
<1>4. CASE m \in m_map /\ m \in m_doc
  <2>1. phaseOf(m) = "open" /\ phaseOf(m)' = "dead"
    BY <1>1, <1>4 DEF phaseOf, GetDocument, LifeInv
  <2>2. phaseMap' = [phaseMap EXCEPT ![m] = "dead"]
          /\ contentMap' = [contentMap EXCEPT ![m] = << >>]
    BY <1>1, <1>2, <2>1 DEF phaseMap, contentMap
  <2>3. Lifecycle!GiveUp(m)
    BY <2>1, <2>2 DEF Lifecycle!GiveUp, phaseMap, contentMap
  <2> QED BY <2>3 DEF Lifecycle!Next
<1>5. CASE m \in m_map /\ m \notin m_doc
  <2>1. phaseOf(m)' = phaseOf(m) /\ phaseOf(m) # "open"
    BY <1>1, <1>5 DEF phaseOf, GetDocument
  <2> QED BY <1>1, <1>2, <2>1 DEF phaseMap, contentMap
<1> QED BY <1>3, <1>4, <1>5

(* Linking a row adds one to an open report; a crash maps to a stutter.           *)
LEMMA LinkRowMaps ==
    ASSUME TypeInv, LifeInv, NEW m \in Name, NEW row \in Row, LinkRow(m, row)
    PROVE  Lifecycle!Next \/ UNCHANGED <<phaseMap, contentMap>>
<1>1. \A n \in Name : phaseOf(n)' = phaseOf(n) /\ files'[n] = files[n]
  BY DEF LinkRow, Crash, phaseOf
<1>2. phaseMap' = phaseMap
  BY <1>1 DEF phaseMap
<1>3. CASE m \in m_doc
  <2>1. tree' = [tree EXCEPT ![m] = Append(tree[m], row)]
    BY <1>3 DEF LinkRow, LifeInv
  <2>2. phaseOf(m) = "open"
    BY <1>3 DEF phaseOf, LifeInv
  <2>3. contentMap' = [contentMap EXCEPT ![m] = Append(contentMap[m], row)]
    BY <1>1, <2>1, <2>2 DEF contentMap, TypeInv, ReportOK, ReportType
  <2>4. Lifecycle!Add(m)
    BY <1>2, <2>2, <2>3 DEF Lifecycle!Add, phaseMap, contentMap
  <2> QED BY <2>4 DEF Lifecycle!Next
<1>4. CASE m \notin m_doc
  <2>1. phaseOf(m) # "open"
    BY <1>4 DEF phaseOf
  <2>2. \A n \in Name : n # m => tree'[n] = tree[n]
    BY DEF LinkRow, Crash, TypeInv, ReportOK, ReportType
  <2>3. contentMap' = contentMap
    BY <1>1, <2>1, <2>2 DEF contentMap
  <2> QED BY <1>2, <2>3
<1> QED BY <1>3, <1>4

(* Closing a report publishes it or, when the save fails, gives it up.         *)
LEMMA CloseReportMaps ==
    ASSUME TypeInv, LifeInv, NEW m \in Name, CloseReport(m)
    PROVE  Lifecycle!Next \/ UNCHANGED <<phaseMap, contentMap>>
<1>1. CASE Crash(m)
  BY <1>1 DEF Crash, phaseMap, contentMap, phaseOf
<1>2. CASE m \in m_doc /\ m \in m_root /\ SaveFile(m) /\ Release(m) /\ UNCHANGED m_map
  <2>1. phaseOf(m) = "open" /\ m \notin saved /\ m \in m_map
    BY <1>2 DEF phaseOf, LifeInv
  <2>2. \A n \in Name : n # m =>
           phaseOf(n)' = phaseOf(n) /\ tree'[n] = tree[n] /\ files'[n] = files[n]
    BY <1>2 DEF phaseOf, SaveFile, Release, TypeInv, ReportOK, ReportType
  <2>3. CASE saved' = saved \cup {m} /\ files' = [files EXCEPT ![m] = tree[m]]
    <3>1. phaseOf(m)' = "published"
      BY <1>2, <2>1, <2>3 DEF phaseOf, Release
    <3>2. phaseMap' = [phaseMap EXCEPT ![m] = "published"] /\ contentMap' = contentMap
      BY <2>1, <2>2, <2>3, <3>1 DEF phaseMap, contentMap, TypeInv, ReportOK, ReportType
    <3>3. Lifecycle!Publish(m)
      BY <2>1, <3>2 DEF Lifecycle!Publish, phaseMap, contentMap
    <3> QED BY <3>3 DEF Lifecycle!Next
  <2>4. CASE UNCHANGED <<files, saved>>
    <3>1. phaseOf(m)' = "dead"
      BY <1>2, <2>1, <2>4 DEF phaseOf, Release
    <3>2. phaseMap' = [phaseMap EXCEPT ![m] = "dead"]
            /\ contentMap' = [contentMap EXCEPT ![m] = << >>]
      BY <2>1, <2>2, <3>1 DEF phaseMap, contentMap
    <3>3. Lifecycle!GiveUp(m)
      BY <2>1, <3>2 DEF Lifecycle!GiveUp, phaseMap, contentMap
    <3> QED BY <3>3 DEF Lifecycle!Next
  <2> QED BY <1>2, <2>3, <2>4 DEF SaveFile
<1> QED BY <1>1, <1>2 DEF CloseReport

(* Every report of the pipeline is opened at most once, only grows at its  *)
(* end while it is open, and is published once, whole, or given up - for   *)
(* any use of the enumerators and receivers, the misuses included.         *)
THEOREM PipelineImplementsLifecycle == Spec => ImplementsLifecycle
<1>1. TypeInv /\ LifeInv /\ [Next]_vars =>
        Lifecycle!Next \/ UNCHANGED <<phaseMap, contentMap>>
  <2> SUFFICES ASSUME TypeInv, LifeInv, ReportStep
               PROVE  Lifecycle!Next \/ UNCHANGED <<phaseMap, contentMap>>
    BY StepIsReportStep
  <2>1. CASE UNCHANGED <<m_map, m_doc, m_root, tree, files, saved>>
    BY <2>1 DEF phaseMap, contentMap, phaseOf
  <2> QED BY <2>1, InitializeMaps, LinkRowMaps, CloseReportMaps DEF ReportStep
<1>2. TypeInv /\ LifeInv /\ [Next]_vars =>
        [Lifecycle!Next]_<<[n \in Name |-> phaseOf(n)],
                           [n \in Name |->
                              IF phaseOf(n) = "open" THEN tree[n]
                              ELSE IF phaseOf(n) = "published" THEN files[n]
                              ELSE << >>]>>
  BY <1>1 DEF phaseMap, contentMap
<1> QED BY <1>2, InitMaps, LifeInvariant, TypeInvariant, PTL
        DEF Spec, ImplementsLifecycle, Lifecycle!Spec
=============================================================================

----------------------------- MODULE PidPipeline -----------------------------
(***************************************************************************)
(* The pid pipeline: an enumerator (ProcessEnumerator over EnumProcesses,  *)
(* or thProcessEnumerator over a Toolhelp snapshot) lists the pids of the  *)
(* machine and hands each one to the receivers registered with it, every   *)
(* receiver adding a row about that pid to its own XML report.  The        *)
(* program is one thread; processes of the machine exit and start, and     *)
(* pids are reused, between any two of its calls.                          *)
(***************************************************************************)
EXTENDS Report, FiniteSets

CONSTANTS
    Pid,            \* the pids of the machine
    Idle,           \* pid 0
    Self,           \* the pid of enum_process itself
    Protected,      \* pids whose process OpenProcess refuses to open
    Receiver,       \* the receivers this instance can register
    Capacity,       \* entries of the EnumProcesses buffer (1024 in the code)
    MaxReceivers,   \* bound: registrations, with both enumerators together
    MaxSessions,    \* bound: Enumerate calls that start, per enumerator
    MaxGen          \* bound: processes that use one pid in turn

DLL     == "dll.xml"
REGION  == "memory_region.xml"
MEMINFO == "processMemoryInfo.xml"
HEAP    == "heap.xml"
MODULES == "thModule.xml"
THREAD  == "thThread.xml"
TH      == "thProcesses.xml"

Checked == {DLL, REGION, MEMINFO}       \* InitializeReceiver tests m_doc
Unchecked == {HEAP, MODULES, THREAD}    \* InitializeReceiver does not
Snapshots == {HEAP, MODULES, THREAD}    \* ReceivePid gives up when its snapshot fails

Name == Checked \cup Unchecked \cup {TH}
Enumerator == {"ProcessEnumerator", "thProcessEnumerator"}

ASSUME PidAssumption ==
    /\ IsFiniteSet(Pid)
    /\ Idle \in Protected /\ Protected \subseteq Pid
    /\ Self \in Pid \ Protected
ASSUME ReceiverAssumption == Receiver \subseteq Checked \cup Unchecked
ASSUME BoundAssumption ==
    /\ Capacity \in Nat \ {0}
    /\ MaxReceivers \in Nat /\ MaxSessions \in Nat /\ MaxGen \in Nat \ {0}

VARIABLES
    alive,          \* pids in use by a running process
    gen,            \* gen[p]: how many processes have used pid p so far
    handles,        \* pids with a process handle that enum_process holds
    m_vecReceivers, \* per enumerator, the receivers registered with it
    pc,             \* where the thread is
    caller,         \* the enumerator whose Enumerate runs
    pids,           \* the listing it works on, as identities [pid, gen]
    ip,             \* its position in the listing
    ir,             \* its position in m_vecReceivers[caller]
    present,        \* history: the processes running when Enumerate listed them
    sessions        \* history: Enumerate calls started, per enumerator

machineVars == <<alive, gen, handles>>
controlVars == <<m_vecReceivers, pc, caller, pids, ip, ir, present, sessions>>
vars == <<machineVars, controlVars, reportVars>>

(* A process is a pid and how often the pid was taken; a row is the pid it *)
(* was asked for, the pid it describes and which process of that pid, with *)
(* 0 for none: the row holds no process's data.                            *)
Identity == [pid : Pid, gen : 0..MaxGen]
Row == [pid : Pid, of : Pid, gen : 0..MaxGen]

Vec == m_vecReceivers[caller]

(* The types, with the bounds of the two loops: neither reads past the end *)
(* of what it walks.                                                       *)
TypeOK ==
    /\ alive \subseteq Pid
    /\ gen \in [Pid -> 0..MaxGen]
    /\ handles \subseteq Pid
    /\ m_vecReceivers \in [Enumerator -> Seq(Receiver)]
    /\ pc \in {"idle", "init", "pid", "send", "final", "close", "hung", "exited"}
    /\ caller \in Enumerator
    /\ pids \in Seq(Identity)
    /\ ip \in 1..(Len(pids) + 1)
    /\ pc = "send" => ip <= Len(pids)
    /\ ir \in 1..(Len(Vec) + 1)
    /\ present \subseteq Identity
    /\ sessions \in [Enumerator -> Nat]
    /\ ReportType(Name, Row)

Init ==
    /\ alive \in {S \in SUBSET Pid : {Idle, Self} \subseteq S}
    /\ gen = [p \in Pid |-> IF p \in alive THEN 1 ELSE 0]
    /\ handles = {}
    /\ m_vecReceivers = [e \in Enumerator |-> << >>]
    /\ pc = "idle"
    /\ caller = "ProcessEnumerator"
    /\ pids = << >> /\ ip = 1 /\ ir = 1
    /\ present = {}
    /\ sessions = [e \in Enumerator |-> 0]
    /\ ReportInit(Name)

-----------------------------------------------------------------------------
(* The machine.  A pid is free for a new process only when its last one    *)
(* has exited and nobody holds a handle to it.                             *)
Exit(p) ==
    /\ p \in alive \ {Idle, Self}
    /\ alive' = alive \ {p}
    /\ UNCHANGED <<gen, handles, controlVars, reportVars>>

Start(p) ==
    /\ p \notin alive \cup handles
    /\ gen[p] < MaxGen
    /\ alive' = alive \cup {p}
    /\ gen' = [gen EXCEPT ![p] = @ + 1]
    /\ UNCHANGED <<handles, controlVars, reportVars>>

(* OpenProcess finds a process that runs, or one that exited and is kept   *)
(* by a handle.                                                            *)
CanOpen(p) == p \notin Protected /\ p \in alive \cup handles

(* Seeded fault: the handle is closed before ReceivePid returns.           *)
OpenAndClose(p) == UNCHANGED handles

(* ReceivePid never closes the handle it opened.                           *)
OpenProcess(p) == handles' = IF CanOpen(p) THEN handles \cup {p} ELSE handles

(* Which process a Toolhelp heap or module snapshot of pid p is about:     *)
(* pid 0 stands for the calling process.                                   *)
SnapshotPid(p) == IF p = Idle THEN Self ELSE p

CanSnapshot(p) == SnapshotPid(p) \in alive \ Protected

-----------------------------------------------------------------------------
(* The receivers.                                                          *)
RowOf(p, g) == [pid |-> p, of |-> p, gen |-> g]

(* DllEnumerator::ReceivePid.  A refused OpenProcess gives NULL, the test  *)
(* against INVALID_HANDLE_VALUE passes, the query on NULL fails and the    *)
(* row is dropped.  The walk of the target's module ring stops only when   *)
(* it meets the last module again, so a target that changes its ring or    *)
(* exits meanwhile can keep the thread there for ever.                     *)
DllReceivePid(p) ==
    /\ OpenProcess(p)
    /\ \/ /\ CanOpen(p)
          /\ LinkRow(DLL, RowOf(p, gen[p]))
          /\ UNCHANGED pc
       \/ /\ CanOpen(p)
          /\ pc' = "hung"
          /\ UNCHANGED reportVars
       \/ /\ ~CanOpen(p)
          /\ UNCHANGED <<pc, reportVars>>

MemoryRegionReceivePid(p) ==
    /\ OpenProcess(p)
    /\ IF CanOpen(p) THEN LinkRow(REGION, RowOf(p, gen[p])) ELSE UNCHANGED reportVars
    /\ UNCHANGED pc

(* ProcessMemoryInfo::ReceivePid ignores GetProcessMemoryInfo's result: a  *)
(* process it could not open gets a row of uninitialised counters.         *)
MemoryInfoReceivePid(p) ==
    /\ OpenProcess(p)
    /\ LinkRow(MEMINFO, RowOf(p, IF CanOpen(p) THEN gen[p] ELSE 0))
    /\ UNCHANGED pc

(* thHeapEnumerator::ReceivePid and thModuleEnumerator::ReceivePid: the    *)
(* snapshot of a running process may fail too, and is not retried.         *)
SnapshotReceivePid(r, p) ==
    /\ \/ /\ CanSnapshot(p)
          /\ LinkRow(r, [pid |-> p, of |-> SnapshotPid(p), gen |-> gen[SnapshotPid(p)]])
       \/ UNCHANGED reportVars
    /\ UNCHANGED <<handles, pc>>

HeapReceivePid(p) == SnapshotReceivePid(HEAP, p)
ModuleReceivePid(p) == SnapshotReceivePid(MODULES, p)

(* thThreadEnumerator::ReceivePid: the snapshot is of every thread of the  *)
(* machine; the row keeps those whose owner has this pid, perhaps none.    *)
(* This snapshot can fail too, and then there is no row.                   *)
ThreadReceivePid(p) ==
    /\ \/ LinkRow(THREAD, RowOf(p, IF p \in alive THEN gen[p] ELSE 0))
       \/ UNCHANGED reportVars
    /\ UNCHANGED <<handles, pc>>

InitializeReceiver(r) ==
    IF r \in Checked THEN InitializeChecked(r) ELSE InitializeUnchecked(r)

ReceivePid(r, p) ==
    \/ r = DLL /\ DllReceivePid(p)
    \/ r = REGION /\ MemoryRegionReceivePid(p)
    \/ r = MEMINFO /\ MemoryInfoReceivePid(p)
    \/ r = HEAP /\ HeapReceivePid(p)
    \/ r = MODULES /\ ModuleReceivePid(p)
    \/ r = THREAD /\ ThreadReceivePid(p)

-----------------------------------------------------------------------------
(* The enumerators.                                                        *)
Running == crash = {}

(* Seeded faults: the loops stop one receiver, or one pid, early; or the   *)
(* latter, over an array of pids, goes on to what lies behind it, or never *)
(* moves on.                                                               *)
MoreReceiversShort == ir < Len(Vec)
MorePidsLong == ip <= Len(pids) + (IF caller = "ProcessEnumerator" THEN 1 ELSE 0)
MorePidsShort == ip < Len(pids)
AdvanceStuck == ip' = ip

(* The conditions of the loops over m_vecReceivers and over the listing,   *)
(* and the step of the latter.                                             *)
MoreReceivers == ir <= Len(Vec)
MorePids == ip <= Len(pids)
Advance == ip' = ip + 1

AddReceiver(e, r) ==
    /\ Running /\ pc = "idle"
    /\ e = "thProcessEnumerator" => TH \in m_bWork
    /\ Len(m_vecReceivers["ProcessEnumerator"])
         + Len(m_vecReceivers["thProcessEnumerator"]) < MaxReceivers
    /\ m_vecReceivers' = [m_vecReceivers EXCEPT ![e] = Append(@, r)]
    /\ UNCHANGED <<machineVars, reportVars, pc, caller, pids, ip, ir, present, sessions>>

(* thProcessEnumerator without a snapshot stops taking receivers.  (The    *)
(* other enumerator just returns when EnumProcesses fails.)                *)
thEnumerateFails ==
    /\ Running /\ pc = "idle"
    /\ m_bWork' = m_bWork \ {TH}
    /\ UNCHANGED <<machineVars, controlVars, m_map, heap, m_doc, m_root, tree,
                   files, saved, crash>>

(* The listings of at most n of the running processes, in any order.       *)
Listings(n) ==
    LET size == IF Cardinality(alive) < n THEN Cardinality(alive) ELSE n
    IN  {s \in [1..size -> alive] : \A i, j \in 1..size : s[i] = s[j] => i = j}

Listed(p) == [pid |-> p, gen |-> gen[p]]

BeginSession(e) ==
    /\ Running /\ pc = "idle"
    /\ sessions[e] < MaxSessions
    /\ sessions' = [sessions EXCEPT ![e] = @ + 1]
    /\ present' = {Listed(p) : p \in alive}
    /\ caller' = e
    /\ pc' = "init"
    /\ ip' = 1 /\ ir' = 1
    /\ UNCHANGED <<machineVars, m_vecReceivers>>

(* ProcessEnumerator::Enumerate up to InitializeReceivers: EnumProcesses   *)
(* fills the buffer and drops the pids that do not fit.                    *)
ProcessEnumerate ==
    /\ BeginSession("ProcessEnumerator")
    /\ \E s \in Listings(Capacity) : pids' = [i \in DOMAIN s |-> Listed(s[i])]
    /\ UNCHANGED reportVars

(* thProcessEnumerator::Enumerate up to InitializeReceivers.  m_bWork is   *)
(* not looked at.                                                          *)
thProcessEnumerate ==
    /\ BeginSession("thProcessEnumerator")
    /\ \E s \in Listings(Cardinality(alive)) : pids' = [i \in DOMAIN s |-> Listed(s[i])]
    /\ InitializeUnchecked(TH)

InitializeReceivers ==
    /\ Running /\ pc = "init"
    /\ \/ /\ MoreReceivers
          /\ \E r \in Receiver : r = Vec[ir] /\ InitializeReceiver(r)
          /\ ir' = ir + 1
          /\ UNCHANGED pc
       \/ /\ ~MoreReceivers
          /\ pc' = "pid"
          /\ UNCHANGED <<ir, reportVars>>
    /\ UNCHANGED <<machineVars, m_vecReceivers, caller, pids, ip, present, sessions>>

(* The row of thProcesses.xml, made from the entry of the listing.         *)
printProcess(entry) == LinkRow(TH, RowOf(entry.pid, entry.gen))

(* The head of the loop over the listing.                                  *)
NextPid ==
    /\ Running /\ pc = "pid"
    /\ \/ /\ MorePids
          /\ pc' = "send"
          /\ IF caller = "thProcessEnumerator"
             THEN \E entry \in Identity : entry = pids[ip] /\ printProcess(entry)
             ELSE UNCHANGED reportVars
       \/ /\ ~MorePids
          /\ pc' = "final"
          /\ UNCHANGED reportVars
    /\ ir' = 1
    /\ UNCHANGED <<machineVars, m_vecReceivers, caller, pids, ip, present, sessions>>

SendPid2Receivers ==
    /\ Running /\ pc = "send"
    /\ \/ /\ MoreReceivers
          /\ \E r \in Receiver, p \in Pid :
               r = Vec[ir] /\ p = pids[ip].pid /\ ReceivePid(r, p)
          /\ ir' = ir + 1
          /\ UNCHANGED ip
       \/ /\ ~MoreReceivers
          /\ pc' = "pid"
          /\ Advance
          /\ UNCHANGED <<ir, handles, reportVars>>
    /\ UNCHANGED <<alive, gen, m_vecReceivers, caller, pids, present, sessions>>

EndSession == pc' = "idle" /\ pids' = << >> /\ present' = {} /\ ip' = 1 /\ ir' = 1

FinalizeReceivers ==
    /\ Running /\ pc = "final"
    /\ \/ /\ MoreReceivers
          /\ \E r \in Receiver : r = Vec[ir] /\ FinalizeReport(r)
          /\ ir' = ir + 1
          /\ UNCHANGED <<pc, pids, ip, present>>
       \/ /\ ~MoreReceivers /\ caller = "thProcessEnumerator"
          /\ pc' = "close"
          /\ UNCHANGED <<pids, ip, ir, present, reportVars>>
       \/ /\ ~MoreReceivers /\ caller = "ProcessEnumerator"
          /\ EndSession
          /\ UNCHANGED reportVars
    /\ UNCHANGED <<machineVars, m_vecReceivers, caller, sessions>>

(* Seeded fault: the report is closed only while m_bWork is set, which a   *)
(* refused snapshot of an earlier call has cleared.                        *)
thCloseReportIfWorking ==
    /\ Running /\ pc = "close"
    /\ FinalizeReport(TH)
    /\ EndSession
    /\ UNCHANGED <<machineVars, m_vecReceivers, caller, sessions>>

(* The end of thProcessEnumerator::Enumerate, whatever m_bWork says.       *)
thCloseReport ==
    /\ Running /\ pc = "close"
    /\ CloseReport(TH)
    /\ EndSession
    /\ UNCHANGED <<machineVars, m_vecReceivers, caller, sessions>>

MainReturns ==
    /\ Running /\ pc = "idle"
    /\ pc' = "exited"
    /\ UNCHANGED <<machineVars, reportVars, m_vecReceivers, caller, pids, ip, ir,
                   present, sessions>>

Machine == Running /\ pc \notin {"hung", "exited"} /\ \E p \in Pid : Exit(p) \/ Start(p)

(* The steps of a running Enumerate; the rest of Main is the caller.       *)
Enumerate ==
    \/ InitializeReceivers
    \/ NextPid
    \/ SendPid2Receivers
    \/ FinalizeReceivers
    \/ thCloseReport

Main ==
    \/ \E e \in Enumerator, r \in Receiver : AddReceiver(e, r)
    \/ thEnumerateFails
    \/ ProcessEnumerate
    \/ thProcessEnumerate
    \/ MainReturns

Terminating == (crash # {} \/ pc \in {"hung", "exited"}) /\ UNCHANGED vars

Next == Machine \/ Enumerate \/ Main \/ Terminating

Spec == Init /\ [][Next]_vars

(* One thread runs Enumerate and never waits for anything.                 *)
FairSpec == Spec /\ WF_vars(Enumerate)

-----------------------------------------------------------------------------
(* Correctness.                                                            *)

(* A producer's document pointer never dangles: what m_doc points to has   *)
(* not been deleted, although Report::m_map keeps pointers that have.      *)
NoDangling == m_doc \subseteq heap

(* The use the code is written for: every receiver is registered once, and *)
(* with one enumerator, and Enumerate runs at most once per enumerator.    *)
UsedOnce ==
    /\ \A e \in Enumerator : sessions[e] <= 1
    /\ \A e, f \in Enumerator :
         \A i \in DOMAIN m_vecReceivers[e], j \in DOMAIN m_vecReceivers[f] :
           m_vecReceivers[e][i] = m_vecReceivers[f][j] => e = f /\ i = j

(* Used like that no null pointer is dereferenced, whatever the machine    *)
(* does, whichever saves fail and whether or not a snapshot was refused.   *)
UsedOnceIsSafe == UsedOnce => crash = {}

(* Used like that, nothing is left allocated between two Enumerate calls:  *)
(* every document was deleted and every root with it.                      *)
NothingLeaked == UsedOnce /\ pc \in {"idle", "exited"} => heap = {} /\ m_root = {}

(* All rows with a process's data, in all reports made through OpenProcess *)
(* and in every session, that were asked for one pid are about one and the *)
(* same process: the handles ReceivePid never closes keep the pid from     *)
(* being reused.                                                           *)
RowsOf(n) == {tree[n][i] : i \in DOMAIN tree[n]} \cup {files[n][i] : i \in DOMAIN files[n]}

OneProcessPerPid ==
    \A m, n \in Checked : \A a \in RowsOf(m), b \in RowsOf(n) :
        a.pid = b.pid /\ a.gen > 0 /\ b.gen > 0 => a.gen = b.gen

(* A written report has at most one row for a pid, even when its producer  *)
(* was registered twice or ran in several sessions.  Two of its rows are   *)
(* about one process only in the heap and module reports, as the rows of   *)
(* pid 0 and of enum_process itself.                                       *)
OneRowPerPid ==
    \A n \in saved : \A i, j \in DOMAIN files[n] :
        LET a == files[n][i]
            b == files[n][j]
        IN  /\ a.pid = b.pid => i = j
            /\ a.of = b.of => i = j \/ (n \in {HEAP, MODULES} /\ {a.pid, b.pid} = {Idle, Self})

(* The processes that a report with these rows says nothing about although *)
(* they have run since Enumerate listed the processes, and OpenProcess     *)
(* opens them; and how many processes EnumProcesses had no room for.       *)
Missing(rows) ==
    {q \in present :
        /\ q.pid \in alive \ Protected /\ gen[q.pid] = q.gen
        /\ ~\E i \in DOMAIN rows : rows[i].pid = q.pid /\ rows[i].gen = q.gen}

Overflow ==
    IF caller = "ProcessEnumerator" /\ Cardinality(present) > Capacity
    THEN Cardinality(present) - Capacity ELSE 0

(* A report that is written misses no more processes than EnumProcesses    *)
(* cut off: with room for all it has every one that still runs, and a full *)
(* buffer costs the report only what did not fit.  The reports whose       *)
(* snapshot may fail for one pid promise nothing.                          *)
SavedIsComplete ==
    [][\A n \in (saved' \ saved) \ Snapshots :
         Cardinality(Missing(files'[n])) <= Overflow]_vars

(* The reports of the pipeline keep the promise of ReportLifecycle.        *)
phaseOf(n) ==
    IF n \notin m_map THEN "new"
    ELSE IF n \in m_doc THEN "open"
    ELSE IF n \in saved THEN "published" ELSE "dead"

Lifecycle == INSTANCE ReportLifecycle WITH
    phase <- [n \in Name |-> phaseOf(n)],
    content <- [n \in Name |->
        IF phaseOf(n) = "open" THEN tree[n]
        ELSE IF phaseOf(n) = "published" THEN files[n] ELSE << >>]

ImplementsLifecycle == Lifecycle!Spec

-----------------------------------------------------------------------------
(* An Enumerate that starts ends, or the thread is lost: in a crash, or in *)
(* the walk of a module ring.                                              *)
SessionEnds ==
    pc \in {"init", "pid", "send", "final", "close"} ~>
        pc \in {"idle", "hung"} \/ crash # {}

(* A producer that never looks at its document and is initialised a second *)
(* time takes the program down: no session that includes it returns.       *)
Doomed ==
    /\ pc \in {"pid", "send"}
    /\ \E i \in DOMAIN Vec : Vec[i] \in Unchecked \ m_doc

DoomedCrashes == Doomed ~> crash # {} \/ pc = "hung"
=============================================================================

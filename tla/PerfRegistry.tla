---------------------------- MODULE PerfRegistry ----------------------------
(***************************************************************************)
(* The programs over the performance registry: PerfObjEnumerator and       *)
(* test_pdh_process with the functions of PdhSample they call, and the     *)
(* texts of PdhTest.  They ask the registry in several calls - the size of *)
(* the names, the names, the data, again with a larger buffer - while      *)
(* performance libraries are installed and removed, and join the answers.  *)
(*                                                                         *)
(* An index is the title index of an object or a counter, and its name is  *)
(* as long as LongName says.  Sizes are in units of which one name takes   *)
(* one.  Memory allocation does not fail.                                  *)
(***************************************************************************)
EXTENDS MainCalls, FiniteSets

CONSTANTS
    Index,          \* the title indices
    Provider,       \* objects whose performance library comes and goes
    PROCESS,        \* the index of the object "process"
    IDPROCESS,      \* the index of its counters, of which one stands for all
    LongName,       \* the indices with a long name
    INITIAL_SIZE,   \* the first buffer for data, and what a larger one has
    EXTEND_SIZE,    \*   more
    MaxData,        \* bound: the size of the data of a query
    MaxInstances    \* bound: the instances of the object "process"

PERFOBJ          == "PerfObj.xml"
COUNTERNAME      == "counterName.xml"
COUNTERS_PROCESS == "Counters_process.xml"
HELP             == "PdhHelp.xml"
COUNTER          == "PdhCounter.xml"

Name == {PERFOBJ, COUNTERNAME, COUNTERS_PROCESS, HELP, COUNTER}

ASSUME IndexAssumption ==
    /\ Index \subseteq Nat /\ IsFiniteSet(Index)
    /\ PROCESS \in Index \ Provider /\ IDPROCESS \in Index \ Provider
    /\ Provider \subseteq Index /\ LongName \subseteq Index
ASSUME SizeAssumption ==
    /\ INITIAL_SIZE \in Nat \ {0} /\ EXTEND_SIZE \in Nat \ {0}
    /\ MaxData \in Nat /\ MaxInstances \in Nat

VARIABLES
    named,      \* the indices the registry has a name for
    sound,      \* its ERROR_MORE_DATA leaves a size that means something
    job,        \* the producer whose function runs
    connected,  \* RegConnectRegistry gave a key
    names,      \* strMap: the indices with a name in the buffer
    objs,       \* vecObj: the objects still to be printed
    szBuffer,   \* szBuffer: per place, the object whose name is there
    dwSize,     \* the size of the buffer for the next query
    steady      \* history: the objects present since the function began

dataVars == <<connected, names, objs, szBuffer, dwSize>>
machineVars == <<named, sound>>
vars == <<machineVars, job, pc, dataVars, todo, callVars, steady, reportVars>>

Core == Index \ Provider
Object == Index \ {IDPROCESS}

Init ==
    /\ named \in {S \in SUBSET Index : Core \subseteq S}
    /\ sound \in BOOLEAN
    /\ job = "none"
    /\ connected = FALSE /\ names = {} /\ objs = << >> /\ szBuffer = << >>
    /\ dwSize = 0
    /\ steady = {}
    /\ CallInit
    /\ ReportInit(Name)

-----------------------------------------------------------------------------
(* The machine: a performance library is installed, with its names, or     *)
(* removed.  A step on a report looks at none of it, so a change that      *)
(* comes among such steps is the same as one after them.                   *)
Install(o) ==
    /\ named' = named \cup {o}
    /\ UNCHANGED steady

Remove(o) ==
    /\ named' = named \ {o}
    /\ steady' = steady \ {o}

Machine ==
    /\ At(pc) /\ pc # "exited"
    /\ \E o \in Provider : Install(o) \/ Remove(o)
    /\ UNCHANGED <<sound, job, pc, dataVars, todo, callVars, reportVars>>

(* What RegQueryValueEx leaves in its size argument with ERROR_MORE_DATA,  *)
(* and the code adds to: the size it was given or the size it needs on     *)
(* some systems; for performance data it is documented as undefined.       *)
MoreSize(d, need) == IF sound THEN {d, need} ELSE 0..MaxData

-----------------------------------------------------------------------------
(* The calls main makes.  Two functions read the names, and with that      *)
(* write counterName.xml.                                                  *)
ReadsNames == {<<"PerfObjEnumerator", "Enumerate">>, <<"test_pdh_process", "run">>}

(* A function that is one step, and one that is several.                   *)
AtOnce(p, op) ==
    Calling(p, op, ReadsNames) /\ UNCHANGED <<machineVars, job, pc, dataVars, todo, steady>>

Begin(p, op) ==
    /\ Calling(p, op, ReadsNames)
    /\ job' = p /\ pc' = "size"
    /\ steady' = named
    /\ UNCHANGED <<machineVars, names, objs, szBuffer, dwSize, todo, reportVars>>

(* A step of the function, and its end.                                    *)
Step(label) == At(label) /\ UNCHANGED <<machineVars, callVars>>

End ==
    /\ pc' = "idle" /\ job' = "none"
    /\ connected' = FALSE /\ names' = {} /\ objs' = << >> /\ szBuffer' = << >>
    /\ dwSize' = 0
    /\ steady' = {}

PerfObjInitialize ==
    AtOnce("PerfObjEnumerator", "Initialize") /\ InitializeUnchecked(PERFOBJ)

PerfObjFinalize ==
    AtOnce("PerfObjEnumerator", "Finalize") /\ FinalizeReport(PERFOBJ)

(* Enumerate and GetNameStrings up to the first query; the result of       *)
(* RegConnectRegistry is not looked at.                                    *)
PerfObjEnumerate == Begin("PerfObjEnumerator", "Enumerate") /\ connected' \in BOOLEAN

(* The texts of the local registry: PdhTest, and test_pdh_process once the *)
(* queries of its own key, of which it uses nothing, have succeeded.       *)
TestTexts ==
    \E p \in {"testHelp", "testCounter"} : Begin(p, "run") /\ connected' = TRUE

TestPdhProcess == Begin("test_pdh_process", "run") /\ connected' = TRUE

TestPdhProcessFails == AtOnce("test_pdh_process", "run") /\ UNCHANGED reportVars

-----------------------------------------------------------------------------
(* The names of a set of indices, in the order of the map.                 *)
NameOf(o) == IF o \in LongName THEN <<o, o>> ELSE <<o>>

Ascending(S) ==
    CHOOSE s \in [1..Cardinality(S) -> S] : \A i, j \in DOMAIN s : i < j => s[i] < s[j]

NameRows(S) == [i \in 1..Cardinality(S) |->
                  [of |-> Ascending(S)[i], name |-> NameOf(Ascending(S)[i])]]

(* A loop that starts with a buffer of the given size.                     *)
BeginQuery(label, size) ==
    /\ pc' = label /\ dwSize' = size
    /\ UNCHANGED <<job, connected, objs, szBuffer, steady>>

(* The texts have been read and printed, or not: nobody looks at what      *)
(* GetNameStrings returned.                                                *)
AfterText(read) ==
    \/ /\ job = "PerfObjEnumerator"
       /\ BeginQuery("objects", EXTEND_SIZE) /\ names' = read
    \/ /\ job = "test_pdh_process"
       /\ BeginQuery("data", INITIAL_SIZE) /\ names' = read
    \/ /\ job \in {"testHelp", "testCounter"}
       /\ End

(* printObjNames and printHelp.                                            *)
TextFile == CASE job = "testHelp" -> HELP
              [] job = "testCounter" -> COUNTER
              [] OTHER -> COUNTERNAME

(* GetNameStrings, testHelp and testCounter: the first query gives the     *)
(* size of the texts, the second reads them into a buffer of that size.    *)
QuerySize ==
    /\ Step("size")
    /\ \/ connected /\ BeginQuery("read", Cardinality(named)) /\ UNCHANGED names
       \/ AfterText({})
    /\ UNCHANGED <<todo, reportVars>>

TextFits == Cardinality(named) <= dwSize

(* Seeded fault: a read that did not fit is used as far as it goes.        *)
ReadTextPartly ==
    /\ Step("read")
    /\ \E S \in SUBSET named :
         /\ Cardinality(S) = IF TextFits THEN Cardinality(named) ELSE dwSize
         /\ AfterText(S)
         /\ todo' = Printed(TextFile, NameRows(S))
    /\ UNCHANGED reportVars

ReadText ==
    /\ Step("read")
    /\ \/ TextFits /\ AfterText(named) /\ todo' = Printed(TextFile, NameRows(named))
       \/ AfterText({}) /\ UNCHANGED todo
    /\ UNCHANGED reportVars

-----------------------------------------------------------------------------
(* Seeded fault: the size is taken off and not added.                      *)
GrowBackwards(need) ==
    \E d \in MoreSize(dwSize, need) :
        d > EXTEND_SIZE /\ dwSize' = d - EXTEND_SIZE

(* One pass of the loops that query data and, when the buffer is too       *)
(* small, try again with EXTEND_SIZE more.  The data has any size, each    *)
(* time another one.                                                       *)
Grow(need) == \E d \in MoreSize(dwSize, need) : dwSize' = d + EXTEND_SIZE

QueryAgain ==
    /\ connected
    /\ \E need \in 1..MaxData : dwSize < need /\ Grow(need)
    /\ UNCHANGED <<pc, job, connected, names, objs, szBuffer, steady>>

(* EnumPerfObjects copies the header of every object, whatever its order.  *)
Copied(S) == Ascending(S \cap Object)

EnumPerfObjects ==
    /\ Step("objects")
    /\ \/ QueryAgain
       \/ /\ connected /\ dwSize > 0
          /\ objs' = Copied(named)
          /\ pc' = "row"
          /\ UNCHANGED <<job, connected, names, szBuffer, dwSize, steady>>
       \/ /\ pc' = "row"
          /\ UNCHANGED <<job, dataVars, steady>>
    /\ UNCHANGED <<todo, reportVars>>

(* Seeded fault: the name is written after what is there.                  *)
OverlayAfter(new, old) == old \o new

(* WideCharToMultiByte writes the name and no terminator, over a buffer    *)
(* that is cleared only once: what was longer stays behind it.             *)
Overlay(new, old) == new \o SubSeq(old, Len(new) + 1, Len(old))

(* Seeded fault: only the objects with a short name get a row.             *)
HasNameShort(o) == o \in names \ LongName

HasName(o) == o \in names

(* The loop over the objects; one without a name is passed over.           *)
NextObject ==
    /\ Step("row")
    /\ objs # << >>
    /\ IF HasName(Head(objs))
       THEN /\ szBuffer' = Overlay(NameOf(Head(objs)), szBuffer)
            /\ LinkRow(PERFOBJ, [of |-> Head(objs), name |-> szBuffer'])
       ELSE UNCHANGED <<szBuffer, reportVars>>
    /\ objs' = Tail(objs)
    /\ UNCHANGED <<job, pc, connected, names, dwSize, todo, steady>>

(* LoadObjectData prints the counters of one object to the console, or     *)
(* fails; its result is not looked at.                                     *)
LoadObjectDataBegins ==
    /\ Step("row")
    /\ objs = << >>
    /\ BeginQuery("load", INITIAL_SIZE)
    /\ UNCHANGED <<names, todo, reportVars>>

LoadObjectData ==
    /\ Step("load")
    /\ QueryAgain \/ End
    /\ UNCHANGED <<todo, reportVars>>

(* The loop of test_pdh_process.  Without the name of the object the key   *)
(* is not an index, and the block that is read has no object.              *)
QueryProcess ==
    /\ Step("data")
    /\ \/ QueryAgain
       \/ /\ dwSize > 0
          /\ pc' = "walk"
          /\ UNCHANGED <<job, dataVars, steady>>
       \/ End
    /\ UNCHANGED <<todo, reportVars>>

(* The instances of the object, each with its counters, whose names are    *)
(* looked up in the map without a test that they are there.                *)
ProcessRow == [of |-> IDPROCESS, name |-> NameOf(IDPROCESS)]

WalkProcess ==
    /\ Step("walk")
    /\ \E n \in 0..MaxInstances :
         /\ PROCESS \notin names => n = 0
         /\ IF n > 0 /\ IDPROCESS \notin names
            THEN Crash(COUNTERS_PROCESS) /\ UNCHANGED todo
            ELSE /\ todo' = Printed(COUNTERS_PROCESS, [i \in 1..n |-> ProcessRow])
                 /\ UNCHANGED reportVars
    /\ End

MainReturns ==
    /\ Step("idle")
    /\ pc' = "exited"
    /\ UNCHANGED <<job, dataVars, todo, steady, reportVars>>

WriteReport == Write /\ UNCHANGED <<machineVars, job, dataVars, steady>>

(* The calls of main, and the steps of the function that runs.             *)
Calls ==
    \/ PerfObjInitialize \/ PerfObjEnumerate \/ PerfObjFinalize
    \/ TestPdhProcess \/ TestPdhProcessFails
    \/ TestTexts
    \/ MainReturns

Steps ==
    \/ QuerySize \/ ReadText \/ WriteReport
    \/ EnumPerfObjects \/ NextObject \/ LoadObjectDataBegins \/ LoadObjectData
    \/ QueryProcess \/ WalkProcess

Terminating == (crash # {} \/ pc = "exited") /\ UNCHANGED vars

Next == Machine \/ Calls \/ Steps \/ Terminating

Spec == Init /\ [][Next]_vars

(* One thread, and a local registry that answers.                          *)
FairSpec == Spec /\ WF_vars(Steps)

-----------------------------------------------------------------------------
(* Correctness.                                                            *)

(* counterName.xml, when it is written, has every name the registry had at *)
(* one moment, once and in order: a list that grew between the two queries *)
(* is dropped and never cut.  (`names' is what was read.)                  *)
NamesWritten ==
    COUNTERNAME \in saved' \ saved =>
        Core \subseteq names /\ files'[COUNTERNAME] = NameRows(names)

NamesWhole == [][NamesWritten]_vars

(* Used as main shows, and when the names and the objects could be read,   *)
(* every object that was there throughout is in the report exactly once,   *)
(* and one that came or went meanwhile at most once.                       *)
RowsAbout(o) == {i \in DOMAIN tree[PERFOBJ] : tree[PERFOBJ][i].of = o}

SteadyObjectsListed ==
    ~misused /\ pc = "load" /\ tree[PERFOBJ] # << >> =>
        \A o \in Object :
            /\ Cardinality(RowsAbout(o)) <= 1
            /\ o \in steady => RowsAbout(o) # {}

(* A name in PerfObj.xml begins with the object's own and is exactly that  *)
(* unless a longer name came before it in the file.                        *)
NamesExactUnlessLonger ==
    \A i \in DOMAIN tree[PERFOBJ] :
        LET row == tree[PERFOBJ][i]
            own == NameOf(row.of)
        IN  /\ Len(row.name) >= Len(own) /\ SubSeq(row.name, 1, Len(own)) = own
            /\ row.name # own =>
                 \E j \in 1..(i - 1) : Len(NameOf(tree[PERFOBJ][j].of)) > Len(own)

(* The only document a function leaves is that of PerfObjEnumerator, and   *)
(* the names that are looked up without a test are found: those of an      *)
(* object and of its counters are in the map together or not at all.       *)
ProperUse == UsedAsShown([n \in {PERFOBJ} |-> "PerfObjEnumerator"])

(* The reports keep the promise of ReportLifecycle, though two functions   *)
(* print counterName.xml: the second has no document and does not touch    *)
(* what the first has written.                                             *)
Row == [of : Index, name : [1..1 -> Index] \cup [1..2 -> Index]]

Lifecycle == INSTANCE ReportLifecycle WITH
    phase <- [n \in Name |-> phaseOf(n)],
    content <- [n \in Name |-> contentOf(n)]

ImplementsLifecycle == Lifecycle!Spec

-----------------------------------------------------------------------------
(* Every function that begins returns, or the program is lost: the buffer  *)
(* of a query grows until it is large enough, provided ERROR_MORE_DATA     *)
(* leaves the size it was given or the size it needs.                      *)
Returned == pc \in {"idle", "exited"} /\ todo = << >>

CallsReturn == (sound /\ ~Returned) ~> (Returned \/ crash # {})
=============================================================================

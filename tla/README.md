# enum_process: specifications and proofs

`enum_process` is a Windows console program that lists the processes of the
machine and writes what it finds about each of them to XML files, one file per
kind of information.  This directory holds TLA+ models of it, the TLC
configurations that check them, and TLAPS proofs about them.  Paths below are
relative to `src/enumProcess/` unless they say otherwise.

## 1. The system

### 1.1 Components

| component | state | operations | interacts with |
|---|---|---|---|
| Report registry (`report.cpp`, `report.h`) | the static map from file names to documents | `GetDocument`; text helpers | every producer of a file |
| Process enumerators (`ProcessEnumerator.cpp`, `thProcessEnumerator.cpp`, `IPidReceiver.h`) | the registered receivers; for the second, a document, a snapshot handle, `m_bWork` | `AddReceiver`, `Enumerate` (initialize receivers, send every pid to every receiver, finalize them) | receivers (callbacks), EnumProcesses / Toolhelp, registry |
| OpenProcess receivers (`DllEnumerator`, `MemoryRegionEnumerator`, `ProcessMemoryInfo`) | `m_doc`, `m_root`, `m_bWork`, and the process handles they never close | `InitializeReceiver`, `ReceivePid`, `FinalizeReceiver` | the inspected process, while it runs |
| Snapshot receivers (`thHeapEnumerator`, `thModuleEnumerator`, `thThreadEnumerator`) | as above, no handles left | the same three; the initializers do not test the document | Toolhelp snapshots |
| Performance counters of processes (`pdhProcessEnumerator.cpp`) | a document and its root; raw counters on the stack; queries never closed | `Initialize`, `Enumerate` (system counters, instance list, rows of counters), `Finalize` | PDH, two documents. The only enumerator `main` runs |
| `DriverEnumerator`, `PerformanceInfo`, `PerfObjEnumerator` | `m_doc`, `m_root`, `m_bWork` | `Initialize`, `Enumerate`, `Finalize` | psapi, performance registry, registry |
| `PdhSample`, `PdhProcess`, `PdhTest` | buffers of the performance registry | grow-and-retry queries, walks over PERF_DATA_BLOCK | performance registry, registry |
| `SqliteWritter` | a database handle | create a table, insert, select | sqlite3 |
| `main`, `Log` | none, one switch | calls; printing | |
| `third_party/tinyxml`, `third_party/sqlite3` | vendored | ownership of XML nodes, `SaveFile` | |

The program is **one thread**.  What makes it hard is not its own concurrency
but what it looks at: processes exit and start, pids are reused, and modules
are loaded and unloaded, between any two of its calls.  On top of that almost
no result of a system call is looked at, and the registry of documents has a
protocol (one request per name and run) that no caller states.

### 1.2 What makes each component correct

* Registry and producers: no pointer to a deleted document is used; nothing is
  left allocated; a file is written once, with all its rows, never twice.
* Enumerators: every receiver is initialized, gets every listed pid and is
  finalized; an `Enumerate` that begins ends; no pid is reported twice.
* Receivers: the row of a pid is about the process that had it, and the rows of
  different files for one pid are about one and the same process.
* Loader walk: all modules are listed, and the walk ends.
* Counters: a row is about one process; two samples that are subtracted are of
  one process; no division by zero; every name is reported.  (The code keeps none
  of these as it stands; the properties say under which condition it does.)
* Arithmetic: what is printed is the formula of the counter, if it fits.
* Region walk: every page is in one row, and right if it did not change.
* Drivers: a row is of what was at one address; drivers that stay are listed.
* Performance registry: the grow-and-retry loops end; the names are whole, and
  belong to the objects that were there.
* SQLite: a run stores its row once or its insert failed, and a failed statement
  is noticed.

The list of concrete hazards, each at its line, with the properties that watch
it, is in `PROJECT.json`.

## 2. Modules

```
Report  <--EXTENDS--  PidPipeline  <--EXTENDS--  PidPipeline_proofs
   ^                      |
   |                      +--INSTANCE--> ReportLifecycle   (what reports promise)
   |                                        ^
   |                                        | INSTANCE (both)
   +--EXTENDS--  MainCalls  <--EXTENDS--  StandaloneReports  <--EXTENDS--  StandaloneReports_proofs
                     ^
                     +------EXTENDS------  PerfRegistry  <--EXTENDS--  PerfRegistry_proofs

LoaderWalk        <--EXTENDS--  LoaderWalk_proofs   (one receiver's walk, in detail)
MemoryRegionWalk  <--EXTENDS--  MemoryRegionWalk_proofs              (another's)
ProcessCounters   <--EXTENDS--  ProcessCounters_proofs
CounterValue      <--EXTENDS--  CounterValue_proofs (what is computed and printed)
                  <--EXTENDS--  MCCounterValue      (its values for model checking)
SqliteWriter      <--EXTENDS--  SqliteWriter_proofs
```

A theorem is named in its `_proofs` module; a definition that starts with "Seeded
fault" in its comment is what the next one would be with a plausible bug, and is
used by no specification.

### 2.1 `Report`

The registry and the way every producer uses it, as fragments of actions.  A
producer is named by the file it writes.  `m_map` is the set of names that were
requested, `heap` the set of documents that exist, `m_doc`, `m_root` and
`m_bWork` the producers whose member of that name is not NULL or is true.
`GetDocument` is `Report::GetDocument`: a document the first time, NULL ever
after, since nothing removes an entry.  `InitializeChecked` is the initializer
of the receivers that test the result, `InitializeUnchecked` of those that do
not; `LinkRow`, `CloseReport`, `FinalizeReport` are the rest of a report's life.
`SaveFile` may fail, and nobody looks.  `crash` records a NULL dereference.

### 2.2 `PidPipeline`

Both enumerators, all six receivers, and the machine.  A process is a pid and a
generation (`gen[p]` counts the processes that have used `p`), so that a reused
pid is another process.  `Exit` and `Start` happen between any two calls; a pid
is free again only when nobody holds a handle to its last process, which is what
Windows does.  `main` as it stands has all calls of this part commented out
except one at a time, so the model's `Main` makes every sequence of
`AddReceiver` and `Enumerate` calls within the bounds, misuse included.

| action | code |
|---|---|
| `AddReceiver` | `AddReceiver` of either enumerator; the second one's asks `m_bWork` |
| `ProcessEnumerate`, `thProcessEnumerate`, `thEnumerateFails` | `Enumerate` up to the receivers; a failed snapshot |
| `InitializeReceivers`, `SendPid2Receivers`, `FinalizeReceivers` | one pass of the loop of that name |
| `NextPid` | the head of the loop over the listing, with `printProcess` |
| `thCloseReport` | the end of `thProcessEnumerator::Enumerate` |
| `DllReceivePid` ... `ThreadReceivePid` | `ReceivePid` of each receiver, whole: with the row, or without it where `OpenProcess` or one of the three `CreateToolhelp32Snapshot` fails |

One `ReceivePid` is one step.  A `row` is `[pid, of, gen]`: the pid asked for,
the pid it describes, and which process of it; `gen = 0` is a row without a
process's data (uninitialized counters, no threads).  The pid is in the model's
rows even where the file does not print it (`dll.xml`).

Decisions that a reader should know:

* A failed `EnumProcesses` returns having changed nothing, so it is no action.
* A listing has the running processes only.
* `DllEnumerator::ReceivePid` may also never return (`pc = "hung"`): `LoaderWalk`
  shows when.  After a crash, a hang or the end of `main` the machine stops.
* Files left by an earlier run are not modelled: `files[n]` means something only
  for `n` in `saved`.

### 2.3 `ReportLifecycle`

The abstract specification: a report is opened at most once, rows are added at
its end only, and it is published as it then is and never touched again, or
given up.  `PidPipeline` implements it under the mapping `phaseOf`: a name not in
the registry is "new", one with a document "open", one whose file was written
"published", any other "dead"; its content is the tree while open and the file
once published.  `StandaloneReports` and `PerfRegistry` implement the same
specification under the same mapping; in the second, two functions print one file.

### 2.4 `LoaderWalk`

`DllEnumerator::printLdr`.  `ring` is the target's list in memory order; the
list head is `Sentinel`.  An unlinked entry keeps its `Flink` or is overwritten
(`stale`).  `Step` is one pass of the `do ... while(head != tag)`: `ReadEntry`, or
`ReadFails` where no result is tested and `tag` is taken from a variable that
still holds the last link read.  `steady` is history for one property.

### 2.5 `ProcessCounters`

`pdhProcessEnumerator::Enumerate`, the call `main` makes.  `insts[n]` is the
sequence of processes of the name `n`: `name#k` is the one at position `k + 1`
*at the moment it is looked up*.  Instances are in starting order, and a new one is
the last of its name, as the system's process list is.

| action | code |
|---|---|
| `SystemFirst`, `SystemSleep`, `SystemSecond` | the two samples of `GetSystemCounters` and the second between them; a sample is the time (`clock`) it was read at |
| `SystemDivides`, `SystemUpTime` | its divisions, which nothing guards, and the up time |
| `enumObjIns` | the names of the instances, counted, or an empty list |
| `EnumerateSelf`, `GetProcessCounters` | the call of `GetProcessMemoryCounters` for this program, and for the next name of the `std::map` (a name is its rank) |
| `getCounter` | one counter of the row |
| `EndCall` | the values are formatted and the row is linked |

`frame` is the arrays `counter`, `counter1`, `counter2` laid end to end.
`getCounter` reads a value (abstracted to the process it is of), or `Zero` for a name
without an instance, or one of its four calls of PDH fails.  It looks at two of them
(`PdhOpenQuery`, `PdhAddCounter`) and returns FALSE, which its callers ignore: the slot
keeps what the stack held, `Garbage`, and is `refused`.  Of the two others
(`PdhCollectQueryData`, `PdhGetRawCounterValue`) it ignores the results and returns
TRUE: the value is not set either, but the type is set to 0 in the form that sets one
(`Untyped`).  The difference matters for what can end the program: in a row
`getCounterValue` divides by an unset time base only for a type that is chance
(`DividesByZero`), but `GetSystemCounters` divides by the difference of two times
whatever the type is, so there an unread sample of either kind is enough
(`MayBeEqual`).  The documents of this enumerator are in `StandaloneReports`, and what
its arithmetic gives in `CounterValue`.

### 2.6 `MainCalls`

What the producers without receivers have in common.  `main` shows them as
groups of three lines, commented out; `Calling` is any call, at most `MaxCalls` of
each function and `MaxTotal` in all, and `misused` is history: a function called
twice, out of order, or after another that writes the same file.  `todo` is a
sequence of steps on reports that a function still has to make, one step each
(`Write`), so that a missing document takes the program down in the middle of the
function.  `UsedAsShown` says what a `main` that keeps to its use may rely on.

### 2.7 `StandaloneReports`

`DriverEnumerator`, `PerformanceInfo`, and the document side of
`pdhProcessEnumerator` with `GetProcessCounters` (a document of its own in the middle
of `Enumerate`) and `SavePerfTypes`.

| action | code |
|---|---|
| `DriverInitialize`, `DriverFinalize`, `PerformanceInitialize`, ... | the function of that name of the class |
| `DriverEnumerate`, `DriverEnumerateFails` | `EnumDeviceDrivers`, or the early returns |
| `DriverBaseName`, `DriverFileName` | the two queries of one pass of the loop: the name, and if there is one the path and the row |
| `PerformanceEnumerate`, `PdhEnumerate`, `SavePerfTypes` | their rows, as steps of `todo` |

Drivers are loaded and unloaded between the two queries, so that an address may
have another driver, or none, by the second.  A query about an address at which a
driver is loaded is taken to succeed.  `seen` and `steady` are history.  The order in
which the addresses are asked for is left open.

### 2.8 `PerfRegistry`

`PerfObjEnumerator`, `test_pdh_process`, the texts of `PdhTest`, and the functions of
`PdhSample` under them.  They read the size of the names, the names, and the data,
again with a larger buffer when it was too small, while performance libraries are
installed and removed (`Machine`).  An index stands for an object or a counter, and
sizes are counted in names.  `QueryAgain` is the branch of `ERROR_MORE_DATA`:
`MoreSize` is what the call leaves in its size argument, which is documented as
undefined for performance data; `sound` says that it is the old or the
needed size.  `Overlay` is the name buffer that is not cleared between objects.  The
walk through the blocks of one answer is one step, since nobody else touches a
buffer.

### 2.9 `MemoryRegionWalk`

`MemoryRegionEnumerator::printMemorySection`.  The address space is `Top` pages, the
attributes are the Windows constants (so that `ProtectString` decodes bits), and the
target changes any page, or exits, between two queries.  A region is, as
`VirtualQueryEx` defines it, the pages from an address on that are alike.

### 2.10 `CounterValue`

`getCounterValue`, `GetTextTime` and `GetTextSize`, on words of
`LongRange` and `DwordRange` values that wrap.  A text is the numbers in it, by
unit.  A quotient of doubles that are whole numbers is truncated exactly; of
rounded quotients, either neighbour may be printed (`Near`); a double that is not a
number becomes the least LONGLONG.  `Formula` is the reference: the formulas in the
code's comments, of every type but the hexadecimal ones, whose comment is about the
form and not the value.

### 2.11 `SqliteWriter`

`SqliteWritter::test` in any number of runs of the program on one `process.db`.  A
statement takes a lock (`BeginStatement`, or fails because another run has it) and
commits or fails (`EndStatement`); a run can be killed anywhere, and the first may
find a table with only some of the columns.  `Goes` is what the code does with a
result:
`sqlite3_exec` is called and its result dropped, so `ret` is still that of
`sqlite3_open`.

## 3. What the runs check

| run | module | states | question |
|---|---|---|---|
| `usage` | `PidPipeline` | 0.8M | any registration of a checked and an unchecked receiver, up to three times, each enumerator called twice: types, `NoDangling`, `UsedOnceIsSafe`, `NothingLeaked`, `OneRowPerPid`, `ImplementsLifecycle` |
| `identity` | `PidPipeline` | 3.9M | processes exit and start, pids are reused, the pid buffer is too small: `OneProcessPerPid`, `SavedIsComplete` |
| `live` | `PidPipeline` | 0.9M | `SessionEnds`, `DoomedCrashes` under `FairSpec` |
| `loader` | `LoaderWalk` | 0.25M | `QuietTargetListed`, `SteadyModulesListed`, `WalkEnds`, `ExitedTargetHangs` |
| `counters` | `ProcessCounters` | 1.6M | types, `RowIsOneProcess`, `RowMovesForward`, `CrashOnlyAfterFailure`, `ReportIsPrefix`, `EnumerateEnds` |
| `perf` | `PerfRegistry` | 0.35M | `SteadyObjectsListed`, `NamesExactUnlessLonger`, `NamesWhole`, `ProperUse`, `ImplementsLifecycle`, `CallsReturn` |
| `standalone` | `StandaloneReports` | 0.4M | `RowsOfOneAddress`, `SteadyDriversListed`, `UsedInOrderIsSafe`, `ImplementsLifecycle` |
| `regions` | `MemoryRegionWalk` | 1.5M | `PagesListedOnce`, `SteadyPagesRight`, `RegionWalkEnds` |
| `sqlite` | `SqliteWriter` | 0.2M | `AloneStores`, `OneRowPerRun` |
| `sqlite_errors` | `SqliteWriter` | | violated: `ErrorsPrinted` |
| `values` | `MCCounterValue` | 0.31M | `CloseToFormula`, `MultiTimerWithinTwice`, `UndefinedIsZero`, `TimesReadBack`, `SizeRounded` |
| `values_elapsed` | `CounterValue` | | violated: `ElapsedReadsBack` |

What they show:

* **Used as intended** (every receiver registered once, every enumerator called
  once) the pipeline never dereferences NULL and leaks no document, whatever the
  machine does and whichever saves fail.  **Used twice** it does not: a receiver
  that ignores its missing document takes the program down (`DoomedCrashes`),
  and one that looks works on in silence without a file.
* All data of one pid is data of one process across the files made with
  `OpenProcess` - because `ReceivePid` never closes its handle.  Closing it, a
  correct-looking repair, breaks the property (that is its mutant).
* A saved report misses no more processes than EnumProcesses had no room for: with
  at most 1024 it is complete, and a full buffer costs exactly what did not fit.
  That holds for the reports that do not hang on a snapshot of one pid: a heap,
  module or thread snapshot that fails leaves its pid out without a word.
* `printLdr` lists all modules **but the last**, and the list head as if it were
  a module when there are fewer than two.  Under loads and unloads it still lists
  every module that stays, and ends, provided the module it took for the end of
  the ring stays loaded.  If the target exits after the first entry it loops for
  ever.
* A row of counters can mix processes, and exactly then: when a process of the
  same name exits at or before the instance being read.  Even then it only moves
  to younger ones.  A row divides by zero only if `getCounter` has returned FALSE
  for a first sample, which its caller ignores; an instance that is gone is not
  enough.  `GetSystemCounters` may divide by zero once any sample was not read,
  also when `getCounter` said TRUE, and never when all were.
  `processCounters.xml` has the first part of the names only, up to the first name
  with one instance.
* A row of `driver.xml` has the name and the path of drivers that were at one
  address, but not always of one driver; every driver that stays loaded has its
  one right row.  A driver that goes before its path is asked for has none.
* `counterName.xml` has all the names of one moment or is not written: names that
  grew between the two queries are dropped and not cut.  That nobody looks at the
  result is harmless for `test_pdh_process`, which looks names up without a test:
  without the map it does not know the object's index either, and finds no
  instance.  A name in `PerfObj.xml` can have the end of a longer one behind it.
* Called in the order `main` shows, the producers crash nowhere and leak no
  document; but `PerfObjEnumerator::Enumerate` and `test_pdh_process` in one run do
  crash, because both ask for `counterName.xml`.  In the model that is `misused`.
* The rows of `memory_region.xml` for one process tile its addresses whatever it
  does meanwhile, and are right for each page that stayed as it was.
* A run that is alone stores its row in `process.db`, also when its CREATE fails
  because an earlier run made the table, and also because nobody looks at that
  failure: `ret` checked as it is after the open would end the second run there
  (that is the mutant).  Two runs at a time can lose a row to a lock.
* A counter is printed as its formula to less than one, if the differences of the
  samples and the numerator fit a LONGLONG and the value an int; the four types that
  round a quotient and truncate later may be exactly one off.  A timer over several
  instances divides the interval by the time base as whole numbers first (`:368`):
  what that loses makes the printed value up to twice the formula's, and no more, if
  the interval is one time base at least.  A value that is undefined is printed as 0.
* A size is printed right modulo 4 GB (`:686`), to the nearest hundredth.

Two disagreements of the code with itself, each a run that is violated:

* `SqliteWritter.cpp:147`, `:186`, `:194` test `ret` and print "SQL error" after
  statements whose results were never assigned to it: nothing is printed.
* `pdhProcessEnumerator.cpp:441` passes an elapsed time in milliseconds as a DWORD:
  after 49.7 days it is printed modulo that length, where the comment above says
  `(D0 - N0)/F`.

Smaller things that the models have as the code does them, and no run asks about:
`ProcessMemoryInfo.cpp:47` compares a handle with `INVALID_HANDLE_VALUE` to drop the row
of a process it could not open, but `OpenProcess` fails with NULL, so the row stays, with
uninitialized counters (`gen = 0`); `pdhProcessEnumerator.cpp:412` prints in decimal what
the comment at `:409` calls "N as hexadecimal"; and a time base of zero ends the program
at `:368` (`Traps`), so that the properties of `CounterValue` are about calls that return.

### 3.1 Bounds

* `PidPipeline`: two or three pids (pid 0, the program's own, and one that comes
  and goes with two generations), a buffer of two entries so that three processes
  overflow it, up to three registrations, two sessions per enumerator.  The
  properties relate at most two rows, two receivers and two sessions; three
  registrations allow a receiver twice with one enumerator and once more with
  the other.  Each run takes the receivers its question needs, and together they
  take all six.
* `LoaderWalk`: three module entries and three changes: enough for an entry to
  be unlinked under the walk, its successor after it, and either to be linked
  again.  `MaxListed` rows are remembered (eight: longer than any walk that
  ends with those changes); only a lost walk makes more.
* `ProcessCounters`: three names, up to five processes, three changes, one
  counter read once and one read twice.  A row then has three reads with any
  changes between them.  One sample of each kind stands for those of the seven
  system counters, which are divided one by one.
* `PerfRegistry`: four indices, one object that comes and goes, an object with a
  long name before it and one after it; data up to three buffers; four calls in
  all, at most two of one function: enough for each function to meet the file of
  each other and of itself.
* `StandaloneReports`: two drivers, two addresses, two loads, so that the drivers can
  change places under the loop; all four producers, four calls in all.
* In both, changes of the machine come between the steps that look at it and not
  among those of `todo`, which do not: any other order gives the same reports.
* `MemoryRegionWalk`: four pages, every attribute of one type and two protections,
  and any number of changes.
* `SqliteWriter`: three runs (two that meet, and a third after or before them) and
  one fault.
* `CounterValue`: words of 22 and 23 bits; samples of both signs, two of them so far
  apart that the difference wraps and two that just fit; sizes and times on both sides
  of every unit, at the edges of the words, and below zero.  The run for elapsed times
  has a wider LONGLONG, so that a time longer than a DWORD exists.

### 3.2 Fairness

`FairSpec` of `PidPipeline` has weak fairness of `Enumerate`, the steps of a
running enumeration, as one action; `LoaderWalk` of `Step`; `ProcessCounters` of
`Program`; `PerfRegistry` of `Steps`; `MemoryRegionWalk` of the two steps of its walk.
Each is the program's one thread, which waits for nobody: no call it
makes blocks on another process.  Nothing is assumed of the machine, nor of
`main` making further calls.  Processes changing for ever are excluded only by
the bounds on changes, and in `MemoryRegionWalk` not even by these.  `CallsReturn`
assumes that `ERROR_MORE_DATA` leaves a size that means something (`sound`): the
documentation of the registry promises none for performance data, and with a size
that is always small the loop need not end.

## 4. What is proved

All theorems hold for every value of the constants that meets the assumptions of
the modules: a finite set of pids, pid 0 protected, the program's own process not;
at least one time counter; finite sets of modules and of title indices, the two indices
of the object "process" among those that always have a name; buffers that are not empty;
natural numbers for the bounds; in `CounterValue` words of an even number of values, at
least 256, the longer a multiple of twice the shorter, and a first unit of sizes that is
no more than half a DWORD.  Nothing bounds the machine: the number of processes,
modules, drivers, libraries and changes is any.

| theorem | module | statement |
|---|---|---|
| `TypeCorrect` | `PidPipeline_proofs` | `Spec => []TypeOK` |
| `NeverDangling` | | `Spec => []NoDangling` |
| `RowsNameOneProcess` | | `Spec => []OneProcessPerPid` |
| `UsedOnceNeverCrashes` | | `Spec => []UsedOnceIsSafe` |
| `UsedOnceLeaksNothing` | | `Spec => []NothingLeaked` |
| `AtMostOneRow` | | `Spec => []OneRowPerPid` |
| `NoRowMissing` | | `Spec => SavedIsComplete` |
| `PipelineImplementsLifecycle` | | `Spec => ImplementsLifecycle` |
| `TypeCorrect` | `ProcessCounters_proofs` | `Spec => []TypeOK` |
| `RowsNameOneProcess` | | `Spec => []RowIsOneProcess` |
| `CrashesOnlyAfterFailure` | | `Spec => []CrashOnlyAfterFailure` |
| `RowsMoveForward` | | `Spec => []RowMovesForward` |
| `ReportPrefix` | | `Spec => []ReportIsPrefix` |
| `TypeCorrect` | `LoaderWalk_proofs` | `Spec => []TypeOK` |
| `QuietRight` | | `Spec => []QuietTargetListed` |
| `SteadyRight` | | `Spec => []SteadyModulesListed` |
| `ExitHangs` | | `Spec => ExitedTargetHangs` |
| `TypeCorrect` | `StandaloneReports_proofs` | `Spec => []TypeInv` |
| `ReportsImplementLifecycle` | | `Spec => ImplementsLifecycle` |
| `RowsRight` | | `Spec => []RowsOfOneAddress` |
| `SteadyRight` | | `Spec => []SteadyDriversListed` |
| `UsedRight` | | `Spec => []UsedInOrderIsSafe` |
| `TypeCorrect` | `PerfRegistry_proofs` | `Spec => []TypeInv` |
| `NamesWholeRight` | | `Spec => NamesWhole` |
| `SteadyRight` | | `Spec => []SteadyObjectsListed` |
| `NamesRight` | | `Spec => []NamesExactUnlessLonger` |
| `UsedRight` | | `Spec => []ProperUse` |
| `ReportsImplementLifecycle` | | `Spec => ImplementsLifecycle` |
| `TypeCorrect` | `MemoryRegionWalk_proofs` | `Spec => []TypeOK` |
| `ListedOnce` | | `Spec => []PagesListedOnce` |
| `SteadyReportedRight` | | `Spec => []SteadyPagesRight` |
| `TimesRight` | `CounterValue_proofs` | `Spec => []TimesReadBack` |
| `UndefinedRight` | | `Spec => []UndefinedIsZero` |
| `FormulaRight` | | `Spec => []CloseToFormula` |
| `MultiTimerRight` | | `Spec => []MultiTimerWithinTwice` |
| `SizeRight` | | `Spec => []SizeRounded` |
| `TypeCorrect` | `SqliteWriter_proofs` | `Spec => []TypeOK` |
| `RowsRight` | | `Spec => []OneRowPerRun` |
| `AloneRight` | | `Spec => []AloneStores` |
| `HandleRight` | | `Spec => []HandleClosed` |

The inductive invariants:

* `OneProcessPerPid` is not inductive: a row says nothing about the next one.
  The invariant adds that a pid with a row of data in an OpenProcess report has a
  handle and that the row's generation is the pid's current one; a pid with a
  handle cannot start a new process, so the generation stays.
* `UsedOnceIsSafe` and `NothingLeaked` need to know, at every point of a session,
  which producers are initialized.  The invariant says that a producer has its
  document and root exactly when it stands in the part of the receiver list that
  was initialized and not yet finalized, and that a name is in the registry only
  if its enumerator has run; "used once" makes the positions unique.
* The three refinements need that a written or given-up name is
  in the registry, so that no later request makes a document for it, and that a
  document has its root (`LifeInv`).  A refinement then goes by what a step can do to
  one report: initialization is `Open`, a `GiveUp` of the open document it loses, or a
  stutter, a row is `Add`, the close `Publish` or `GiveUp`.
* `OneRowPerPid` and `SavedIsComplete` need to know what the listing is and how far
  each producer has come in it.  `ListInv`: the listing has every pid once, and the
  processes it leaves out (`Unlisted`) are no more than there was no room for
  (`Overflow`).  `OpenInv`: an open document belongs to exactly one
  position of the receiver list, because a second request of its name gives NULL and
  takes the first one's away - so that a receiver that is registered twice still gets
  every pid once.  `RowsInv`: the rows of an open report are those of the entries that
  `Sent` says its producer has had, none twice, and none missing of a process that
  still runs.
* `RowIsOneProcess` needs that the name still means the target; the step of the
  machine is the case distinction on where in the instances a process exits.
* `CrashOnlyAfterFailure` needs that a slot of a first sample is `Garbage` only if
  `getCounter` refused it or has not come to it, and that two samples of
  `GetSystemCounters` which were read are one second apart (`DivisionInv`).
* `RowMovesForward` needs that instances are in starting order and that no
  instance from the one read on is older than a value read.
* `ReportIsPrefix` needs that all names before the one at hand have a row (`Covered`),
  that every row was asked for as its name suits, and that the row of a name with a
  single instance is the last, with no name left to walk (`PrefixInv`).
* `QuietTargetListed` follows the walk through a ring of any length: the first `k`
  entries are listed and `tag` is the next one (`QuietWalk`).  `SteadyModulesListed`
  is about a ring that changes, in which the walk can stand on an unlinked entry, or
  on one that was linked again behind it.  The invariant gives every entry the set
  `ahead` of steady modules that are still to come from there: in the ring those from
  the entry on, beyond `head` and at the list head all of them, and at an unlinked entry
  no more than at the entry it leads to; what has not been listed is ahead of `tag`.
  Nothing computes `ahead`, since a chain of unlinked entries has any length: the
  invariant says that such a function exists, and each step gives the next one.
* In `StandaloneReports` and `PerfRegistry` a function leaves `todo`, and the reports are
  right only if what is left finds what it needs.  `TypeInv` has the types of the steps
  that are left.  `UseInv` says that the documents of the three producers are there
  between their `Initialize` and their `Finalize` (`DocsSafe`, `ObjectsSafe`), and that
  every row that is left has a document, now or by an opening that is left before it, for
  a name that was not asked for (`StepSafe`, `TodoSafe`); in `PerfRegistry` also that no
  report which the function will still print (`ToPrint`) is in the registry.
* `RowsOfOneAddress` needs that what is at an address, and what the pending name was
  asked of, has been seen there (`SeenRows`).  `SteadyDriversListed` needs that no driver
  is at two addresses, and that a driver that stays has its one row exactly if it is
  not waiting to be asked about (`SteadyRows`).
* The names and the objects of `PerfRegistry` are in ascending order, which the model
  defines by a choice.  That there is such an order for every finite set is usually
  shown by induction; here it follows by counting: the number of smaller indices is a
  one-to-one map of the set into as many numbers, hence onto them, and its inverse is
  the order (`RankFacts`, `AscendingIs`).
* `NamesWhole` needs the state in the middle of printing: some `k` steps are made, the
  tree is the first `k - 1` rows and what is left the rest (`Left`, `TextInv`).
  `NamesExactUnlessLonger` needs that the buffer is as long as the name of some row
  (`NamesInv`).  `SteadyObjectsListed` needs that what has a row and what is still to
  get one are different, and together all that stayed (`Different`, `Complete`); the
  names read earlier have an object that stayed, because it was there at that moment too.
* `PagesListedOnce` and `SteadyPagesRight` are inductive with the types: a query
  begins where the rows end and its region stays in the address space, and a
  region is of pages that are alike.
* The theorems about `CounterValue` are about a step and not a history: the
  invariant says that the text is what the function gives for the argument.  The
  work is arithmetic: nested divisions are one division by the product, remainders
  have their ranges, and what fits a word does not wrap.  `UndefinedRight` goes by
  the types of counters; where no test guards the division it needs that the low
  half of the least LONGLONG is zero, which is where `LongRange` a multiple of
  `2 * DwordRange` comes in.  `FormulaRight` goes by the types too: a quotient that is
  truncated is less than one off, also from the wrong neighbour of a rounded one, and
  a double that fits is not changed by the conversion.  `MultiTimerRight` needs that
  truncating a quotient that is not zero leaves more than half of it (`HalfLeft`).
* `OneRowPerRun` needs that rows are only of runs past their insert, and that an
  insert cannot have failed before it was tried.  `AloneStores` needs that a run that
  met nobody is the only active one, hence never blocked, and has a table with
  columns from its second statement on, so that a table with the right columns now
  had them when the row was inserted.

What the proofs changed in the models:

* `CloseToFormula` was false for large samples: the difference under the fraction can
  wrap although the numerator fits.  The run's samples were too close together to show
  it; `Fits` now asks for the differences too, and the run has samples that wrap.
* `CloseToFormula` says "to less than one" of the types for which that can be proved,
  and one off of the four others, of which it cannot: their values can be whole
  numbers that are printed as the one before.
* `SavedIsComplete` counts what a report misses, instead of excepting listings that were
  cut off: the proof of the exception needed no more than the count gives.
* The sizes need `Kilo <= DwordRange \div 2`: a number of bytes is printed with a sign.
* `QuietTargetListed` now is about walks shorter than `MaxListed`, as its comment said.
* A module that is unlinked is the one at some position of the ring, written as such.

## 5. What is only model-checked

Every safety property and every action property of a passing run is proved, and so are
the three refinements.  `SessionEnds`, `DoomedCrashes`, `WalkEnds`, `RegionWalkEnds`,
`EnumerateEnds` and `CallsReturn` are liveness under fairness, which is beyond TLAPS
here.  That `ErrorsPrinted` and
`ElapsedReadsBack` are violated is shown by TLC.

## 6. What is not modelled, and the plan

Not modelled: `Log` and the printing to the console; the conversions between
character sets (`ws2s`, `s2ws`), which keep no state; the exact layout of the XML;
functions that nobody calls (`GetMemoryCounters`, `getCounterTimestamp`,
`getTimeInterval`) and
`PdhTest::test`, which only queries and prints; the vendored libraries beyond what
this code uses of them; a file that `SaveFile` leaves half written (a save succeeds or
fails as a whole); a query about a loaded driver that fails; and memory allocation that
fails.  The queries that
`getCounter` opens and nobody closes (`pdhProcessEnumerator.cpp:132`) are a leak by
the shape of the code and have no property.

Next: for each liveness property the part of its argument that is safety - a measure of
what is left to do that every step of the thread decreases (the regions still to
query, the names still to walk, the size a buffer still has to grow by).

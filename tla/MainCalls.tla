----------------------------- MODULE MainCalls -----------------------------
(***************************************************************************)
(* What the producers have in common that have no list of receivers: main  *)
(* calls their functions, in the groups of three lines it shows or in any  *)
(* other order, and a function makes steps on reports, its own and the     *)
(* ones that it opens, prints and closes all by itself.                    *)
(***************************************************************************)
EXTENDS Report, FiniteSetsExt

CONSTANTS
    Producer,   \* the producers that main uses
    MaxCalls,   \* bound: calls of each function by main
    MaxTotal    \* bound: calls in all

VARIABLES
    pc,         \* where the thread is
    todo,       \* the steps on reports still to be made before it goes on
    called,     \* history: how often main called each function
    misused     \* history: main did not keep to the use it shows

callVars == <<called, misused>>

Op == {"Initialize", "Enumerate", "Finalize", "run"}

ASSUME MaxCallsAssumption == MaxCalls \in Nat /\ MaxTotal \in Nat

CallInit ==
    /\ pc = "idle" /\ todo = << >>
    /\ called = [c \in Producer \X Op |-> 0]
    /\ misused = FALSE

-----------------------------------------------------------------------------
(* The thread is at a label, and the steps on reports before it are made.  *)
Running == crash = {}
At(label) == Running /\ pc = label /\ todo = << >>

(* The use main shows: every function once, Initialize, Enumerate and      *)
(* Finalize in this order, and no two functions that write one file.  Of   *)
(* the last it says nothing; SameFile has the functions it is about.       *)
Times(p, op) == IF <<p, op>> \in DOMAIN called THEN called[<<p, op>>] ELSE 0

Proper(p, op, SameFile) ==
    /\ Times(p, op) = 0
    /\ op = "Enumerate" => Times(p, "Initialize") > 0
    /\ op = "Finalize" => Times(p, "Enumerate") > 0
    /\ <<p, op>> \in SameFile => \A c \in SameFile : Times(c[1], c[2]) = 0

Calling(p, op, SameFile) ==
    /\ At("idle")
    /\ p \in Producer
    /\ called[<<p, op>>] < MaxCalls
    /\ MapThenSumSet(LAMBDA c : called[c], DOMAIN called) < MaxTotal
    /\ called' = [called EXCEPT ![<<p, op>>] = @ + 1]
    /\ misused' = (misused \/ ~Proper(p, op, SameFile))

(* A row under the root of a producer, and a report that belongs to one    *)
(* function: a document, a root, the rows, and then it is saved and        *)
(* deleted.                                                                *)
Rows(n, rows) == [i \in DOMAIN rows |-> [does |-> "row", on |-> n, row |-> rows[i]]]

Printed(n, rows) ==
    <<[does |-> "open", on |-> n]>> \o Rows(n, rows) \o <<[does |-> "close", on |-> n]>>

(* The next step on a report.  That GetDocument may have given no document *)
(* is not looked at.                                                       *)
Write ==
    /\ Running
    /\ todo # << >>
    /\ LET step == Head(todo)
       IN  \/ step.does = "open" /\ InitializeUnchecked(step.on)
           \/ step.does = "row" /\ LinkRow(step.on, step.row)
           \/ step.does = "close" /\ CloseReport(step.on)
    /\ todo' = Tail(todo)
    /\ UNCHANGED <<pc, callVars>>

-----------------------------------------------------------------------------
(* The reports of these producers, as ReportLifecycle sees them.           *)
phaseOf(n) ==
    IF n \notin m_map THEN "new"
    ELSE IF n \in m_doc THEN "open"
    ELSE IF n \in saved THEN "published" ELSE "dead"

contentOf(n) ==
    IF phaseOf(n) = "open" THEN tree[n]
    ELSE IF phaseOf(n) = "published" THEN files[n] ELSE << >>

(* A main that keeps to its use loses nothing: no pointer is followed that *)
(* is NULL, and what is on the heap when a function has returned are the   *)
(* documents of the producers that were initialised and not yet finalised. *)
UsedAsShown(ProducerOf) ==
    ~misused =>
        /\ crash = {}
        /\ At("idle") =>
             \A n \in heap :
                /\ n \in DOMAIN ProducerOf
                /\ Times(ProducerOf[n], "Initialize") > Times(ProducerOf[n], "Finalize")
=============================================================================

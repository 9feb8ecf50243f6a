----------------------------- MODULE LoaderWalk -----------------------------
(***************************************************************************)
(* DllEnumerator::printLdr: the walk over the loader's list of another     *)
(* process, one ReadProcessMemory at a time, while that process goes on    *)
(* loading and unloading modules or exits.                                 *)
(*                                                                         *)
(* The list is a ring: the entries of the loaded modules in order, then    *)
(* the list head in PEB_LDR_DATA, the Sentinel.  The code takes ldr.Blink, *)
(* the last module, for the end of the ring, and stops when the next entry *)
(* would be that one.                                                      *)
(***************************************************************************)
EXTENDS Naturals, SequencesExt

CONSTANTS
    Module,         \* addresses of module entries in the target
    Sentinel,       \* address of the list head in PEB_LDR_DATA
    Wild,           \* any address where the target has no memory
    MaxChanges,     \* bound: modules loaded and unloaded during the walk
    MaxListed       \* bound: rows of the report that are remembered

Node == Module \cup {Sentinel}

ASSUME AddressAssumption ==
    /\ IsFiniteSet(Module)
    /\ Sentinel \notin Module /\ Wild \notin Node
ASSUME BoundAssumption == MaxChanges \in Nat /\ MaxListed \in Nat \ {0}

VARIABLES
    ring,       \* the loaded modules, in order
    stale,      \* stale[m]: what Flink of the unlinked entry m still holds
    mapped,     \* FALSE once the target has exited
    changes,    \* modules loaded and unloaded since the walk began
    head,       \* the local head: ldr.Blink when it was read
    tag,        \* the local tag: the entry to read next
    entry,      \* entry.InMemoryOrderLinks.Flink, Wild while uninitialised
    listed,     \* the entries added to the report, Wild for a failed read
    steady,     \* history: the modules loaded ever since the walk began
    pc          \* "walk" or "done"

vars == <<ring, stale, mapped, changes, head, tag, entry, listed, steady, pc>>

Linked(m) == \E i \in DOMAIN ring : ring[i] = m

First(s) == IF s = << >> THEN Sentinel ELSE s[1]
Final(s) == IF s = << >> THEN Sentinel ELSE s[Len(s)]

(* The Flink stored at address a of the target.                            *)
Flink(a) ==
    IF a = Sentinel THEN First(ring)
    ELSE IF Linked(a)
         THEN LET i == CHOOSE j \in DOMAIN ring : ring[j] = a
              IN  IF i = Len(ring) THEN Sentinel ELSE ring[i + 1]
         ELSE stale[a]

(* ReadProcessMemory of the entry at a succeeds.                           *)
Readable(a) == mapped /\ a \in Node /\ Flink(a) # Wild

TypeOK ==
    /\ ring \in Seq(Module)
    /\ \A i, j \in DOMAIN ring : ring[i] = ring[j] => i = j
    /\ stale \in [Module -> Node \cup {Wild}]
    /\ mapped \in BOOLEAN
    /\ changes \in 0..MaxChanges
    /\ head \in Node /\ tag \in Node \cup {Wild} /\ entry \in Node \cup {Wild}
    /\ listed \in Seq(Node \cup {Wild}) /\ Len(listed) <= MaxListed
    /\ steady \subseteq {m \in Module : Linked(m)}
    /\ pc \in {"walk", "done"}

Rings == UNION {{s \in [1..n -> Module] : \A i, j \in 1..n : s[i] = s[j] => i = j} :
                  n \in 0..Cardinality(Module)}

(* printLdr begins with ldr already read.                                  *)
Init ==
    /\ ring \in Rings
    /\ stale = [m \in Module |-> Wild]
    /\ mapped = TRUE
    /\ changes = 0
    /\ head = Final(ring)
    /\ tag = First(ring)
    /\ entry = Wild
    /\ listed = << >>
    /\ steady = {m \in Module : Linked(m)}
    /\ pc = "walk"

-----------------------------------------------------------------------------
(* The target.                                                             *)
(* The loader links a new entry in front of the list head.                 *)
Load(m) ==
    /\ mapped /\ ~Linked(m) /\ changes < MaxChanges
    /\ ring' = Append(ring, m)
    /\ changes' = changes + 1
    /\ UNCHANGED <<stale, mapped, head, tag, entry, listed, steady, pc>>

(* The freed entry keeps its Flink, or is overwritten.                     *)
Unload(m) ==
    /\ mapped /\ changes < MaxChanges
    /\ \E i \in DOMAIN ring : ring[i] = m /\ ring' = RemoveAt(ring, i)
    /\ stale' \in {[stale EXCEPT ![m] = Flink(m)], [stale EXCEPT ![m] = Wild]}
    /\ changes' = changes + 1
    /\ steady' = steady \ {m}
    /\ UNCHANGED <<mapped, head, tag, entry, listed, pc>>

Exit ==
    /\ mapped
    /\ mapped' = FALSE
    /\ UNCHANGED <<ring, stale, changes, head, tag, entry, listed, steady, pc>>

-----------------------------------------------------------------------------
(* A row of the report: the first MaxListed of them are remembered.         *)
AddRow(a) == listed' = IF Len(listed) < MaxListed THEN Append(listed, a) ELSE listed

(* Seeded faults: tag moves on before the entry is added; tag does not     *)
(* move on.                                                                *)
ReadEntrySkipping ==
    /\ Readable(tag)
    /\ entry' = Flink(tag)
    /\ AddRow(Flink(tag))
    /\ tag' = Flink(tag)

ReadEntryStuck ==
    /\ Readable(tag)
    /\ entry' = Flink(tag)
    /\ AddRow(tag)
    /\ UNCHANGED tag

(* The body of the loop when the entry can be read.                        *)
ReadEntry ==
    /\ Readable(tag)
    /\ entry' = Flink(tag)
    /\ AddRow(tag)
    /\ tag' = Flink(tag)

(* Seeded fault: a failed read leaves a link of its own in entry.          *)
ReadFailsAnew ==
    /\ ~Readable(tag)
    /\ AddRow(Wild)
    /\ tag' \in Node \cup {Wild}
    /\ UNCHANGED entry

(* And when it cannot: nobody looks at the result of ReadProcessMemory, so *)
(* a row of garbage is added and tag takes what the stack holds: the link  *)
(* of the last entry that was read, which is tag itself; or anything, when *)
(* none was.                                                               *)
ReadFails ==
    /\ ~Readable(tag)
    /\ AddRow(Wild)
    /\ IF entry = Wild THEN tag' \in Node \cup {Wild} ELSE tag' = entry
    /\ UNCHANGED entry

(* Seeded fault: the walk stops at the list head.                          *)
StepToSentinel ==
    /\ pc = "walk"
    /\ ReadEntry \/ ReadFails
    /\ pc' = IF tag' = Sentinel THEN "done" ELSE "walk"
    /\ UNCHANGED <<ring, stale, mapped, changes, head, steady>>

(* One pass through do { ... } while(head != tag).                         *)
Step ==
    /\ pc = "walk"
    /\ ReadEntry \/ ReadFails
    /\ pc' = IF tag' = head THEN "done" ELSE "walk"
    /\ UNCHANGED <<ring, stale, mapped, changes, head, steady>>

Target == Exit \/ \E m \in Module : Load(m) \/ Unload(m)

Terminating == pc = "done" /\ UNCHANGED vars

Next == Step \/ (pc = "walk" /\ Target) \/ Terminating

(* The thread keeps running; that the target stops changing its ring at    *)
(* some point is the bound MaxChanges.                                     *)
Spec == Init /\ [][Next]_vars /\ WF_vars(Step)

-----------------------------------------------------------------------------
(* What the walk reports of a target that leaves its ring alone: every     *)
(* module but the last, in order - and when there are fewer than two, the  *)
(* list head as well, as if it were a module.  (A report that is longer    *)
(* than what is remembered is not compared.)                               *)
Report ==
    CASE Len(ring) = 0 -> <<Sentinel>>
      [] Len(ring) = 1 -> <<ring[1], Sentinel>>
      [] OTHER -> SubSeq(ring, 1, Len(ring) - 1)

QuietTargetListed ==
    pc = "done" /\ changes = 0 /\ mapped /\ Len(listed) < MaxListed => listed = Report

(* A module that is loaded from the beginning of the walk to its end is    *)
(* listed, unless it was the last of the ring, whatever is loaded and      *)
(* unloaded around it: an unlinked entry still leads back to the ring, and *)
(* the loader appends, never in front of head.                             *)
SteadyModulesListed ==
    pc = "done" /\ head \in steady /\ Len(listed) < MaxListed
                /\ Wild \notin Range(listed)
        => steady \ {head} \subseteq Range(listed)

(* As long as the entry taken for the end of the ring stays on it and      *)
(* every entry can be read, the walk ends, whatever else comes and goes.   *)
WalkEnds ==
    pc = "walk" ~> pc = "done" \/ ~(head = Sentinel \/ Linked(head)) \/ ~Readable(tag)

(* A target that exits under the walk ends it only on its first entry:     *)
(* after that every read fails, tag never moves and the loop never ends.   *)
ExitedTargetHangs ==
    [][~mapped /\ entry # Wild => tag' = tag /\ pc' = pc]_vars
=============================================================================

-------------------------- MODULE ReportLifecycle --------------------------
(***************************************************************************)
(* What the reports of one run promise, whoever produces them: a report is *)
(* opened at most once, rows are only ever added at its end, and it is     *)
(* either published as it then is and never touched again, or given up.    *)
(* A published file is never a part of a report that is still growing, and *)
(* never two reports written over each other.                              *)
(***************************************************************************)
EXTENDS Sequences

CONSTANTS Name, Row

VARIABLES
    phase,      \* phase[n] \in {"new", "open", "published", "dead"}
    content     \* content[n]: the rows of report n

Init ==
    /\ phase = [n \in Name |-> "new"]
    /\ content = [n \in Name |-> << >>]

Open(n) ==
    /\ phase[n] = "new"
    /\ phase' = [phase EXCEPT ![n] = "open"]
    /\ UNCHANGED content

Add(n) ==
    /\ phase[n] = "open"
    /\ \E row \in Row : content' = [content EXCEPT ![n] = Append(@, row)]
    /\ UNCHANGED phase

Publish(n) ==
    /\ phase[n] = "open"
    /\ phase' = [phase EXCEPT ![n] = "published"]
    /\ UNCHANGED content

GiveUp(n) ==
    /\ phase[n] = "open"
    /\ phase' = [phase EXCEPT ![n] = "dead"]
    /\ content' = [content EXCEPT ![n] = << >>]

Next ==
    \E n \in Name : Open(n) \/ Publish(n) \/ GiveUp(n) \/ Add(n)

Spec == Init /\ [][Next]_<<phase, content>>
=============================================================================

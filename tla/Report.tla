------------------------------- MODULE Report -------------------------------
(***************************************************************************)
(* The report registry (report.h, report.cpp) and the way every producer   *)
(* of an XML report uses it: Initialize asks Report::GetDocument for the   *)
(* document of a file name and makes a root element, ReceivePid links rows *)
(* under the root, Finalize links the root to the document, saves it and   *)
(* deletes it.                                                             *)
(*                                                                         *)
(* A producer is named by the file it writes: it has one document pointer  *)
(* m_doc, one root pointer m_root and one flag m_bWork.  The pointers and  *)
(* the flag of all producers are sets of names: a name is in m_doc iff     *)
(* that producer's m_doc is not NULL.  The operators are fragments of the  *)
(* actions of the modules that EXTEND this one; each says what happens to  *)
(* every variable it names.                                                *)
(***************************************************************************)
EXTENDS Naturals, Sequences

VARIABLES
    m_map,      \* names registered in the static map Report::m_map
    heap,       \* names whose TiXmlDocument is allocated and not deleted
    m_doc,      \* producers whose m_doc is not NULL
    m_root,     \* producers whose m_root is not NULL
    m_bWork,    \* producers whose m_bWork is TRUE
    tree,       \* tree[n]: the rows linked under producer n's m_root
    files,      \* files[n]: the rows in file n, when this run wrote it
    saved,      \* the files this run wrote
    crash       \* the producer that dereferenced NULL, if one did

reportVars == <<m_map, heap, m_doc, m_root, m_bWork, tree, files, saved, crash>>

ReportType(Name, Row) ==
    /\ m_map \subseteq Name
    /\ heap \subseteq Name
    /\ m_doc \subseteq Name
    /\ m_root \subseteq Name
    /\ m_bWork \subseteq Name
    /\ tree \in [Name -> Seq(Row)]
    /\ files \in [Name -> Seq(Row)]
    /\ saved \subseteq Name
    /\ crash \subseteq Name

(* Static storage: pointers are NULL, the constructors set m_bWork.        *)
ReportInit(Name) ==
    /\ m_map = {} /\ heap = {} /\ m_doc = {} /\ m_root = {}
    /\ m_bWork = Name
    /\ tree = [n \in Name |-> << >>]
    /\ files = [n \in Name |-> << >>]
    /\ saved = {} /\ crash = {}

Crash(n) ==
    /\ crash' = crash \cup {n}
    /\ UNCHANGED <<m_map, heap, m_doc, m_root, m_bWork, tree, files, saved>>

-----------------------------------------------------------------------------
(* Seeded fault: the registered document is handed out again.              *)
GetDocumentShared(n) ==
    /\ m_map' = m_map \cup {n}
    /\ heap' = heap \cup {n}
    /\ m_doc' = m_doc \cup {n}

(* m_doc = Report::GetDocument(n): a document for the first request of a   *)
(* name, NULL for every later one, because entries are never removed.      *)
GetDocument(n) ==
    /\ m_map' = m_map \cup {n}
    /\ heap' = IF n \in m_map THEN heap ELSE heap \cup {n}
    /\ m_doc' = IF n \in m_map THEN m_doc \ {n} ELSE m_doc \cup {n}

(* m_root = new TiXmlElement(...); an earlier root is leaked, not freed.   *)
NewRoot(n) ==
    /\ m_root' = m_root \cup {n}
    /\ tree' = [tree EXCEPT ![n] = << >>]

(* Producers that look at the result: no document clears m_bWork, and only *)
(* a working producer gets a new root.                                     *)
InitializeChecked(n) ==
    /\ GetDocument(n)
    /\ m_bWork' = IF n \in m_doc' THEN m_bWork ELSE m_bWork \ {n}
    /\ IF n \in m_bWork' THEN NewRoot(n) ELSE UNCHANGED <<m_root, tree>>
    /\ UNCHANGED <<files, saved, crash>>

(* Seeded fault: the new root is not stored.                               *)
InitializeRootless(n) ==
    /\ GetDocument(n)
    /\ UNCHANGED <<m_root, tree, m_bWork, files, saved, crash>>

(* Producers that never look at it.                                        *)
InitializeUnchecked(n) ==
    /\ GetDocument(n)
    /\ NewRoot(n)
    /\ UNCHANGED <<m_bWork, files, saved, crash>>

(* m_root->LinkEndChild(row), which dereferences m_root.                   *)
LinkRow(n, row) ==
    \/ /\ n \in m_root
       /\ tree' = [tree EXCEPT ![n] = Append(@, row)]
       /\ UNCHANGED <<m_map, heap, m_doc, m_root, m_bWork, files, saved, crash>>
    \/ /\ n \notin m_root
       /\ Crash(n)

-----------------------------------------------------------------------------
(* TiXmlDocument::SaveFile: FALSE when the file cannot be opened, and no   *)
(* caller looks at the result.                                             *)
SaveFile(n) ==
    \/ /\ files' = [files EXCEPT ![n] = tree[n]]
       /\ saved' = saved \cup {n}
    \/ UNCHANGED <<files, saved>>

(* Seeded faults: the document is deleted but m_doc keeps pointing at it;  *)
(* the document is not deleted.                                            *)
ReleaseLeaky(n) ==
    /\ m_doc' = m_doc \ {n}
    /\ m_root' = m_root \ {n}
    /\ tree' = [tree EXCEPT ![n] = << >>]
    /\ UNCHANGED heap

ReleaseDangling(n) ==
    /\ heap' = heap \ {n}
    /\ m_root' = m_root \ {n}
    /\ tree' = [tree EXCEPT ![n] = << >>]
    /\ UNCHANGED m_doc

(* m_doc->Clear(); delete m_doc; m_root = NULL; m_doc = NULL.              *)
Release(n) ==
    /\ heap' = heap \ {n}
    /\ m_doc' = m_doc \ {n}
    /\ m_root' = m_root \ {n}
    /\ tree' = [tree EXCEPT ![n] = << >>]

(* m_doc->LinkEndChild(m_root), save and release.                          *)
CloseReport(n) ==
    \/ /\ n \in m_doc /\ n \in m_root
       /\ SaveFile(n)
       /\ Release(n)
       /\ UNCHANGED <<m_map, m_bWork, crash>>
    \/ /\ n \notin m_doc \/ n \notin m_root
       /\ Crash(n)

FinalizeReport(n) ==
    \/ /\ n \in m_bWork
       /\ CloseReport(n)
    \/ /\ n \notin m_bWork
       /\ UNCHANGED reportVars
=============================================================================

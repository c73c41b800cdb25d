---------------------------- MODULE EditSessions ----------------------------
(***************************************************************************)
(* What optimistic concurrency promises about documents that several       *)
(* editors open and save at their own pace: a save goes through only from  *)
(* a copy nobody has saved over since it was opened, so no editor ever     *)
(* overwrites a version they have not seen, and one opening leads to at    *)
(* most one save.                                                          *)
(***************************************************************************)
EXTENDS Naturals

CONSTANTS Docs, Editors, Rows, NoDoc, NoCopy

VARIABLES doc,    \* doc[d]: the current row, NoDoc before it exists
          copy,   \* copy[e]: the document and row editor e has open
          fresh   \* the editors whose copy nobody has saved over

sessionVars == <<doc, copy, fresh>>

SessionsInit ==
    /\ doc = [d \in Docs |-> NoDoc]
    /\ copy = [e \in Editors |-> NoCopy]
    /\ fresh = {}

New(d) ==
    /\ doc[d] = NoDoc
    /\ \E r \in Rows : doc' = [doc EXCEPT ![d] = r]
    /\ UNCHANGED <<copy, fresh>>

Open(e, d) ==
    /\ doc[d] # NoDoc
    /\ copy' = [copy EXCEPT ![e] = [of |-> d, row |-> doc[d]]]
    /\ fresh' = fresh \cup {e}
    /\ UNCHANGED doc

\* e saw exactly the row it overwrites; every open copy of the document,
\* e's own included, is out of date from here on.
Save(e) ==
    /\ e \in fresh
    /\ doc[copy[e].of] = copy[e].row
    /\ \E r \in Rows : doc' = [doc EXCEPT ![copy[e].of] = r]
    /\ fresh' = {f \in fresh : copy[f].of # copy[e].of}
    /\ UNCHANGED copy

SessionsNext ==
    \/ \E d \in Docs : New(d)
    \/ \E e \in Editors, d \in Docs : Open(e, d)
    \/ \E e \in Editors : Save(e)

SessionsSpec == SessionsInit /\ [][SessionsNext]_sessionVars
=============================================================================

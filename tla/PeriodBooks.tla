---------------------------- MODULE PeriodBooks -----------------------------
(***************************************************************************)
(* What the ledger promises about closed fiscal periods, without users,    *)
(* reviews or dates: a record sits in the book of one period; records are  *)
(* written into, moved between and struck out of open books only; closing  *)
(* a book freezes it until it is reopened.                                 *)
(***************************************************************************)
EXTENDS Naturals

CONSTANTS Periods, Ids, Contents, NoRow

VARIABLES lock,   \* lock[p]: "none" before the period exists
          book    \* book[e]: the record of id e, NoRow when there is none

bookVars == <<lock, book>>

Record == [period: Periods, content: Contents]

BooksTypeOK ==
    /\ lock \in [Periods -> {"none", "open", "closed"}]
    /\ book \in [Ids -> Record \cup {NoRow}]

BooksInit ==
    /\ lock = [p \in Periods |-> "none"]
    /\ book = [e \in Ids |-> NoRow]

inOpenBook(r) == r \in Record /\ lock[r.period] = "open"

Turn(p, from, to) ==
    /\ lock[p] = from
    /\ lock' = [lock EXCEPT ![p] = to]
    /\ UNCHANGED book

\* Several records may appear at once, each in an open book.
Write(S) ==
    /\ \A e \in S : book[e] = NoRow /\ inOpenBook(book'[e])
    /\ book' = [e \in Ids |-> IF e \in S THEN book'[e] ELSE book[e]]
    /\ UNCHANGED lock

\* A record is rewritten, and perhaps moved, between open books.
Amend(e) ==
    /\ inOpenBook(book[e])
    /\ inOpenBook(book'[e])
    /\ book' = [book EXCEPT ![e] = book'[e]]
    /\ UNCHANGED lock

Strike(e) ==
    /\ inOpenBook(book[e])
    /\ book' = [book EXCEPT ![e] = NoRow]
    /\ UNCHANGED lock

BooksNext ==
    \/ \E p \in Periods : \/ Turn(p, "none", "open")
                          \/ Turn(p, "open", "closed")
                          \/ Turn(p, "closed", "open")
    \/ \E S \in SUBSET Ids : Write(S)
    \/ \E e \in Ids : Amend(e) \/ Strike(e)

BooksSpec == BooksInit /\ [][BooksNext]_bookVars
=============================================================================

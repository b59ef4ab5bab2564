----------------------------- MODULE ReceiptBook -----------------------------
(***************************************************************************)
(* What the collection ledger promises, without versions, snapshots or     *)
(* locks: a book of receipts in the order they were accepted.  A receipt   *)
(* is appended; the last one in the book may be amended or struck out as   *)
(* long as its cash was not received; what the borrower owes changes by    *)
(* exactly what the entries say.                                           *)
(***************************************************************************)
EXTENDS Integers

CONSTANT Opening    \* what was owed before the first entry

VARIABLES
    book,       \* the receipts that count: a function from their numbers
    received,   \* the numbers of those whose cash was received
    owing       \* what the borrower still owes

vars == <<book, received, owing>>

IsLast(i) == i \in DOMAIN book /\ \A j \in DOMAIN book : j <= i

\* The next number is above every number of the book.
Enter(i, r) ==
    /\ \A j \in DOMAIN book : j < i
    /\ r.credit \in 0..owing
    /\ book' = [j \in DOMAIN book \cup {i} |-> IF j = i THEN r ELSE book[j]]
    /\ owing' = owing - r.credit
    /\ UNCHANGED received

\* Who recorded it and for which day never change.
Amend(i, r) ==
    /\ IsLast(i)
    /\ i \notin received
    /\ r.who = book[i].who /\ r.day = book[i].day
    /\ r.credit \in 0..(owing + book[i].credit)
    /\ book' = [book EXCEPT ![i] = r]
    /\ owing' = owing + book[i].credit - r.credit
    /\ UNCHANGED received

Strike(i) ==
    /\ IsLast(i)
    /\ i \notin received
    /\ book' = [j \in DOMAIN book \ {i} |-> book[j]]
    /\ owing' = owing + book[i].credit
    /\ UNCHANGED received

Receive ==
    /\ received \subseteq received'
    /\ received' \subseteq DOMAIN book
    /\ UNCHANGED <<book, owing>>

Init ==
    /\ book = [i \in {} |-> 0]
    /\ received = {}
    /\ owing = Opening

\* The last entry of a changed book is the one that was entered or amended.
Next ==
    \/ \E i \in DOMAIN book' : Enter(i, book'[i]) \/ Amend(i, book'[i])
    \/ \E i \in DOMAIN book : Strike(i)
    \/ Receive

Spec == Init /\ [][Next]_vars
=============================================================================

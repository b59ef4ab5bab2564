---------------------------- MODULE CashCustody ----------------------------
(***************************************************************************)
(* The cash in the hands of one collector: receipts come in, Refund Due    *)
(* goes out to borrowers, remittances hand over what is left.              *)
(*                                                                         *)
(* An approval or a release is keyed by its request; a repeated key        *)
(* answers with the stored result and changes nothing, so a key stands for *)
(* one approval or release.  A release reads the cash of the collector     *)
(* under the lock of its adjustment and is written in a later step of the  *)
(* same transaction: what another transaction commits in between shows.    *)
(* Remittances lock the tables of receipts and releases, so submitting is  *)
(* one step.                                                               *)
(***************************************************************************)
EXTENDS Integers, Sequences, FiniteSets, FiniteSetsExt

CONSTANTS
    Receipts,       \* live cash receipts of the collector
    Keys,           \* idempotency keys of approvals and releases
    Amounts,        \* amounts that may be approved or released
    AmountOf,       \* cash of each receipt
    DueOf,          \* Refund Due the extra principal of a receipt classified, or 0
    DateOf,         \* collection date of each receipt
    CrossArea,      \* receipts of origin cross_collector
    MaxRemittances  \* bound: remittances ever submitted

\* What the constants must be; a module that gives them values assumes it.
CustodyAssumption ==
    /\ \A r \in Receipts : AmountOf[r] \in Nat \ {0} /\ DueOf[r] \in Nat
    /\ Amounts \subseteq Nat \ {0} /\ CrossArea \subseteq Receipts
    /\ Keys \subseteq Nat \ {0} /\ 0 \notin Receipts /\ MaxRemittances \in Nat
    /\ IsFiniteSet(Keys) /\ IsFiniteSet(Receipts)

VARIABLES
    receipts,       \* state of each receipt: none yet, held, locked or voided
    approvals,      \* approved Refund Due: key -> [receipt, amount]
    releasing,      \* release transactions that read the cash and did not write
    releases,       \* released cash: key -> [approval, amount]
    remittances     \* remittances in order: items, refund lines, status

vars == <<receipts, approvals, releasing, releases, remittances>>

None == [approval |-> 0, amount |-> 0]
Unapproved == [receipt |-> 0, amount |-> 0]
Dates == {DateOf[r] : r \in Receipts}

Approved(r) == MapThenSumSet(LAMBDA k : approvals[k].amount,
                             {k \in Keys : approvals[k].receipt = r})
Released(a) == MapThenSumSet(LAMBDA k : releases[k].amount,
                             {k \in Keys : releases[k].approval = a})
ReleasedOf(r) == MapThenSumSet(Released, {k \in Keys : approvals[k].receipt = r})

\* Nobody else holds the lock of the adjustment the receipt made.
Unlocked(r) ==
    \A k \in Keys : releasing[k] # None => approvals[releasing[k].approval].receipt # r

-----------------------------------------------------------------------------
(* What the collector holds.                                               *)

HeldOn(date) == {r \in Receipts : receipts[r] = "held" /\ DateOf[r] = date}
Cash(R) == MapThenSumSet(LAMBDA r : AmountOf[r], R)

Standing == {i \in DOMAIN remittances : remittances[i].status # "rejected"}

Post(r) ==
    /\ receipts[r] = "none"
    /\ receipts' = [receipts EXCEPT ![r] = "held"]
    /\ UNCHANGED <<approvals, releasing, releases, remittances>>

\* The part of a release no standing remittance has taken into account.
Unremitted(k) ==
    releases[k].amount - MapThenSumSet(LAMBDA i : remittances[i].lines[k], Standing)

\* Receipts not handed over less releases not taken into account.
InHand == Cash({r \in Receipts : receipts[r] = "held"}) - MapThenSumSet(Unremitted, Keys)

CashHeld == IF InHand > 0 THEN InHand ELSE 0

-----------------------------------------------------------------------------
(* Refund Due.                                                             *)

\* What may still be approved; a reversed adjustment has no active due.
Approvable(r) == IF receipts[r] \in {"none", "voided"} THEN 0 ELSE DueOf[r] - Approved(r)

Approve(k, r, amount) ==
    /\ approvals[k] = Unapproved
    /\ Unlocked(r)
    /\ amount <= Approvable(r)
    /\ approvals' = [approvals EXCEPT ![k] = [receipt |-> r, amount |-> amount]]
    /\ UNCHANGED <<receipts, releasing, releases, remittances>>

BeginRelease(k, a, amount) ==
    /\ releases[k] = None /\ releasing[k] = None
    /\ approvals[a] # Unapproved
    /\ Unlocked(approvals[a].receipt)
    /\ receipts[approvals[a].receipt] # "voided"
    /\ amount <= approvals[a].amount - Released(a)
    /\ amount <= CashHeld
    /\ releasing' = [releasing EXCEPT ![k] = [approval |-> a, amount |-> amount]]
    /\ UNCHANGED <<receipts, approvals, releases, remittances>>

FinishRelease(k) ==
    /\ releasing[k] # None
    /\ releases' = [releases EXCEPT ![k] = releasing[k]]
    /\ releasing' = [releasing EXCEPT ![k] = None]
    /\ UNCHANGED <<receipts, approvals, remittances>>

\* The connection is lost and the transaction rolls back.
LoseRelease(k) ==
    /\ releasing[k] # None
    /\ releasing' = [releasing EXCEPT ![k] = None]
    /\ UNCHANGED <<receipts, approvals, releases, remittances>>

\* A remitted receipt stays, and so does one whose refund left in cash.
Reversible(r) ==
    /\ receipts[r] = "held"
    /\ Unlocked(r)
    /\ ReleasedOf(r) = 0

VoidReceipt(r) ==
    /\ Reversible(r)
    /\ receipts' = [receipts EXCEPT ![r] = "voided"]
    /\ UNCHANGED <<approvals, releasing, releases, remittances>>

-----------------------------------------------------------------------------
(* Remittances.                                                            *)

\* Mutant: a line carries the whole release, whatever earlier remittances took.
LinesOfWholeReleases(items) ==
    [k \in Keys |->
        LET left == Cash(items) - MapThenSumSet(Unremitted, {j \in Keys : j < k})
        IN  Max({0, Min({releases[k].amount, left})})]

\* The oldest releases first, each as far as the cash of the date goes.
Lines(items) ==
    [k \in Keys |->
        LET left == Cash(items) - MapThenSumSet(Unremitted, {j \in Keys : j < k})
        IN  Max({0, Min({Unremitted(k), left})})]

NoLines == [k \in Keys |-> 0]

Handover(items, lines) ==
    [items |-> items, lines |-> lines, status |-> "submitted",
     total |-> Cash(items) - MapThenSumSet(LAMBDA k : lines[k], Keys)]

SubmitWith(items, lines) ==
    /\ items # {}
    /\ Len(remittances) < MaxRemittances
    /\ remittances' = Append(remittances, Handover(items, lines))
    /\ receipts' = [r \in Receipts |-> IF r \in items THEN "locked" ELSE receipts[r]]
    /\ UNCHANGED <<approvals, releasing, releases>>

Submit(date) == SubmitWith(HeldOn(date), Lines(HeldOn(date)))

\* A hand-over of other-area payments carries no refund lines.
SubmitCross(date) == SubmitWith(HeldOn(date) \cap CrossArea, NoLines)

Receive(i) ==
    /\ remittances[i].status = "submitted"
    /\ remittances' = [remittances EXCEPT ![i].status = "received"]
    /\ UNCHANGED <<receipts, approvals, releasing, releases>>

Reject(i) ==
    /\ remittances[i].status = "submitted"
    /\ remittances' = [remittances EXCEPT ![i].status = "rejected"]
    /\ receipts' = [r \in Receipts |->
                        IF r \in remittances[i].items THEN "held" ELSE receipts[r]]
    /\ UNCHANGED <<approvals, releasing, releases>>

-----------------------------------------------------------------------------
Init ==
    /\ receipts = [r \in Receipts |-> "none"]
    /\ approvals = [k \in Keys |-> Unapproved]
    /\ releasing = [k \in Keys |-> None]
    /\ releases = [k \in Keys |-> None]
    /\ remittances = <<>>

Next ==
    \/ \E r \in Receipts : Post(r)
    \/ \E k \in Keys, r \in Receipts, amount \in Amounts : Approve(k, r, amount)
    \/ \E k, a \in Keys, amount \in Amounts : BeginRelease(k, a, amount)
    \/ \E k \in Keys : FinishRelease(k)
    \/ \E k \in Keys : LoseRelease(k)
    \/ \E r \in Receipts : VoidReceipt(r)
    \/ \E date \in Dates : Submit(date)
    \/ \E date \in Dates : SubmitCross(date)
    \/ \E i \in DOMAIN remittances : Receive(i)
    \/ \E i \in DOMAIN remittances : Reject(i)

Spec == Init /\ [][Next]_vars

-----------------------------------------------------------------------------
(* Type invariant: every amount that the tables hold is a natural number   *)
(* and every line refers to what exists.                                   *)
TypeOK ==
    /\ receipts \in [Receipts -> {"none", "held", "locked", "voided"}]
    /\ \A k \in Keys : approvals[k].amount \in Nat
    /\ \A k \in Keys : releases[k].amount \in Nat /\ releasing[k].amount \in Nat
    /\ \A i \in DOMAIN remittances :
        /\ remittances[i].items \subseteq Receipts
        /\ remittances[i].status \in {"submitted", "received", "rejected"}
        /\ remittances[i].total \in Nat

\* No refund line outlives its money: over all standing remittances a release
\* is taken into account at most once in full, through rejection and
\* resubmission (remittance_repository._eligible_refund_due_releases).
ReleaseNettedOnce == \A k \in Keys : Unremitted(k) >= 0

\* What the collector received, less what went back to borrowers and less what
\* standing remittances ask for, is what the records still leave in hand.
CashIsConserved ==
    InHand = Cash({r \in Receipts : receipts[r] \in {"held", "locked"}})
             - MapThenSumSet(LAMBDA k : releases[k].amount, Keys)
             - MapThenSumSet(LAMBDA i : remittances[i].total, Standing)

\* Cash goes out only for Refund Due that an approval covers and an adjustment
\* that was not reversed under it (refund_due_repository, comment at 444).
RefundIsOwed ==
    \A r \in Receipts :
        /\ ReleasedOf(r) <= Approved(r) /\ Approved(r) <= DueOf[r]
        /\ receipts[r] = "voided" => ReleasedOf(r) = 0

\* A receipt belongs to at most one standing remittance, and a locked one to
\* exactly one (the lock columns and the item rows are two records of it).
LockedBelongsToOne ==
    \A r \in Receipts :
        Cardinality({i \in Standing : r \in remittances[i].items})
            = IF receipts[r] = "locked" THEN 1 ELSE 0

\* The records of what a collector holds, released and handed over agree.
CustodyBalances == ReleaseNettedOnce /\ CashIsConserved /\ RefundIsOwed /\ LockedBelongsToOne
=============================================================================

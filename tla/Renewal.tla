-------------------------------- MODULE Renewal --------------------------------
(***************************************************************************)
(* The renewal of a loan: a request of the borrower, the recommendation of  *)
(* the collector, the terms of Management, the answer and the signature of  *)
(* the borrower, the evidence of the execution, and then the net proceeds,  *)
(* which go out by one of two routes.  Cash passes from Management to the   *)
(* collector to the borrower; a payout is a wallet debit that every holder  *)
(* of the money acknowledges.  Management reviews the proof and activates.  *)
(*                                                                         *)
(* A request row is locked by every step (_renewal_row), so a step is       *)
(* atomic; what may change between two steps is everything else: payments   *)
(* and voids on the old loan, the evidence, its journal, the review of the  *)
(* client's file (CIF), the collector of the area and the day.              *)
(***************************************************************************)
EXTENDS Integers, Sequences, FiniteSets

CONSTANTS
    Opening,       \* what the old loan asks in all
    Principals,    \* principals Management may approve
    Collectors,
    LastDay,
    MaxRequests, MaxEvidence, MaxPayouts   \* bounds

\* What the constants must be; a module that gives them values assumes it.
RenewalAssumption ==
    /\ Opening \in Nat \ {0} /\ Principals \subseteq Nat \ {0}
    /\ LastDay \in Nat \ {0} /\ Collectors # {}
    /\ MaxRequests \in Nat /\ MaxEvidence \in Nat /\ MaxPayouts \in Nat

VARIABLES
    day,
    paid,        \* what live receipts paid on the old loan
    collector,   \* the collector of the client's area
    cifReady,    \* the client's file allows new credit
    requests,    \* client_renewal_requests, in order
    evidence,    \* loan_renewal_execution_events with their disbursement
    payouts      \* loan_payouts of the renewals

vars == <<day, paid, collector, cifReady, requests, evidence, payouts>>

MaxDebits == 2   \* bound: debits recorded against a payout that was not cancelled

NoAmount == [offset |-> -1, net |-> -1]
NewRequest ==
    [status |-> "pending", recommended |-> FALSE, principal |-> 0, office |-> FALSE,
     verified |-> FALSE, signed |-> FALSE, decision |-> "none", amount |-> NoAmount,
     cash |-> "none", confirmed |-> FALSE, proof |-> "not_submitted",
     activation |-> "not_released"]

Settled == paid = Opening
Open(r) == r.status \in {"pending", "approved"}
Accepted(r) == r.status = "approved" /\ r.decision = "accepted"
Ready(r) == ~r.office /\ r.verified /\ r.signed

LivePayout(k) == {p \in DOMAIN payouts : payouts[p].request = k /\ payouts[p].status # "cancelled"}
Evidence(k) == {e \in DOMAIN evidence : evidence[e].live /\ evidence[e].request = k}

-----------------------------------------------------------------------------
(* The request, until it is accepted and signed.                           *)

NothingOpen == \A k \in DOMAIN requests : ~Open(requests[k])

Submit ==
    /\ 2 * paid >= Opening /\ NothingOpen
    /\ Len(requests) < MaxRequests
    /\ requests' = Append(requests, NewRequest)
    /\ UNCHANGED <<day, paid, collector, cifReady, evidence, payouts>>

Set(k, r) ==
    /\ requests' = [requests EXCEPT ![k] = r]
    /\ UNCHANGED <<day, paid, collector, cifReady, evidence, payouts>>

Cancel(k) ==
    LET r == requests[k] IN
    r.status = "pending" /\ Set(k, [r EXCEPT !.status = "cancelled"])

Recommend(k) ==
    LET r == requests[k] IN
    r.status = "pending" /\ Set(k, [r EXCEPT !.recommended = TRUE])

Terms(k, approve, principal, office, verified) ==
    LET r == requests[k] IN
    /\ r.status = "pending" /\ r.recommended
    /\ IF approve
       THEN cifReady /\ Set(k, [r EXCEPT !.status = "approved", !.principal = principal,
                                         !.office = office, !.verified = verified])
       ELSE Set(k, [r EXCEPT !.status = "rejected"])

DecisionOpen(r) ==
    r.amount = NoAmount /\ r.cash = "none" /\ r.activation = "not_released"

Decide(k, decision) ==
    LET r == requests[k] IN
    /\ r.status = "approved" /\ r.decision # decision /\ DecisionOpen(r)
    /\ Set(k, [r EXCEPT !.decision = decision])

Sign(k) ==
    LET r == requests[k] IN
    /\ Accepted(r) /\ ~r.office /\ r.verified
    /\ Set(k, [r EXCEPT !.signed = TRUE])

-----------------------------------------------------------------------------
(* The evidence of the execution.                                          *)

RecordEvidence(k, principal, settle, cash, bank) ==
    /\ requests[k].status = "approved" /\ cifReady
    /\ \A e \in DOMAIN evidence : ~evidence[e].live
    /\ settle + cash <= principal /\ Len(evidence) < MaxEvidence
    /\ evidence' = Append(evidence,
          [request |-> k, principal |-> principal, settle |-> settle, cash |-> cash,
           bank |-> bank, date |-> day, live |-> TRUE, posted |-> FALSE])
    /\ UNCHANGED <<day, paid, collector, cifReady, requests, payouts>>

Unbound(e) == \A p \in DOMAIN payouts : payouts[p].evidence = e => payouts[p].status = "cancelled"

VoidEvidence(e) ==
    /\ evidence[e].live /\ ~evidence[e].posted /\ Unbound(e)
    /\ evidence' = [evidence EXCEPT ![e].live = FALSE]
    /\ UNCHANGED <<day, paid, collector, cifReady, requests, payouts>>

PostJournal(e) ==
    /\ evidence[e].live /\ ~evidence[e].posted
    /\ \A p \in DOMAIN payouts : payouts[p].status = "cancelled"
    /\ evidence' = [evidence EXCEPT ![e].posted = TRUE]
    /\ UNCHANGED <<day, paid, collector, cifReady, requests, payouts>>

\* The evidence matches the approval, with no deduction but the settlement.
Authoritative(k, e) ==
    /\ e \in Evidence(k)
    /\ evidence[e].principal = requests[k].principal
    /\ evidence[e].settle + evidence[e].cash = requests[k].principal

-----------------------------------------------------------------------------
(* The cash route.                                                         *)

\* Mutant: a payout does not keep the cash back.
NoPayoutIgnored(k) == TRUE

\* guard_renewal_payout_cash: an update that carries cash fields needs no payout.
NoPayout(k) == LivePayout(k) = {}

\* Mutant: an amount that is locked can be released again.
UnlockedAny(r) == TRUE

Unlocked(r) == r.amount = NoAmount

Release(k, e) ==
    LET r == requests[k] IN
    /\ Accepted(r) /\ Ready(r) /\ Authoritative(k, e)
    /\ Unlocked(r) /\ cifReady /\ NoPayout(k)
    /\ Set(k, [r EXCEPT !.amount = [offset |-> evidence[e].settle, net |-> evidence[e].cash],
                        !.cash = "released", !.activation = "released_pending_management"])

Receive(k) ==
    LET r == requests[k] IN
    r.cash = "released" /\ Set(k, [r EXCEPT !.cash = "received"])

Give(k) ==
    LET r == requests[k] IN
    r.cash = "received" /\ cifReady /\ Set(k, [r EXCEPT !.cash = "given"])

Confirm(k) ==
    LET r == requests[k] IN
    r.cash = "given" /\ Set(k, [r EXCEPT !.confirmed = TRUE])

UploadPhoto(k) ==
    LET r == requests[k] IN
    r.cash = "given" /\ Set(k, [r EXCEPT !.proof = "under_review"])

Activatable(r) ==
    /\ Accepted(r) /\ r.proof = "approved" /\ r.confirmed
    /\ r.amount # NoAmount /\ Settled /\ Ready(r)

\* The CIF guard fires on the change to active only.
Activate(k) ==
    LET r == requests[k] IN
    /\ Activatable(r) /\ (cifReady \/ r.activation = "active")
    /\ Set(k, [r EXCEPT !.activation = "active"])

\* An approved proof activates at once; a review is kept when the CIF or an
\* unmet condition stops that.
ReviewProof(k, outcome) ==
    LET r == [requests[k] EXCEPT !.proof = outcome] IN
    /\ requests[k].proof \in {"under_review", "correction_required", "flagged"}
    /\ Set(k, IF outcome = "approved" /\ Activatable(r) /\ cifReady
              THEN [r EXCEPT !.activation = "active"] ELSE r)

-----------------------------------------------------------------------------
(* The payout route.                                                       *)

\* renewal_source: what the money is paid for still stands, today.
Source(k, e) ==
    LET r == requests[k] IN
    /\ Accepted(r) /\ Ready(r) /\ r.activation # "active"
    /\ r.cash = "none" /\ ~r.confirmed /\ cifReady
    /\ Authoritative(k, e) /\ evidence[e].bank /\ ~evidence[e].posted /\ evidence[e].date = day

Prepare(k, e, destination) ==
    /\ Source(k, e) /\ evidence[e].cash > 0 /\ LivePayout(k) = {}
    /\ Len(payouts) < MaxPayouts
    /\ payouts' = Append(payouts,
          [request |-> k, evidence |-> e, destination |-> destination,
           holder |-> IF destination = "collector" THEN collector ELSE "none",
           status |-> "prepared", debits |-> 0, late |-> FALSE, received |-> {}])
    /\ UNCHANGED <<day, paid, collector, cifReady, requests, evidence>>

SetPayout(p, q) ==
    /\ payouts' = [payouts EXCEPT ![p] = q]
    /\ UNCHANGED <<day, paid, collector, cifReady, requests, evidence>>

\* revalidate: the source and its recipient are those that were reviewed.
Revalidated(q) ==
    Source(q.request, q.evidence) /\ (q.destination = "collector" => collector = q.holder)

\* A debit that was observed is recorded whatever became of the payout it names; it
\* funds one that is prepared and stands, if version, payee and amount are exact.
Debit(p, exact) ==
    LET q == payouts[p] IN
    \/ /\ q.status # "cancelled" /\ q.debits < MaxDebits
       /\ SetPayout(p, [q EXCEPT !.debits = @ + 1,
               !.status = IF exact /\ @ = "prepared" /\ Revalidated(q) THEN "debited" ELSE @])
    \/ /\ q.status = "cancelled"
       /\ SetPayout(p, [q EXCEPT !.late = TRUE])

Cancellable(q) == q.status = "prepared" /\ q.debits = 0

CancelPayout(p) ==
    Cancellable(payouts[p]) /\ SetPayout(p, [payouts[p] EXCEPT !.status = "cancelled"])

ConfirmRecipient(p) ==
    LET q == payouts[p] IN
    /\ q.status = "debited" /\ Revalidated(q)
    /\ SetPayout(p, [q EXCEPT !.status = "recipient_confirmed"])

Stages(q) == IF q.destination = "collector"
             THEN <<"recipient", "borrower_handover", "borrower">> ELSE <<"borrower">>

AfterPrior(q, i) == i > 1 => Stages(q)[i - 1] \in q.received

Acknowledge(p, i) ==
    LET q == payouts[p] IN
    /\ q.status = "recipient_confirmed" /\ Revalidated(q)
    /\ Stages(q)[i] \notin q.received /\ AfterPrior(q, i)
    /\ SetPayout(p, [q EXCEPT !.received = @ \cup {Stages(q)[i]}])

\* Every holder acknowledged and the old loan is settled: the renewal is active.
CompletePayout(p) ==
    LET q == payouts[p] r == requests[q.request] e == evidence[q.evidence] IN
    /\ q.status = "recipient_confirmed" /\ Revalidated(q)
    /\ \A i \in DOMAIN Stages(q) : Stages(q)[i] \in q.received
    /\ Settled
    /\ requests' = [requests EXCEPT ![q.request] =
          [r EXCEPT !.amount = [offset |-> e.settle, net |-> e.cash],
                    !.proof = "approved", !.activation = "active"]]
    /\ payouts' = [payouts EXCEPT ![p].status = "completed"]
    /\ UNCHANGED <<day, paid, collector, cifReady, evidence>>

-----------------------------------------------------------------------------
(* What changes around a renewal.                                          *)

PayOldLoan ==
    /\ ~Settled /\ paid' = paid + 1
    /\ UNCHANGED <<day, collector, cifReady, requests, evidence, payouts>>

VoidPayment ==
    /\ paid > 0 /\ paid' = paid - 1
    /\ UNCHANGED <<day, collector, cifReady, requests, evidence, payouts>>

ChangeCif ==
    /\ cifReady' = ~cifReady
    /\ UNCHANGED <<day, paid, collector, requests, evidence, payouts>>

Reassign(c) ==
    /\ c # collector /\ collector' = c
    /\ UNCHANGED <<day, paid, cifReady, requests, evidence, payouts>>

NextDay ==
    /\ day < LastDay /\ day' = day + 1
    /\ UNCHANGED <<paid, collector, cifReady, requests, evidence, payouts>>

-----------------------------------------------------------------------------
Init ==
    /\ day = 1 /\ paid = 0 /\ cifReady = TRUE
    /\ collector \in Collectors
    /\ requests = <<>> /\ evidence = <<>> /\ payouts = <<>>

RequestStep(k) ==
    \/ Cancel(k) \/ Recommend(k) \/ Sign(k)
    \/ \E principal \in Principals, office \in BOOLEAN, verified \in BOOLEAN :
         Terms(k, TRUE, principal, office, verified)
    \/ Terms(k, FALSE, 0, FALSE, FALSE)
    \/ \E d \in {"accepted", "declined"} : Decide(k, d)
    \/ \E principal \in Principals, settle, cash \in 0 .. Opening, bank \in BOOLEAN :
         RecordEvidence(k, principal, settle, cash, bank)

CashStep(k) ==
    \/ \E e \in DOMAIN evidence : Release(k, e)
    \/ Receive(k) \/ Give(k) \/ Confirm(k) \/ UploadPhoto(k) \/ Activate(k)
    \/ \E o \in {"approved", "correction_required", "flagged"} : ReviewProof(k, o)

PayoutStep(p) ==
    \/ \E exact \in BOOLEAN : Debit(p, exact)
    \/ CancelPayout(p) \/ ConfirmRecipient(p) \/ CompletePayout(p)
    \/ \E i \in DOMAIN Stages(payouts[p]) : Acknowledge(p, i)

Around ==
    \/ PayOldLoan \/ VoidPayment \/ ChangeCif \/ NextDay
    \/ \E c \in Collectors : Reassign(c)

Next ==
    \/ Submit
    \/ \E k \in DOMAIN requests : RequestStep(k) \/ CashStep(k)
    \/ \E k \in DOMAIN requests, e \in DOMAIN evidence, d \in {"collector", "borrower"} :
         Prepare(k, e, d)
    \/ \E e \in DOMAIN evidence : VoidEvidence(e) \/ PostJournal(e)
    \/ \E p \in DOMAIN payouts : PayoutStep(p)
    \/ Around

Spec == Init /\ [][Next]_vars

-----------------------------------------------------------------------------
CashOut(k) == requests[k].cash # "none"
Funded(p) == payouts[p].status \in {"debited", "recipient_confirmed", "completed"}

(* Type invariant.                                                         *)
TypeOK ==
    /\ day \in 1 .. LastDay /\ paid \in 0 .. Opening /\ collector \in Collectors
    /\ cifReady \in BOOLEAN
    /\ \A k \in DOMAIN requests :
         /\ requests[k].status \in {"pending", "approved", "rejected", "cancelled"}
         /\ requests[k].decision \in {"none", "accepted", "declined"}
         /\ requests[k].cash \in {"none", "released", "received", "given"}
         /\ requests[k].activation \in {"not_released", "released_pending_management", "active"}
    /\ \A p \in DOMAIN payouts :
         payouts[p].evidence \in DOMAIN evidence /\ payouts[p].request \in DOMAIN requests

\* The proceeds of the old loan's renewal are accounted for once, whatever requests
\* came before: by cash or by one payout that a debit funds, never by both ("A renewal
\* payout cannot race or masquerade as the pre-existing cash workflow").  A debit
\* that funds nothing is an exception of the wallet and is not counted.
ProceedsOutOnce ==
    Cardinality({k \in DOMAIN requests : CashOut(k)}) +
    Cardinality({p \in DOMAIN payouts : Funded(p)}) <= 1

\* A payout is not replaced over a debit that was recorded against it, linked or not
\* (action: "An observed debit references this payout"): what names a cancelled payout
\* was recorded after its cancellation.
DebitIsKept == \A p \in DOMAIN payouts : payouts[p].debits > 0 => payouts[p].status # "cancelled"

\* The borrower's consent stands behind cash that was released
\* ("release freezes changes").
CashIsAccepted == \A k \in DOMAIN requests : CashOut(k) => Accepted(requests[k]) /\ Ready(requests[k])

\* An active renewal is one whose borrower holds the money and said so, by the
\* route that was taken (_try_activate, complete).
ActiveIsReceived ==
    \A k \in DOMAIN requests : requests[k].activation = "active" =>
        \/ requests[k].cash = "given" /\ requests[k].confirmed
        \/ \E p \in LivePayout(k) : payouts[p].status = "completed"
                /\ payouts[p].received = {Stages(payouts[p])[i] : i \in DOMAIN Stages(payouts[p])}

\* Evidence a payout was reviewed on is live and unbooked until the payout is
\* cancelled, so its amounts are those the debit was checked against
\* (guard_payout_source_void, guard_loan_payout_journal).
PayoutKeepsEvidence ==
    \A p \in DOMAIN payouts : payouts[p].status # "cancelled" =>
        LET e == payouts[p].evidence IN
        evidence[e].live /\ ~evidence[e].posted /\ evidence[e].request = payouts[p].request

\* What the borrower acknowledged was first acknowledged by whoever brought it.
HandedInOrder ==
    \A p \in DOMAIN payouts : \A i \in DOMAIN Stages(payouts[p]) :
        Stages(payouts[p])[i] \in payouts[p].received =>
            \A j \in 1 .. i : Stages(payouts[p])[j] \in payouts[p].received

RenewalGoesOutOnce == /\ ProceedsOutOnce /\ DebitIsKept /\ CashIsAccepted
                      /\ ActiveIsReceived /\ PayoutKeepsEvidence /\ HandedInOrder

\* Once the amount of a renewal is locked it, its principal and its consent are
\* never rewritten, whatever happens to the evidence behind it (amount_locked_at).
LockedStays ==
    \A k \in DOMAIN requests : requests[k].amount # NoAmount =>
        /\ requests'[k].amount = requests[k].amount
        /\ requests'[k].decision = requests[k].decision
        /\ requests'[k].principal = requests[k].principal
=============================================================================

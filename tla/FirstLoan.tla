-------------------------------- MODULE FirstLoan --------------------------------
(***************************************************************************)
(* The first loan of a client: an approval locks a packet of terms, its     *)
(* document is issued once, the borrower signs it before a witness,         *)
(* Management authorizes the release, and the net proceeds go out by office *)
(* cash or by one wallet payout, in the transaction that activates the loan.*)
(*                                                                         *)
(* Every operation locks the loan row (_load), so it is one step.  Between  *)
(* two steps everything the packet was made from may move: the day, the     *)
(* sources (application version, privacy package, disclosure), the pricing  *)
(* review, the readiness of the file and the authority of the authorizer.   *)
(* Requests carry identities and are repeated when an answer is lost; a     *)
(* repeated request that was committed answers and changes nothing.         *)
(***************************************************************************)
EXTENDS Integers, Sequences, FiniteSets

CONSTANTS
    Requests,     \* identities of approval and authorization requests
    Pricings,     \* ready pricing reviews; 0 is none
    LastDay,
    MaxSources, MaxApprovals, MaxAuthorizations, MaxPayouts   \* bounds

\* What the constants must be; a module that gives them values assumes it.
FirstLoanAssumption ==
    /\ Requests # {} /\ Pricings \subseteq Nat \ {0} /\ Pricings # {}
    /\ LastDay \in Nat \ {0} /\ MaxSources \in Nat \ {0}
    /\ MaxApprovals \in Nat /\ MaxAuthorizations \in Nat /\ MaxPayouts \in Nat

VARIABLES
    day,
    source,          \* the version of application, privacy package and disclosure
    ready,           \* CIF, confirmations and template stand
    pricing,         \* the latest pricing review of the terms
    manager,         \* the authorizing manager is active
    loans,           \* first_loan_approvals with their loans, documents and releases
    authorizations,  \* first_loan_authorizations, in order
    receipts,        \* authorizations with captured cash evidence
    payouts          \* loan_payouts of first loans

packet == <<source, ready, pricing, manager>>
records == <<loans, authorizations, receipts, payouts>>
firstLoanVars == <<day, packet, records>>

MaxDebits == 2   \* bound: debits recorded against a payout that was not cancelled

NoRelease == [authorization |-> 0, pricing |-> 0, payout |-> 0]

Pending(k) == loans[k].status = "approved"
Live(p) == payouts[p].status # "cancelled"
LivePayouts(k) == {p \in DOMAIN payouts : Live(p) /\ payouts[p].loan = k}

\* _locked_source: the packet was approved on the sources that are current.
LockedSource(k) == ready /\ loans[k].source = source

\* _document, for execution: the issued document states the current pricing.
Issued(k) == loans[k].document # 0 /\ loans[k].document = pricing

\* _authorization: the newest of the loan, not revoked, by a manager still in office.
Authorized(k, a) ==
    /\ a \in DOMAIN authorizations /\ authorizations[a].loan = k
    /\ ~authorizations[a].revoked /\ manager
    /\ \A b \in DOMAIN authorizations : authorizations[b].loan = k => b <= a

-----------------------------------------------------------------------------
(* Approval, document, authorization.                                      *)

NewApproval(req) == \A k \in DOMAIN loans : loans[k].request # req

NoOtherLoan == \A k \in DOMAIN loans : loans[k].status = "cancelled"

Approve(req, basis) ==
    /\ NewApproval(req) /\ ready /\ NoOtherLoan /\ basis >= day
    /\ Len(loans) < MaxApprovals
    /\ loans' = Append(loans,
          [request |-> req, source |-> source, basis |-> basis, status |-> "approved",
           document |-> 0, signed |-> FALSE, release |-> NoRelease])
    /\ UNCHANGED <<day, packet, authorizations, receipts, payouts>>

SetLoan(k, l) ==
    /\ loans' = [loans EXCEPT ![k] = l]
    /\ UNCHANGED <<day, packet, authorizations, receipts, payouts>>

RegisterDocument(k) ==
    /\ loans[k].document = 0 /\ Pending(k) /\ LockedSource(k) /\ pricing # 0
    /\ SetLoan(k, [loans[k] EXCEPT !.document = pricing])

CancellableApproval(k) == Pending(k) /\ LivePayouts(k) = {}

CancelApproval(k) ==
    CancellableApproval(k) /\ SetLoan(k, [loans[k] EXCEPT !.status = "cancelled"])

NewAuthorization(req) == \A a \in DOMAIN authorizations : authorizations[a].request # req

\* Mutant: a loan that was released can be authorized again.
AuthorizableAny(k) == LockedSource(k) /\ Issued(k)

Authorizable(k) == Pending(k) /\ LockedSource(k) /\ Issued(k)

AuthorizeRelease(k, req) ==
    /\ NewAuthorization(req) /\ Authorizable(k) /\ manager
    /\ Len(authorizations) < MaxAuthorizations
    /\ authorizations' = Append(authorizations, [loan |-> k, request |-> req, revoked |-> FALSE])
    /\ UNCHANGED <<day, packet, loans, receipts, payouts>>

RevokeRelease(k, a) ==
    /\ Pending(k) /\ Authorized(k, a)
    /\ authorizations' = [authorizations EXCEPT ![a].revoked = TRUE]
    /\ UNCHANGED <<day, packet, loans, receipts, payouts>>

-----------------------------------------------------------------------------
(* Evidence.                                                               *)

\* capture: the packet, its document and its date still stand.
Capturable(k) == Pending(k) /\ LockedSource(k) /\ Issued(k) /\ day = loans[k].basis

CaptureSignature(k) ==
    /\ Capturable(k) /\ ~loans[k].signed
    /\ SetLoan(k, [loans[k] EXCEPT !.signed = TRUE])

CaptureCash(k, a) ==
    /\ Capturable(k) /\ Authorized(k, a) /\ a \notin receipts
    /\ receipts' = receipts \cup {a}
    /\ UNCHANGED <<day, packet, loans, authorizations, payouts>>

-----------------------------------------------------------------------------
(* Release, in cash or at the end of a payout.                             *)

\* What release_in_transaction asks of both routes.
Releasable(k, a) == Capturable(k) /\ Authorized(k, a) /\ loans[k].signed

\* Mutant: the release row is not written.
ReleasedUnrecorded(k, a, p) == [loans EXCEPT ![k].status = "active"]

Released(k, a, p) ==
    [loans EXCEPT ![k] = [@ EXCEPT !.status = "active",
        !.release = [authorization |-> a, pricing |-> pricing, payout |-> p]]]

CashRoute(k) == LivePayouts(k) = {}

\* The cash evidence names its authorization (_cash_snapshot).
Witnessed(k, a) == a \in receipts

Release(k, a) ==
    /\ CashRoute(k) /\ Releasable(k, a) /\ Witnessed(k, a)
    /\ loans' = Released(k, a, 0)
    /\ UNCHANGED <<day, packet, authorizations, receipts, payouts>>

PreparePayout(k, a) ==
    /\ Releasable(k, a) /\ LivePayouts(k) = {} /\ Len(payouts) < MaxPayouts
    /\ payouts' = Append(payouts, [loan |-> k, authorization |-> a, status |-> "prepared",
                                   debits |-> 0, late |-> FALSE])
    /\ UNCHANGED <<day, packet, loans, authorizations, receipts>>

SetPayout(p, q) ==
    /\ payouts' = [payouts EXCEPT ![p] = q]
    /\ UNCHANGED <<day, packet, loans, authorizations, receipts>>

\* A debit that was observed is recorded whatever became of the payout it names; it
\* funds one that is prepared and stands, if version, payee and amount are exact.
Debit(p, exact) ==
    LET q == payouts[p] IN
    \/ /\ Live(p) /\ q.debits < MaxDebits
       /\ SetPayout(p, [q EXCEPT !.debits = @ + 1,
               !.status = IF exact /\ @ = "prepared" /\ Releasable(q.loan, q.authorization)
                          THEN "debited" ELSE @])
    \/ /\ ~Live(p)
       /\ SetPayout(p, [q EXCEPT !.late = TRUE])

CancellablePayout(q) == q.status = "prepared" /\ q.debits = 0

CancelPayout(p) ==
    CancellablePayout(payouts[p]) /\ SetPayout(p, [payouts[p] EXCEPT !.status = "cancelled"])

ConfirmRecipient(p) ==
    LET q == payouts[p] IN
    /\ q.status = "debited" /\ Releasable(q.loan, q.authorization)
    /\ SetPayout(p, [q EXCEPT !.status = "recipient_confirmed"])

CompletePayout(p) ==
    LET q == payouts[p] IN
    /\ q.status = "recipient_confirmed" /\ Releasable(q.loan, q.authorization)
    /\ loans' = Released(q.loan, q.authorization, p)
    /\ payouts' = [payouts EXCEPT ![p].status = "completed"]
    /\ UNCHANGED <<day, packet, authorizations, receipts>>

-----------------------------------------------------------------------------
(* What moves under a packet.                                              *)

ChangeSource == source < MaxSources /\ source' = source + 1 /\ UNCHANGED <<day, ready, pricing, manager, records>>
ChangeReady == ready' = ~ready /\ UNCHANGED <<day, source, pricing, manager, records>>
ReviewPricing(v) == v # pricing /\ pricing' = v /\ UNCHANGED <<day, source, ready, manager, records>>
ChangeManager == manager' = ~manager /\ UNCHANGED <<day, source, ready, pricing, records>>
NextDay == day < LastDay /\ day' = day + 1 /\ UNCHANGED <<packet, records>>

-----------------------------------------------------------------------------
FirstLoanInit ==
    /\ day = 1 /\ source = 1 /\ ready = TRUE /\ pricing \in Pricings /\ manager = TRUE
    /\ loans = <<>> /\ authorizations = <<>> /\ receipts = {} /\ payouts = <<>>

LoanStep(k) ==
    \/ RegisterDocument(k) \/ CancelApproval(k) \/ CaptureSignature(k)
    \/ \E req \in Requests : AuthorizeRelease(k, req)
    \/ \E a \in DOMAIN authorizations :
         RevokeRelease(k, a) \/ CaptureCash(k, a) \/ Release(k, a) \/ PreparePayout(k, a)

PayoutStep(p) ==
    \/ \E exact \in BOOLEAN : Debit(p, exact)
    \/ CancelPayout(p) \/ ConfirmRecipient(p) \/ CompletePayout(p)

Around ==
    \/ ChangeSource \/ ChangeReady \/ ChangeManager \/ NextDay
    \/ \E v \in Pricings \cup {0} : ReviewPricing(v)

FirstLoanNext ==
    \/ \E req \in Requests, basis \in 1 .. LastDay : Approve(req, basis)
    \/ \E k \in DOMAIN loans : LoanStep(k)
    \/ \E p \in DOMAIN payouts : PayoutStep(p)
    \/ Around

FirstLoanSpec == FirstLoanInit /\ [][FirstLoanNext]_firstLoanVars

-----------------------------------------------------------------------------
Active(k) == loans[k].status = "active"
Debited(p) == payouts[p].status \in {"debited", "recipient_confirmed", "completed"}

(* Type invariant.                                                         *)
FirstLoanTypeOK ==
    /\ day \in 1 .. LastDay /\ source \in 1 .. MaxSources /\ pricing \in Pricings \cup {0}
    /\ ready \in BOOLEAN /\ manager \in BOOLEAN
    /\ receipts \subseteq DOMAIN authorizations
    /\ \A k \in DOMAIN loans :
         /\ loans[k].status \in {"approved", "cancelled", "active"}
         /\ loans[k].document \in Pricings \cup {0}
         /\ loans[k].release.authorization \in DOMAIN authorizations \cup {0}
         /\ Active(k) <=> loans[k].release # NoRelease
    /\ \A p \in DOMAIN payouts :
         payouts[p].loan \in DOMAIN loans /\ payouts[p].authorization \in DOMAIN authorizations

\* However often approvals are cancelled, revised and retried, the client has one
\* first loan at a time ("use the existing renewal workflow").
OneLoanPerClient == Cardinality({k \in DOMAIN loans : loans[k].status # "cancelled"}) <= 1

\* The proceeds are accounted for once: by cash or by one payout that a debit funds.  A
\* payout in progress belongs to an approval that was not cancelled ("Complete or cancel
\* the protected payout before cancelling this loan approval"), and is itself not
\* cancelled over a debit that was recorded against it, linked or not.
MoneyOutOnce ==
    /\ Cardinality({k \in DOMAIN loans : Active(k) /\ loans[k].release.payout = 0}) +
       Cardinality({p \in DOMAIN payouts : Debited(p)}) <= 1
    /\ \A p \in DOMAIN payouts : Live(p) => loans[payouts[p].loan].status # "cancelled"
    /\ \A p \in DOMAIN payouts : payouts[p].debits > 0 => Live(p)

\* A released loan stands on the last word of Management: its authorization is the
\* newest of the loan and was not revoked, and so it stays.
ReleaseIsLastWord ==
    \A k \in DOMAIN loans : Active(k) =>
        LET a == loans[k].release.authorization IN
        /\ authorizations[a].loan = k /\ ~authorizations[a].revoked
        /\ \A b \in DOMAIN authorizations : authorizations[b].loan = k => b <= a

\* The borrower received the money under the very authorization that released the
\* loan; evidence of an authorization that was revoked or replaced is no use.
ReleaseIsWitnessed ==
    \A k \in DOMAIN loans : Active(k) =>
        LET r == loans[k].release IN
        /\ loans[k].signed
        /\ IF r.payout = 0 THEN r.authorization \in receipts
           ELSE /\ payouts[r.payout].status = "completed"
                /\ payouts[r.payout].loan = k /\ payouts[r.payout].authorization = r.authorization

\* The schedule of the loan is registered with the pricing of the paper the borrower
\* signed, whatever reviews came between ("Pricing authority differs from the issued packet").
ReleasedAsSigned ==
    \A k \in DOMAIN loans : Active(k) => loans[k].release.pricing = loans[k].document

\* A repeated request brings nothing back: an approval that was cancelled or an
\* authorization that was revoked is not made anew by a late retry of its request.
RetryBringsNothingBack ==
    /\ \A j, k \in DOMAIN loans : loans[j].request = loans[k].request => j = k
    /\ \A a, b \in DOMAIN authorizations : authorizations[a].request = authorizations[b].request => a = b

\* What a released first loan rests on.
ReleasesHold == /\ OneLoanPerClient /\ ReleaseIsLastWord /\ ReleaseIsWitnessed
                /\ ReleasedAsSigned /\ RetryBringsNothingBack

\* A first loan is one, released by the last word of Management, witnessed by its
\* borrower, as it was signed; its money is accounted for once and retries bring nothing
\* back.
FirstLoanIsAuthorized == ReleasesHold /\ MoneyOutOnce

\* The issued document of an approval and the fact of its signature are never replaced, and
\* a loan that was released or cancelled never changes again.
IssuedStays ==
    \A k \in DOMAIN loans :
        /\ loans[k].document # 0 => loans'[k].document = loans[k].document
        /\ loans[k].status # "approved" => loans'[k] = loans[k]

\* The approval was made on the sources that stand when the money goes out, even
\* when they were replaced and the payout was under way.
ReleasedOnItsSources ==
    \A k \in DOMAIN loans : ~Active(k) /\ loans'[k].status = "active" =>
        loans[k].source = source /\ loans[k].basis = day
=============================================================================

------------------------------ MODULE Treasury ------------------------------
(***************************************************************************)
(* What may consume a verified movement of a treasury account: a borrower  *)
(* receipt with its claims, applications and refunds, the payment of an    *)
(* approved source, or one leg of a transfer between two accounts.         *)
(*                                                                         *)
(* Every action is one transaction, under the locks of its accounts.       *)
(* Commands name the account version they reviewed and are refused when it *)
(* moved on, except those on a receipt and on a claim, which name the      *)
(* version of the receipt or of the claim.  Reporting a claim does not     *)
(* change the account version, so a claim may be revised under its review. *)
(* The posting of an application to the loans is that of CollectionLedger. *)
(***************************************************************************)
EXTENDS Integers, Sequences, FiniteSets, FiniteSetsExt

CONSTANTS
    Accounts,       \* tracked accounts of one ledger context
    Refs,           \* external references a provider gives to movements
    Amounts,        \* amounts that move
    Clients,        \* borrowers
    Claims,         \* payment claims that may be reported
    Sources,        \* approved payroll or advance records that may be paid
    Transfers,      \* transfer identities
    NoClient,       \* no borrower
    DueAmount,      \* what is due on each approved source
    MaxEvents,      \* bound: movements ever verified
    MaxVersion,     \* bound: versions of a claim
    MaxApplications \* bound: applications ever made

\* What the constants must be; a module that gives them values assumes it.
TreasuryAssumption ==
    /\ Amounts \subseteq Nat \ {0} /\ DueAmount \in Nat /\ NoClient \notin Clients
    /\ MaxEvents \in Nat /\ MaxVersion \in Nat /\ MaxApplications \in Nat

VARIABLES
    events,         \* events with their correction, in order of verification
    receipts,       \* receipts: event -> [client, applied, refunded]
    claims,         \* claims with their current version, status and receipt
    applications,   \* applications of receipts to loans, in order
    links,          \* source_links: [event, source, amount]
    due,            \* what is left to pay on each approved source
    transfers       \* transfers with their two legs, 0 for a missing leg

vars == <<events, receipts, claims, applications, links, due, transfers>>

EventIds == 1..MaxEvents
NoReceipt == [client |-> NoClient, applied |-> 0, refunded |-> 0]
NoClaim == [client |-> NoClient, account |-> NoClient, version |-> 0, status |-> "none",
            decidedOn |-> 0, receipt |-> 0]
NoTransfer == [from |-> NoClient, to |-> NoClient, amount |-> 0, debit |-> 0, credit |-> 0]

NoSource == [kind |-> "none", id |-> 0]
RefundOf(r) == [kind |-> "refund", id |-> r]
PaymentOf(s) == [kind |-> "payment", id |-> s]

HasReceipt(e) == receipts[e].client # NoClient
Remaining(r) == events[r].amount - receipts[r].applied - receipts[r].refunded
ActiveApplications(r) ==
    {i \in DOMAIN applications : applications[i].receipt = r /\ applications[i].active}
InTransfer(e) == \E t \in Transfers : e \in {transfers[t].debit, transfers[t].credit}
LinksOf(e) == {l \in links : l.event = e}

-----------------------------------------------------------------------------
(* Verified movements.                                                     *)

\* The movement an account already knows under a reference, 0 for none.
Known(a, ref) ==
    LET E == {e \in DOMAIN events : events[e].account = a /\ events[e].ref = ref}
    IN  IF E = {} THEN 0 ELSE CHOOSE e \in E : TRUE

\* A new reference, or one that repeats what was recorded and stands.
Verifies(a, ref, dir, amt) ==
    LET e == Known(a, ref)
    IN  IF e = 0 THEN Len(events) < MaxEvents
        ELSE events[e].dir = dir /\ events[e].amount = amt /\ ~events[e].corrected

EventOf(a, ref) == IF Known(a, ref) = 0 THEN Len(events) + 1 ELSE Known(a, ref)

EventsWith(a, ref, dir, amt) ==
    IF Known(a, ref) # 0 THEN events
    ELSE Append(events, [account |-> a, ref |-> ref, dir |-> dir, amount |-> amt,
                         corrected |-> FALSE])

\* Mutant: links and receipts are looked at, transfers are not.
FreeForExceptTransfers(e, source) ==
    /\ \A l \in LinksOf(e) : l.source = source
    /\ ~HasReceipt(e)

\* Nothing but `source` consumes the movement.
FreeFor(e, source) ==
    /\ \A l \in LinksOf(e) : l.source = source
    /\ ~InTransfer(e)
    /\ ~HasReceipt(e)

-----------------------------------------------------------------------------
(* Claims: evidence that somebody paid.                                    *)

SubmitClaim(k, c, a) ==
    /\ claims[k] = NoClaim
    /\ claims' = [claims EXCEPT ![k] = [NoClaim EXCEPT !.client = c, !.account = a,
                                        !.version = 1, !.status = "pending_verification"]]
    /\ UNCHANGED <<events, receipts, applications, links, due, transfers>>

ReviseClaim(k) ==
    /\ claims[k].version \in 1..(MaxVersion - 1)
    /\ claims[k].receipt = 0
    /\ claims' = [claims EXCEPT ![k].version = @ + 1, ![k].status = "pending_verification"]
    /\ UNCHANGED <<events, receipts, applications, links, due, transfers>>

\* Mutant: a review of an earlier version is accepted.
ReviewableAtAnyVersion(k, v) == claims[k].receipt = 0 /\ v <= claims[k].version

Reviewable(k, v) == claims[k].receipt = 0 /\ v = claims[k].version

\* Somebody who read version v decides.
ReviewClaim(k, v, decision) ==
    /\ Reviewable(k, v)
    /\ claims' = [claims EXCEPT ![k].status = decision, ![k].decidedOn = v]
    /\ UNCHANGED <<events, receipts, applications, links, due, transfers>>

ClaimFits(k, v, c, a) ==
    /\ claims[k].client = c
    /\ claims[k].account = a
    /\ claims[k].version = v
    /\ claims[k].status \notin {"rejected", "correction_required"}

\* A new movement, or the receipt of the same borrower.
Receivable(e, c) == e <= Len(events) => receipts[e].client = c

\* The recipient saw the money arrive; a claim may be linked to it.
VerifyReceipt(a, ref, amt, c, K, v) ==
    LET e == EventOf(a, ref)
    IN  /\ Verifies(a, ref, "credit", amt)
        /\ \A k \in K : ClaimFits(k, v, c, a) /\ claims[k].receipt \in {0, e}
        /\ Receivable(e, c)
        /\ events' = EventsWith(a, ref, "credit", amt)
        /\ receipts' = [receipts EXCEPT ![e].client = c]
        /\ claims' = [k \in Claims |->
               IF k \in K THEN [claims[k] EXCEPT !.status = "received", !.receipt = e]
               ELSE claims[k]]
        /\ UNCHANGED <<applications, links, due, transfers>>

-----------------------------------------------------------------------------
(* Applications of a receipt to loans.                                     *)

\* What a claim shows once `applied` of its receipt is applied and `left` is not.
StatusFor(applied, left) ==
    IF applied = 0 THEN "received" ELSE IF left # 0 THEN "partly_applied" ELSE "recorded"

ClaimsAfter(r, applied, left) ==
    [k \in Claims |-> IF claims[k].receipt = r
                      THEN [claims[k] EXCEPT !.status = StatusFor(applied, left)]
                      ELSE claims[k]]

Capacity(r) == Remaining(r)

ApplyReceipt(r, amt) ==
    /\ HasReceipt(r)
    /\ ~events[r].corrected
    /\ amt <= Capacity(r)
    /\ Len(applications) < MaxApplications
    /\ applications' = Append(applications, [receipt |-> r, amount |-> amt, active |-> TRUE])
    /\ receipts' = [receipts EXCEPT ![r].applied = @ + amt]
    /\ claims' = ClaimsAfter(r, receipts[r].applied + amt, Remaining(r) - amt)
    /\ UNCHANGED <<events, links, due, transfers>>

Reversible(i) == applications[i].active /\ ~events[applications[i].receipt].corrected

ReverseApplication(i) ==
    LET r == applications[i].receipt
        amt == applications[i].amount
    IN  /\ Reversible(i)
        /\ applications' = [applications EXCEPT ![i].active = FALSE]
        /\ receipts' = [receipts EXCEPT ![r].applied = @ - amt]
        /\ claims' = ClaimsAfter(r, receipts[r].applied - amt, Remaining(r) + amt)
        /\ UNCHANGED <<events, links, due, transfers>>

-----------------------------------------------------------------------------
(* Outgoing money and generic observations.                                *)

\* The movement already pays this source: recording it again changes nothing.
AlreadyLinked(e, source) == \E l \in LinksOf(e) : l.source = source

\* The debit of `amt` on account a may be linked to its source; when it may
\* not, it stays as an unexplained debit.
Linkable(e, source, a, amt) ==
    /\ source # NoSource
    /\ FreeFor(e, source)
    /\ source.kind = "refund" =>
           /\ HasReceipt(source.id)
           /\ events[source.id].account = a
           /\ Remaining(source.id) >= amt
    /\ source.kind = "payment" => due[source.id] >= amt

RecordDebit(a, ref, amt, source) ==
    LET e == EventOf(a, ref)
    IN  /\ Verifies(a, ref, "debit", amt)
        /\ events' = EventsWith(a, ref, "debit", amt)
        /\ IF Linkable(e, source, a, amt) /\ ~AlreadyLinked(e, source)
           THEN /\ links' = links \cup {[event |-> e, source |-> source, amount |-> amt]}
                /\ receipts' = IF source.kind = "refund"
                               THEN [receipts EXCEPT ![source.id].refunded = @ + amt]
                               ELSE receipts
                /\ due' = IF source.kind = "payment"
                          THEN [due EXCEPT ![source.id] = @ - amt]
                          ELSE due
           ELSE UNCHANGED <<links, receipts, due>>
        /\ UNCHANGED <<claims, applications, transfers>>

\* A credit that is not a borrower payment: a deposit, personal money.
RecordCredit(a, ref, amt) ==
    /\ Known(a, ref) = 0
    /\ Verifies(a, ref, "credit", amt)
    /\ events' = EventsWith(a, ref, "credit", amt)
    /\ UNCHANGED <<receipts, claims, applications, links, due, transfers>>

TransferAgrees(t, from, to, amt) ==
    transfers[t] # NoTransfer =>
        transfers[t].from = from /\ transfers[t].to = to /\ transfers[t].amount = amt

\* One leg: seen leaving the source, or arriving at the destination.
RecordTransferLeg(t, leg, from, to, ref, amt) ==
    LET a == IF leg = "debit" THEN from ELSE to
        e == EventOf(a, ref)
    IN  /\ from # to
        /\ TransferAgrees(t, from, to, amt)
        /\ Verifies(a, ref, leg, amt)
        /\ LinksOf(e) = {}
        /\ ~HasReceipt(e)
        /\ \A u \in Transfers : e \in {transfers[u].debit, transfers[u].credit} =>
                                    u = t /\ transfers[t][leg] = e
        /\ transfers[t][leg] \in {0, e}
        /\ events' = EventsWith(a, ref, leg, amt)
        /\ transfers' = [transfers EXCEPT
               ![t] = [[@ EXCEPT !.from = from, !.to = to, !.amount = amt] EXCEPT ![leg] = e]]
        /\ UNCHANGED <<receipts, claims, applications, links, due>>

\* Nothing was built on the observation.
Withdrawable(e) ==
    /\ ~events[e].corrected
    /\ ~InTransfer(e)
    /\ ActiveApplications(e) = {}
    /\ LinksOf(e) = {}
    /\ receipts[e].refunded = 0

CorrectMovement(e) ==
    /\ Withdrawable(e)
    /\ events' = [events EXCEPT ![e].corrected = TRUE]
    /\ UNCHANGED <<receipts, claims, applications, links, due, transfers>>

-----------------------------------------------------------------------------
Init ==
    /\ events = <<>>
    /\ receipts = [e \in EventIds |-> NoReceipt]
    /\ claims = [k \in Claims |-> NoClaim]
    /\ applications = <<>>
    /\ links = {}
    /\ due = [s \in Sources |-> DueAmount]
    /\ transfers = [t \in Transfers |-> NoTransfer]

Next ==
    \/ \E k \in Claims, c \in Clients, a \in Accounts : SubmitClaim(k, c, a)
    \/ \E k \in Claims : ReviseClaim(k)
    \/ \E k \in Claims, v \in 1..MaxVersion,
          d \in {"reviewed", "correction_required", "rejected"} : ReviewClaim(k, v, d)
    \/ \E a \in Accounts, ref \in Refs, amt \in Amounts, c \in Clients :
           \/ VerifyReceipt(a, ref, amt, c, {}, 0)
           \/ \E k \in Claims, v \in 1..MaxVersion : VerifyReceipt(a, ref, amt, c, {k}, v)
    \/ \E r \in DOMAIN events, amt \in Amounts : ApplyReceipt(r, amt)
    \/ \E i \in DOMAIN applications : ReverseApplication(i)
    \/ \E a \in Accounts, ref \in Refs, amt \in Amounts :
           \/ RecordDebit(a, ref, amt, NoSource)
           \/ \E r \in DOMAIN events : RecordDebit(a, ref, amt, RefundOf(r))
           \/ \E s \in Sources : RecordDebit(a, ref, amt, PaymentOf(s))
           \/ RecordCredit(a, ref, amt)
    \/ \E t \in Transfers, leg \in {"debit", "credit"}, from, to \in Accounts,
          ref \in Refs, amt \in Amounts : RecordTransferLeg(t, leg, from, to, ref, amt)
    \/ \E e \in DOMAIN events : CorrectMovement(e)

Spec == Init /\ [][Next]_vars

-----------------------------------------------------------------------------
(* Properties.                                                             *)

\* Shapes and ranges of the tables.
TypeOK ==
    /\ DOMAIN events \subseteq EventIds
    /\ \A e \in DOMAIN events : /\ events[e].account \in Accounts
                                /\ events[e].dir \in {"debit", "credit"}
                                /\ events[e].amount \in Amounts
    /\ \A e \in EventIds : receipts[e].applied \in Nat /\ receipts[e].refunded \in Nat
    /\ \A k \in Claims : claims[k].receipt \in DOMAIN events \cup {0}
    /\ \A s \in Sources : due[s] \in Nat

\* Uses of a movement: the receipt, each linked source, each transfer.
Uses(e) == (IF HasReceipt(e) THEN {<<"receipt", e>>} ELSE {})
           \cup {<<l.source.kind, l.source.id>> : l \in LinksOf(e)}
           \cup {<<"transfer", t>> : t \in {u \in Transfers :
                                       e \in {transfers[u].debit, transfers[u].credit}}}

\* One actual movement never funds two things, in whatever order its uses are
\* recorded (consuming_source, and the receipt of a known movement).
MovementHasOneUse == \A e \in DOMAIN events : Cardinality(Uses(e)) <= 1

\* A receipt is never applied and refunded beyond what was received, and its
\* running totals are those of its live applications and of its refunds.
ReceiptIsConserved ==
    \A r \in DOMAIN events :
        /\ receipts[r].applied
               = MapThenSumSet(LAMBDA i : applications[i].amount, ActiveApplications(r))
        /\ receipts[r].refunded
               = MapThenSumSet(LAMBDA l : l.amount, {l \in links : l.source = RefundOf(r)})
        /\ receipts[r].applied + receipts[r].refunded <= events[r].amount

\* A withdrawn observation supports nothing: no applied money, no paid source,
\* no transfer.
CorrectedSupportsNothing ==
    \A e \in DOMAIN events : events[e].corrected =>
        LinksOf(e) = {} /\ ActiveApplications(e) = {} /\ ~InTransfer(e)

\* A transfer moves one amount: both legs are live movements of that amount,
\* out of the one account and into the other.
TransferConserves ==
    \A t \in Transfers :
        /\ transfers[t].debit # 0 =>
               LET e == events[transfers[t].debit]
               IN  /\ e.account = transfers[t].from /\ e.dir = "debit"
                   /\ e.amount = transfers[t].amount /\ ~e.corrected
        /\ transfers[t].credit # 0 =>
               LET e == events[transfers[t].credit]
               IN  /\ e.account = transfers[t].to /\ e.dir = "credit"
                   /\ e.amount = transfers[t].amount /\ ~e.corrected

\* A source is never paid more than was approved, and what was paid is in links.
SourcePaidOnce ==
    \A s \in Sources :
        due[s] + MapThenSumSet(LAMBDA l : l.amount, {l \in links : l.source = PaymentOf(s)})
            = DueAmount

\* Money that was observed is used once, whole, and only while it stands.
MoneyIsUsedOnce == /\ MovementHasOneUse /\ ReceiptIsConserved /\ CorrectedSupportsNothing
                   /\ TransferConserves /\ SourcePaidOnce

\* A decision on a claim is about the evidence it shows now: a claim revised
\* under its review goes back to pending.
DecisionIsOnCurrentEvidence ==
    \A k \in Claims :
        claims[k].status \in {"reviewed", "correction_required", "rejected"} =>
            claims[k].decidedOn = claims[k].version

\* The claims linked to a receipt are of its borrower and its account.
ClaimsShareBorrower ==
    \A k \in Claims : claims[k].receipt # 0 =>
        /\ receipts[claims[k].receipt].client = claims[k].client
        /\ events[claims[k].receipt].account = claims[k].account

ClaimsAreDecided == DecisionIsOnCurrentEvidence /\ ClaimsShareBorrower
=============================================================================

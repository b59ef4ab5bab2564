# SPINA / GILBIC collections, specified

TLA+ modules, model-checking configurations and machine-checked proofs for the
part of this repository where money changes hands: how cash is collected, recorded,
corrected, handed over, reconciled and paid out, and how loans come to be, are
scheduled and renewed.

Paths below are relative to the repository root; `B/` stands for
`gilbic_backend/src/gilbic_backend/`, `M/` for
`spina_backend_mobile/src/spina_mobile_collections/` and `D/` for
`gilbic_mobile/lib/src/`.

## 1. The system

SPINA is the back office of a daily-collection lender. Collectors visit
borrowers, take cash, and record it on a phone; Management and the Treasury
receive the cash, review it and correct what went wrong.

| part | where | state it keeps | operations |
|---|---|---|---|
| Collection posting | `B/collection_posting.py` and the bridge classes stacked on it, `B/concurrent_receipt_collection_posting.py` being the deployed one | `lending.loan_collection_state` (balance, missed streak, last payment, advance, `state_version`), `collection_transactions`, `collection_covered_dates` | payment, covered-date payment (advance), unable to pay (pass) |
| Correction, undo, void | `B/collection_correction_repository.py`, `B/collection_void_repository.py` | the same, plus audit rows and the void with its states | own correction, same-day undo, Management void |
| Past Due | `B/collection_past_due_capture.py`, `B/past_due_promise_progress.py` | `past_due_obligations`, `payment_promises` | open on a shortfall, reconcile on a payment, close a promise |
| Remittance | `B/remittance_repository.py`, `B/remittance_review_repository.py` | `collection_remittances`, items, review digest | submit, confirm received, reject |
| Idempotent executor | `M/postgres.py`, `M/service.py`, `M/router.py`, `B/collection_api.py` | `mobile.gilbic_collection_idempotency` | execute, replay, refuse |
| Mobile collection | `D/features/collector/`, `D/core/payments/` | retained drafts (in memory), device sequence (secure storage), loaded route | record, retry, receive, load the route |
| Transfers and photos | `B/cross_remittance_*`, `B/remittance_transfer_journal_*`, `B/remittance_photo_*` | transfers between collectors, journals, photos | offer, accept, reverse |
| Who may collect | `B/cross_collect*`, `B/delegated_area_*`, `B/other_area_*` | assignments, delegations | grant, use, end |
| Contract schedules, 7x7 | `B/contract_*`, `B/per_loan_contract_collection.py`, `B/seven_by_seven_*` | installments, allocations, penalties | allocate, catch up, contract the schedule |
| Combined collections | `B/combined_collection_api.py` | none of its own | one cash amount over several loans |
| Treasury, surplus, refunds | `B/treasury_*`, `B/collector_surplus*`, `B/collector_settlement.py`, `B/refund_due_*` | custody, claims, credits, releases | claim, disburse, settle, release |
| No Collection and schedules | `B/management_no_collection_*`, `B/borrower_schedule_*` | calendar exceptions | declare, adjust |
| Loans | `B/first_loan_*`, `B/renewal_*`, `B/loan_payout*`, `B/client_onboarding_*` | applications, approvals, payouts | apply, approve, release, renew |
| Accounts | `B/auth_*`, `B/request_auth.py`, `B/account_*` | sessions, approved devices | sign in, approve, revoke |
| Accounting | `B/*journal*`, `B/ecl_*`, `B/eir_*`, `B/v1_tax_*`, `B/period_close_*` | journals, evidence, periods | post, close, restate |
| Others | employee operations, notifications, screen sharing, portal, Windows client, tools | | |

`PROJECT.json` lists each with its sources, what is modelled and why the rest is
not yet.

**Interaction.** The phone loads the route (each loan with its revision
`loan:<id>:v<state_version>`), builds a draft with an idempotency key, a device
sequence and that revision, and posts it. The executor takes an advisory lock on
the key, replays a stored result or calls the posting bridge, and stores the
result in the same transaction. The bridge locks device sequence, loan and date,
and the loan's rows, in that order. Corrections and voids lock the receipt, the
loan and the state. Remittances lock the collection tables without waiting.
Everything that changes a loan bumps `state_version`; it is the only thing the
parts agree on.

**What is hard.** A route that is old when it is used; two collectors with the
same route; an edit of a receipt when others have built on the state it left;
a shortfall whose obligation must follow every edit; cash that is handed over, sent
back, edited and handed over again; the same money claimed by two uses; answers that
get lost, requests that arrive late, drafts that die with the application, refusals on
the retry of what was committed; approvals whose sources change before they are used;
several people who change one tree, one schedule or one period between another's
reading and writing.

## 2. The modules

| module | what it is |
|---|---|
| `CollectionLedger` | posting, correction, undo, void, Past Due and remittance of one Regular loan without contract schedule |
| `ReceiptBook` | what the ledger promises: a book whose last entry alone may be amended or struck |
| `CollectionLedgerProofs` | the ledger's types, the inductive invariant of receipts and versions, frozen receipts and the refinement of `ReceiptBook`; what the receipts add up to |
| `CollectionSubmission`, `CollectionSubmissionProofs` | drafts, the network and the idempotent executor; its theorems |
| `ContractSchedule` | the operational schedule of a loan with a verified contract |
| `CombinedCollection` | one cash amount over a Regular and a 7x7 loan, with draft, preview, review and replay |
| `PaymentPromise` | Past Due records and promises of one borrower over several loans |
| `CashCustody` | the cash a collector holds, Refund Due, remittances |
| `CollectorSurplus` | counts, disputed cash, excess, credits and what they are used for |
| `TreasuryStatements` | openings, movements and reconciliations of an account |
| `Treasury` | what may use a verified movement; reported payments |
| `TreasuryPosting` | treasury receipts applied to loans, reversals, voids and undo with its replay |
| `Renewal` | the renewal of a loan until it is active |
| `FirstLoan`, `FirstLoanCredential` | the first loan of a client; the account the borrower gets |
| `AreaTree` | the areas, their collectors and clients, and transfers between them |
| `PeriodClose` | the General Journal and the protected close of fiscal periods |
| `CollectorDayProofs` | the theorems of `CashCustody`, `PaymentPromise` and `CollectorSurplus` |
| `TreasuryProofs` | the theorems of `Treasury`, `TreasuryStatements` and `TreasuryPosting` |
| `FirstLoanProofs` | the theorems of `FirstLoan` and `FirstLoanCredential` |
| `RenewalProofs` | the theorems of `Renewal` |
| `OfficeProofs` | the theorems of `PeriodClose` and `AreaTree` |
| `Sums` | what the proofs need of sums over sets of receipts, lines, movements and entries |
| `MCCollectionLedger`, `MCCollectionSubmission`, `MCContractSchedule` | what the runs of one module need |
| `MCTreasuryDesk`, `MCCollectorDay`, `MCOffice`, `MCProgress` | several modules side by side, each with one or more sets of constants |

A module of the last row puts modules side by side that share no row which both write,
so that checking them together would only multiply their states. One part is chosen
at the start and only it moves. `MCCollectorDay` extends `CashCustody`, `CollectorSurplus` and
`PaymentPromise`, `MCTreasuryDesk` extends `Treasury` and `TreasuryStatements`, `MCOffice` extends
`FirstLoan` and `PeriodClose`: each of these has one set of constants, given in the cfg, and stays
in its initial state when another part moves. The run checks their own properties, the very
definitions the theorems are about. Where one set of constants would be too large,
a constraint on the states a step may reach (`AtReturned`, `AtCapacity`, `AtPayouts`, ...) leaves
room for one question at a time; a constraint removes steps and adds none. `InTurn`, `AtCustody`,
`FirstOnFirst`, `FirstRequests` and `FirstToFirst` only name interchangeable rows in the order of their use. The other parts are
instances whose variables are `Off` while they rest, and a property of the run says what holds of each.

Definitions that begin with the comment `Mutant:` are variants of the next
definition as a plausible mistake would make it. No action uses them; they are
there to show that a property notices the mistake.

### CollectionLedger

One action is one committed transaction: the code takes all its locks before it
reads. `PostPayment`, `PostAdvance` and `PostPass` are the three branches of
`post_collection` with the writes they share (`Record`); `RevisionAccepted` and
`SameDayChainIsSafe` are the rule of the deployed bridge that lets a payment
through whose route is older than payments of the same day. `CorrectOwn`,
`UndoByCollector` and `VoidByManagement` share the conditions of an edit
(`Editable`) and the state kept in the receipt when it was posted (`Snapshot`).
`DueAfter` opens an obligation and `Reconciled` shrinks it. `SubmitRemittance`
takes all that is on hand, as the review the collector confirms does;
`ConfirmReceived` and `RejectRemittance` are the recipient's answers.
`ChangeSchedule` is any other transaction that bumps the version, `NextDay` the
clock.

Left out: contract allocation, 7x7, Treasury-funded and cross-area receipts,
refund-due releases, collector settlements, receipts from before snapshots were
kept, notes, audit rows and notifications. Promises appear as `closing`, the
evidence a receipt gets for closing one. Amounts are small integers in place of
centavos: the code compares, adds, subtracts and takes minima of them and does not
divide on this path.

### CollectionSubmission

One loan, one date, one device per collector, who collects once from the
borrower. `BuildDraft`, `Record`, `Retry`, `Receive`, `LoseConnection`, `LoadRoute`,
`LoadOffline`, `LoadRefused` and `Restart` are the application; `Serve` is a request on an open connection, and
`ServeDelayed` one whose connection has ended: it stays possible until it is
dropped, for the several copies of one draft that may be under way. `Replay`,
`Refuse` and `Post` are the three outcomes of the executor. The rules of posting
are in the ledger module; here an acceptable request is posted or `"rejected"`, which
stands for every refusal that depends on amounts and dates. `ChangeAccess` revokes
or restores the session or the device, `ChangeLoan` and `VoidLatest` move the
version.

`Retry` needs a route that lets the entry be written and shows no collection of the
day: the route page asks `_commonWriteBlockedReason` and `processedToday` before it looks
at a retained draft, which it keeps when it refuses. `blocked` says that the entry cannot be
written: the route is a stored copy, since the reload failed (`LoadOffline`), access was
refused (`LoadRefused`), or the loaded route marks the entry as not collectable or no
longer has it (a choice of `LoadRoute`). After a restart nothing is recorded before a
route is loaded.

Left out: the other-area page, corrections from the phone, the check of a stored result
against its own row, and contract loans, whose pages allow further payments of the day.

### ContractSchedule

A daily Regular loan, with the three planners of `B/rolling_schedule.py` and
`B/no_collection_schedule.py` as operators on the rows in operational order.
`Read` and `Record` are the two halves of `finalize_elapsed_for_loans`: the elapsed row
is read in a connection of its own, and everything may happen before `record_shortfall`
locks the loan and compares the version. `Pay` is a payment with the protected allocation
(`Allocation`: what is due, then catch-up, then the extra the borrower chose) and the
contraction of the schedule it causes; `Advance` pays exact dates; `Declare` and
`Undeclare` are a No Collection day and its reversal; `Void` takes the last receipt back
and leaves the dates. Contractual dates are 1, 2, 3, ...; `allocated` keeps the sum over
live receipts that every query computes.

### CombinedCollection, PaymentPromise

`CombinedCollection` has the phone (`Draft`, `Send`, `Restart`, `LoadRoute`, `LoadFails`), a wire on
which requests stay, and the server with its three outcomes `Replay`, `Submit` and
`Refuse`, each possibly with its answer lost. `Plan` splits the cash as the review showed
it, and `Submit` computes it again under the locks and refuses when it differs.
`Draft` and `Send` need a route that offers the payment: both loans payable and neither
collected today (`_payCombined` asks this before it looks at a retained draft). So after a
payment whose answer was lost, a route loaded again keeps the draft from being sent until the next
day or until its receipts are voided. Left out: a route loaded while a request is in flight.
`PaymentPromise` follows the order inside one posting transaction: close what is overdue,
reduce what the money reaches, let the promises follow, record a new shortfall.

### CashCustody, CollectorSurplus

`BeginRelease` and `FinishRelease` are the comparison of a Refund Due release with the
collector's cash and its insert, which no common lock joins; the remittance actions lock
the tables and are one step each. `CollectorSurplus` has one action per command of
`B/collector_settlement.py` and `B/collector_surplus*.py`; an outgoing payment is recorded
although its link may be refused, and a later command may try the link again.

### TreasuryStatements, Treasury, TreasuryPosting

Every command holds its account and names the version it reviewed, so it is one step;
what varies is the order. `TreasuryStatements` asks whether a close that nobody flagged
still says the truth after late movements, corrections and new openings. `Treasury` asks
whether a movement is used once. `TreasuryPosting` puts the money on loans as up to three
receipts and takes it back, in whole or receipt by receipt, beside cash receipts and
undo requests that arrive twice. A receipt that changed Past Due or promise records (`linked`) is
never voided, nor a reduction of a 7x7 principal whose Refund Due was handed out (`released`), and a
collector undoes no such reduction. Which receipts are linked follows from the amounts for a
Regular payment that leaves the day unpaid or comes after one; any other may be, by a promise or an
older obligation this module does not have (`touched` in `Marked`). Further refusals of an undo or a
void of a cash receipt, which depend on remittances, contracts and penalties, are left out: a request refused for such a
reason changes nothing, like one that never arrives.

### Renewal, FirstLoan, FirstLoanCredential

Each locks one row per step. `Around` are the changes that other workflows make between
two steps: the old loan is paid or a payment voided, evidence is replaced, pricing or
readiness changes, the client gets another collector. Cash and payout are two routes for
the same proceeds. A debit is recorded whatever became of the payout it names: it funds one that
is prepared and still valid, if it is `exact` in version, payee and amount, and is kept as an unlinked
exception otherwise, of a cancelled payout too (`late`). `MaxDebits` bounds those counted. `FirstLoanCredential` has the attempts to provision an account, each
step of which may lose its answer (`Uncertain`) or its process (`Stop`).

### AreaTree, PeriodClose

`Select` is the recursive select of a subtree before its locks are granted, `Rename`,
`Move` and `Retire` the rest of the operation. `PeriodClose` has drafts, posting and reversal of
journal entries beside the review, preparation and close of periods.

## 3. What is checked

| run | instances or constraints | shows |
|---|---|---|
| `ledger_posting` | 1 collector, 2 dates, balance 3, daily amount 2, 3 receipts, 4 versions | balance, streak, dates and coverage are those of the live receipts (`StateIsReplayOfReceipts`); covered days are paid by receipts that count and shortfalls are recorded (`ScheduleFollowsReceipts`); an old route overlooks payments of its day only; spans are ordered; `ReceiptBook` is implemented |
| `ledger_remittance` | 2 collectors, 1 date, 2 receipts, 3 versions, 3 remittances | the cash of a remittance is what its receipts hold, through rejection, edit and resubmission; frozen receipts stand |
| `submission_safety` | 2 collectors, 2 drafts, 3 versions | answers fit drafts, no device conflicts with itself, a committed entry is replayed, only a rebased payment is a second receipt |
| `submission_live` | 2 collectors, 2 drafts, 1 version | as long as the route again and again lets the entry be written, an uncertain draft is answered, or the route shows a collection |
| `progress` | 2: a combined payment, an account | a combined draft is settled as long as the route again and again offers the payment; the account is provisioned once the faults end |
| `treasury_desk` | 7: statements (2), money (3), postings (2) | `ClosesHold`, `OpeningStaysAtItsCutoff`; `MoneyIsUsedOnce`, `ClaimsAreDecided`; `LoansFollowReceipts`, `UndoAnswersHold` |
| `collector_day` | 11: custody, surplus (3), promises, combined payments (2), schedules (4) | `CustodyBalances`; `SurplusBalances`; `PromisesFollowDue`, `PromiseIsJudgedOnce`; `CashPostedOnce`, `PostedAsReviewed`; `ScheduleHolds`, `MovesHaveCause` |
| `office` | 12: renewals (4), first loans (2), accounts (2), areas (3), books | `RenewalGoesOutOnce`, `FirstLoanIsAuthorized`, `WrittenStays`; `AccountIsOne`; `AreasHold`; `BooksHold`, `BooksStay` |
| `ledger_payoff`, `submission_stuck`, `office_cycle`, `schedule_stuck` | smaller | four statements of the documents that the code does not keep, see below |

A property of the unions is a conjunction of named parts in its module; the parts say what
each is about. The most telling: `LoansFollowReceipts` (a loan owes what its live receipts leave,
however they were voided, and an application after which nothing changed is taken back
unless a receipt of it is protected), `MoneyIsUsedOnce` (received, applied, refunded and transferred
amounts add up), `SurplusBalances` (a credit is used up to its amount, a settlement adds up
to the count), `RenewalGoesOutOnce` (accounted for by one of the two routes, accepted, on evidence that
stands; no payout replaced over a debit recorded against it), `ScheduleHolds` (the dates are one a day, in the order of the contract, and end
as late as the borrower is behind).

Some properties hold under a condition, which is part of their statement:

- `ScheduleHolds` says nothing of order and end after the void of a payment that had
  pulled the schedule back or after a missed day recorded before an older one, and nothing of
  finalization after a payment that made up two days: the code does not keep these, see the
  disagreements.
- `AreasHold` asks for a whole tree only of the instance whose structural changes happen
  one after another (`SerialNext`); with two sessions it fails, and `office_cycle` shows it.
- `AccountIsOne` asks that the credentials shown open the account only where no request
  arrives late.
- `BooksHold` says that only an entry of an earlier date can keep a period that is prepared
  from being closed.
- `PromisesFollowDue` asks that the records say what is unpaid (`DueIsUnpaid`) only until the
  collector's own request has added a record; that request may add a second one.

**Bounds.** Each cfg, instance and constraint names them. Three receipts of the ledger are a
partial payment, its completion and a pass or an advance around them; four versions allow
an edit after three receipts. Balance 3 over daily amount 2 makes the last day a short
one, so settling, falling short and paying extra all occur. Three remittances let the same
receipt be sent back and handed over twice while another is received. Two drafts and
three versions are two entries and an undo or a schedule change. The liveness run has one
version: the winner's payment is the only change that can block the other. Where one
set of constants would be too large, a module has several instances or constraints, each with room for
one question: statements with several openings or with several sessions; movements with two accounts, with
amounts that fit or do not, or with two claims; surplus with
returns, with applications or with openings; first loans with several approvals or with payouts; promises over three days with three
receipts, or two and a record of the collector's own (`MaxReceipts` bounds both together);
renewals with replaced evidence, with two
principals, with replaced payouts or with another collector; undo requests with up to three answers; schedules with No Collection days and advance dates,
with partial payments and two finalizing requests, with every row missed beyond the last
one, or long enough (five installments, five days) for days to be missed, made up and missed
again; areas with two sessions on one day or with one session over two. Amounts are small integers in place
of centavos: the code compares, adds, subtracts and takes minima of them; where it divides
(7x7 interest), the models use one unit of interest.

No run checks deadlock: a business day may end with
nothing left to do, or with its bounds used up.

**Fairness.** Only the liveness runs have any. `CollectionSubmission!FairSpec` assumes that
the collector taps Retry if it is offered again and again, and that of infinitely many requests
one is answered and of infinitely many answers one is received (all strong). The first is what
the application asks of the collector; it never retries by itself. The second is about the
network. `CombinedCollection!FairSpec` is the same for a combined draft, which is
sent again from the page (`_payCombined`). Nobody has to load a route, and nothing makes a route offer
an entry: that it does so again and again is the antecedent of `DraftIsSettled`
and of `DraftSettles`, and part of what they say; a draft whose retry stays refused is kept. `FirstLoanCredential!FairSpec` lets a call of `provision` that
was not interrupted proceed, and the office retry what failed; the faults are finitely many.

**Disagreements found.** Each has a run that ends in the counterexample.

1. `PayoffClosesObligations`: `docs/release/full-audit-repairs-20261009.md` (F4) says the
   final payoff closes the obligation; a payoff by a covered-date payment, or on another
   date, does not reach it.
2. `UnrecordedDraftIsSettled`: `docs/gilbic-mobile-collector-entry-form.md` promises a
   retry after an uncertain result; it is not offered once the route shows a collection of
   another collector, even if that route is writable all the time.
3. `NoAreaUnderItself`: `docs/superpowers/specs/2026-09-06-area-management-design.md` (line
   116) says a node cannot become a descendant of itself; two moves at the same time make two
   nodes descendants of each other, since the subtree is selected before its locks are granted.
4. `MissedDayExtends`: `docs/superpowers/specs/2026-09-04-borrower-operational-schedule-catchup-design.md`
   (rule 2) says a missed day extends the schedule; after a payment that makes up two days
   the later rows come back onto the dates of the paid ones, and the next missed day is
   refused for good, with the route of the collector.

Others were seen while modelling and are not kept as runs. The modules model the code as
it is, and state their properties so that these behaviours are allowed:

- `docs/gilbic-mobile-payment-contract.md` (line 64) says a request must carry the exact
  revision; `B/concurrent_receipt_collection_posting.py` (line 267) rebases payments of the
  same day. An entry made again after its draft was lost is rebased as well, although the
  comment of the class (line 31) speaks of distinct physical receipts.
- F3 of `full-audit-repairs-20261009.md` says a correction that needs a Past Due reason is
  rejected; correction to unable-to-pay is accepted without one
  (`B/collection_correction_repository.py`, line 350).
- A debit that names a cancelled payout is recorded and stays an exception
  (`B/treasury_disbursements.py`, line 519), and another payout may be prepared and debited for the same proceeds
  (`B/loan_payouts.py`, line 240): the wallet can pay twice, although what the loan accounts for is one
  payout. `RenewalGoesOutOnce` and `FirstLoanIsAuthorized` speak of debits that fund a
  payout, and of debits recorded while their payout was not cancelled.
- A combined payment whose answer was lost is not offered again that day once the route was
  reloaded, since both loans then show a collection
  (`D/features/collector/collector_route_page.dart`, line 373).
- A refund is linked to a receipt that was withdrawn (`B/treasury_disbursements.py`, line 483).
- A second report of a receipt that is applied shows it as awaiting recording
  (`B/treasury_claims.py`, line 577).
- Two releases of one collector, or a release and a remittance, may both pass the comparison
  with the cash held (`B/refund_due_repository.py`, line 519); in the model the
  cash in hand then becomes negative.
- An opening obligation may overlap a count made before its cutoff and accepted after it
  (`B/collector_surplus_resolution.py`, line 191).
- The collector's own request inserts a second Past Due record for the same installment, and
  a void does not see the record it linked (`B/past_due_followup_repository.py`, line 180;
  `B/collection_void_repository.py`, line 304).
- A borrower can decline a renewal after the payout left the wallet (`B/renewal_workflow_api.py`,
  line 1020); the payout can then be neither confirmed nor completed.
- A period that was prepared can never be closed or prepared again once an entry is posted
  in an earlier open period; `docs/superpowers/specs/2026-08-30-cb1-mobile-protected-period-close.md`
  (line 79) has a prepared period wait for nothing but its confirmation.
- While two rows of a schedule share a date (4), a No Collection day or an advance for that
  date is refused, and so may be a later catch-up. An advance whose date another row takes
  over after a missed day makes that row's payment fail with
  `contract_covered_date_conflict`. A Management void of a catch-up receipt leaves the dates it
  pulled back. A void leaves the version of the schedule too: when it falls between the read of
  an elapsed row and its record (`B/borrower_schedule_finalization.py`, line 40), and makes
  earlier rows unpaid again, the later row is recorded first, and the next catch-up pulls the
  end of the contract a day too early. Advance entries for exact dates are accepted while the borrower is behind,
  unlike rule 6 of the same design.

Hazards without a property: a correction and a remittance that lock in opposite orders
(`B/remittance_repository.py`, line 655: the code gives up instead of waiting, which a model of
committed transactions does not show); the race of releases above, which the code
allows; and a password change that reaches the Auth service late
(`B/first_loan_credential_service.py`, line 186), which can change what was handed out.

## 4. What is proved

For all values of the constants, from the assumptions named in the modules
(non-empty sets, natural bounds, a positive daily amount within the opening
balance where it is stated so).

| theorem | statement |
|---|---|
| `TypeCorrect` | `Spec => []TypeOK` of the ledger |
| `SpansStayOrdered` | `Spec => []SpansAreOrdered` |
| `NothingElseIsOverlooked` | `Spec => []OnlySameDayPaymentsAreOverlooked` |
| `FrozenReceiptsStay` | `Spec => FrozenReceiptsStand` |
| `LedgerImplementsBook` | `Spec => ImplementsBook` |
| `RemittedCashStaysHeld` | `Spec => []RemittedCashIsHeld` |
| `StateStaysReplay` | `Spec => []StateIsReplayOfReceipts` |
| `ScheduleStaysPaid` | `Spec => []ScheduleFollowsReceipts` |
| `SubmissionTyped` | `Spec => []TypeOK` of the submission |
| `SecondReceiptsAreRebased` | `Spec => []SecondReceiptIsRebased` |
| `CommittedStaysReplayed` | `Spec => CommittedIsReplayed` |
| `AnswersFitDrafts` | `Spec => []AnswersNameTheReceipt` |
| `NoConflictWithOneself` | `Spec => []OwnRetriesDoNotConflict` |
| `CustodyStaysBalanced` | `Spec => [](TypeOK /\ CustodyBalances)` of the cash in custody |
| `SurplusStaysBalanced` | `SurplusSpec => [](SurplusTypeOK /\ SurplusBalances)` |
| `PromisesStayTrue` | `PromisesSpec => [](PromisesTypeOK /\ PromisesFollowDue)` |
| `PromisesAreJudgedOnce` | `PromisesSpec => PromiseIsJudgedOnce` |
| `MoneyIsTyped` | `Spec => []TypeOK` of the movements and their uses |
| `MoneyStaysUsedOnce` | `Spec => []MoneyIsUsedOnce` |
| `ClaimsStayDecided` | `Spec => []ClaimsAreDecided` |
| `ClosesStayTrue` | `StatementsSpec => []ClosesHold` |
| `OpeningIsKept` | `StatementsSpec => OpeningStaysAtItsCutoff` |
| `PostingIsTyped` | `PostingSpec => []PostingTypeOK` |
| `LoansStayWithReceipts` | `PostingSpec => []LoansFollowReceipts` |
| `UndoAnswersStay` | `PostingSpec => []UndoAnswersHold` |
| `FirstLoanIsTyped` | `FirstLoanSpec => []FirstLoanTypeOK` |
| `FirstLoanStaysAuthorized` | `FirstLoanSpec => []FirstLoanIsAuthorized` |
| `IssuedNeverChanges` | `FirstLoanSpec => [][IssuedStays /\ ReleasedOnItsSources]_firstLoanVars` |
| `RenewalOutOnce` | `Spec => []RenewalGoesOutOnce` of a renewal |
| `LockedNeverChanges` | `Spec => [][LockedStays]_vars` of a renewal |
| `AccountStaysOne` | `Spec => []AccountIsOne` of the account of a first loan |
| `BooksStayBalanced` | `Spec => [](TypeOK /\ BooksHold)` of the journal and the close |
| `PostedNeverChanges` | `Spec => BooksStay` |
| `RecordsStayWithTheTree` | `AreasSpec => [](AreasTypeOK /\ RecordsFollowTree)` |
| `TreeStaysWhole` | `SerialSpec => []TreeIsWhole` |

The theorems about a renewal, an account, the areas and the postings state the properties of their
modules; the runs `office` and `treasury_desk` check instances of these, under the same names (in
`AreasHold` for the areas).

**Sums.** `StateIsReplayOfReceipts`, `CustodyBalances`, `SurplusBalances`, `PromisesFollowDue`,
`MoneyIsUsedOnce`, `ClosesHold`, `LoansFollowReceipts` and `BooksHold` are about sums over
sets (`MapThenSumSet`), which a fold computes by choosing one element after the other. The
prover cannot instantiate an induction theorem, whose parameter is an operator, so `Sums` replaces each
induction by the choice of a smallest set for which the claim fails
(`SmallestMember`, from `FS_StrictSubsetOrderingWellFounded` and `WFMin` of the library). From
`SumsAgree` and `SumExists` follow that a sum is determined by its terms, splits over
disjoint sets, and grows by the term that is added or by the change of one. `SumOfGroups` adds the rows of a
statement group by group, `SumOfChosen` a column of which each step moves one entry.

**The ledger.** That only the last receipt can be edited is not a guard: the guard
says that the receipt made the current version. `HistoryInv` (in
`CollectionLedgerProofs`) makes the connection: the spans of versions of the
receipts are ordered, `changes` records which versions were payments of which date,
and the last live receipt whose version is current explains the balance. From it
follow the order of the spans, what a rebased payment may have overlooked, and,
with `RemittancesExist`, that every step of the ledger is a step of `ReceiptBook` or a
stutter.

**What the receipts add up to.** An edit brings back the state that the edited receipt
replaced, so it is not enough that the present state is the replay of the live receipts.
`ReplayInv` says besides that the state kept in the newest receipt (`before`) is the replay of all live
receipts but that one; `ScheduleInv` says the same of covered dates and shortfalls, and that the receipt
which covers a date is the one that completed it (`CoverageIsEarned`). Both speak of
the sequence of receipts as a parameter, so that one lemma serves posting, correcting, undoing and
voiding. `RemittancesHold` ties the items of a remittance to the mark each receipt carries.

**The submission.** The invariant is about all messages together, retained, in
flight, delayed or posted. They are made fresh (`MessagesAreFresh`), so they differ in
key and sequence (`MessagesDiffer`); steps other than a new entry make none
(`NoNewMessage`); and whatever a message's revision could have seen was voided then
(`MessagesSawNothing`). The last part is preserved because only the receipt of the
current version is voided, and posting raises the version above every message.

**Cash in custody.** Money is counted in three tables that only sums connect. `CustodyInv`
has their balance: the locked receipts and what no remittance took into account of the releases
are what standing remittances ask for and what was released. A release under way
keeps its place under the approval (`ReleaseHolds`), which is why a void or
another release between its two steps cannot make it one that is not owed.
`FilledInOrder` is the fact about the netting loop of a remittance: its lines take no more than each
release has left, and together no more than the cash handed over. That the cash in hand
is not negative is not claimed, since two releases may pass the same comparison.

**Surplus.** A credit, the disputed cash of a count and a remittance each have columns that several commands
add to: reserved, returned, applied, recognised. `SurplusInv` says that each column is
the sum of what the actions add to it (`Capacity`), which depends on the kind and status of their rows
(`ActionFits`). A step changes one action, so it moves a column by the difference one row makes, and the
guard on the room left is enough. A remittance nobody accepted has nothing identified or applied, and an
accepted one is covered (`Covered`): recognising excess moves it out of its case, so their sum stays.
A payment belongs to one action, which is past being cancelled (`PaymentsFit`); that is
why a link that was refused can be tried again for the same money only.

**Promises.** A receipt reduces the record of its day and the promise on it together; a void
restores neither. `PromisesInv` says why that is right: an installment of a contract has one record
(`OneRecord`), the receipt that found its shortfall is linked and cannot be voided, and a later receipt
that is not linked, so one that a void can still touch, brought no money to the record's day (`RecordsAreHeld`). A promise
ends once because a posting closes what is overdue before its money reduces anything, and because one
promise at most is pending.

**Renewal.** No guard compares cash and payout across requests. `OutInv` says that money
moves for an approved request alone, that an approved request stays so, and that a new one waits until
none is open; so the two routes meet in one request, where their guards do compare. A debit recorded
against a standing payout keeps it from being cancelled, linked or not; one that comes after the
cancellation only sets `late`, so what the theorem says of the proceeds is about debits that fund a payout.

**First loan.** The two routes of the money never name each other: releasing cash looks for a payout
of the same approval, a payout at its own approval. `FirstLoanInv` says why that is enough: one approval at
most is not cancelled (`OneStands`), and an approval with a live payout is that one
(`PayoutsStand`, which also has that a payout with a recorded debit is live). The last word of Management stays the last because only a pending approval is
authorized again, and what is released is no longer pending (`ReleaseStands`).

**The account.** `AccountInv` ties the step of each attempt to the row of the intent:
one attempt at most is past the lock, the reserved identity is never replaced, requests that may still arrive
are for it, and after completion no attempt passes the lock again.

**Money used once.** The guards that keep two uses of a movement apart are spread over three
commands, and a receipt looks at none of the others. `MoneyInv` has why that is enough: whatever refers to a
movement refers to one that was recorded (`RecordedOnly`), so a new receipt stands on a new movement, and
the pairs that do look at each other stay apart (`UsedApart`). What is applied and refunded of a receipt are sums
over applications and links (`Totals`), which each command moves by one row.

**Statements.** Nothing stops a movement from being recorded or corrected at a time that was closed
before; what keeps a close true is its flag alone. `StatementsInv` says that a close without a flag agrees with
the ledger as it stands (`ClosesAgree`): what changes an earlier balance takes the flag in the same step, and what
comes later leaves the sum of an interval alone (`LaterLeavesMoved`). A match shows its component of the movement, and a
movement is matched whole or by its components (`MatchesFit`), so the rows, grouped by movement, add up to
what moved. A close of no length begins at the opening; so when it is replaced, the closes that began
at its end are still anchored (`CoverageIsAnchored`).

**Postings.** Parts are posted, and receipts voided, one after another in a state under construction, a
fold over a sequence. `FoldGoesThrough` gives the states such a fold goes through, by the argument used for sums; what holds
of all of them then follows from the first one of which it would not (`FirstOf`). `PostingInv` holds
between the steps and, in its part `BooksFit`, in these states too. A void may rely on the version of its loan or on the
void before it in the same reversal; two facts make either enough to know the balance: the last live
receipt of a version explains it (`LatestFits`), and the last void left it (`VoidsFit`). That gives the balances, whatever
the order of voids. A reversal that nothing came before fails if and only if a receipt of it is protected: the receipts
of an application keep a chain on each loan (`ChainFits`), each having found what the one before it left, and the
reversal walks it back (`FreshTo`) as far as no protected receipt stops it. The marks name receipts that exist, and a
released refund is one of a principal reduction (`MarksFit`). A preview fits the loans as long as they have the versions it read (`ReviewFits`). An answer shows
a receipt that is no longer live, and such rows never change (`RowsKept`).

**The books.** `JournalInv` ties the closing entry to its preparation, and the preparation to what
is posted in the period. A period under review takes no ordinary entry, so the snapshot stays
true to the posting, and the closing lines bring the temporary accounts to zero; numbers
order the postings, so the balance a close recorded is that of the entries up to its number.

**The areas.** A session acts on the set of rows it selected, which others may have changed since.
`RecordsInv` says what holds nevertheless: every text on a record is the path of its area (two areas never share
one, so a text names its area), a client has no history only as long as it has no area, and the areas a session
waits for exist. That suffices for `RecordsFollowTree`, because a change writes the texts of exactly the rows
whose paths it writes, whichever these are. The tree itself needs more: `SerialInv` has that a path is
the path above it and one name (`PathsHold`), so that going up shortens the path and no area is
under itself, and that what a session selected is still the subtree (`SelectsCurrent`). The second is
what an overlapping change breaks, and with it the first; `office_cycle` shows how.

**Only model-checked.** Liveness and fairness, which the prover does not handle, and the safety
properties of `CombinedCollection` and `ContractSchedule`. Nothing in
them is known to be out of reach; their inductive invariants have not been worked out yet.

## 5. Not modelled

- 7x7 loans by themselves: their allocator, penalties and extra principal are a second
  product. They appear where they meet the rest: as one loan of a combined payment and of a
  treasury application.
- Within modelled parts: schedules of other cadences, the split of a contract receipt into
  components and its journal (Annex A), corrections on contract loans; transfer journals
  and photos of remittances; delegated collection and collection in another area;
  reporting; source journals, ECL, EIR and tax; onboarding before the approval of a first
  loan; the Auth service, which appears by its answers alone.
- Read models, endpoints, screens, rendering, storage, notifications, screen sharing, GCash
  gateway, payroll, tools: little control state, or pure I/O.
- Lock waits and deadlocks of the database: a transaction that commits is one step (or the
  steps between its unprotected reads), one that is refused or aborted changes nothing.

`PROJECT.json` gives the state of each component.

**Next.** Proofs, in this order: `CashPostedOnce` of `CombinedCollection`, whose messages are those of the
submission; `ScheduleHolds`.

## 6. Running

`tlc -config LedgerPosting.cfg MCCollectionLedger` and so on for the runs of
`PROJECT.json`; `tlapm Sums.tla` and so on for `CollectionLedgerProofs`,
`CollectionSubmissionProofs`, `CollectorDayProofs`, `RenewalProofs`, `FirstLoanProofs`,
`OfficeProofs` and `TreasuryProofs` for the proofs. `treasury_desk`, `collector_day` and `office`
and the runs of the submission take two to four minutes with two workers, the others less than one.
`TreasuryProofs` takes about ten minutes, `CollectorDayProofs` eight, `OfficeProofs` five, the other
proofs less.

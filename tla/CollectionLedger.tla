-------------------------- MODULE CollectionLedger --------------------------
(***************************************************************************)
(* The collection ledger of one loan, on the legacy Regular path: what     *)
(* posting, correction, undo, Management void and remittance do to the     *)
(* loan's collection state and to its receipts.                            *)
(*                                                                         *)
(* Every action is one PostgreSQL transaction.  Each of them takes the     *)
(* row locks of the loan and of its state before it reads them, so the     *)
(* transactions of different collectors and of Management interleave but   *)
(* do not overlap.  What a collector saw before it called (the route       *)
(* revision) may be any earlier version: that is the concurrency here.     *)
(***************************************************************************)
EXTENDS Integers, Sequences, FiniteSets, FiniteSetsExt

CONSTANTS
    Collectors,         \* collectors with an active route to the borrower
    OpeningBalance,     \* remaining_balance when the loan was reconciled
    OpeningPasses,      \* pass_count imported with it
    DailyAmount,        \* lending.loans.daily_amount
    LastDate,           \* bound: business dates are 1..LastDate
    MaxCash,            \* bound: cash handed over in one receipt
    MaxReceipts,        \* bound: receipts ever posted
    MaxVersion,         \* bound: changes of the collection state
    MaxRemittances      \* bound: remittances ever submitted

ASSUME CollectorsAssumption == Collectors # {}
ASSUME AmountsAssumption == /\ OpeningBalance \in Nat \ {0}
                            /\ DailyAmount \in Nat \ {0}
                            /\ OpeningPasses \in Nat
ASSUME BoundsAssumption == /\ LastDate \in Nat \ {0}
                           /\ MaxCash \in Nat
                           /\ MaxReceipts \in Nat
                           /\ MaxVersion \in Nat
                           /\ MaxRemittances \in Nat

VARIABLES
    balance,      \* loan_collection_state.remaining_balance
    passCount,    \* loan_collection_state.pass_count
    lastPaid,     \* loan_collection_state.last_payment_date, 0 for null
    advUntil,     \* loan_collection_state.advance_until, 0 for null
    version,      \* loan_collection_state.state_version
    status,       \* loans.status
    today,        \* the Philippine business date of the server
    receipts,     \* collection_transactions of the loan, in order of acceptance
    covered,      \* collection_covered_dates: date -> receipt, 0 for none
    owed,         \* the open past_due_obligation of a date, 0 when none is open
    remittances,  \* collection_remittances with their items
    changes       \* auxiliary: changes[v] is the collection date of the payment
                  \* that made state version v, 0 when something else made it

state == <<balance, passCount, lastPaid, advUntil, status>>
vars == <<state, version, today, receipts, covered, owed, remittances, changes>>

Dates == 1..LastDate
EntryTypes == {"payment", "advance", "pass"}

-----------------------------------------------------------------------------
(* Amounts.                                                                *)

Lesser(a, b) == IF a < b THEN a ELSE b
Greater(a, b) == IF a > b THEN a ELSE b

\* The receipts that count (is_voided = false).
LiveReceipts == {i \in DOMAIN receipts : ~receipts[i].voided}

\* Those of entry type payment on date d.
PaymentsOn(d) ==
    {i \in LiveReceipts : receipts[i].entry = "payment" /\ receipts[i].date = d}

Applied(S) == MapThenSumSet(LAMBDA i : receipts[i].applied, S)
Cash(S) == MapThenSumSet(LAMBDA i : receipts[i].amount, S)

\* What the schedule still asks for on date d: nothing once the date is
\* covered, otherwise the daily amount less the payments already applied.
ScheduledRemaining(d) ==
    IF covered[d] # 0 THEN 0 ELSE Greater(0, DailyAmount - Applied(PaymentsOn(d)))

\* What is unpaid on date d once a receipt of that date has applied `applied`:
\* new Past Due, whether or not the date is covered.
UnpaidAfter(d, applied) ==
    Greater(0, Lesser(DailyAmount - (Applied(PaymentsOn(d)) + applied),
                      balance - applied))

\* An open obligation only ever shrinks, to what is still unpaid.
Reconciled(d, applied) == Lesser(owed[d], UnpaidAfter(d, applied))

\* The obligation of date d after a payment: an open one is reconciled, otherwise
\* an unpaid remainder opens one.
DueAfter(d, applied) ==
    IF owed[d] > 0 THEN Reconciled(d, applied) ELSE UnpaidAfter(d, applied)

\* The dates are covered by no receipt but i (0 for none).
DatesAvailable(dates, i) == \A x \in dates : covered[x] \in {0, i}

\* No receipt but i says unable to pay on date d.
NoPassOn(d, i) ==
    ~\E j \in LiveReceipts \ {i} : receipts[j].entry = "pass" /\ receipts[j].date = d

-----------------------------------------------------------------------------
(* Posting.                                                                *)

CanPost(d) ==
    /\ Len(receipts) < MaxReceipts
    /\ version < MaxVersion
    /\ d <= today
    /\ status = "active"
    /\ lastPaid <= d
    /\ balance > 0

\* Mutant: the chain is judged by its two ends, not link by link.
SameDayChainEndsMeet(d, e) ==
    LET rows == {i \in PaymentsOn(d) : receipts[i].vBefore >= e
                                       /\ receipts[i].vAfter <= version}
    IN  /\ \E i \in rows : receipts[i].vBefore = e
        /\ \E i \in rows : receipts[i].vAfter = version

\* Every change since revision e is one uncorrected, live payment of date d.
SameDayChainIsSafe(d, e) ==
    LET rows == {i \in PaymentsOn(d) : receipts[i].vBefore >= e
                                       /\ receipts[i].vAfter <= version}
    IN  /\ \A i \in rows : receipts[i].vAfter = receipts[i].vBefore + 1
        /\ \A i, j \in rows : receipts[i].vBefore = receipts[j].vBefore => i = j
        /\ {receipts[i].vBefore : i \in rows} = e..(version - 1)

\* Mutant: the missed streak is taken from the receipts, not from the state.
SnapshotOfReceipts ==
    [balance |-> balance, lastPaid |-> lastPaid, advUntil |-> advUntil,
     passCount |-> IF LiveReceipts = {} THEN 0 ELSE passCount]

\* The revision the collector reviewed is the current one, or the payment may be
\* rebased on the current one.
RevisionAccepted(d, e) == e = version \/ SameDayChainIsSafe(d, e)

\* The state an accepted receipt replaces, kept with the receipt.
Snapshot ==
    [balance |-> balance, lastPaid |-> lastPaid, advUntil |-> advUntil,
     passCount |-> passCount]

Receipt(entry, d, c, cash, applied, e, evidence) ==
    [entry |-> entry, date |-> d, by |-> c, amount |-> cash, applied |-> applied,
     reviewed |-> e, vBefore |-> version, vAfter |-> version + 1,
     before |-> Snapshot, evidence |-> evidence, voided |-> FALSE, remittance |-> 0]

\* What every accepted receipt does to the loan's state.
Record(entry, d, c, cash, applied, e, evidence) ==
    /\ receipts' = Append(receipts, Receipt(entry, d, c, cash, applied, e, evidence))
    /\ balance' = balance - applied
    /\ status' = IF balance' = 0 THEN "paid" ELSE status
    /\ passCount' = IF entry = "pass" THEN passCount + 1 ELSE 0
    /\ lastPaid' = IF entry = "pass" THEN lastPaid ELSE d
    /\ version' = version + 1
    /\ changes' = Append(changes, IF entry = "payment" THEN d ELSE 0)
    /\ UNCHANGED <<today, remittances>>

\* A payment.  `explicit` is the borrower's choice for cash beyond the required
\* amount.  Completing the required amount covers the collection date.  A new
\* obligation comes with the reason the request must then carry.  `closing`: the
\* receipt also closed an overdue promise of the borrower.
PostPayment(c, d, e, cash, explicit, closing) ==
    LET target == Lesser(balance, ScheduledRemaining(d)) IN
    /\ CanPost(d)
    /\ RevisionAccepted(d, e)
    /\ explicit \/ cash <= target
    /\ \E applied \in 1..balance, due \in 0..DailyAmount :
        /\ applied = Lesser(cash, IF explicit THEN balance ELSE target)
        /\ due = DueAfter(d, applied)
        /\ Record("payment", d, c, cash, applied, e, closing \/ due # owed[d])
        /\ covered' = IF target > 0 /\ applied >= target
                      THEN [covered EXCEPT ![d] = Len(receipts) + 1] ELSE covered
        /\ owed' = [owed EXCEPT ![d] = due]
    /\ UNCHANGED advUntil

\* A covered-date payment for the dates the borrower chose.
PostAdvance(c, d, cash, dates, closing) ==
    /\ CanPost(d)
    /\ dates # {}
    /\ DatesAvailable(dates, 0)
    /\ \E applied \in 1..balance, last \in dates :
        /\ applied = Lesser(cash, balance)
        /\ \A x \in dates : x <= last
        /\ Record("advance", d, c, cash, applied, version, closing)
        /\ advUntil' = Greater(advUntil, last)
    /\ covered' = [x \in Dates |-> IF x \in dates THEN Len(receipts) + 1 ELSE covered[x]]
    /\ UNCHANGED owed

\* Unable to pay.  The request always carries a Past Due reason, so it is
\* accepted only when it opens an obligation.
PostPass(c, d) ==
    /\ CanPost(d)
    /\ covered[d] = 0
    /\ NoPassOn(d, 0)
    /\ owed[d] = 0
    /\ \E due \in 1..DailyAmount :
        /\ due = UnpaidAfter(d, 0)
        /\ owed' = [owed EXCEPT ![d] = due]
    /\ Record("pass", d, c, 0, 0, version, TRUE)
    /\ UNCHANGED <<covered, advUntil>>

-----------------------------------------------------------------------------
(* Correction, undo and void: only the receipt that made the current state *)
(* version, and only while nothing else depends on it.                     *)

EditableWhenHandedOver(i) ==
    /\ version < MaxVersion
    /\ i \in LiveReceipts
    /\ ~receipts[i].evidence
    /\ receipts[i].vAfter = version

EditableOutOfOrder(i) ==
    /\ version < MaxVersion
    /\ i \in LiveReceipts
    /\ receipts[i].remittance = 0
    /\ ~receipts[i].evidence

Editable(i) ==
    /\ version < MaxVersion
    /\ i \in LiveReceipts
    /\ receipts[i].remittance = 0
    /\ ~receipts[i].evidence
    /\ receipts[i].vAfter = version

\* The collection state moves to a version no posting made.
Touch ==
    /\ version' = version + 1
    /\ changes' = Append(changes, 0)

\* Mutant: the coverage of the receipt stays.
CoverageKept(i) == covered

\* The covered dates without those of receipt i.
CoverageWithout(i) == [x \in Dates |-> IF covered[x] = i THEN 0 ELSE covered[x]]

\* A payment of this amount would not complete its day.
LeavesRemainder(r, i, amount) ==
    /\ amount < r.before.balance
    /\ Applied(PaymentsOn(r.date) \ {i}) + amount < DailyAmount

\* Mutant: more than the balance may be entered.
ValidReplacementUncapped(r, type, amount, dates) ==
    /\ IF type = "pass" THEN amount = 0 /\ dates = {} ELSE amount > 0 /\ dates # {}
    /\ type = "payment" => dates = {r.date}

ValidReplacement(r, type, amount, dates) ==
    /\ IF type = "pass" THEN amount = 0 /\ dates = {} ELSE amount > 0 /\ dates # {}
    /\ type = "payment" => dates = {r.date}
    /\ amount <= r.before.balance

\* The recorder replaces type, amount and dates of the receipt.
CorrectOwn(c, i, type, amount, dates) ==
    LET r == receipts[i] IN
    /\ Editable(i)
    /\ r.by = c
    /\ r.amount = r.applied
    /\ ValidReplacement(r, type, amount, dates)
    /\ DatesAvailable(dates, i)
    /\ type = "payment" => ~LeavesRemainder(r, i, amount)
    /\ type = "pass" => NoPassOn(r.date, i)
    /\ receipts' = [receipts EXCEPT
            ![i] = [r EXCEPT !.entry = type, !.amount = amount, !.applied = amount,
                             !.vAfter = version + 1]]
    /\ covered' = [x \in Dates |-> IF x \in dates THEN i ELSE CoverageWithout(i)[x]]
    /\ balance' = r.before.balance - amount
    /\ status' = IF balance' = 0 THEN "paid" ELSE "active"
    /\ passCount' = IF type = "pass" THEN r.before.passCount + 1 ELSE 0
    /\ lastPaid' = IF type = "pass" THEN r.before.lastPaid ELSE r.date
    /\ IF type = "advance"
       THEN \E last \in dates : /\ \A x \in dates : x <= last
                                /\ advUntil' = Greater(r.before.advUntil, last)
       ELSE advUntil' = r.before.advUntil
    /\ Touch
    /\ UNCHANGED <<today, owed, remittances>>

\* The receipt is voided and the state it replaced comes back.
Restore(i) ==
    LET r == receipts[i] IN
    /\ receipts' = [receipts EXCEPT ![i].voided = TRUE]
    /\ covered' = CoverageWithout(i)
    /\ balance' = r.before.balance
    /\ status' = IF balance' = 0 THEN "paid" ELSE "active"
    /\ passCount' = r.before.passCount
    /\ lastPaid' = r.before.lastPaid
    /\ advUntil' = r.before.advUntil
    /\ Touch
    /\ UNCHANGED <<today, owed, remittances>>

VoidByManagement(i) == Editable(i) /\ Restore(i)

UndoByCollector(c, i) ==
    /\ Editable(i)
    /\ receipts[i].by = c
    /\ receipts[i].entry \in {"payment", "advance"}
    /\ receipts[i].date = today
    /\ Restore(i)

-----------------------------------------------------------------------------
(* Remittance.                                                             *)

\* Mutant: what was already handed over is offered again.
OnHandOrHandedOver(c, d) ==
    {i \in LiveReceipts : receipts[i].by = c /\ receipts[i].date = d}

\* The receipts of date d whose cash collector c still holds.
OnHand(c, d) ==
    {i \in LiveReceipts : /\ receipts[i].by = c
                          /\ receipts[i].date = d
                          /\ receipts[i].remittance = 0}

\* The collector hands over everything it holds for date d.
SubmitRemittance(c, d) ==
    LET items == OnHand(c, d) IN
    /\ Len(remittances) < MaxRemittances
    /\ items # {}
    /\ \E total \in 0..(MaxReceipts * MaxCash) :
        /\ total = Cash(items)
        /\ remittances' = Append(remittances, [items |-> items, total |-> total,
                                               status |-> "submitted"])
    /\ receipts' = [i \in DOMAIN receipts |->
            IF i \in items THEN [receipts[i] EXCEPT !.remittance = Len(remittances) + 1]
                           ELSE receipts[i]]
    /\ UNCHANGED <<state, version, today, covered, owed, changes>>

ConfirmReceived(b) ==
    /\ remittances[b].status = "submitted"
    /\ remittances' = [remittances EXCEPT ![b].status = "received"]
    /\ UNCHANGED <<state, version, today, receipts, covered, owed, changes>>

\* The recipient sends the cash back; the receipts are unlocked.
RejectRemittance(b) ==
    /\ remittances[b].status = "submitted"
    /\ Cardinality({i \in DOMAIN receipts : receipts[i].remittance = b})
          = Cardinality(remittances[b].items)
    /\ remittances' = [remittances EXCEPT ![b].status = "rejected"]
    /\ receipts' = [i \in DOMAIN receipts |->
            IF receipts[i].remittance = b THEN [receipts[i] EXCEPT !.remittance = 0]
                                          ELSE receipts[i]]
    /\ UNCHANGED <<state, version, today, covered, owed, changes>>

-----------------------------------------------------------------------------
(* The environment of the ledger, and the specification.                   *)

\* A No Collection day or a schedule adjustment invalidates route revisions.
ChangeSchedule ==
    /\ version < MaxVersion
    /\ Touch
    /\ UNCHANGED <<state, today, receipts, covered, owed, remittances>>

NextDay ==
    /\ today < LastDate
    /\ today' = today + 1
    /\ UNCHANGED <<state, version, receipts, covered, owed, remittances, changes>>

Init ==
    /\ balance = OpeningBalance
    /\ passCount = OpeningPasses
    /\ lastPaid = 0
    /\ advUntil = 0
    /\ version = 0
    /\ status = "active"
    /\ today = 1
    /\ receipts = <<>>
    /\ covered = [d \in Dates |-> 0]
    /\ owed = [d \in Dates |-> 0]
    /\ remittances = <<>>
    /\ changes = <<>>

Post(c) ==
    \E d \in Dates, cash \in 1..MaxCash, closing \in BOOLEAN :
        \/ \E e \in 0..version, explicit \in BOOLEAN :
                PostPayment(c, d, e, cash, explicit, closing)
        \/ \E dates \in SUBSET Dates : PostAdvance(c, d, cash, dates, closing)

Edit(c) ==
    \E i \in DOMAIN receipts :
        \/ \E type \in EntryTypes, amount \in 0..MaxCash, dates \in SUBSET Dates :
                CorrectOwn(c, i, type, amount, dates)
        \/ UndoByCollector(c, i)

Next ==
    \/ \E c \in Collectors : \/ Post(c)
                             \/ \E d \in Dates : PostPass(c, d)
                             \/ Edit(c)
                             \/ \E d \in Dates : SubmitRemittance(c, d)
    \/ \E i \in DOMAIN receipts : VoidByManagement(i)
    \/ \E b \in DOMAIN remittances : ConfirmReceived(b) \/ RejectRemittance(b)
    \/ ChangeSchedule
    \/ NextDay

Spec == Init /\ [][Next]_vars
-----------------------------------------------------------------------------
(* Properties.                                                             *)

ReceiptType ==
    [entry : EntryTypes, date : Dates, by : Collectors, amount : Nat,
     applied : 0..OpeningBalance, reviewed : Nat, vBefore : Nat, vAfter : Nat,
     before : [balance : 1..OpeningBalance, lastPaid : 0..LastDate,
               advUntil : 0..LastDate, passCount : Nat],
     evidence : BOOLEAN, voided : BOOLEAN, remittance : Nat]

RemittanceType ==
    [items : SUBSET Nat, total : Nat, status : {"submitted", "received", "rejected"}]

\* The types of the variables.
TypeOK ==
    /\ balance \in 0..OpeningBalance
    /\ passCount \in Nat
    /\ lastPaid \in 0..LastDate
    /\ advUntil \in 0..LastDate
    /\ version \in Nat
    /\ status \in {"active", "paid"}
    /\ today \in Dates
    /\ receipts \in Seq(ReceiptType)
    /\ covered \in [Dates -> Nat]
    /\ owed \in [Dates -> 0..DailyAmount]
    /\ remittances \in Seq(RemittanceType)
    /\ changes \in Seq(0..LastDate)

Paying == {i \in LiveReceipts : receipts[i].entry # "pass"}

\* Whatever was posted, corrected, undone or voided, and in whatever order, the
\* collection state is the one the live receipts add up to: no peso is lost or
\* counted twice, the missed streak, the last payment date and the advance
\* coverage are those of the receipts that still count, and the loan is paid
\* exactly when nothing remains.
StateIsReplayOfReceipts ==
    /\ balance = OpeningBalance - Applied(LiveReceipts)
    /\ lastPaid = Max({0} \cup {receipts[i].date : i \in Paying})
    /\ passCount = (IF Paying = {} THEN OpeningPasses ELSE 0)
                   + Cardinality({i \in LiveReceipts : \A j \in Paying : j < i})
    /\ advUntil = Max({0} \cup {d \in Dates : /\ covered[d] # 0
                                              /\ receipts[covered[d]].entry = "advance"})
    /\ status = "paid" <=> balance = 0

\* A date that a payment covers was paid in full, by all payments of that date
\* together or because the payment settled the loan: no correction leaves an
\* incompletely paid day marked covered (audit repair F3).  Conversely a fully
\* paid day is never left open for another scheduled payment.
CoveredDayIsPaid ==
    \A d \in Dates :
        /\ covered[d] # 0 =>
               LET r == receipts[covered[d]] IN
               r.entry = "payment" => /\ r.date = d
                                      /\ \/ Applied(PaymentsOn(d)) >= DailyAmount
                                         \/ r.before.balance = r.applied
        /\ Applied(PaymentsOn(d)) >= DailyAmount => covered[d] # 0

\* A date is covered by a receipt that still counts: undoing or correcting a
\* receipt releases the dates it no longer covers.
CoveredByLiveReceipt ==
    \A d \in Dates : covered[d] # 0 => /\ covered[d] \in LiveReceipts
                                       /\ receipts[covered[d]].entry # "pass"

\* As long as the loan is not settled, a day with payments that do not add up to
\* the daily amount has an open obligation: a shortfall never goes unrecorded,
\* whichever receipts of the day are corrected or voided afterwards.
PartialDayIsTracked ==
    \A d \in Dates : /\ balance > 0
                     /\ PaymentsOn(d) # {}
                     /\ Applied(PaymentsOn(d)) < DailyAmount
                     => owed[d] > 0

\* The schedule of the loan says what its live receipts paid.
ScheduleFollowsReceipts == CoveredDayIsPaid /\ CoveredByLiveReceipt /\ PartialDayIsTracked

\* A payment sent with an outdated revision is accepted only when every change
\* the collector had not seen was a payment of the same date: no PASS, advance,
\* correction, void or schedule change is ever overlooked.
OnlySameDayPaymentsAreOverlooked ==
    \A i \in DOMAIN receipts :
        \A v \in (receipts[i].reviewed + 1)..receipts[i].vBefore :
            changes[v] = receipts[i].date

\* Each receipt accounts for its own span of state versions, and the spans of
\* later receipts come after those of earlier ones.
SpansAreOrdered ==
    /\ \A i \in DOMAIN receipts : /\ receipts[i].vBefore < receipts[i].vAfter
                                  /\ receipts[i].vAfter <= version
    /\ \A i, j \in DOMAIN receipts : i < j => receipts[i].vAfter <= receipts[j].vBefore

\* What a remittance that was not sent back declares is what its receipts hold,
\* and no receipt is in two of them: handing over, rejecting, correcting and
\* handing over again never counts cash twice.
RemittedCashIsHeld ==
    /\ \A b \in DOMAIN remittances : remittances[b].status # "rejected" =>
        /\ remittances[b].items = {i \in DOMAIN receipts : receipts[i].remittance = b}
        /\ remittances[b].items \subseteq LiveReceipts
        /\ remittances[b].total = Cash(remittances[b].items)
    /\ \A i \in DOMAIN receipts : receipts[i].remittance # 0 =>
        remittances[receipts[i].remittance].status # "rejected"

\* A receipt with linked Past Due or promise records, or handed over, keeps its
\* contents and goes on counting; a received one also stays handed over.
FrozenReceiptsStand ==
    [][\A i \in DOMAIN receipts :
        /\ receipts[i].evidence \/ receipts[i].remittance # 0 =>
            receipts'[i] = [receipts[i] EXCEPT !.remittance = receipts'[i].remittance]
        /\ /\ receipts[i].remittance # 0
           /\ remittances[receipts[i].remittance].status = "received"
           => receipts'[i] = receipts[i]]_vars

\* The ledger as the book of ReceiptBook sees it.
BookEntries ==
    [i \in LiveReceipts |->
        [who |-> receipts[i].by, day |-> receipts[i].date,
         entry |-> receipts[i].entry, credit |-> receipts[i].applied]]
ReceivedEntries ==
    {i \in LiveReceipts : /\ receipts[i].remittance # 0
                          /\ remittances[receipts[i].remittance].status = "received"}

Book == INSTANCE ReceiptBook WITH Opening <- OpeningBalance, book <- BookEntries,
                                  received <- ReceivedEntries, owing <- balance

\* The promise of the ledger: an append-only book in which only the last entry
\* may be amended or struck, and never one that was received.
ImplementsBook == Book!Spec

-----------------------------------------------------------------------------
(* What the documents say and the code does not do.                        *)

\* docs/release/full-audit-repairs-20261009.md, F4: the final payoff closes the Past Due obligations.
PayoffClosesObligations ==
    balance = 0 => \A d \in Dates : owed[d] = 0
=============================================================================

--------------------------- MODULE ContractSchedule ---------------------------
(***************************************************************************)
(* The operational schedule of one Regular loan with a verified contract   *)
(* and a daily cadence: a missed day moves its row and all later ones one  *)
(* place forward, a payment beyond what is due pulls them back, Management *)
(* declares days without collection (rolling_schedule.py,                  *)
(* no_collection_schedule.py, borrower_schedule_finalization.py and the    *)
(* bridges that post Regular receipts).  Contractual dates are 1, 2, ...   *)
(* Every action but the two halves of a finalization is one transaction    *)
(* that locks the loan.  Entries without money, corrections, 7x7 loans and *)
(* other cadences are left out.                                            *)
(***************************************************************************)
EXTENDS Integers, Sequences, FiniteSets, SequencesExt

CONSTANTS
    Items,         \* installments by number, 1 .. N
    Amount,        \* contractual_amount of each
    Sessions,      \* requests that finalize elapsed days
    LastDay, MaxReceipts, MaxDeclared, MaxCovered   \* bounds

\* What the constants must be; a module that gives them values assumes it.
ScheduleAssumption ==
    /\ Items \in {1 .. n : n \in 1 .. 10} /\ Amount \in Nat \ {0} /\ IsFiniteSet(Sessions)
    /\ LastDay \in Nat /\ MaxReceipts \in Nat /\ MaxDeclared \in Nat /\ MaxCovered \in Nat

VARIABLES
    today,         \* the business date
    due,           \* effective_due_date of every installment
    slots,         \* active_borrower_extension_slots
    adjustments,   \* loan_schedule_adjustments; their number is operational_version
    receipts,      \* collection_transactions with their installment allocations
    allocated,     \* what the receipts that stand gave to each row: every query sums it
    covered,       \* collection_covered_dates
    latest,        \* the receipt whose state_version_after is current, or 0
    reading        \* what each session has read of the next elapsed shortfall

vars == <<today, due, slots, adjustments, receipts, allocated, covered, latest, reading>>

NoReading == [event |-> 0, version |-> 0]

-----------------------------------------------------------------------------
(* What is read of the schedule.                                           *)

Live == {r \in DOMAIN receipts : receipts[r].live}

Remaining(i) == Amount - allocated[i]
Total(rows) == MapThenSumSet(Remaining, Range(rows))

\* Every planner sorts by effective date, then by number.
Before(i, j) == due[i] < due[j] \/ (due[i] = due[j] /\ i < j)
Rows == SortSeq([i \in Items |-> i], Before)
Unpaid == SelectSeq(Rows, LAMBDA i : Remaining(i) > 0)

Reversed == {adjustments[n].reverses : n \in DOMAIN adjustments}
Declared == {n \in DOMAIN adjustments : adjustments[n].kind = "no_collection"}
Blocked == {adjustments[n].date : n \in Declared \ Reversed}

\* The first date from d on that is not in S.
Free(d, S) == CHOOSE e \in d .. d + Cardinality(S) :
                  e \notin S /\ \A x \in d .. e - 1 : x \in S

Place(rows, i) == CHOOSE k \in DOMAIN rows : rows[k] = i
LeastOf(S) == CHOOSE x \in S : \A y \in S : x <= y
GreatestOf(S) == CHOOSE x \in S : \A y \in S : x >= y

\* A planned change of dates, a function on the rows it affects, is written with its audit.
Adjust(kind, date, moved, reverses) ==
    /\ adjustments' = Append(adjustments,
           [kind |-> kind, date |-> date, reverses |-> reverses, after |-> Len(receipts),
            moved |-> [i \in DOMAIN moved |-> [from |-> due[i], to |-> moved[i]]]])
    /\ due' = [i \in Items |-> IF i \in DOMAIN moved THEN moved[i] ELSE due[i]]

-----------------------------------------------------------------------------
(* A missed day.                                                           *)

\* The oldest unpaid row before today: _next_elapsed_shortfall.
Elapsed == SelectSeq(Unpaid, LAMBDA i : due[i] < today)

\* plan_borrower_shortfall_shift: the rows from item on take the place of the next one.
ShortfallShift(item) ==
    LET rows == Rows  first == Place(rows, item) IN
    [i \in {rows[k] : k \in first .. Len(rows)} |->
        LET k == Place(rows, i) IN
        IF k < Len(rows) THEN due[rows[k + 1]] ELSE Free(due[i] + 1, Blocked)]

MovesForward(moved) == \A i \in DOMAIN moved : moved[i] > due[i]

\* Mutant: a row that was paid since it was read is moved too.
MissedAny(event) == SelectSeq(Rows, LAMBDA i : due[i] = event)

\* The row that was missed on a date, if it is still unpaid.
Missed(event) == SelectSeq(Unpaid, LAMBDA i : due[i] = event)

Read(s) ==
    /\ reading[s] = NoReading /\ Elapsed # <<>>
    /\ reading' = [reading EXCEPT ![s] = [event |-> due[Elapsed[1]], version |-> Len(adjustments)]]
    /\ UNCHANGED <<today, due, slots, adjustments, receipts, allocated, covered, latest>>

\* record_shortfall refuses on a newer version, a row that was paid, or a row that cannot move.
Recordable(s) ==
    LET missed == Missed(reading[s].event) IN
    /\ reading[s].version = Len(adjustments) /\ missed # <<>>
    /\ MovesForward(ShortfallShift(missed[1]))

Record(s) ==
    LET event == reading[s].event IN
    /\ reading[s] # NoReading /\ reading' = [reading EXCEPT ![s] = NoReading]
    /\ IF Recordable(s)
       THEN /\ Adjust("borrower_shortfall", event, ShortfallShift(Missed(event)[1]), 0)
            /\ slots' = slots + 1 /\ latest' = 0
       ELSE UNCHANGED <<due, slots, adjustments, latest>>
    /\ UNCHANGED <<today, receipts, allocated, covered>>

-----------------------------------------------------------------------------
(* Days without collection.                                                *)

\* plan_no_collection_shift: like a missed day, but every row jumps over blocked dates.
NoCollectionShift(item, d) ==
    LET rows == Rows  first == Place(rows, item) IN
    [i \in {rows[k] : k \in first .. Len(rows)} |->
        LET k == Place(rows, i) IN
        Free(IF k < Len(rows) THEN due[rows[k + 1]] ELSE due[i] + 1, Blocked \cup {d})]

Declare(d) ==
    LET target == {i \in Items : due[i] = d} IN
    /\ d > today /\ Cardinality(Declared) < MaxDeclared
    /\ Cardinality(target) = 1
    /\ \E i \in target :
         LET moved == NoCollectionShift(i, d) IN
         /\ MovesForward(moved)
         /\ \A k \in 2 .. Cardinality(Items) :
              Rows[k - 1] \in DOMAIN moved => moved[Rows[k]] > moved[Rows[k - 1]]
         /\ Adjust("no_collection", d, moved, 0)
    /\ latest' = 0
    /\ UNCHANGED <<today, slots, receipts, allocated, covered, reading>>

\* Only the last adjustment, and before any of its rows received a payment.
Undeclare ==
    LET n == Len(adjustments)  moved == adjustments[n].moved IN
    /\ n # 0 /\ adjustments[n].kind = "no_collection"
    /\ \A i \in DOMAIN moved : allocated[i] = 0 /\ due[i] = moved[i].to
    /\ Adjust("reversal", adjustments[n].date, [i \in DOMAIN moved |-> moved[i].from], n)
    /\ latest' = 0
    /\ UNCHANGED <<today, slots, receipts, allocated, covered, reading>>

-----------------------------------------------------------------------------
(* Receipts.                                                               *)

\* Cash given to rows in their order.
Fill(rows, cash, basis) ==
    LET Part(k) ==
            LET left == cash - Total(SubSeq(rows, 1, k - 1)) IN
            [item |-> rows[k], basis |-> basis,
             amount |-> IF left < Remaining(rows[k]) THEN left ELSE Remaining(rows[k])]
    IN {p \in {Part(k) : k \in DOMAIN rows} : p.amount > 0}

\* What is due on a date, and the rows after it that a payment may make up.
DueRows(c) == SelectSeq(Unpaid, LAMBDA i : due[i] <= c)
Future(c) == SelectSeq(Unpaid, LAMBDA i : due[i] > c)
CatchUp(c) == LET future == Future(c) IN SubSeq(future, 1, IF slots < Len(future) THEN slots ELSE Len(future))

\* What the borrower may choose for the cash beyond these.
AdvanceBlocked(c) == slots > 0 \/ \E i \in Range(Unpaid) : due[i] < c
ExtraChoices(c, cash) ==
    IF cash <= Total(DueRows(c)) + Total(CatchUp(c)) THEN {"scheduled"}
    ELSE IF AdvanceBlocked(c) THEN {"principal_reduction"} ELSE {"advance", "principal_reduction"}

\* plan_protected_regular_allocation: what is due, then catch-up, then the extra.
Allocation(c, cash, choice) ==
    LET now == DueRows(c)  future == Future(c)  catchUp == CatchUp(c)
        rest == SubSeq(future, Len(catchUp) + 1, Len(future))
        left == cash - Total(now)
    IN  Fill(now, cash, "oldest_due_first") \cup Fill(catchUp, left, "borrower_catch_up")
        \cup Fill(IF choice = "advance" THEN rest ELSE Reverse(rest), left - Total(catchUp), choice)

\* The rows a receipt completes with cash of a given basis.
Completed(parts, basis) ==
    {p.item : p \in {q \in parts : q.basis = basis /\ q.amount = Remaining(q.item)}}

\* Mutant: the rows come back one place too far.
ContractionOneMore(S) ==
    LET rows == Rows  n == Cardinality(S)  last == GreatestOf({Place(rows, i) : i \in S}) IN
    [i \in {rows[k] : k \in last + 1 .. Len(rows)} |->
        due[rows[IF Place(rows, i) > n + 1 THEN Place(rows, i) - n - 1 ELSE 1]]]

\* plan_borrower_catchup_contraction: the rows after the completed ones take their places.
Contraction(S) ==
    LET rows == Rows  n == Cardinality(S)  last == GreatestOf({Place(rows, i) : i \in S}) IN
    [i \in {rows[k] : k \in last + 1 .. Len(rows)} |-> due[rows[Place(rows, i) - n]]]

Consecutive(S) ==
    LET places == {Place(Rows, i) : i \in S} IN places = LeastOf(places) .. GreatestOf(places)

MovesBack(moved) == \A i \in DOMAIN moved : moved[i] < due[i]

\* A receipt is not dated before the last one that stands.
InOrder(c) == Len(receipts) < MaxReceipts /\ \A r \in Live : receipts[r].date <= c

\* What the parts of a receipt give to a row.
Given(parts, i) == MapThenSumSet(LAMBDA p : p.amount, {p \in parts : p.item = i})

Post(c, parts, dates) ==
    /\ \A x \in covered : x.date \notin dates
    /\ receipts' = Append(receipts, [date |-> c, parts |-> parts, live |-> TRUE])
    /\ allocated' = [i \in Items |-> allocated[i] + Given(parts, i)]
    /\ covered' = covered \cup {[date |-> d, receipt |-> Len(receipts) + 1] : d \in dates}
    /\ latest' = Len(receipts) + 1
    /\ UNCHANGED <<today, reading>>

\* A payment; the balance bounds what is applied, the rest of the cash is left unallocated.
Pay(c, cash, choice) ==
    LET parts == Allocation(c, cash, choice)
        done == Completed(parts, "borrower_catch_up")
    IN
    /\ choice \in ExtraChoices(c, cash)
    /\ Post(c, parts, {due[i] : i \in Completed(parts, "oldest_due_first")})
    /\ \/ done = {} /\ UNCHANGED <<due, slots, adjustments>>
       \/ /\ done # {} /\ Cardinality(done) <= slots
          /\ Consecutive(done) /\ MovesBack(Contraction(done))
          /\ Adjust("borrower_catch_up", c, Contraction(done), 0)
          /\ slots' = slots - Cardinality(done)

\* An entry of the older kind, for exact dates: it pays their rows in full.
Advance(c, dates) ==
    LET rows == {i \in Items : due[i] \in dates} IN
    /\ dates # {} /\ Cardinality(rows) = Cardinality(dates)
    /\ {due[i] : i \in rows} = dates /\ \A i \in rows : Remaining(i) > 0
    /\ Post(c, {[item |-> i, basis |-> "exact_covered_date", amount |-> Remaining(i)] : i \in rows}, dates)
    /\ UNCHANGED <<due, slots, adjustments>>

\* A receipt that is the last change of its loan can be voided, unless it changed Past Due
\* records; its effect on the dates stays.
Void ==
    /\ latest # 0
    /\ receipts' = [receipts EXCEPT ![latest].live = FALSE]
    /\ allocated' = [i \in Items |-> allocated[i] - Given(receipts[latest].parts, i)]
    /\ covered' = {x \in covered : x.receipt # latest}
    /\ latest' = 0
    /\ UNCHANGED <<today, due, slots, adjustments, reading>>

NextDay ==
    /\ today < LastDay /\ today' = today + 1
    /\ UNCHANGED <<due, slots, adjustments, receipts, allocated, covered, latest, reading>>

-----------------------------------------------------------------------------
Init ==
    /\ today = 1 /\ due = [i \in Items |-> i] /\ slots = 0 /\ adjustments = <<>>
    /\ receipts = <<>> /\ allocated = [i \in Items |-> 0] /\ covered = {} /\ latest = 0
    /\ reading = [s \in Sessions |-> NoReading]

Dates == {due[i] : i \in Items}

Next ==
    \/ \E s \in Sessions : Read(s) \/ Record(s)
    \/ \E d \in Dates : Declare(d)
    \/ Undeclare
    \/ \E c \in 1 .. today :
         /\ InOrder(c)
         /\ \/ \E cash \in 1 .. Total(Unpaid), choice \in {"scheduled", "advance", "principal_reduction"} :
                 Pay(c, cash, choice)
            \/ \E dates \in SUBSET Dates : Cardinality(dates) <= MaxCovered /\ Advance(c, dates)
    \/ Void
    \/ NextDay

Spec == Init /\ [][Next]_vars

-----------------------------------------------------------------------------
(* Properties.                                                             *)

\* The types of the variables.
TypeOK ==
    /\ today \in 1 .. LastDay /\ due \in [Items -> Nat] /\ slots \in Nat
    /\ \A r \in DOMAIN receipts : \A p \in receipts[r].parts : p.amount \in 1 .. Amount
    /\ latest \in {0} \cup Live
    /\ reading \in [Sessions -> [event : Nat, version : Nat]]

\* The rows a payment completed as catch-up.
CaughtUp(r) == {p.item : p \in {q \in receipts[r].parts : q.basis = "borrower_catch_up"}}

\* A payment that completed catch-up rows was voided: the dates it pulled back stay.
CatchUpVoided == \E r \in DOMAIN receipts : ~receipts[r].live /\ CaughtUp(r) # {}

\* What a row has of the first n receipts.
GivenBy(n, i) == MapThenSumSet(LAMBDA r : Given(receipts[r].parts, i), Live \cap 1 .. n)

\* A missed day was recorded while a row before it was unpaid: the receipt that had paid
\* it was voided after the day was read, which leaves the version of the schedule.
MissedOutOfOrder == \E n \in DOMAIN adjustments :
    /\ adjustments[n].kind = "borrower_shortfall"
    /\ \E i \in Items \ DOMAIN adjustments[n].moved : GivenBy(adjustments[n].after, i) < Amount

\* No installment is due on a day without collection, and none is paid twice over.
NothingOnBlocked == \A i \in Items : due[i] \notin Blocked /\ Remaining(i) >= 0

\* The contract ends as many collection days late as the borrower is behind, until its
\* last row is made up for.
MaturityFollows ==
    LET last == due[Cardinality(Items)] IN
    (\A r \in DOMAIN receipts : Cardinality(Items) \notin CaughtUp(r)) =>
    Cardinality((1 .. last) \ Blocked) = Cardinality(Items) + slots

\* What is still to be paid is due in the order of the contract, one row a day.
UnpaidInOrder ==
    LET unpaid == Unpaid IN
    \A k \in 2 .. Len(unpaid) :
        unpaid[k - 1] < unpaid[k] /\ due[unpaid[k - 1]] < due[unpaid[k]]

\* A payment completed two catch-up rows at once: the rows after them come back by two.
CaughtUpTwo == \E r \in DOMAIN receipts : Cardinality(CaughtUp(r)) > 1

\* A day that passed unpaid can be recorded as missed.
FinalizationProceeds == Elapsed # <<>> => MovesForward(ShortfallShift(Elapsed[1]))

\* The schedule stays one: its end, its order and its blocked days agree with what was
\* missed, made up and declared, until a payment that made up a day is voided or a day is
\* recorded as missed before an older one; and unless a payment made up two days at once,
\* every missed day can be recorded.
ScheduleHolds ==
    /\ NothingOnBlocked
    /\ ~CatchUpVoided /\ ~MissedOutOfOrder =>
           MaturityFollows /\ UnpaidInOrder /\ (CaughtUpTwo \/ FinalizationProceeds)

\* A row that was paid since the day was found missed is not moved for it, the borrower
\* falls behind by a day only for a row that is unpaid and overdue, and catches up only
\* with the rows a payment completes, which bring no row to its date or before.
MovesHaveCause ==
    /\ slots' > slots =>
           /\ slots' = slots + 1 /\ receipts' = receipts
           /\ \E i \in Items : /\ due[i] < today /\ Remaining(i) > 0
                              /\ {j \in Items : due'[j] # due[j]} =
                                    {Rows[k] : k \in Place(Rows, i) .. Len(Rows)}
    /\ slots' < slots =>
           /\ Len(receipts') = Len(receipts) + 1
           /\ LET new == receipts'[Len(receipts')]
                  done == {i \in Range(CatchUp(new.date)) : allocated'[i] = Amount}
              IN  /\ slots - slots' = Cardinality(done)
                  /\ \A i \in Items : due'[i] # due[i] => due'[i] < due[i] /\ due'[i] > new.date /\ i \notin done
    /\ slots' = slots /\ due' # due => Blocked' # Blocked
=============================================================================

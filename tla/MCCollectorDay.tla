---------------------------- MODULE MCCollectorDay ----------------------------
(* What a collector's day leaves behind, side by side: cash in custody and     *)
(* Refund Due, counts and surplus, and promises of borrowers, which this       *)
(* module extends, combined payments, and the schedule of a contract loan.     *)
(* One is chosen at the start and only it moves.                               *)
EXTENDS CashCustody, CollectorSurplus, PaymentPromise

VARIABLES part, recorded, day, version, saved, route, draft, wire, answer,
          others, today, due, slots, adjustments, allocated, covered, latest, reading

dayVars == <<part, recorded, day, version, saved, route, draft, wire, answer,
             others, today, due, slots, adjustments, allocated, covered, latest, reading,
             vars, surplusVars, promiseVars>>

\* Of three receipts on two dates, 1 and 2 of the first date owe a refund, 2 and 3
\* were collected in another area.
ReceiptAmounts == <<2, 1, 1>>
ReceiptDues == <<2, 1, 0>>
ReceiptDates == <<1, 1, 2>>

\* Approvals are interchangeable and used in their order.
AtCustody == approvals[2] # Unapproved => approvals[1] # Unapproved

CollectorOfEach == <<11, 11>>
GrossOf == <<3, 1>>
RefundOf == <<1, 0>>

\* Nobody enters any other amount.
AmountsIn(S) ==
    /\ \A n \in Counts : {counts[n].counted, exceptions[n].retained} \subseteq S \cup {0}
    /\ \A k \in Actions : actions[k].amount \in S \cup {0}
    /\ \A e \in Refs : payments[e].amount \in S \cup {0}

\* Counts, credits, actions and payment references are used in their order: which of
\* them stands for what makes no difference.
InTurn ==
    /\ counts[32] # NoCount => counts[31] # NoCount
    /\ credits[22] # NoCredit => credits[21] # NoCredit
    /\ actions[2] # NoAction => actions[1] # NoAction
    /\ payments[2] # NoPayment => payments[1] # NoPayment

\* One remittance counted twice, two actions and two payment references.
AtReturned ==
    /\ InTurn /\ remitted[2] = "submitted" /\ \A n \in Counts : counts[n].remittance # 2
    /\ \A k \in Actions : actions[k].remittance # 2
    /\ credits[22] = NoCredit /\ \A w \in Collectors : anchors[w] = NoAnchor
    /\ AmountsIn({1, 2, 4})

\* Two remittances, the first with a refund; two credits, two applications.
AtApplied ==
    /\ InTurn /\ \A e \in Refs : payments[e] = NoPayment
    /\ \A w \in Collectors : anchors[w] = NoAnchor
    /\ AmountsIn({1, 3})

\* Two collectors with obligations in the same opening, one remittance.
AtOpened ==
    /\ InTurn /\ remitted[1] = "submitted" /\ \A k \in Actions : actions[k].remittance # 1
    /\ counts[32] = NoCount /\ counts[31].remittance # 1
    /\ actions[2] = NoAction /\ payments[2] = NoPayment
    /\ AmountsIn({1, 2})

\* A contract loan and a legacy loan of one borrower, three receipts over three days, or
\* two and a record added by a request of its own, one of them at most on the legacy loan.
AtPromised == \A i, j \in DOMAIN posted : posted[i].loan = 2 /\ posted[j].loan = 2 => i = j
DailyOf == <<2, 1>>

Installments == [l \in {"seven", "regular"} |-> IF l = "seven" THEN 2 ELSE 1]

\* Both loans on verified schedules, one key, two receipts or voids between.
Reviewed == INSTANCE CombinedCollection WITH
    Keys <- {"k1"}, Days <- 1 .. 2, Daily <- Installments, Interest <- 1,
    Verified <- {"seven", "regular"}, Totals <- {2, 3, 4}, MaxReceipts <- 2,
    receipts <- recorded

\* The Regular loan without a verified schedule, two keys.
Legacy == INSTANCE CombinedCollection WITH
    Keys <- {"k1", "k2"}, Days <- 1 .. 2, Daily <- Installments, Interest <- 1,
    Verified <- {"seven"}, Totals <- {3}, MaxReceipts <- 1,
    receipts <- recorded

\* Three installments over two days, days without collection, entries for exact dates.
Declared == INSTANCE ContractSchedule WITH
    Items <- 1 .. 3, Amount <- 1, Sessions <- {"s"}, LastDay <- 2, MaxReceipts <- 2,
    MaxDeclared <- 1, MaxCovered <- 1,
    receipts <- recorded

\* Partial payments, and two requests that finalize at once.
Partial == INSTANCE ContractSchedule WITH
    Items <- 1 .. 3, Amount <- 2, Sessions <- {"s", "t"}, LastDay <- 3, MaxReceipts <- 2,
    MaxDeclared <- 0, MaxCovered <- 0,
    receipts <- recorded

\* Five installments over five days: days missed, made up and missed again.
MadeUp == INSTANCE ContractSchedule WITH
    Items <- 1 .. 5, Amount <- 1, Sessions <- {"s"}, LastDay <- 5, MaxReceipts <- 1,
    MaxDeclared <- 0, MaxCovered <- 0,
    receipts <- recorded

\* Two days beyond the contract: every row missed, and read while a payment is voided.
Overdue == INSTANCE ContractSchedule WITH
    Items <- 1 .. 3, Amount <- 1, Sessions <- {"s"}, LastDay <- 5, MaxReceipts <- 2,
    MaxDeclared <- 0, MaxCovered <- 0,
    receipts <- recorded

ASSUME /\ Declared!ScheduleAssumption /\ Partial!ScheduleAssumption
       /\ MadeUp!ScheduleAssumption /\ Overdue!ScheduleAssumption
       /\ CustodyAssumption /\ SurplusAssumption /\ PromiseAssumption
       /\ Reviewed!CombinedAssumption /\ Legacy!CombinedAssumption

Off == <<"off">>
CombinedOff == /\ day = Off /\ version = Off /\ saved = Off /\ route = Off /\ draft = Off
               /\ wire = Off /\ answer = Off /\ others = Off
ScheduleOff == /\ today = Off /\ due = Off /\ slots = Off /\ adjustments = Off
               /\ allocated = Off /\ covered = Off /\ latest = Off /\ reading = Off

DayInit ==
    /\ Init /\ SurplusInit /\ PromisesInit
    /\ \/ /\ part \in {"custody", "returned", "applied", "opened", "promised"}
          /\ recorded = Off /\ CombinedOff /\ ScheduleOff
       \/ /\ \/ part = "reviewed" /\ Reviewed!Init
             \/ part = "legacy" /\ Legacy!Init
          /\ ScheduleOff
       \/ /\ \/ part = "declared" /\ Declared!Init
             \/ part = "partial" /\ Partial!Init
             \/ part = "made up" /\ MadeUp!Init
             \/ part = "overdue" /\ Overdue!Init
          /\ CombinedOff

CombinedStays == UNCHANGED <<day, version, saved, route, draft, wire, answer, others>>
ScheduleStays == UNCHANGED <<today, due, slots, adjustments, allocated, covered, latest, reading>>

DayNext ==
    /\ part' = part
    /\ \/ /\ part = "custody" /\ Next /\ AtCustody'
          /\ UNCHANGED <<recorded, surplusVars, promiseVars>> /\ CombinedStays /\ ScheduleStays
       \/ /\ part \in {"returned", "applied", "opened"} /\ SurplusNext
          /\ \/ part = "returned" /\ AtReturned'
             \/ part = "applied" /\ AtApplied'
             \/ part = "opened" /\ AtOpened'
          /\ UNCHANGED <<recorded, vars, promiseVars>> /\ CombinedStays /\ ScheduleStays
       \/ /\ part = "promised" /\ PromisesNext /\ AtPromised'
          /\ UNCHANGED <<recorded, vars, surplusVars>> /\ CombinedStays /\ ScheduleStays
       \/ /\ \/ part = "reviewed" /\ Reviewed!Next
             \/ part = "legacy" /\ Legacy!Next
          /\ UNCHANGED <<vars, surplusVars, promiseVars>> /\ ScheduleStays
       \/ /\ \/ part = "declared" /\ Declared!Next
             \/ part = "partial" /\ Partial!Next
             \/ part = "made up" /\ MadeUp!Next
             \/ part = "overdue" /\ Overdue!Next
          /\ UNCHANGED <<vars, surplusVars, promiseVars>> /\ CombinedStays

DaySpec == DayInit /\ [][DayNext]_dayVars

-----------------------------------------------------------------------------
(* Properties.                                                             *)

\* The rows of every table have their shape.
DayTypeOK ==
    /\ TypeOK /\ SurplusTypeOK /\ PromisesTypeOK
    /\ part = "reviewed" => Reviewed!TypeOK
    /\ part = "legacy" => Legacy!TypeOK
    /\ part = "declared" => Declared!TypeOK
    /\ part = "partial" => Partial!TypeOK
    /\ part = "made up" => MadeUp!TypeOK
    /\ part = "overdue" => Overdue!TypeOK

\* Every cash total of a combined payment is posted once and whole.
CashPostedOnce ==
    /\ part = "reviewed" => Reviewed!CashPostedOnce
    /\ part = "legacy" => Legacy!CashPostedOnce

\* What is posted is what the collector reviewed, in the frozen order, on a route
\* nothing but same-day payments came after, and its answer stays.
PostedAsReviewed ==
    [][/\ part = "reviewed" => Reviewed!PostedAsReviewed
       /\ part = "legacy" => Legacy!PostedAsReviewed]_dayVars

\* The schedule of a contract loan agrees with the days missed, made up and declared in
\* their order, and unless a payment made up two days at once, every missed day can be recorded.
ScheduleHolds ==
    /\ part = "declared" => Declared!ScheduleHolds
    /\ part = "partial" => Partial!ScheduleHolds
    /\ part = "made up" => MadeUp!ScheduleHolds
    /\ part = "overdue" => Overdue!ScheduleHolds

\* A borrower falls behind only by a row that is unpaid and overdue, and catches up only
\* with rows that a payment completed.
MovesHaveCause ==
    [][/\ part = "declared" => Declared!MovesHaveCause
       /\ part = "partial" => Partial!MovesHaveCause
       /\ part = "made up" => MadeUp!MovesHaveCause
       /\ part = "overdue" => Overdue!MovesHaveCause]_dayVars
=============================================================================

------------------------------- MODULE MCOffice -------------------------------
(* The work of the office, side by side: renewals, first loans and the account *)
(* a borrower gets for one, the tree of areas with its clients, and the        *)
(* journal with the close of its periods.  One is chosen at the start and only *)
(* it moves.  First loans and the journal are extended, the others instances.  *)
EXTENDS FirstLoan, PeriodClose

VARIABLES work, today, paid, collector, cifReady, requests, evidence, disbursed,
          intent, auth, linked, holder, step, shown, late, faults, nodes, open, owner,
          clients, pending, history, collected

officeVars == <<work, today, paid, collector, cifReady, requests, evidence, disbursed,
                intent, auth, linked, holder, step, shown, late, faults, nodes, open, owner,
                clients, pending, history, collected, firstLoanVars, vars>>

\* Two requests, replaced evidence, partial payment of the old loan; no payout.
Cash == INSTANCE Renewal WITH day <- today, payouts <- disbursed,
    Opening <- 2, Principals <- {1}, Collectors <- {"c1"}, LastDay <- 1,
    MaxRequests <- 2, MaxEvidence <- 2, MaxPayouts <- 0

\* Two principals to approve, a payout that may be cancelled, two days.
Principal == INSTANCE Renewal WITH day <- today, payouts <- disbursed,
    Opening <- 1, Principals <- {1, 2}, Collectors <- {"c1"}, LastDay <- 2,
    MaxRequests <- 2, MaxEvidence <- 1, MaxPayouts <- 1

\* One request, replaced evidence and payouts.
Payout == INSTANCE Renewal WITH day <- today, payouts <- disbursed,
    Opening <- 1, Principals <- {1}, Collectors <- {"c1"}, LastDay <- 1,
    MaxRequests <- 1, MaxEvidence <- 2, MaxPayouts <- 2

\* The client gets another collector while payouts are prepared and replaced.
Reassigned == INSTANCE Renewal WITH day <- today, payouts <- disbursed,
    Opening <- 1, Principals <- {1}, Collectors <- {"c1", "c2"}, LastDay <- 1,
    MaxRequests <- 1, MaxEvidence <- 1, MaxPayouts <- 2

\* Requests are interchangeable: the first approval and the first authorization have
\* the first.
FirstRequests ==
    /\ loans # <<>> => loans[1].request = "r1"
    /\ authorizations # <<>> => authorizations[1].request = "r1"

\* Two approvals, two authorizations each retried, pricing changes; no payout.
AtApprovals ==
    /\ FirstRequests /\ day = 1 /\ source = 1 /\ payouts = <<>>
    /\ \A k \in DOMAIN loans : loans[k].basis = 1

\* Payouts against cash, with replaced payouts, authorizations and sources.
AtPayouts == FirstRequests /\ pricing \in {0, 1} /\ Len(loans) <= 1

\* Three attempts run beside each other, with faults between them.
Account == INSTANCE FirstLoanCredential WITH
    Attempts <- {"a1", "a2", "a3"}, Identities <- {"i1", "i2"}, Late <- FALSE,
    MaxFaults <- 4

\* The same when requests that timed out arrive late.
LateAccount == INSTANCE FirstLoanCredential WITH
    Attempts <- {"a1", "a2", "a3"}, Identities <- {"i1", "i2"}, Late <- TRUE,
    MaxFaults <- 3

\* Areas are interchangeable with their names: the first transfer goes to the first.
FirstToFirst == pending # <<>> => pending[1].to = 1

RootNames == [r \in {1, 2} |-> 10 + r]

\* Two sessions change a tree of three areas, one at a time.
Tree == INSTANCE AreaTree WITH day <- today,
    Areas <- 1 .. 3, Roots <- {1, 2}, RootName <- RootNames, Names <- {11, 12},
    Clients <- {}, Collectors <- {21}, Sessions <- {"s", "t"}, LastDay <- 1,
    MaxTransfers <- 0

\* Two sessions at once, and two clients who are transferred and collected.
Office == INSTANCE AreaTree WITH day <- today,
    Areas <- {1, 2}, Roots <- {1, 2}, RootName <- RootNames, Names <- {11, 12},
    Clients <- {"c", "d"}, Collectors <- {21}, Sessions <- {"s", "t"}, LastDay <- 1,
    MaxTransfers <- 1

\* One session over two days, and a client who is transferred twice, also later.
Transfers == INSTANCE AreaTree WITH day <- today,
    Areas <- {1, 2}, Roots <- {1, 2}, RootName <- RootNames, Names <- {11, 12},
    Clients <- {"c"}, Collectors <- {21}, Sessions <- {"s"}, LastDay <- 2,
    MaxTransfers <- 2

Entry(income, expense, cash, retained) ==
    [income |-> income, expense |-> expense, cash |-> cash, retained |-> retained]

\* The books: profit, and a loss that is taken out of retained earnings.
BookPostings == {Entry(-2, 0, 2, 0), Entry(0, 1, 0, -1)}

ASSUME /\ Tree!AreaAssumption /\ Office!AreaAssumption /\ Transfers!AreaAssumption
       /\ PeriodCloseAssumption
       /\ Cash!RenewalAssumption /\ Principal!RenewalAssumption
       /\ Payout!RenewalAssumption /\ Reassigned!RenewalAssumption /\ FirstLoanAssumption
       /\ Account!CredentialAssumption /\ LateAccount!CredentialAssumption

Off == <<"off">>
RenewalOff == /\ paid = Off /\ collector = Off /\ cifReady = Off
              /\ requests = Off /\ evidence = Off /\ disbursed = Off
AccountOff == /\ intent = Off /\ auth = Off /\ linked = Off /\ holder = Off
              /\ step = Off /\ shown = Off /\ late = Off /\ faults = Off
OfficeOff == /\ nodes = Off /\ open = Off /\ owner = Off /\ clients = Off
             /\ pending = Off /\ history = Off /\ collected = Off

OfficeInit ==
    /\ Init /\ FirstLoanInit
    /\ \/ /\ \/ work = "cash" /\ Cash!Init
             \/ work = "principal" /\ Principal!Init
             \/ work = "payout" /\ Payout!Init
             \/ work = "reassigned" /\ Reassigned!Init
          /\ AccountOff /\ OfficeOff
       \/ /\ \/ work = "first" /\ AtApprovals
             \/ work = "first payout" /\ AtPayouts
             \/ work = "books"
          /\ today = Off /\ RenewalOff /\ AccountOff /\ OfficeOff
       \/ /\ \/ work = "account" /\ Account!Init
             \/ work = "late account" /\ LateAccount!Init
          /\ today = Off /\ RenewalOff /\ OfficeOff
       \/ /\ \/ work = "tree" /\ Tree!AreasInit
             \/ work = "areas" /\ Office!AreasInit
             \/ work = "transfers" /\ Transfers!AreasInit
          /\ RenewalOff /\ AccountOff
    /\ work \notin {"first", "first payout"} => pricing = 1

RenewalStays == UNCHANGED <<paid, collector, cifReady, requests, evidence, disbursed>>
AccountStays == UNCHANGED <<intent, auth, linked, holder, step, shown, late, faults>>
OfficeStays == UNCHANGED <<nodes, open, owner, clients, pending, history, collected>>

OfficeNext ==
    /\ work' = work
    /\ \/ /\ \/ work = "cash" /\ Cash!Next
             \/ work = "principal" /\ Principal!Next
             \/ work = "payout" /\ Payout!Next
             \/ work = "reassigned" /\ Reassigned!Next
          /\ AccountStays /\ OfficeStays /\ UNCHANGED <<vars, firstLoanVars>>
       \/ /\ \/ work = "first" /\ FirstLoanNext /\ AtApprovals'
             \/ work = "first payout" /\ FirstLoanNext /\ AtPayouts'
          /\ today' = today /\ RenewalStays /\ AccountStays /\ OfficeStays /\ UNCHANGED vars
       \/ /\ \/ work = "account" /\ Account!Next
             \/ work = "late account" /\ LateAccount!Next
          /\ today' = today /\ RenewalStays /\ OfficeStays /\ UNCHANGED <<vars, firstLoanVars>>
       \/ /\ \/ work = "tree" /\ Tree!SerialNext
             \/ work = "areas" /\ Office!AreasNext
             \/ work = "transfers" /\ Transfers!AreasNext /\ FirstToFirst'
          /\ RenewalStays /\ AccountStays /\ UNCHANGED <<vars, firstLoanVars>>
       \/ /\ work = "books" /\ Next
          /\ today' = today /\ RenewalStays /\ AccountStays /\ OfficeStays
          /\ UNCHANGED firstLoanVars

OfficeSpec == OfficeInit /\ [][OfficeNext]_officeVars

-----------------------------------------------------------------------------
(* Properties.                                                             *)

\* The rows of every table have their shape.
OfficeTypeOK ==
    /\ TypeOK /\ FirstLoanTypeOK
    /\ work = "cash" => Cash!TypeOK
    /\ work = "principal" => Principal!TypeOK
    /\ work = "payout" => Payout!TypeOK
    /\ work = "reassigned" => Reassigned!TypeOK
    /\ work = "account" => Account!TypeOK
    /\ work = "late account" => LateAccount!TypeOK
    /\ work = "tree" => Tree!AreasTypeOK
    /\ work = "areas" => Office!AreasTypeOK
    /\ work = "transfers" => Transfers!AreasTypeOK

\* The proceeds of a renewal go out once, accepted, on evidence that stands, and
\* activate what the borrower received.
RenewalGoesOutOnce ==
    /\ work = "cash" => Cash!RenewalGoesOutOnce
    /\ work = "principal" => Principal!RenewalGoesOutOnce
    /\ work = "payout" => Payout!RenewalGoesOutOnce
    /\ work = "reassigned" => Reassigned!RenewalGoesOutOnce

\* What was locked, issued or finished stays as it was written, and a first loan goes
\* out on the sources its approval was made on.
WrittenStays ==
    [][/\ IssuedStays /\ ReleasedOnItsSources
       /\ work = "cash" => Cash!LockedStays
       /\ work = "principal" => Principal!LockedStays
       /\ work = "payout" => Payout!LockedStays
       /\ work = "reassigned" => Reassigned!LockedStays]_officeVars

\* The borrower has one identity and one profile, through every failure, and the
\* credentials shown open it; a request that arrives late can change them.
AccountIsOne ==
    /\ work = "account" => Account!AccountIsOne
    /\ work = "late account" => LateAccount!AccountIsOne

\* The records of clients, assignments and transfers follow the areas, whatever sessions
\* change them, and changes made one at a time keep the tree whole.
AreasHold ==
    /\ work = "tree" => Tree!RecordsFollowTree /\ Tree!TreeIsWhole
    /\ work = "areas" => Office!RecordsFollowTree
    /\ work = "transfers" => Transfers!RecordsFollowTree

-----------------------------------------------------------------------------
(* What the documents say and the code does not do.                        *)

\* docs/superpowers/specs/2026-09-06-area-management-design.md: a node cannot become
\* its own parent or a descendant of itself.
NoAreaUnderItself == work = "areas" => Office!NoAreaUnderItself
=============================================================================

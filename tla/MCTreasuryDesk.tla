---------------------------- MODULE MCTreasuryDesk ----------------------------
(* The three tables Treasury works at, side by side: one is chosen at the      *)
(* start and only it moves.  They share no row that either of them writes:     *)
(* statements read movements, money gives movements a use (this module extends *)
(* both), postings put the money on loans.                                     *)
EXTENDS Treasury, TreasuryStatements

VARIABLES desk, day, loans, collected, funds, allocations, review, wire, told,
          linked, principal, released

deskVars == <<desk, day, loans, collected, funds, allocations, review, wire, told,
              linked, principal, released, statementVars, vars>>

\* A deposit and a withdrawal with a fee, on a later day or on the same.
DeskMovements == {[ref |-> "a", at |-> 1, amount |-> 3, fee |-> 0],
                  [ref |-> "b", at |-> 1, amount |-> -2, fee |-> 1],
                  [ref |-> "b", at |-> 2, amount |-> -2, fee |-> 1]}
DeskCounts == {[cutoff |-> 0, amount |-> 0], [cutoff |-> 0, amount |-> 3],
               [cutoff |-> 1, amount |-> 3]}
Rows(pairs) == {[ref |-> p[1], amount |-> p[2]] : p \in pairs}
St(s, c, bal, rows) ==
    [start |-> s, cutoff |-> c, actual |-> bal, complete |-> TRUE, rows |-> rows]

\* What is supplied over the intervals up to each day.
LaterStatements ==
    {St(0, 1, 3, Rows({<<"a", 3>>})), St(0, 1, 0, {}), St(1, 2, 0, Rows({<<"b", -3>>})), St(1, 2, 0, Rows({<<"b", -2>>, <<"b", -1>>})),
     St(0, 2, 0, Rows({<<"a", 3>>, <<"b", -3>>}))}
SameDayStatements ==
    {St(0, 1, 3, Rows({<<"a", 3>>})), St(1, 2, 3, {}),
     St(0, 1, 0, Rows({<<"a", 3>>, <<"b", -3>>}))}
DeskStatements == LaterStatements \cup SameDayStatements

\* What session s was supplied with.
Shown(s) == [start |-> s.start, cutoff |-> s.cutoff, actual |-> s.actual,
             complete |-> s.complete, rows |-> s.rows]
Observed(S) == \A i \in DOMAIN sessions : Shown(sessions[i]) \in S

\* Openings are revised, movements recorded late and closes superseded.
AtRevisions == ledger["b"].at # 1 /\ Len(sessions) <= 2 /\ Observed(LaterStatements)

\* Three sessions over two intervals in a row and a late movement.
AtChains == /\ ledger["b"].at # 2 /\ Observed(SameDayStatements)
            /\ \A i \in DOMAIN openings : openings[i].cutoff = 0 /\ openings[i].amount = 0
            /\ Len(openings) <= 1

\* Accounts and references are interchangeable: the first movement has the first.
FirstOnFirst == events # <<>> => events[1].account = "a1" /\ events[1].ref = "r1"

OneBorrower == claims = [k \in Claims |-> NoClaim]
               /\ \A e \in EventIds : receipts[e].client \in {NoClient, "c1"}
OneAccount == /\ \A e \in DOMAIN events : events[e].account = "a1"
              /\ \A k \in Claims : claims[k].account \in {NoClient, "a1"}
UnitAmounts == \A e \in DOMAIN events : events[e].amount = 1

\* Two accounts: receipts, refunds, payments and transfers share references.
AtUses == FirstOnFirst /\ OneBorrower /\ UnitAmounts

\* One account, amounts that fit in a receipt or do not.
AtCapacity == FirstOnFirst /\ OneBorrower /\ OneAccount

\* Two claims of two borrowers over a receipt that may be corrected.
AtReports == FirstOnFirst /\ OneAccount /\ UnitAmounts /\ Len(events) <= 1

\* Applications over two loans, refunds, cash receipts and Management voids.
Posted == INSTANCE TreasuryPosting WITH
    Loans <- {1, 2}, Opening <- <<4, 2>>, Daily <- <<1, 2>>, Funds <- {"f"},
    FundAmount <- 3, Payments <- {1, 3}, Reasons <- {}, LastDay <- 1, MaxReceipts <- 3

\* Undo requests that arrive twice or late, with two reasons.
Undone == INSTANCE TreasuryPosting WITH
    Loans <- {1}, Opening <- <<3>>, Daily <- <<1>>, Funds <- {}, FundAmount <- 1,
    Payments <- {1}, Reasons <- {"wrong amount", "wrong client"}, LastDay <- 1,
    MaxReceipts <- 2

\* Three different answers; no refund is handed out.
AtUndone == Cardinality(told) <= 3 /\ released = {}

ASSUME /\ TreasuryAssumption /\ StatementsAssumption
       /\ Posted!PostingAssumption /\ Undone!PostingAssumption

Off == <<"off">>
PostingOff == /\ day = Off /\ loans = Off /\ collected = Off /\ funds = Off /\ allocations = Off
              /\ review = Off /\ wire = Off /\ told = Off
              /\ linked = Off /\ principal = Off /\ released = Off

DeskInit ==
    /\ Init /\ StatementsInit
    /\ \/ desk \in {"revised", "chained", "uses", "capacity", "reports"} /\ PostingOff
       \/ desk = "posted" /\ Posted!PostingInit
       \/ desk = "undone" /\ Undone!PostingInit

PostingStays == UNCHANGED <<day, loans, collected, funds, allocations, review, wire, told,
                            linked, principal, released>>

StatementsMove(At) == StatementsNext /\ At /\ UNCHANGED vars /\ PostingStays
MoneyMoves(At) == Next /\ At /\ UNCHANGED statementVars /\ PostingStays

DeskNext ==
    /\ desk' = desk
    /\ \/ desk = "revised" /\ StatementsMove(AtRevisions')
       \/ desk = "chained" /\ StatementsMove(AtChains')
       \/ desk = "uses" /\ MoneyMoves(AtUses')
       \/ desk = "capacity" /\ MoneyMoves(AtCapacity')
       \/ desk = "reports" /\ MoneyMoves(AtReports')
       \/ desk = "posted" /\ Posted!PostingNext /\ UNCHANGED <<vars, statementVars>>
       \/ desk = "undone" /\ Undone!PostingNext /\ AtUndone' /\ UNCHANGED <<vars, statementVars>>

DeskSpec == DeskInit /\ [][DeskNext]_deskVars

-----------------------------------------------------------------------------
(* Properties.                                                             *)

\* The rows of every table have their shape.
DeskTypeOK ==
    /\ TypeOK /\ StatementsTypeOK
    /\ desk = "posted" => Posted!PostingTypeOK
    /\ desk = "undone" => Undone!PostingTypeOK

\* Loans, funds and applications say what the live receipts add up to, and an
\* application nothing came after can be taken back.
LoansFollowReceipts ==
    /\ desk = "posted" => Posted!LoansFollowReceipts
    /\ desk = "undone" => Undone!LoansFollowReceipts

\* An undo answered as done was done for that request, and every answer shows it.
UndoAnswersHold == desk = "undone" => Undone!UndoAnswersHold
=============================================================================

------------------------------ MODULE MCProgress ------------------------------
(* What is retried until it ends, side by side: the draft of a combined        *)
(* payment and the account of a first loan.  One is chosen at the start and    *)
(* only it moves, under the fairness of its own module.                        *)
EXTENDS Integers, Sequences, FiniteSets

VARIABLES work, day, receipts, version, saved, route, draft, wire, answer, others,
          intent, auth, linked, holder, step, shown, late, faults

vars == <<work, day, receipts, version, saved, route, draft, wire, answer, others,
          intent, auth, linked, holder, step, shown, late, faults>>

Installments == [l \in {"seven", "regular"} |-> IF l = "seven" THEN 2 ELSE 1]

\* One key; one receipt or void of another request comes between.
Combined == INSTANCE CombinedCollection WITH
    Keys <- {"k1"}, Days <- 1 .. 2, Daily <- Installments, Interest <- 1,
    Verified <- {"seven", "regular"}, Totals <- {3}, MaxReceipts <- 1

\* Two attempts, three faults, requests that arrive late.
Account == INSTANCE FirstLoanCredential WITH
    Attempts <- {"a1", "a2"}, Identities <- {"i1", "i2"}, Late <- TRUE, MaxFaults <- 3

ASSUME Combined!CombinedAssumption /\ Account!CredentialAssumption

Off == <<"off">>
CombinedOff == /\ day = Off /\ receipts = Off /\ version = Off /\ saved = Off /\ route = Off
               /\ draft = Off /\ wire = Off /\ answer = Off /\ others = Off
AccountOff == /\ intent = Off /\ auth = Off /\ linked = Off /\ holder = Off
              /\ step = Off /\ shown = Off /\ late = Off /\ faults = Off

Init ==
    \/ work = "combined" /\ Combined!Init /\ AccountOff
    \/ work = "account" /\ Account!Init /\ CombinedOff

CombinedStays ==
    UNCHANGED <<day, receipts, version, saved, route, draft, wire, answer, others>>
AccountStays == UNCHANGED <<intent, auth, linked, holder, step, shown, late, faults>>

OfCombined(A) == work = "combined" /\ A /\ work' = work /\ AccountStays
OfAccount(A) == work = "account" /\ A /\ work' = work /\ CombinedStays

Next == OfCombined(Combined!Next) \/ OfAccount(Account!Next)

\* CombinedCollection!FairSpec and FirstLoanCredential!FairSpec, each for its own work.
Fairness ==
    /\ SF_vars(OfCombined(Combined!Send))
    /\ SF_vars(OfCombined(Combined!Served("k1")))
    /\ \A a \in {"a1", "a2"} :
         WF_vars(OfAccount(Account!Proceed(a))) /\ WF_vars(OfAccount(Account!Retry(a)))

FairSpec == Init /\ [][Next]_vars /\ Fairness

-----------------------------------------------------------------------------
(* Properties.                                                             *)

\* While the route keeps offering the combined payment, a retained draft gets its
\* answer: its own receipts or a refusal, whatever was posted since (_payCombined).
DraftSettles ==
    []<>(work = "combined" => route.offered) =>
        ((work = "combined" /\ draft # Combined!NoDraft)
            ~> (work = "combined" => draft = Combined!NoDraft))

\* The borrower gets the account once the faults end.
Provisioned == <>(work = "account" => intent.status = "completed")
=============================================================================

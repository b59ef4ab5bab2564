------------------------- MODULE TreasuryStatements -------------------------
(***************************************************************************)
(* Statements of one treasury account against its ledger: the counted      *)
(* opening, the verified movements and their corrections, and the          *)
(* reconciliation sessions that close an interval of the account.          *)
(*                                                                         *)
(* Every action is one transaction of TreasuryService.execute.  It holds   *)
(* the lock of the account and is refused unless it names the current      *)
(* account version, so it happens in the state its operator reviewed.      *)
(* What varies is the order: movements are recorded after the interval     *)
(* they fall in was closed, openings are revised, sessions are superseded. *)
(***************************************************************************)
EXTENDS Integers, Sequences, FiniteSets, FiniteSetsExt

CONSTANTS
    Counts,         \* openings that may be counted: [cutoff, amount]
    Movements,      \* movements that may be verified: [ref, at, amount, fee],
                    \* amount signed by its direction
    Statements,     \* statements that may be supplied:
                    \* [start, cutoff, actual, complete, rows], rows a set of
                    \* [ref, amount]
    MaxOpenings,    \* bound: opening positions ever drafted
    MaxSessions     \* bound: reconciliation sessions ever observed

\* What the constants must be; a module that gives them values assumes it.
StatementsAssumption ==
    /\ \A m \in Movements : /\ m.at \in Nat /\ m.amount \in Int \ {0} /\ m.fee \in Nat
                            /\ m.amount > 0 => m.fee = 0
    /\ \A c \in Counts : c.cutoff \in Nat /\ c.amount \in Nat
    /\ \A s \in Statements : /\ s.start \in Nat /\ s.cutoff \in Nat /\ s.start <= s.cutoff
                             /\ s.actual \in Nat /\ s.complete \in BOOLEAN
                             /\ IsFiniteSet(s.rows)
                             /\ s.rows # {} => s.start < s.cutoff
    /\ MaxOpenings \in Nat /\ MaxSessions \in Nat

VARIABLES
    openings,   \* opening_positions, in order of preparation
    ledger,     \* events: external reference -> movement, NoEvent when unknown
    sessions    \* reconciliations with their observations and matches

statementVars == <<openings, ledger, sessions>>

References == {m.ref : m \in Movements}
NoEvent == [at |-> 0, amount |-> 0, fee |-> 0, correction |-> 0]
Components == {"total", "principal", "fee"}
Statuses == {"in_progress", "balanced_unresolved", "reconciled", "superseded"}

Recorded == {r \in References : ledger[r].amount # 0}
Corrected(r) == ledger[r].correction # 0

\* The active opening, 0 when none was activated.
ActiveOpening ==
    LET A == {i \in DOMAIN openings : openings[i].status = "active"}
    IN  IF A = {} THEN 0 ELSE CHOOSE i \in A : TRUE

\* Principal, fee and correction lines of a movement.
LineSum(r) == ledger[r].amount - ledger[r].fee + ledger[r].correction

InCoverage(r, s) == s.start < ledger[r].at /\ ledger[r].at <= s.cutoff

\* Opening plus the lines after its cutoff.  Only meaningful from the cutoff on.
Expected(cutoff) ==
    LET o == openings[ActiveOpening]
    IN  o.amount + MapThenSumSet(LineSum,
            {r \in Recorded : o.cutoff < ledger[r].at /\ ledger[r].at <= cutoff})

-----------------------------------------------------------------------------
(* The opening position.                                                   *)

\* Mutant: closes after the change are flagged, the one at its very time is not.
FlagLateStrictly(S, at) ==
    [i \in DOMAIN S |->
        [S[i] EXCEPT !.review = @ \/ (S[i].closed /\ S[i].cutoff > at)]]

\* Every close that reaches `at` needs a review.
FlagLate(S, at) ==
    [i \in DOMAIN S |->
        [S[i] EXCEPT !.review = @ \/ (S[i].closed /\ S[i].cutoff >= at)]]

PrepareOpening(c) ==
    /\ Len(openings) < MaxOpenings
    /\ ActiveOpening # 0 => openings[ActiveOpening].cutoff = c.cutoff
    /\ openings' = Append(openings, [cutoff |-> c.cutoff, amount |-> c.amount,
                                     status |-> "draft", supersedes |-> ActiveOpening])
    /\ UNCHANGED <<ledger, sessions>>

\* Mutant: the draft is not compared with the opening it was prepared against.
DraftIsReadyAnyActive(i) ==
    /\ openings[i].status = "draft"
    /\ \A r \in Recorded : ActiveOpening # 0 \/ ledger[r].at <= openings[i].cutoff

\* A draft replaces the opening it was prepared against, or is the first one
\* and no movement after its cutoff is known.
DraftIsReady(i) ==
    /\ openings[i].status = "draft"
    /\ openings[i].supersedes = ActiveOpening
    /\ \A r \in Recorded : ActiveOpening # 0 \/ ledger[r].at <= openings[i].cutoff

ActivateOpening(i) ==
    /\ DraftIsReady(i)
    /\ openings' = [j \in DOMAIN openings |->
                        IF j = i THEN [openings[j] EXCEPT !.status = "active"]
                        ELSE IF j = ActiveOpening
                        THEN [openings[j] EXCEPT !.status = "superseded"]
                        ELSE openings[j]]
    /\ sessions' = FlagLate(sessions, openings[i].cutoff)
    /\ UNCHANGED ledger

-----------------------------------------------------------------------------
(* Movements.                                                              *)

\* A verified movement under a new external reference.  A known reference
\* gives the recorded movement back or is refused: nothing changes.
RecordMovement(m) ==
    /\ m.ref \notin Recorded
    /\ ledger' = [ledger EXCEPT ![m.ref] = [at |-> m.at, amount |-> m.amount,
                                            fee |-> m.fee, correction |-> 0]]
    /\ sessions' = FlagLate(sessions, m.at)
    /\ UNCHANGED openings

\* The correction line takes back what all lines of the movement moved.
CorrectionAmount(r) == -LineSum(r)

CorrectLedger(r) ==
    /\ r \in Recorded
    /\ ~Corrected(r)
    /\ ledger' = [ledger EXCEPT ![r].correction = CorrectionAmount(r)]
    /\ sessions' = FlagLate(sessions, ledger[r].at)
    /\ UNCHANGED openings

-----------------------------------------------------------------------------
(* Reconciliation sessions.                                                *)

Observe(st) ==
    /\ Len(sessions) < MaxSessions
    /\ sessions' = Append(sessions,
           [start |-> st.start, cutoff |-> st.cutoff, actual |-> st.actual,
            complete |-> st.complete, rows |-> st.rows, matches |-> {},
            status |-> "in_progress", closed |-> FALSE, review |-> FALSE])
    /\ UNCHANGED <<openings, ledger>>

\* What a statement row must show to stand for a component of a movement.
ComponentAmount(r, c) ==
    CASE c = "total" -> IF ledger[r].amount > 0 THEN ledger[r].amount + ledger[r].fee
                        ELSE ledger[r].amount - ledger[r].fee
      [] c = "principal" -> ledger[r].amount
      [] c = "fee" -> -ledger[r].fee

\* A movement is consumed once: as a total, or component by component.
ConsumesOnce(s, r, c) ==
    ~\E k \in s.matches : k.ref = r /\ (k.component \in {"total", c} \/ c = "total")

Match(i, row, c) ==
    LET s == sessions[i]
    IN  /\ ~s.closed
        /\ row \in s.rows
        /\ ~\E k \in s.matches : k.row = row
        /\ row.ref \in Recorded
        /\ ~Corrected(row.ref)
        /\ InCoverage(row.ref, s)
        /\ ComponentAmount(row.ref, c) # 0
        /\ row.amount = ComponentAmount(row.ref, c)
        /\ ConsumesOnce(s, row.ref, c)
        /\ sessions' = [sessions EXCEPT ![i].matches =
                            @ \cup {[row |-> row, ref |-> row.ref, component |-> c]}]
        /\ UNCHANGED <<openings, ledger>>

\* Movements of the interval that a close must explain.
CurrentEvents(s) == {r \in Recorded : ~Corrected(r) /\ InCoverage(r, s)}

ExplainedComponents(s, r) == {k.component : k \in {j \in s.matches : j.ref = r}}

EventIsMatched(s, r) ==
    \/ "total" \in ExplainedComponents(s, r)
    \/ /\ "principal" \in ExplainedComponents(s, r)
       /\ ledger[r].fee # 0 => "fee" \in ExplainedComponents(s, r)

\* Coverage begins at the opening or at a close that still stands.
Anchored(i) ==
    LET s == sessions[i]
    IN  \/ s.start = openings[ActiveOpening].cutoff
        \/ \E j \in DOMAIN sessions \ {i} : /\ sessions[j].status = "reconciled"
                                            /\ ~sessions[j].review
                                            /\ sessions[j].cutoff = s.start

Available(s) == ActiveOpening # 0 /\ openings[ActiveOpening].cutoff <= s.cutoff
Balances(s) == Available(s) /\ s.actual = Expected(s.cutoff)

\* No blocker of the preview is left.
CanClose(i) ==
    LET s == sessions[i]
    IN  /\ Available(s)
        /\ s.complete
        /\ \A row \in s.rows : \E k \in s.matches : k.row = row /\ k.ref \in CurrentEvents(s)
        /\ \A k \in s.matches : k.ref \in CurrentEvents(s)
        /\ \A r \in CurrentEvents(s) : EventIsMatched(s, r)
        /\ Balances(s)
        /\ Anchored(i)

\* A review that is still blocked only records whether the balances agree.
ReviewBlocked(i) ==
    LET status == IF Balances(sessions[i]) THEN "balanced_unresolved" ELSE "in_progress"
    IN  /\ ~sessions[i].closed
        /\ ~CanClose(i)
        /\ sessions[i].status # status
        /\ sessions' = [sessions EXCEPT ![i].status = status]
        /\ UNCHANGED <<openings, ledger>>

\* Closes that still stand: nothing superseded them.
LiveCloses == {j \in DOMAIN sessions : sessions[j].closed /\ sessions[j].status # "superseded"}

FreeCutoff(i) == ~\E j \in LiveCloses : sessions[j].cutoff = sessions[i].cutoff

Close(i) ==
    /\ ~sessions[i].closed
    /\ CanClose(i)
    /\ FreeCutoff(i)
    /\ sessions' = [sessions EXCEPT ![i].status = "reconciled", ![i].closed = TRUE]
    /\ UNCHANGED <<openings, ledger>>

\* A new session replaces the close of exactly the same interval.
Supersede(i, p) ==
    /\ ~sessions[i].closed
    /\ CanClose(i)
    /\ p \in LiveCloses
    /\ sessions[p].cutoff = sessions[i].cutoff
    /\ sessions[p].start = sessions[i].start
    /\ sessions' = [sessions EXCEPT ![p].status = "superseded",
                                    ![i].status = "reconciled", ![i].closed = TRUE]
    /\ UNCHANGED <<openings, ledger>>

-----------------------------------------------------------------------------
StatementsInit ==
    /\ openings = <<>>
    /\ ledger = [r \in References |-> NoEvent]
    /\ sessions = <<>>

StatementsNext ==
    \/ \E c \in Counts : PrepareOpening(c)
    \/ \E i \in DOMAIN openings : ActivateOpening(i)
    \/ \E m \in Movements : RecordMovement(m)
    \/ \E r \in References : CorrectLedger(r)
    \/ \E st \in Statements : Observe(st)
    \/ \E i \in DOMAIN sessions, c \in Components :
           \E row \in sessions[i].rows : Match(i, row, c)
    \/ \E i \in DOMAIN sessions : ReviewBlocked(i)
    \/ \E i \in DOMAIN sessions : Close(i)
    \/ \E i, p \in DOMAIN sessions : Supersede(i, p)

StatementsSpec == StatementsInit /\ [][StatementsNext]_statementVars

-----------------------------------------------------------------------------
(* Properties.                                                             *)

\* Openings, movements and sessions have the shape of their tables, and a
\* session is closed exactly when its status says so.
StatementsTypeOK ==
    /\ \A i \in DOMAIN openings :
           /\ openings[i].status \in {"draft", "active", "superseded"}
           /\ openings[i].supersedes \in 0..(i - 1)
           /\ openings[i].cutoff \in Nat /\ openings[i].amount \in Nat
    /\ \A r \in References : ledger[r].amount \in Int /\ ledger[r].fee \in Nat
    /\ \A i \in DOMAIN sessions :
           /\ sessions[i].status \in Statuses
           /\ sessions[i].closed <=> sessions[i].status \in {"reconciled", "superseded"}
           /\ sessions[i].review => sessions[i].closed

\* The closes that still count: not superseded, no review required.
GoodCloses == {i \in LiveCloses : ~sessions[i].review}

\* A close nobody flagged is still true of the ledger as it stands now: its
\* observed balance is the expected balance at its cutoff (flag_late catches
\* every movement, correction and opening that changes an earlier balance).
UnflaggedCloseHolds ==
    \A i \in GoodCloses : sessions[i].actual = Expected(sessions[i].cutoff)

\* The rows of a statement whose close stands add up to what the account
\* moved in its interval: no fee forgotten, no movement counted twice.
RowsExplainMovement ==
    \A i \in GoodCloses :
        MapThenSumSet(LAMBDA row : row.amount, sessions[i].rows)
            = MapThenSumSet(LineSum, {r \in Recorded : InCoverage(r, sessions[i])})

\* The closes that stand form chains from the opening: each begins at its
\* cutoff or where another close that stands ends.
CoverageIsAnchored ==
    \A i \in GoodCloses :
        \/ sessions[i].start = openings[ActiveOpening].cutoff
        \/ \E j \in GoodCloses \ {i} : sessions[j].cutoff = sessions[i].start

\* A cutoff has one close that was not superseded.
OneCloseAtACutoff ==
    \A i, j \in LiveCloses : sessions[i].cutoff = sessions[j].cutoff => i = j

\* A reconciliation nobody flagged is still true of the ledger, its rows explain what
\* moved, its interval begins where the account was known, and a cutoff has one.
ClosesHold ==
    /\ UnflaggedCloseHolds /\ RowsExplainMovement
    /\ CoverageIsAnchored /\ OneCloseAtACutoff

\* Once an opening is active the account always has exactly one, and it is
\* counted at the same time: drafts of before never move it.
OpeningKept ==
    ActiveOpening # 0 =>
        /\ \E i \in DOMAIN openings' :
               /\ openings'[i].status = "active"
               /\ openings'[i].cutoff = openings[ActiveOpening].cutoff
        /\ \A i, j \in DOMAIN openings' :
               openings'[i].status = "active" /\ openings'[j].status = "active" => i = j

\* Whatever is opened later, the account keeps an opening of that cutoff.
OpeningStaysAtItsCutoff == [][OpeningKept]_statementVars
=============================================================================

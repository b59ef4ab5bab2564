---------------------------- MODULE FirstLoanCredential ----------------------------
(***************************************************************************)
(* The account of a borrower, provisioned after the first release has       *)
(* committed.  An attempt commits a reserved identity (prepare), takes the  *)
(* intent row (locked), asks the Auth service for that identity, creates it *)
(* or gives it a new password, links the profile in a transaction of its    *)
(* own, and commits the outcome.  The service may answer, fail, or take the *)
(* request and lose the answer; the process may stop anywhere.  Several     *)
(* attempts may run; the row lock lets one of them past locked.             *)
(***************************************************************************)
EXTENDS Naturals, FiniteSets

CONSTANTS
    Attempts,       \* calls of provision, first ones and retries
    Identities,     \* values of uuid4
    MaxFaults,      \* answers lost, services unavailable, processes stopped
    Late            \* whether a request that timed out may still arrive

None == "none"

\* What the constants must be; a module that gives them values assumes it.
CredentialAssumption ==
    /\ Attempts # {} /\ IsFiniteSet(Attempts) /\ Identities # {} /\ MaxFaults \in Nat /\ Late \in BOOLEAN
    /\ None \notin Attempts \cup Identities

VARIABLES
    intent,    \* the committed row: status and reserved identity
    auth,      \* identities the Auth service holds, with their passwords
    linked,    \* the identity of the profile linked to the client, or None
    holder,    \* the attempt that holds the intent row, or None
    step,      \* where an attempt stands
    shown,     \* the password an attempt answered with, or None
    late,      \* requests on their way after their attempt gave up
    faults

vars == <<intent, auth, linked, holder, step, shown, late, faults>>

NewIdentity == Identities \ ({intent.auth} \cup DOMAIN auth)

Goto(a, s) == step' = [step EXCEPT ![a] = s]

\* Mutant: every attempt reserves an identity of its own.
ReserveAgain(i) == i \in NewIdentity

\* coalesce(auth_user_id, uuid4()): the first reservation stays.
Reserve(i) == IF intent.auth = None THEN i \in NewIdentity ELSE i = intent.auth

\* Mutant: an intent that awaits reconciliation is not taken up again.
PrepareOnce(a) ==
    /\ step[a] = "start" /\ holder = None
    /\ IF intent.status # "pending" THEN UNCHANGED intent
       ELSE \E i \in Identities :
              Reserve(i) /\ intent' = [status |-> "processing", auth |-> i]
    /\ Goto(a, "prepared")
    /\ UNCHANGED <<auth, linked, holder, shown, late, faults>>

Prepare(a) ==
    /\ step[a] = "start" /\ holder = None
    /\ IF intent.status = "completed" THEN UNCHANGED intent
       ELSE \E i \in Identities :
              Reserve(i) /\ intent' = [status |-> "processing", auth |-> i]
    /\ Goto(a, "prepared")
    /\ UNCHANGED <<auth, linked, holder, shown, late, faults>>

Locked(a) ==
    /\ step[a] = "prepared" /\ holder = None
    /\ IF intent.status = "completed"
       THEN Goto(a, "done") /\ UNCHANGED <<intent, holder>>
       ELSE IF linked # None
       THEN /\ linked = intent.auth
            /\ intent' = [intent EXCEPT !.status = "completed"]
            /\ Goto(a, "done") /\ UNCHANGED holder
       ELSE IF intent.status # "processing"
       THEN Goto(a, "failed") /\ UNCHANGED <<intent, holder>>
       ELSE holder' = a /\ Goto(a, "locked") /\ UNCHANGED intent
    /\ UNCHANGED <<auth, linked, shown, late, faults>>

\* get_provisioned_user, then update_user_password or create_user: the reserved
\* identity exists with the password of this attempt, which stands for it.
Passworded(a) ==
    [i \in DOMAIN auth \cup {intent.auth} |-> IF i = intent.auth THEN a ELSE auth[i]]

AskAuth(a) ==
    /\ step[a] = "locked"
    /\ auth' = Passworded(a) /\ Goto(a, "identified")
    /\ UNCHANGED <<intent, linked, holder, shown, late, faults>>

\* create_client_account_profile commits by itself while the row is held.
Link(a) ==
    /\ step[a] = "identified" /\ linked = None
    /\ linked' = intent.auth /\ Goto(a, "linked")
    /\ UNCHANGED <<intent, auth, holder, shown, late, faults>>

Complete(a) ==
    /\ step[a] = "linked"
    /\ intent' = [intent EXCEPT !.status = "completed"]
    /\ holder' = None /\ shown' = [shown EXCEPT ![a] = a] /\ Goto(a, "done")
    /\ UNCHANGED <<auth, linked, late, faults>>

Request(a) ==
    [attempt |-> a, identity |-> intent.auth,
     kind |-> IF intent.auth \in DOMAIN auth THEN "update" ELSE "create"]

\* A call failed or its answer was lost: it took effect, never will, or later.
Uncertain(a) ==
    /\ step[a] \in {"locked", "identified"} /\ faults < MaxFaults
    /\ \/ step[a] = "locked" /\ auth' \in {auth, Passworded(a)} /\ UNCHANGED <<linked, late>>
       \/ Late /\ step[a] = "locked" /\ late' = late \cup {Request(a)} /\ UNCHANGED <<auth, linked>>
       \/ step[a] = "identified" /\ linked' \in {linked, intent.auth} /\ UNCHANGED <<auth, late>>
    /\ intent' = [intent EXCEPT !.status = "reconciliation_required"]
    /\ holder' = None /\ faults' = faults + 1 /\ Goto(a, "failed")
    /\ UNCHANGED shown

\* The Auth service refuses to create an identity it holds.
Arrive(q) ==
    /\ late' = late \ {q}
    /\ auth' = IF q.kind = "create" /\ q.identity \in DOMAIN auth THEN auth
               ELSE [i \in DOMAIN auth \cup {q.identity} |->
                        IF i = q.identity THEN q.attempt ELSE auth[i]]
    /\ UNCHANGED <<intent, linked, holder, step, shown, faults>>

\* The process stops: its transaction rolls back and the row is free.
Stop(a) ==
    /\ step[a] \notin {"start", "done", "failed"} /\ faults < MaxFaults
    /\ holder' = IF holder = a THEN None ELSE holder
    /\ faults' = faults + 1 /\ Goto(a, "failed")
    /\ UNCHANGED <<intent, auth, linked, shown, late>>

\* The office tries again.
Retry(a) ==
    /\ step[a] = "failed" /\ Goto(a, "start")
    /\ UNCHANGED <<intent, auth, linked, holder, shown, late, faults>>

Init ==
    /\ intent = [status |-> "pending", auth |-> None]
    /\ auth = [i \in {} |-> None] /\ linked = None /\ holder = None
    /\ step = [a \in Attempts |-> "start"] /\ shown = [a \in Attempts |-> None]
    /\ late = {} /\ faults = 0

Proceed(a) == Prepare(a) \/ Locked(a) \/ AskAuth(a) \/ Link(a) \/ Complete(a)

Next ==
    \/ \E a \in Attempts : Proceed(a) \/ Uncertain(a) \/ Stop(a) \/ Retry(a)
    \/ \E q \in late : Arrive(q)

Spec == Init /\ [][Next]_vars

\* A request that runs goes on, and the office retries what failed.
FairSpec == Spec /\ \A a \in Attempts : WF_vars(Proceed(a)) /\ WF_vars(Retry(a))

-----------------------------------------------------------------------------
(* Type invariant.                                                         *)
TypeOK ==
    /\ intent.status \in {"pending", "processing", "completed", "reconciliation_required"}
    /\ intent.auth \in Identities \cup {None}
    /\ DOMAIN auth \subseteq Identities /\ linked \in Identities \cup {None}
    /\ holder \in Attempts \cup {None} /\ faults \in 0 .. MaxFaults
    /\ (intent.status = "pending") <=> (intent.auth = None)

\* However often provisioning is interrupted, the borrower has one identity at the
\* Auth service: the reserved one ("A retry reconciles that exact identity").
OneIdentity == DOMAIN auth \subseteq {intent.auth}

\* A profile is linked to no other identity, and a completed intent has its profile.
LinkedIsReserved ==
    /\ linked # None => linked = intent.auth /\ linked \in DOMAIN auth
    /\ intent.status = "completed" => linked # None

\* The credentials handed to the borrower open the account, whatever attempts
\* failed before or ran beside ("Provide these one-time credentials").
ShownOpens == \A a \in Attempts : shown[a] # None => auth[linked] = shown[a]

\* One answer carries credentials; a later one sends the borrower to a password reset.
ShownOnce == Cardinality({a \in Attempts : shown[a] # None}) <= 1

\* The borrower has one identity and one profile, and the credentials shown open it
\* where no request arrives late.
AccountIsOne == OneIdentity /\ LinkedIsReserved /\ ShownOnce /\ (~Late => ShownOpens)

\* The borrower gets the account once the faults end.
Provisioned == <>(intent.status = "completed")
=============================================================================

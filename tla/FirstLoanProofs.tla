----------------------------- MODULE FirstLoanProofs -----------------------------
(***************************************************************************)
(* The first loan of a client, and the account the borrower gets for it.   *)
(*                                                                         *)
(* The two routes of the money never name each other: releasing cash looks *)
(* for a payout of the same approval, a payout looks at its own approval.   *)
(* FirstLoanInv says why that is enough: one approval at most is not        *)
(* cancelled, and an approval with a live payout is that one.  The last     *)
(* word of Management stays the last because only a pending approval takes  *)
(* another one, and what is released is no longer pending.                  *)
(*                                                                         *)
(* The account is the second part; its specification, Spec, is that of      *)
(* FirstLoanCredential.                                                     *)
(***************************************************************************)
EXTENDS FirstLoan, FirstLoanCredential, FiniteSetTheorems, TLAPS

-----------------------------------------------------------------------------
(* The rows of a first loan.                                               *)

LoanStatuses == {"approved", "cancelled", "active"}
PayoutStatuses == {"prepared", "debited", "recipient_confirmed", "completed", "cancelled"}

ReleaseType == [authorization : Nat, pricing : Nat, payout : Nat]
LoanType == [request : Requests, source : Nat, basis : Nat, status : LoanStatuses,
             document : Pricings \cup {0}, signed : BOOLEAN, release : ReleaseType]
AuthorizationType == [loan : Nat, request : Requests, revoked : BOOLEAN]
LoanPayoutType == [loan : Nat, authorization : Nat, status : PayoutStatuses, debits : Nat,
                   late : BOOLEAN]

FirstLoanRows ==
    /\ day \in 1 .. LastDay /\ source \in 1 .. MaxSources
    /\ ready \in BOOLEAN /\ manager \in BOOLEAN /\ pricing \in Pricings \cup {0}
    /\ loans \in Seq(LoanType) /\ authorizations \in Seq(AuthorizationType)
    /\ payouts \in Seq(LoanPayoutType) /\ receipts \subseteq DOMAIN authorizations

-----------------------------------------------------------------------------
(* The invariant.                                                          *)

\* One approval at most is not cancelled.
OneStands ==
    \A j, k \in DOMAIN loans :
        loans[j].status # "cancelled" /\ loans[k].status # "cancelled" => j = k

\* The approval of a live payout stands, and has no other live payout.
PayoutsStand ==
    /\ \A p \in DOMAIN payouts :
         /\ payouts[p].loan \in DOMAIN loans
         /\ payouts[p].authorization \in DOMAIN authorizations
         /\ Live(p) => loans[payouts[p].loan].status # "cancelled"
         /\ payouts[p].debits > 0 => Live(p)
    /\ \A p, q \in DOMAIN payouts : Live(p) /\ Live(q) => p = q

\* The newest authorization of loan k, and it was not revoked.
LastWord(k, a) ==
    /\ a \in DOMAIN authorizations
    /\ authorizations[a].loan = k /\ ~authorizations[a].revoked
    /\ \A b \in DOMAIN authorizations : authorizations[b].loan = k => b <= a

\* The money of loan k went out under authorization a, in cash (p = 0) or by payout p.
WentOut(k, a, p) ==
    IF p = 0 THEN a \in receipts /\ LivePayouts(k) = {}
    ELSE /\ p \in DOMAIN payouts /\ payouts[p].status = "completed"
         /\ payouts[p].loan = k /\ payouts[p].authorization = a

\* What a released loan rests on; a loan that is not released has no release row.
ReleaseStands(k) ==
    LET r == loans[k].release IN
    IF Active(k)
    THEN /\ loans[k].signed /\ r.pricing = loans[k].document
         /\ LastWord(k, r.authorization) /\ WentOut(k, r.authorization, r.payout)
    ELSE r = NoRelease

FirstLoanInv ==
    /\ FirstLoanRows /\ OneStands /\ PayoutsStand /\ RetryBringsNothingBack
    /\ \A k \in DOMAIN loans : ReleaseStands(k)

LEMMA FirstLoanRowTypes ==
    ASSUME FirstLoanRows
    PROVE  /\ \A k \in DOMAIN loans : loans[k] \in LoanType
           /\ \A a \in DOMAIN authorizations : authorizations[a] \in AuthorizationType
           /\ \A p \in DOMAIN payouts : payouts[p] \in LoanPayoutType
BY DEF FirstLoanRows

\* What Authorized asks of an authorization is the last word of Management.
LEMMA AuthorizedIsLast ==
    ASSUME NEW k, NEW a, Authorized(k, a)
    PROVE  LastWord(k, a)
BY DEF Authorized, LastWord

-----------------------------------------------------------------------------
(* Steps that move payouts on.                                             *)

\* Payout s follows payout q: it is of the same loan, a cancelled payout does not come
\* back, a completed one stays, and none is cancelled over a debit.
GoesOn(q, s) ==
    /\ s.loan = q.loan /\ s.authorization = q.authorization
    /\ s.status # "cancelled" => q.status # "cancelled"
    /\ q.status = "completed" => s.status = "completed"
    /\ s.debits > 0 => s.status # "cancelled"

PayoutsGoOn ==
    /\ payouts' \in Seq(LoanPayoutType) /\ DOMAIN payouts' = DOMAIN payouts
    /\ \A p \in DOMAIN payouts : GoesOn(payouts[p], payouts'[p])

LEMMA PayoutsGoOnFacts ==
    ASSUME PayoutsGoOn
    PROVE  /\ \A p \in DOMAIN payouts : Live(p)' => Live(p)
           /\ \A k : LivePayouts(k) = {} => LivePayouts(k)' = {}
BY DEF PayoutsGoOn, GoesOn, Live, LivePayouts

\* Payouts that are not replaced go on.
LEMMA SamePayoutsGoOn ==
    ASSUME FirstLoanInv, payouts' = payouts
    PROVE  PayoutsGoOn
BY DEF FirstLoanInv, FirstLoanRows, PayoutsStand, Live, PayoutsGoOn, GoesOn

\* A row of the payouts that is replaced by one that goes on.
LEMMA SetPayoutGoesOn ==
    ASSUME FirstLoanRows, PayoutsStand, NEW p \in DOMAIN payouts, NEW q \in LoanPayoutType,
           payouts' = [payouts EXCEPT ![p] = q], GoesOn(payouts[p], q)
    PROVE  PayoutsGoOn
<1>1. /\ payouts \in Seq(LoanPayoutType) /\ DOMAIN payouts' = DOMAIN payouts
      /\ payouts' \in Seq(LoanPayoutType) /\ payouts'[p] = q
      /\ \A r \in DOMAIN payouts : r # p => payouts'[r] = payouts[r]
  BY DEF FirstLoanRows
<1>2. \A r \in DOMAIN payouts : GoesOn(payouts[r], payouts[r]) \/ r = p
  BY DEF PayoutsStand, Live, GoesOn
<1> QED BY <1>1, <1>2 DEF PayoutsGoOn

LEMMA PayoutsKeep ==
    ASSUME FirstLoanInv, PayoutsGoOn,
           UNCHANGED <<day, packet, loans, authorizations, receipts>>
    PROVE  FirstLoanInv' /\ IssuedStays /\ ReleasedOnItsSources
<1>1. FirstLoanRows'
  BY DEF FirstLoanInv, FirstLoanRows, PayoutsGoOn, packet
<1>2. OneStands' /\ RetryBringsNothingBack'
  BY DEF FirstLoanInv, OneStands, RetryBringsNothingBack
<1>3. PayoutsStand'
  BY PayoutsGoOnFacts DEF FirstLoanInv, PayoutsStand, PayoutsGoOn, GoesOn, Live
<1>4. \A k \in DOMAIN loans' : ReleaseStands(k)'
  <2> SUFFICES ASSUME NEW k \in DOMAIN loans PROVE ReleaseStands(k)'
    OBVIOUS
  <2> DEFINE r == loans[k].release
  <2>1. ReleaseStands(k)
    BY DEF FirstLoanInv
  <2>2. LastWord(k, r.authorization) => LastWord(k, r.authorization)'
    BY DEF LastWord
  <2>3. WentOut(k, r.authorization, r.payout) => WentOut(k, r.authorization, r.payout)'
    BY PayoutsGoOnFacts DEF WentOut, PayoutsGoOn, GoesOn
  <2> QED BY <2>1, <2>2, <2>3 DEF ReleaseStands, Active
<1>5. IssuedStays /\ ReleasedOnItsSources
  BY DEF IssuedStays, ReleasedOnItsSources, Active
<1> QED BY <1>1, <1>2, <1>3, <1>4, <1>5 DEF FirstLoanInv

-----------------------------------------------------------------------------
(* Steps that replace the row of one approval.                             *)

\* What every step that sets an approval does to it.
LoanMoves(k, l) ==
    LET r == l.release IN
    /\ l \in LoanType /\ Pending(k) /\ l.request = loans[k].request
    /\ loans[k].document # 0 => l.document = loans[k].document
    /\ l.status = "cancelled" => LivePayouts(k) = {}
    /\ l.status # "active" => r = NoRelease
    /\ l.status = "active" =>
         /\ l.signed /\ r.pricing = l.document
         /\ LastWord(k, r.authorization) /\ WentOut(k, r.authorization, r.payout)'
         /\ loans[k].source = source /\ loans[k].basis = day

LEMMA LoanKeeps ==
    ASSUME FirstLoanInv, PayoutsGoOn, NEW k \in DOMAIN loans, NEW l, LoanMoves(k, l),
           loans' = [loans EXCEPT ![k] = l],
           UNCHANGED <<day, packet, authorizations, receipts>>
    PROVE  FirstLoanInv' /\ IssuedStays /\ ReleasedOnItsSources
<1>1. /\ DOMAIN loans' = DOMAIN loans /\ loans'[k] = l
      /\ \A j \in DOMAIN loans : j # k => loans'[j] = loans[j]
      /\ loans' \in Seq(LoanType)
  BY DEF FirstLoanInv, FirstLoanRows, LoanMoves
<1>2. loans[k].status = "approved"
  BY DEF LoanMoves, Pending
<1>3. FirstLoanRows'
  BY <1>1 DEF FirstLoanInv, FirstLoanRows, PayoutsGoOn, packet
<1>4. OneStands'
  BY <1>1, <1>2 DEF FirstLoanInv, OneStands
<1>5. RetryBringsNothingBack'
  <2>1. \A j \in DOMAIN loans : loans'[j].request = loans[j].request
    BY <1>1 DEF LoanMoves
  <2> QED BY <1>1, <2>1 DEF FirstLoanInv, RetryBringsNothingBack
<1>6. PayoutsStand'
  <2>1. ASSUME NEW p \in DOMAIN payouts, Live(p)'
        PROVE  loans'[payouts'[p].loan].status # "cancelled"
    <3>1. Live(p) /\ payouts[p].loan \in DOMAIN loans
      BY <2>1, PayoutsGoOnFacts DEF FirstLoanInv, PayoutsStand
    <3>2. CASE payouts[p].loan = k
      <4>1. LivePayouts(k) # {}
        BY <3>1, <3>2 DEF LivePayouts
      <4> QED BY <1>1, <3>2, <4>1 DEF LoanMoves, PayoutsGoOn, GoesOn
    <3>3. CASE payouts[p].loan # k
      BY <1>1, <3>1, <3>3 DEF FirstLoanInv, PayoutsStand, PayoutsGoOn, GoesOn
    <3> QED BY <3>2, <3>3
  <2>2. \A p \in DOMAIN payouts' : payouts'[p].debits > 0 => Live(p)'
    BY DEF PayoutsGoOn, GoesOn, Live
  <2> QED
    BY <1>1, <2>1, <2>2, PayoutsGoOnFacts
       DEF FirstLoanInv, PayoutsStand, PayoutsGoOn, GoesOn
<1>7. \A j \in DOMAIN loans' : ReleaseStands(j)'
  <2> SUFFICES ASSUME NEW j \in DOMAIN loans PROVE ReleaseStands(j)'
    BY <1>1
  <2>1. \A a : LastWord(j, a) => LastWord(j, a)'
    BY DEF LastWord
  <2>2. CASE j = k
    BY <1>1, <2>1, <2>2 DEF LoanMoves, ReleaseStands, Active
  <2>3. CASE j # k
    <3>1. ReleaseStands(j) /\ loans'[j] = loans[j]
      BY <1>1, <2>3 DEF FirstLoanInv
    <3>2. \A a, p : WentOut(j, a, p) => WentOut(j, a, p)'
      BY PayoutsGoOnFacts DEF WentOut, PayoutsGoOn, GoesOn
    <3> QED BY <2>1, <3>1, <3>2 DEF ReleaseStands, Active
  <2> QED BY <2>2, <2>3
<1>8. IssuedStays /\ ReleasedOnItsSources
  BY <1>1, <1>2 DEF IssuedStays, ReleasedOnItsSources, Active, LoanMoves
<1> QED BY <1>3, <1>4, <1>5, <1>6, <1>7, <1>8 DEF FirstLoanInv

\* Document, cancellation and signature, and the release in cash.
LEMMA ApprovalMoves ==
    ASSUME FirstLoanAssumption, FirstLoanInv, NEW k \in DOMAIN loans,
           \/ RegisterDocument(k) \/ CancelApproval(k) \/ CaptureSignature(k)
           \/ \E a \in DOMAIN authorizations : Release(k, a)
    PROVE  FirstLoanInv' /\ IssuedStays /\ ReleasedOnItsSources
<1>1. /\ loans[k] \in LoanType /\ ReleaseStands(k)
      /\ pricing \in Pricings \cup {0} /\ authorizations \in Seq(AuthorizationType)
  BY FirstLoanRowTypes DEF FirstLoanInv, FirstLoanRows
<1>2. ASSUME payouts' = payouts
      PROVE  PayoutsGoOn
  BY <1>2, SamePayoutsGoOn
<1>3. CASE RegisterDocument(k)
  <2> DEFINE l == [loans[k] EXCEPT !.document = pricing]
  <2>1. SetLoan(k, l) /\ loans[k].document = 0 /\ Pending(k)
    BY <1>3 DEF RegisterDocument
  <2>2. LoanMoves(k, l)
    BY <1>1, <2>1 DEF LoanMoves, LoanType, Pending, ReleaseStands, Active
  <2> QED BY <1>2, <2>1, <2>2, LoanKeeps DEF SetLoan
<1>4. CASE CancelApproval(k)
  <2> DEFINE l == [loans[k] EXCEPT !.status = "cancelled"]
  <2>1. SetLoan(k, l) /\ LivePayouts(k) = {} /\ Pending(k)
    BY <1>4 DEF CancelApproval, CancellableApproval
  <2>2. LoanMoves(k, l)
    BY <1>1, <2>1 DEF LoanMoves, LoanType, LoanStatuses, Pending, ReleaseStands, Active
  <2> QED BY <1>2, <2>1, <2>2, LoanKeeps DEF SetLoan
<1>5. CASE CaptureSignature(k)
  <2> DEFINE l == [loans[k] EXCEPT !.signed = TRUE]
  <2>1. SetLoan(k, l) /\ Pending(k)
    BY <1>5 DEF CaptureSignature, Capturable
  <2>2. LoanMoves(k, l)
    BY <1>1, <2>1 DEF LoanMoves, LoanType, Pending, ReleaseStands, Active
  <2> QED BY <1>2, <2>1, <2>2, LoanKeeps DEF SetLoan
<1>6. ASSUME NEW a \in DOMAIN authorizations, Release(k, a)
      PROVE  FirstLoanInv' /\ IssuedStays /\ ReleasedOnItsSources
  <2> PICK l : l = [loans[k] EXCEPT !.status = "active",
                      !.release = [authorization |-> a, pricing |-> pricing, payout |-> 0]]
    OBVIOUS
  <2>1. /\ loans' = [loans EXCEPT ![k] = l]
        /\ UNCHANGED <<day, packet, authorizations, receipts, payouts>>
    BY <1>6 DEF Release, Released
  <2>2. /\ LivePayouts(k) = {} /\ a \in receipts /\ Authorized(k, a) /\ loans[k].signed
        /\ Pending(k) /\ loans[k].source = source /\ loans[k].basis = day
        /\ loans[k].document = pricing
    BY <1>6 DEF Release, CashRoute, Witnessed, Releasable, Capturable, LockedSource, Issued
  <2>3. a \in Nat /\ pricing \in Nat
    BY <1>1 DEF FirstLoanAssumption
  <2>4. /\ l \in LoanType /\ l.request = loans[k].request /\ l.signed = loans[k].signed
        /\ l.document = loans[k].document /\ l.status = "active"
        /\ l.release = [authorization |-> a, pricing |-> pricing, payout |-> 0]
    BY <1>1, <2>3 DEF LoanType, LoanStatuses, ReleaseType
  <2>5. WentOut(k, a, 0)'
    BY <2>1, <2>2 DEF WentOut, LivePayouts, Live
  <2>6. LoanMoves(k, l)
    BY <2>2, <2>4, <2>5, AuthorizedIsLast DEF LoanMoves
  <2> QED BY <1>2, <2>1, <2>6, LoanKeeps
<1> QED BY <1>3, <1>4, <1>5, <1>6

-----------------------------------------------------------------------------
(* The other steps.                                                        *)

\* A new approval is the only one that stands.
LEMMA ApproveKeeps ==
    ASSUME FirstLoanAssumption, FirstLoanInv, NEW req \in Requests,
           NEW basis \in 1 .. LastDay, Approve(req, basis)
    PROVE  FirstLoanInv' /\ IssuedStays /\ ReleasedOnItsSources
<1> DEFINE l == [request |-> req, source |-> source, basis |-> basis, status |-> "approved",
                 document |-> 0, signed |-> FALSE, release |-> NoRelease]
           n == Len(loans) + 1
<1>1. /\ loans' = Append(loans, l) /\ loans \in Seq(LoanType)
      /\ UNCHANGED <<day, packet, authorizations, receipts, payouts>>
      /\ \A k \in DOMAIN loans : loans[k].request # req /\ loans[k].status = "cancelled"
  BY DEF Approve, NewApproval, NoOtherLoan, FirstLoanInv, FirstLoanRows
<1>2. l \in LoanType /\ l.status = "approved" /\ l.request = req /\ l.release = NoRelease
  <2>1. source \in Nat /\ basis \in Nat
    BY DEF FirstLoanAssumption, FirstLoanInv, FirstLoanRows
  <2> QED BY <2>1 DEF LoanType, LoanStatuses, ReleaseType, NoRelease
<1> HIDE DEF l
<1>3. /\ DOMAIN loans' = DOMAIN loans \cup {n} /\ n \notin DOMAIN loans /\ loans'[n] = l
      /\ \A k \in DOMAIN loans : loans'[k] = loans[k]
      /\ loans' \in Seq(LoanType)
  BY <1>1, <1>2
<1> HIDE DEF n
<1>4. FirstLoanRows'
  BY <1>1, <1>3 DEF FirstLoanInv, FirstLoanRows, packet
<1>5. OneStands' /\ RetryBringsNothingBack'
  BY <1>1, <1>2, <1>3 DEF FirstLoanInv, OneStands, RetryBringsNothingBack
<1>6. PayoutsStand'
  BY <1>1, <1>3 DEF FirstLoanInv, PayoutsStand, Live
<1>7. \A k \in DOMAIN loans' : ReleaseStands(k)'
  <2> SUFFICES ASSUME NEW k \in DOMAIN loans' PROVE ReleaseStands(k)'
    OBVIOUS
  <2>1. CASE k = n
    BY <1>2, <1>3, <2>1 DEF ReleaseStands, Active
  <2>2. CASE k # n
    BY <1>1, <1>3, <2>2 DEF FirstLoanInv, ReleaseStands, Active
  <2> QED BY <2>1, <2>2
<1>8. IssuedStays /\ ReleasedOnItsSources
  BY <1>3 DEF IssuedStays, ReleasedOnItsSources, Active
<1> QED BY <1>4, <1>5, <1>6, <1>7, <1>8 DEF FirstLoanInv

\* What Management says of approval k leaves what it said of the others.
SpeaksOf(k) ==
    /\ authorizations' \in Seq(AuthorizationType)
    /\ DOMAIN authorizations \subseteq DOMAIN authorizations'
    /\ \A a, b \in DOMAIN authorizations' :
         authorizations'[a].request = authorizations'[b].request => a = b
    /\ \A a \in DOMAIN authorizations :
         authorizations[a].loan # k => authorizations'[a] = authorizations[a]
    /\ \A a \in DOMAIN authorizations' : authorizations'[a].loan # k =>
         a \in DOMAIN authorizations /\ authorizations[a].loan # k

\* Management speaks about pending approvals only.
LEMMA AuthorizationKeeps ==
    ASSUME FirstLoanInv, NEW k \in DOMAIN loans,
           \/ \E req \in Requests : AuthorizeRelease(k, req)
           \/ \E a \in DOMAIN authorizations : RevokeRelease(k, a)
    PROVE  FirstLoanInv' /\ IssuedStays /\ ReleasedOnItsSources
<1> DEFINE A == authorizations
<1>1. /\ UNCHANGED <<day, packet, loans, receipts, payouts>> /\ Pending(k)
      /\ A \in Seq(AuthorizationType) /\ k \in Nat
  <2>1. UNCHANGED <<day, packet, loans, receipts, payouts>> /\ Pending(k)
    BY DEF AuthorizeRelease, Authorizable, RevokeRelease
  <2> QED BY <2>1 DEF FirstLoanInv, FirstLoanRows
<1>2. SpeaksOf(k)
  <2>1. ASSUME NEW req \in Requests, AuthorizeRelease(k, req)
        PROVE  SpeaksOf(k)
    <3> DEFINE row == [loan |-> k, request |-> req, revoked |-> FALSE]
    <3>1. A' = Append(A, row) /\ \A a \in DOMAIN A : A[a].request # req
      BY <2>1 DEF AuthorizeRelease, NewAuthorization
    <3>2. row \in AuthorizationType /\ row.loan = k /\ row.request = req
      BY <1>1 DEF AuthorizationType
    <3> HIDE DEF row
    <3>3. /\ DOMAIN A' = DOMAIN A \cup {Len(A) + 1} /\ A'[Len(A) + 1] = row
          /\ \A a \in DOMAIN A : A'[a] = A[a]
          /\ A' \in Seq(AuthorizationType)
      BY <1>1, <3>1, <3>2
    <3>4. \A a, b \in DOMAIN A : A[a].request = A[b].request => a = b
      BY DEF FirstLoanInv, RetryBringsNothingBack
    <3> QED BY <3>1, <3>2, <3>3, <3>4 DEF SpeaksOf
  <2>2. ASSUME NEW a \in DOMAIN authorizations, RevokeRelease(k, a)
        PROVE  SpeaksOf(k)
    <3> DEFINE row == [A[a] EXCEPT !.revoked = TRUE]
    <3>1. A' = [A EXCEPT ![a] = row] /\ A[a].loan = k
      BY <2>2 DEF RevokeRelease, Authorized
    <3>2. A[a] \in AuthorizationType
      BY <1>1
    <3>3. row \in AuthorizationType /\ row.loan = k /\ row.request = A[a].request
      BY <3>1, <3>2 DEF AuthorizationType
    <3> HIDE DEF row
    <3>4. /\ DOMAIN A' = DOMAIN A /\ A'[a] = row
          /\ \A b \in DOMAIN A : b # a => A'[b] = A[b]
          /\ A' \in Seq(AuthorizationType)
      BY <1>1, <3>1, <3>3
    <3>5. \A b, c \in DOMAIN A : A[b].request = A[c].request => b = c
      BY DEF FirstLoanInv, RetryBringsNothingBack
    <3> QED BY <3>1, <3>3, <3>4, <3>5 DEF SpeaksOf
  <2> QED BY <2>1, <2>2
<1>3. FirstLoanRows'
  BY <1>1, <1>2 DEF FirstLoanInv, FirstLoanRows, packet, SpeaksOf
<1>4. OneStands' /\ RetryBringsNothingBack'
  BY <1>1, <1>2 DEF FirstLoanInv, OneStands, RetryBringsNothingBack, SpeaksOf
<1>5. PayoutsStand'
  BY <1>1, <1>2 DEF FirstLoanInv, PayoutsStand, Live, SpeaksOf
<1>6. \A j \in DOMAIN loans' : ReleaseStands(j)'
  <2> SUFFICES ASSUME NEW j \in DOMAIN loans PROVE ReleaseStands(j)'
    BY <1>1
  <2> DEFINE r == loans[j].release
  <2>1. ReleaseStands(j)
    BY DEF FirstLoanInv
  <2>2. CASE ~Active(j)
    BY <1>1, <2>1, <2>2 DEF ReleaseStands, Active
  <2>3. CASE Active(j)
    <3>1. j # k
      BY <1>1, <2>3 DEF Pending, Active
    <3>2. LastWord(j, r.authorization)'
      BY <1>1, <1>2, <2>1, <2>3, <3>1 DEF ReleaseStands, LastWord, SpeaksOf
    <3>3. WentOut(j, r.authorization, r.payout)'
      BY <1>1, <2>1, <2>3 DEF ReleaseStands, WentOut, LivePayouts, Live
    <3> QED BY <1>1, <2>1, <2>3, <3>2, <3>3 DEF ReleaseStands, Active
  <2> QED BY <2>2, <2>3
<1>7. IssuedStays /\ ReleasedOnItsSources
  BY <1>1 DEF IssuedStays, ReleasedOnItsSources, Active
<1> QED BY <1>3, <1>4, <1>5, <1>6, <1>7 DEF FirstLoanInv

LEMMA CashEvidenceKeeps ==
    ASSUME FirstLoanInv, NEW k \in DOMAIN loans, NEW a \in DOMAIN authorizations,
           CaptureCash(k, a)
    PROVE  FirstLoanInv' /\ IssuedStays /\ ReleasedOnItsSources
<1>1. /\ receipts' = receipts \cup {a}
      /\ UNCHANGED <<day, packet, loans, authorizations, payouts>>
  BY DEF CaptureCash
<1>2. FirstLoanRows' /\ OneStands' /\ RetryBringsNothingBack' /\ PayoutsStand'
  BY <1>1 DEF FirstLoanInv, FirstLoanRows, OneStands, RetryBringsNothingBack, PayoutsStand,
              Live, packet
<1>3. \A j \in DOMAIN loans' : ReleaseStands(j)'
  BY <1>1 DEF FirstLoanInv, ReleaseStands, Active, LastWord, WentOut, LivePayouts, Live
<1>4. IssuedStays /\ ReleasedOnItsSources
  BY <1>1 DEF IssuedStays, ReleasedOnItsSources, Active
<1> QED BY <1>2, <1>3, <1>4 DEF FirstLoanInv

\* A new payout is for the approval that stands, which has no other.
LEMMA PreparePayoutKeeps ==
    ASSUME FirstLoanInv, NEW k \in DOMAIN loans, NEW a \in DOMAIN authorizations,
           PreparePayout(k, a)
    PROVE  FirstLoanInv' /\ IssuedStays /\ ReleasedOnItsSources
<1> DEFINE q == [loan |-> k, authorization |-> a, status |-> "prepared", debits |-> 0,
                 late |-> FALSE]
           n == Len(payouts) + 1
<1>1. /\ payouts' = Append(payouts, q) /\ payouts \in Seq(LoanPayoutType)
      /\ UNCHANGED <<day, packet, loans, authorizations, receipts>>
      /\ Pending(k) /\ LivePayouts(k) = {}
      /\ k \in Nat /\ a \in Nat
  BY DEF PreparePayout, Releasable, Capturable, FirstLoanInv, FirstLoanRows
<1>2. /\ q \in LoanPayoutType /\ q.loan = k /\ q.authorization = a /\ q.status = "prepared"
  BY <1>1 DEF LoanPayoutType, PayoutStatuses
<1> HIDE DEF q
<1>3. /\ DOMAIN payouts' = DOMAIN payouts \cup {n} /\ n \notin DOMAIN payouts /\ n # 0
      /\ payouts'[n] = q /\ \A p \in DOMAIN payouts : payouts'[p] = payouts[p]
      /\ payouts' \in Seq(LoanPayoutType)
  BY <1>1, <1>2
<1> HIDE DEF n
<1>4. FirstLoanRows' /\ OneStands' /\ RetryBringsNothingBack'
  BY <1>1, <1>3 DEF FirstLoanInv, FirstLoanRows, OneStands, RetryBringsNothingBack, packet
<1>5. PayoutsStand'
  <2>1. \A p \in DOMAIN payouts : ~Live(p)
    <3> SUFFICES ASSUME NEW p \in DOMAIN payouts, Live(p) PROVE FALSE
      OBVIOUS
    <3>1. loans[payouts[p].loan].status # "cancelled" /\ payouts[p].loan \in DOMAIN loans
      BY DEF FirstLoanInv, PayoutsStand
    <3>2. payouts[p].loan = k
      BY <1>1, <3>1 DEF FirstLoanInv, OneStands, Pending
    <3> QED BY <1>1, <3>2 DEF LivePayouts
  <2>2. \A p \in DOMAIN payouts : Live(p)' <=> Live(p)
    BY <1>3 DEF Live
  <2>3. \A p, r \in DOMAIN payouts' : Live(p)' /\ Live(r)' => p = r
    BY <1>3, <2>1, <2>2
  <2>4. \A p \in DOMAIN payouts' : payouts'[p].debits > 0 => Live(p)'
    <3>1. payouts'[n].status # "cancelled"
      BY <1>2, <1>3
    <3> QED BY <1>3, <3>1 DEF FirstLoanInv, PayoutsStand, Live
  <2>5. \A p \in DOMAIN payouts' :
          /\ payouts'[p].loan \in DOMAIN loans'
          /\ payouts'[p].authorization \in DOMAIN authorizations'
          /\ Live(p)' => loans'[payouts'[p].loan].status # "cancelled"
    BY <1>1, <1>2, <1>3, <2>2 DEF FirstLoanInv, PayoutsStand, Pending
  <2> QED BY <2>3, <2>4, <2>5 DEF PayoutsStand
<1>6. \A j \in DOMAIN loans' : ReleaseStands(j)'
  <2> SUFFICES ASSUME NEW j \in DOMAIN loans PROVE ReleaseStands(j)'
    BY <1>1
  <2> DEFINE r == loans[j].release
  <2>1. ReleaseStands(j)
    BY DEF FirstLoanInv
  <2>2. CASE ~Active(j)
    BY <1>1, <2>1, <2>2 DEF ReleaseStands, Active
  <2>3. CASE Active(j)
    <3>1. j # k
      BY <1>1, <2>3 DEF Pending, Active
    <3>2. LastWord(j, r.authorization)'
      BY <1>1, <2>1, <2>3 DEF ReleaseStands, LastWord
    <3>3. LivePayouts(j) = {} => LivePayouts(j)' = {}
      BY <1>2, <1>3, <3>1 DEF LivePayouts, Live
    <3>4. WentOut(j, r.authorization, r.payout)'
      BY <1>1, <1>3, <2>1, <2>3, <3>3 DEF ReleaseStands, WentOut
    <3> QED BY <1>1, <2>1, <2>3, <3>2, <3>4 DEF ReleaseStands, Active
  <2> QED BY <2>2, <2>3
<1>7. IssuedStays /\ ReleasedOnItsSources
  BY <1>1 DEF IssuedStays, ReleasedOnItsSources, Active
<1> QED BY <1>4, <1>5, <1>6, <1>7 DEF FirstLoanInv

\* Debits, cancellations and confirmations leave the approval alone; completing a payout
\* releases the approval it is for.
LEMMA PayoutStepKeeps ==
    ASSUME FirstLoanAssumption, FirstLoanInv, NEW p \in DOMAIN payouts, PayoutStep(p)
    PROVE  FirstLoanInv' /\ IssuedStays /\ ReleasedOnItsSources
<1> DEFINE q == payouts[p]
<1>1. /\ q \in LoanPayoutType /\ q.loan \in DOMAIN loans /\ FirstLoanRows
      /\ q.authorization \in DOMAIN authorizations /\ PayoutsStand
      /\ q.debits > 0 => q.status # "cancelled"
  BY FirstLoanRowTypes DEF FirstLoanInv, PayoutsStand, Live
<1>2. ASSUME NEW s \in LoanPayoutType, SetPayout(p, s),
             GoesOn(q, s)
      PROVE  FirstLoanInv' /\ IssuedStays /\ ReleasedOnItsSources
  <2>1. PayoutsGoOn
    BY <1>1, <1>2, SetPayoutGoesOn DEF SetPayout
  <2> QED BY <1>2, <2>1, PayoutsKeep DEF SetPayout
<1>3. ASSUME NEW exact \in BOOLEAN, Debit(p, exact)
      PROVE  FirstLoanInv' /\ IssuedStays /\ ReleasedOnItsSources
  <2>1. PICK t \in {q.status, "debited"}, d \in Nat, b \in BOOLEAN :
          /\ SetPayout(p, [q EXCEPT !.status = t, !.debits = d, !.late = b])
          /\ t # q.status => q.status = "prepared"
          /\ d > 0 => q.status # "cancelled"
    <3>1. CASE Live(p)
      <4> DEFINE t == IF exact /\ q.status = "prepared" /\ Releasable(q.loan, q.authorization)
                      THEN "debited" ELSE q.status
      <4>1. SetPayout(p, [q EXCEPT !.debits = q.debits + 1, !.status = t])
        BY <1>3, <3>1 DEF Debit
      <4>2. q.debits + 1 \in Nat /\ q.late \in BOOLEAN
        BY <1>1 DEF LoanPayoutType
      <4>3. [q EXCEPT !.debits = q.debits + 1, !.status = t] =
            [q EXCEPT !.status = t, !.debits = q.debits + 1, !.late = q.late]
        BY <1>1 DEF LoanPayoutType
      <4> QED BY <3>1, <4>1, <4>2, <4>3 DEF Live
    <3>2. CASE ~Live(p)
      <4>1. SetPayout(p, [q EXCEPT !.late = TRUE])
        BY <1>3, <3>2 DEF Debit
      <4>2. [q EXCEPT !.late = TRUE] =
            [q EXCEPT !.status = q.status, !.debits = q.debits, !.late = TRUE]
        BY <1>1 DEF LoanPayoutType
      <4>3. q.debits \in Nat
        BY <1>1 DEF LoanPayoutType
      <4> QED BY <1>1, <4>1, <4>2, <4>3
    <3> QED BY <3>1, <3>2
  <2> DEFINE s == [q EXCEPT !.status = t, !.debits = d, !.late = b]
  <2>2. s \in LoanPayoutType
    <3>1. t \in PayoutStatuses
      BY <1>1 DEF LoanPayoutType, PayoutStatuses
    <3> QED BY <1>1, <3>1 DEF LoanPayoutType
  <2>3. GoesOn(q, s)
    BY <1>1, <2>1 DEF GoesOn, LoanPayoutType
  <2> HIDE DEF s
  <2> QED BY <1>2, <2>1, <2>2, <2>3 DEF s
<1>4. CASE CancelPayout(p)
  <2> DEFINE s == [q EXCEPT !.status = "cancelled"]
  <2>1. SetPayout(p, s) /\ q.status = "prepared" /\ q.debits = 0
    BY <1>4 DEF CancelPayout, CancellablePayout
  <2>2. s \in LoanPayoutType /\ GoesOn(q, s)
    BY <1>1, <2>1 DEF LoanPayoutType, PayoutStatuses, GoesOn
  <2> HIDE DEF s
  <2> QED BY <1>2, <2>1, <2>2
<1>5. CASE ConfirmRecipient(p)
  <2> DEFINE s == [q EXCEPT !.status = "recipient_confirmed"]
  <2>1. SetPayout(p, s) /\ q.status = "debited"
    BY <1>5 DEF ConfirmRecipient
  <2>2. s \in LoanPayoutType /\ GoesOn(q, s)
    BY <1>1, <2>1 DEF LoanPayoutType, PayoutStatuses, GoesOn
  <2> HIDE DEF s
  <2> QED BY <1>2, <2>1, <2>2
<1>6. CASE CompletePayout(p)
  <2> PICK k \in DOMAIN loans, a \in DOMAIN authorizations : k = q.loan /\ a = q.authorization
    BY <1>1
  <2> DEFINE s == [q EXCEPT !.status = "completed"]
  <2> PICK l : l = [loans[k] EXCEPT !.status = "active",
                      !.release = [authorization |-> a, pricing |-> pricing, payout |-> p]]
    OBVIOUS
  <2>1. /\ loans' = [loans EXCEPT ![k] = l] /\ payouts' = [payouts EXCEPT ![p] = s]
        /\ UNCHANGED <<day, packet, authorizations, receipts>>
        /\ q.status = "recipient_confirmed"
    BY <1>6 DEF CompletePayout, Released
  <2>2. /\ Authorized(k, a) /\ loans[k].signed
        /\ Pending(k) /\ loans[k].source = source /\ loans[k].basis = day
        /\ loans[k].document = pricing
    BY <1>6 DEF CompletePayout, Releasable, Capturable, LockedSource, Issued
  <2>3. /\ s \in LoanPayoutType /\ s.loan = k /\ s.authorization = a /\ s.status = "completed"
        /\ GoesOn(q, s)
    BY <1>1, <2>1 DEF LoanPayoutType, PayoutStatuses, GoesOn
  <2>4. /\ a \in Nat /\ pricing \in Nat /\ p \in Nat /\ p # 0 /\ loans[k] \in LoanType
        /\ payouts'[p] = s /\ p \in DOMAIN payouts'
    <3>1. payouts \in Seq(LoanPayoutType) /\ authorizations \in Seq(AuthorizationType)
      BY <1>1 DEF FirstLoanRows
    <3>2. p \in Nat /\ p # 0 /\ a \in Nat
      BY <3>1
    <3>3. pricing \in Nat
      BY <1>1 DEF FirstLoanRows, FirstLoanAssumption
    <3>4. payouts'[p] = s /\ p \in DOMAIN payouts'
      BY <2>1, <3>1
    <3> QED BY <1>1, <3>2, <3>3, <3>4, FirstLoanRowTypes
  <2>5. /\ l \in LoanType /\ l.request = loans[k].request /\ l.signed = loans[k].signed
        /\ l.document = loans[k].document /\ l.status = "active"
        /\ l.release = [authorization |-> a, pricing |-> pricing, payout |-> p]
    BY <2>4 DEF LoanType, LoanStatuses, ReleaseType
  <2> HIDE DEF s
  <2>6. PayoutsGoOn
    BY <1>1, <2>1, <2>3, SetPayoutGoesOn
  <2>7. WentOut(k, a, p)'
    BY <2>3, <2>4 DEF WentOut
  <2>8. LoanMoves(k, l)
    BY <2>2, <2>5, <2>7, AuthorizedIsLast DEF LoanMoves
  <2> QED BY <1>1, <2>1, <2>6, <2>8, LoanKeeps
<1> QED BY <1>3, <1>4, <1>5, <1>6 DEF PayoutStep

\* Whatever moves under a packet leaves what was recorded.
LEMMA AroundKeeps ==
    ASSUME FirstLoanAssumption, FirstLoanInv,
           Around \/ UNCHANGED firstLoanVars
    PROVE  FirstLoanInv' /\ [IssuedStays /\ ReleasedOnItsSources]_firstLoanVars
<1>1. UNCHANGED records
  <2>1. CASE UNCHANGED firstLoanVars
    BY <2>1 DEF firstLoanVars
  <2>2. CASE ChangeSource \/ ChangeReady \/ ChangeManager \/ NextDay
    BY <2>2 DEF ChangeSource, ChangeReady, ChangeManager, NextDay
  <2>3. ASSUME NEW v, ReviewPricing(v)
        PROVE  UNCHANGED records
    BY <2>3 DEF ReviewPricing
  <2> QED BY <2>1, <2>2, <2>3 DEF Around
<1>2. UNCHANGED <<loans, authorizations, receipts, payouts>>
  BY <1>1 DEF records
<1>3. FirstLoanRows'
  <2>1. /\ day' \in 1 .. LastDay /\ source' \in 1 .. MaxSources
        /\ ready' \in BOOLEAN /\ manager' \in BOOLEAN /\ pricing' \in Pricings \cup {0}
    <3>1. /\ day \in 1 .. LastDay /\ source \in 1 .. MaxSources
          /\ ready \in BOOLEAN /\ manager \in BOOLEAN /\ pricing \in Pricings \cup {0}
          /\ LastDay \in Nat /\ MaxSources \in Nat
      BY DEF FirstLoanInv, FirstLoanRows, FirstLoanAssumption
    <3>2. CASE UNCHANGED firstLoanVars
      BY <3>1, <3>2 DEF firstLoanVars, packet
    <3>3. CASE ChangeSource
      <4>1. source' = source + 1 /\ source < MaxSources
        BY <3>3 DEF ChangeSource
      <4>2. UNCHANGED <<day, ready, pricing, manager>>
        BY <3>3 DEF ChangeSource
      <4> QED BY <3>1, <4>1, <4>2
    <3>4. CASE NextDay
      <4>1. day' = day + 1 /\ day < LastDay
        BY <3>4 DEF NextDay
      <4>2. UNCHANGED <<source, ready, pricing, manager>>
        BY <3>4 DEF NextDay, packet
      <4> QED BY <3>1, <4>1, <4>2
    <3>6. CASE ChangeReady
      <4>1. ready' \in BOOLEAN
        BY <3>6 DEF ChangeReady
      <4>2. UNCHANGED <<day, source, pricing, manager>>
        BY <3>6 DEF ChangeReady
      <4> QED BY <3>1, <4>1, <4>2
    <3>7. CASE ChangeManager
      <4>1. manager' \in BOOLEAN
        BY <3>7 DEF ChangeManager
      <4>2. UNCHANGED <<day, source, ready, pricing>>
        BY <3>7 DEF ChangeManager
      <4> QED BY <3>1, <4>1, <4>2
    <3>5. ASSUME NEW v \in Pricings \cup {0}, ReviewPricing(v)
          PROVE  /\ day' \in 1 .. LastDay /\ source' \in 1 .. MaxSources
                 /\ ready' \in BOOLEAN /\ manager' \in BOOLEAN
                 /\ pricing' \in Pricings \cup {0}
      BY <3>1, <3>5 DEF ReviewPricing
    <3> QED BY <3>2, <3>3, <3>4, <3>5, <3>6, <3>7 DEF Around
  <2> QED BY <1>2, <2>1 DEF FirstLoanInv, FirstLoanRows
<1>4. OneStands' /\ RetryBringsNothingBack' /\ PayoutsStand'
  BY <1>2 DEF FirstLoanInv, OneStands, RetryBringsNothingBack, PayoutsStand, Live
<1>5. \A j \in DOMAIN loans' : ReleaseStands(j)'
  BY <1>2 DEF FirstLoanInv, ReleaseStands, Active, LastWord, WentOut, LivePayouts, Live
<1>6. IssuedStays /\ ReleasedOnItsSources
  BY <1>2 DEF IssuedStays, ReleasedOnItsSources, Active
<1> QED BY <1>3, <1>4, <1>5, <1>6 DEF FirstLoanInv

LEMMA FirstLoanStepKeeps ==
    ASSUME FirstLoanAssumption, FirstLoanInv, [FirstLoanNext]_firstLoanVars
    PROVE  FirstLoanInv' /\ [IssuedStays /\ ReleasedOnItsSources]_firstLoanVars
<1>1. ASSUME NEW req \in Requests, NEW basis \in 1 .. LastDay, Approve(req, basis)
      PROVE  FirstLoanInv' /\ IssuedStays /\ ReleasedOnItsSources
  BY <1>1, ApproveKeeps
<1>2. ASSUME NEW k \in DOMAIN loans, LoanStep(k)
      PROVE  FirstLoanInv' /\ IssuedStays /\ ReleasedOnItsSources
  <2>1. CASE RegisterDocument(k) \/ CancelApproval(k) \/ CaptureSignature(k)
    BY <2>1, ApprovalMoves
  <2>2. CASE \E req \in Requests : AuthorizeRelease(k, req)
    BY <2>2, AuthorizationKeeps
  <2>3. ASSUME NEW a \in DOMAIN authorizations,
               RevokeRelease(k, a) \/ CaptureCash(k, a) \/ Release(k, a) \/ PreparePayout(k, a)
        PROVE  FirstLoanInv' /\ IssuedStays /\ ReleasedOnItsSources
    BY <2>3, AuthorizationKeeps, CashEvidenceKeeps, ApprovalMoves, PreparePayoutKeeps
  <2> QED BY <1>2, <2>1, <2>2, <2>3 DEF LoanStep
<1>3. ASSUME NEW p \in DOMAIN payouts, PayoutStep(p)
      PROVE  FirstLoanInv' /\ IssuedStays /\ ReleasedOnItsSources
  BY <1>3, PayoutStepKeeps
<1>4. CASE Around \/ UNCHANGED firstLoanVars
  BY <1>4, AroundKeeps
<1> QED BY <1>1, <1>2, <1>3, <1>4 DEF FirstLoanNext

LEMMA FirstLoanStarts ==
    ASSUME FirstLoanAssumption, FirstLoanInit
    PROVE  FirstLoanInv
<1>1. FirstLoanRows
  BY DEF FirstLoanInit, FirstLoanAssumption, FirstLoanRows
<1> QED
  BY <1>1 DEF FirstLoanInit, FirstLoanInv, OneStands, PayoutsStand, RetryBringsNothingBack,
              ReleaseStands

LEMMA FirstLoanStays ==
    ASSUME FirstLoanAssumption
    PROVE  FirstLoanSpec => []FirstLoanInv
<1>1. FirstLoanInit => FirstLoanInv
  BY FirstLoanStarts
<1>2. FirstLoanInv /\ [FirstLoanNext]_firstLoanVars => FirstLoanInv'
  BY FirstLoanStepKeeps
<1> QED BY <1>1, <1>2, PTL DEF FirstLoanSpec

-----------------------------------------------------------------------------
(* What follows from the invariant.                                        *)

LEMMA ReleasedIsAuthorized ==
    ASSUME FirstLoanInv
    PROVE  ReleaseIsLastWord /\ ReleaseIsWitnessed /\ ReleasedAsSigned
<1> SUFFICES ASSUME NEW k \in DOMAIN loans, Active(k)
             PROVE  LET r == loans[k].release IN
                    /\ loans[k].signed /\ r.pricing = loans[k].document
                    /\ LastWord(k, r.authorization)
                    /\ WentOut(k, r.authorization, r.payout)
  BY DEF ReleaseIsLastWord, ReleaseIsWitnessed, ReleasedAsSigned, LastWord, WentOut
<1> QED BY DEF FirstLoanInv, ReleaseStands

\* At most one element: none, or a singleton.
LEMMA AtMostOne ==
    ASSUME NEW S, \A x, y \in S : x = y
    PROVE  /\ IsFiniteSet(S) /\ Cardinality(S) \in 0 .. 1
           /\ S = {} => Cardinality(S) = 0
<1>1. CASE S = {}
  BY <1>1, FS_EmptySet
<1>2. CASE S # {}
  <2>1. PICK x : S = {x}
    BY <1>2
  <2> QED BY <2>1, FS_Singleton
<1> QED BY <1>1, <1>2

LEMMA MoneyIsAccountedOnce ==
    ASSUME FirstLoanInv
    PROVE  OneLoanPerClient /\ MoneyOutOnce
<1> DEFINE C == {k \in DOMAIN loans : Active(k) /\ loans[k].release.payout = 0}
           P == {p \in DOMAIN payouts : Debited(p)}
           N == {k \in DOMAIN loans : loans[k].status # "cancelled"}
<1>1. \A j, k \in N : j = k
  BY DEF FirstLoanInv, OneStands
<1>2. C \subseteq N
  BY DEF Active
<1>3. \A p, q \in P : p = q
  BY DEF FirstLoanInv, PayoutsStand, Live, Debited
<1>4. ASSUME NEW k \in C, NEW p \in P
      PROVE  FALSE
  <2>1. LivePayouts(k) = {}
    BY DEF FirstLoanInv, ReleaseStands, WentOut
  <2>2. Live(p) /\ payouts[p].loan \in N
    BY DEF FirstLoanInv, PayoutsStand, Live, Debited
  <2>3. payouts[p].loan = k
    BY <1>1, <1>2, <2>2
  <2> QED BY <2>1, <2>2, <2>3 DEF LivePayouts
<1>5. C = {} \/ P = {}
  BY <1>4
<1>6. /\ Cardinality(N) \in 0 .. 1 /\ Cardinality(C) \in 0 .. 1 /\ Cardinality(P) \in 0 .. 1
      /\ Cardinality(C) = 0 \/ Cardinality(P) = 0
  <2>1. Cardinality(N) \in 0 .. 1
    BY <1>1, AtMostOne
  <2>2. Cardinality(C) \in 0 .. 1 /\ (C = {} => Cardinality(C) = 0)
    BY <1>1, <1>2, AtMostOne
  <2>3. Cardinality(P) \in 0 .. 1 /\ (P = {} => Cardinality(P) = 0)
    BY <1>3, AtMostOne
  <2> QED BY <1>5, <2>1, <2>2, <2>3
<1>7. \A p \in DOMAIN payouts : Live(p) => loans[payouts[p].loan].status # "cancelled"
  BY DEF FirstLoanInv, PayoutsStand
<1>8. Cardinality(N) <= 1 /\ Cardinality(C) + Cardinality(P) <= 1
  BY <1>6
<1> QED BY <1>7, <1>8 DEF OneLoanPerClient, MoneyOutOnce, FirstLoanInv, PayoutsStand

LEMMA RowsAreTyped ==
    ASSUME FirstLoanAssumption, FirstLoanInv
    PROVE  FirstLoanTypeOK
<1>1. \A k \in DOMAIN loans : loans[k] \in LoanType /\ ReleaseStands(k)
  BY FirstLoanRowTypes DEF FirstLoanInv
<1>2. ASSUME NEW k \in DOMAIN loans
      PROVE  /\ loans[k].release.authorization \in DOMAIN authorizations \cup {0}
             /\ Active(k) <=> loans[k].release # NoRelease
  <2>1. CASE Active(k)
    <3>1. loans[k].release.authorization \in DOMAIN authorizations
      BY <1>1, <2>1 DEF ReleaseStands, LastWord
    <3>2. 0 \notin DOMAIN authorizations
      BY DEF FirstLoanInv, FirstLoanRows
    <3> QED BY <2>1, <3>1, <3>2 DEF NoRelease
  <2>2. CASE ~Active(k)
    BY <1>1, <2>2 DEF ReleaseStands, NoRelease
  <2> QED BY <2>1, <2>2
<1> QED
  BY <1>1, <1>2 DEF FirstLoanTypeOK, FirstLoanInv, FirstLoanRows, PayoutsStand, LoanType,
                    LoanStatuses

\* The rows of approvals, authorizations and payouts keep their shape, and a loan is
\* active exactly when its release is recorded.
THEOREM FirstLoanIsTyped ==
    ASSUME FirstLoanAssumption
    PROVE  FirstLoanSpec => []FirstLoanTypeOK
<1>1. FirstLoanInv => FirstLoanTypeOK
  BY RowsAreTyped
<1> QED BY <1>1, FirstLoanStays, PTL

\* However approvals are cancelled, revised, authorized, revoked and retried, the client has
\* one first loan, released under the last word of Management, witnessed by the borrower and
\* as signed; its money is accounted for once, in cash or by one payout that a debit funds,
\* and no payout is cancelled over a debit (release_in_transaction and its two routes).
\* A debit that names a payout already cancelled is recorded too, and funds nothing.
THEOREM FirstLoanStaysAuthorized ==
    ASSUME FirstLoanAssumption
    PROVE  FirstLoanSpec => []FirstLoanIsAuthorized
<1>1. FirstLoanInv => FirstLoanIsAuthorized
  BY ReleasedIsAuthorized, MoneyIsAccountedOnce
     DEF FirstLoanInv, FirstLoanIsAuthorized, ReleasesHold
<1> QED BY <1>1, FirstLoanStays, PTL

\* An issued document is never replaced, a loan that was released or cancelled never changes
\* again, and money goes out on the sources and the day of its approval.
THEOREM IssuedNeverChanges ==
    ASSUME FirstLoanAssumption
    PROVE  FirstLoanSpec => [][IssuedStays /\ ReleasedOnItsSources]_firstLoanVars
<1>1. FirstLoanInv /\ [FirstLoanNext]_firstLoanVars
        => [IssuedStays /\ ReleasedOnItsSources]_firstLoanVars
  BY FirstLoanStepKeeps
<1> QED BY <1>1, FirstLoanStays, PTL DEF FirstLoanSpec

-----------------------------------------------------------------------------
(***************************************************************************)
(* The account of the borrower: the invariant.  The account is one, however *)
(* many attempts run, fail, stop or are answered late.  What makes it so is *)
(* spread over two tables and a service: the reserved identity is never     *)
(* replaced, only the attempt that holds the intent row is past locked, and *)
(* a completed intent lets no attempt past it again.  AccountInv ties the   *)
(* steps of the attempts to the row, the identity and the profile.          *)
(***************************************************************************)

Inside == {"locked", "identified", "linked"}

AttemptsTyped ==
    /\ intent \in [status : {"pending", "processing", "completed", "reconciliation_required"},
                   auth : Identities \cup {None}]
    /\ step \in [Attempts -> {"start", "prepared", "done", "failed"} \cup Inside]
    /\ shown \in [Attempts -> Attempts \cup {None}]

\* Requests that may still arrive are for the reserved identity.
LateIsReserved ==
    /\ \A q \in late : q.identity = intent.auth /\ q.identity # None
    /\ ~Late => late = {}

\* The attempt that holds the row is the one between locked and done.
HolderIsInside == \A a \in Attempts : step[a] \in Inside <=> holder = a

\* What the holder has reached so far.
InsideHolds(a) ==
    /\ step[a] \in Inside => intent.auth # None
    /\ step[a] \in {"locked", "identified"} => linked = None
    /\ step[a] \in {"identified", "linked"} =>
         intent.auth \in DOMAIN auth /\ (~Late => auth[intent.auth] = a)
    /\ step[a] = "linked" => linked # None

\* What is completed stays so, with the credentials of the attempt that completed it.
CompletedHolds ==
    /\ intent.status = "completed" => holder = None /\ linked # None
    /\ \A a \in Attempts : shown[a] # None =>
         intent.status = "completed" /\ (~Late => auth[intent.auth] = shown[a])

AccountInv ==
    /\ TypeOK /\ AttemptsTyped
    /\ OneIdentity /\ LinkedIsReserved /\ LateIsReserved
    /\ HolderIsInside /\ CompletedHolds
    /\ \A a \in Attempts : InsideHolds(a)
    /\ \A a, b \in Attempts : shown[a] # None /\ shown[b] # None => a = b

-----------------------------------------------------------------------------
(* One lemma for each action.                                              *)

LEMMA GotoFacts ==
    ASSUME AttemptsTyped, NEW a \in Attempts,
           NEW s \in {"start", "prepared", "done", "failed"} \cup Inside, Goto(a, s)
    PROVE  /\ step' \in [Attempts -> {"start", "prepared", "done", "failed"} \cup Inside]
           /\ step'[a] = s
           /\ \A b \in Attempts : b # a => step'[b] = step[b]
  BY DEF AttemptsTyped, Goto

\* The reservation is made once, and only while nothing holds the row.
LEMMA PrepareKeeps ==
    ASSUME CredentialAssumption, AccountInv, NEW a \in Attempts, Prepare(a)
    PROVE  AccountInv'
<1>1. /\ step[a] = "start" /\ holder = None /\ Goto(a, "prepared")
      /\ UNCHANGED <<auth, linked, holder, shown, late, faults>>
  BY DEF Prepare
<1>2. /\ step' \in [Attempts -> {"start", "prepared", "done", "failed"} \cup Inside]
      /\ step'[a] = "prepared" /\ \A b \in Attempts : b # a => step'[b] = step[b]
  BY <1>1, GotoFacts DEF AccountInv
<1>3. CASE intent' = intent
  BY <1>1, <1>2, <1>3
     DEF AccountInv, TypeOK, AttemptsTyped, OneIdentity, LinkedIsReserved, LateIsReserved,
         HolderIsInside, CompletedHolds, InsideHolds, Inside
<1>4. ASSUME NEW i \in Identities, intent.status # "completed", Reserve(i),
             intent' = [status |-> "processing", auth |-> i]
      PROVE  AccountInv'
  <2>1. /\ intent'.status = "processing" /\ intent'.auth = i /\ i # None
        /\ intent.auth # None => i = intent.auth
    BY <1>4 DEF Reserve, CredentialAssumption
  <2>2. intent.auth = None => DOMAIN auth = {} /\ linked = None /\ late = {}
    BY DEF AccountInv, TypeOK, OneIdentity, LinkedIsReserved, LateIsReserved, CredentialAssumption
  <2>3. \A b \in Attempts : shown[b] = None
    BY <1>4 DEF AccountInv, CompletedHolds
  <2>4. TypeOK' /\ AttemptsTyped'
    BY <1>1, <1>2, <1>4, <2>1 DEF AccountInv, TypeOK, AttemptsTyped
  <2>5. OneIdentity' /\ LinkedIsReserved' /\ LateIsReserved'
    BY <1>1, <2>1, <2>2 DEF AccountInv, OneIdentity, LinkedIsReserved, LateIsReserved
  <2>6. HolderIsInside' /\ CompletedHolds'
    BY <1>1, <1>2, <2>1, <2>3 DEF AccountInv, HolderIsInside, CompletedHolds, Inside
  <2>7. \A b \in Attempts : step'[b] \notin Inside
    BY <1>1, <1>2, <2>6 DEF HolderIsInside, CredentialAssumption
  <2>8. \A b \in Attempts : InsideHolds(b)'
    BY <2>7 DEF InsideHolds, Inside
  <2> QED BY <1>1, <2>3, <2>4, <2>5, <2>6, <2>8 DEF AccountInv
<1> QED BY <1>3, <1>4 DEF Prepare

\* An attempt past the lock holds a row that is processing, without a profile.
LEMMA LockedKeeps ==
    ASSUME CredentialAssumption, AccountInv, NEW a \in Attempts, Locked(a)
    PROVE  AccountInv'
<1>1. /\ step[a] = "prepared" /\ holder = None
      /\ UNCHANGED <<auth, linked, shown, late, faults>>
  BY DEF Locked
<1>2. CASE UNCHANGED <<intent, holder>> /\ (Goto(a, "done") \/ Goto(a, "failed"))
  <2>1. PICK s \in {"done", "failed"} : step'[a] = s
    BY <1>2, GotoFacts DEF AccountInv
  <2>2. /\ step' \in [Attempts -> {"start", "prepared", "done", "failed"} \cup Inside]
        /\ \A b \in Attempts : b # a => step'[b] = step[b]
    BY <1>2, GotoFacts DEF AccountInv
  <2> QED
    BY <1>1, <1>2, <2>1, <2>2
       DEF AccountInv, TypeOK, AttemptsTyped, OneIdentity, LinkedIsReserved, LateIsReserved,
           HolderIsInside, CompletedHolds, InsideHolds, Inside
<1>3. CASE /\ linked # None /\ linked = intent.auth
           /\ intent' = [intent EXCEPT !.status = "completed"]
           /\ Goto(a, "done") /\ UNCHANGED holder
  <2>1. /\ step' \in [Attempts -> {"start", "prepared", "done", "failed"} \cup Inside]
        /\ step'[a] = "done" /\ \A b \in Attempts : b # a => step'[b] = step[b]
    BY <1>3, GotoFacts DEF AccountInv
  <2>2. intent'.status = "completed" /\ intent'.auth = intent.auth
    BY <1>3 DEF AccountInv, AttemptsTyped
  <2>3. TypeOK' /\ AttemptsTyped'
    BY <1>1, <1>3, <2>1, <2>2 DEF AccountInv, TypeOK, AttemptsTyped, LinkedIsReserved
  <2>4. OneIdentity' /\ LinkedIsReserved' /\ LateIsReserved'
    BY <1>1, <1>3, <2>2 DEF AccountInv, OneIdentity, LinkedIsReserved, LateIsReserved
  <2>5. HolderIsInside' /\ CompletedHolds'
    BY <1>1, <1>3, <2>1, <2>2 DEF AccountInv, HolderIsInside, CompletedHolds, Inside
  <2>6. \A b \in Attempts : InsideHolds(b)'
    BY <1>1, <1>3, <2>1, <2>2 DEF AccountInv, InsideHolds, Inside
  <2> QED BY <1>1, <2>3, <2>4, <2>5, <2>6 DEF AccountInv
<1>4. CASE /\ intent.status = "processing" /\ linked = None
           /\ holder' = a /\ Goto(a, "locked") /\ UNCHANGED intent
  <2>1. /\ step' \in [Attempts -> {"start", "prepared", "done", "failed"} \cup Inside]
        /\ step'[a] = "locked" /\ \A b \in Attempts : b # a => step'[b] = step[b]
    BY <1>4, GotoFacts DEF AccountInv, Inside
  <2>2. \A b \in Attempts : b # a => step'[b] \notin Inside
    BY <1>1, <2>1 DEF AccountInv, HolderIsInside, CredentialAssumption
  <2>3. intent.auth # None
    BY <1>4 DEF AccountInv, TypeOK
  <2>4. TypeOK' /\ AttemptsTyped'
    BY <1>1, <1>4, <2>1 DEF AccountInv, TypeOK, AttemptsTyped
  <2>5. OneIdentity' /\ LinkedIsReserved' /\ LateIsReserved'
    BY <1>1, <1>4 DEF AccountInv, OneIdentity, LinkedIsReserved, LateIsReserved
  <2>6. HolderIsInside' /\ CompletedHolds'
    BY <1>1, <1>4, <2>1, <2>2 DEF AccountInv, HolderIsInside, CompletedHolds, Inside
  <2>7. \A b \in Attempts : InsideHolds(b)'
    BY <1>1, <1>4, <2>1, <2>2, <2>3 DEF InsideHolds, Inside
  <2> QED BY <1>1, <2>4, <2>5, <2>6, <2>7 DEF AccountInv
<1> QED BY <1>2, <1>3, <1>4 DEF Locked

\* The holder, when an attempt is inside: that attempt, on an incomplete intent.
LEMMA InsideFacts ==
    ASSUME CredentialAssumption, AccountInv, NEW a \in Attempts, step[a] \in Inside
    PROVE  /\ holder = a /\ a # None /\ intent.auth # None /\ intent.auth \in Identities
           /\ intent.status # "completed"
           /\ \A b \in Attempts : shown[b] = None
           /\ \A b \in Attempts : b # a => step[b] \notin Inside
<1>1. holder = a /\ a # None
  BY DEF AccountInv, HolderIsInside, CredentialAssumption
<1>2. intent.auth # None /\ intent.auth \in Identities
  BY DEF AccountInv, InsideHolds, TypeOK
<1>3. intent.status # "completed"
  BY <1>1 DEF AccountInv, CompletedHolds
<1>4. \A b \in Attempts : shown[b] = None
  BY <1>3 DEF AccountInv, CompletedHolds
<1>5. \A b \in Attempts : b # a => step[b] \notin Inside
  BY <1>1 DEF AccountInv, HolderIsInside
<1> QED BY <1>1, <1>2, <1>3, <1>4, <1>5

LEMMA AskAuthKeeps ==
    ASSUME CredentialAssumption, AccountInv, NEW a \in Attempts, AskAuth(a)
    PROVE  AccountInv'
<1>1. /\ step[a] = "locked" /\ auth' = Passworded(a)
      /\ UNCHANGED <<intent, linked, holder, shown, late, faults>>
  BY DEF AskAuth
<1>2. /\ step' \in [Attempts -> {"start", "prepared", "done", "failed"} \cup Inside]
      /\ step'[a] = "identified" /\ \A b \in Attempts : b # a => step'[b] = step[b]
  BY GotoFacts DEF AccountInv, AskAuth, Inside
<1>3. /\ holder = a /\ a # None /\ intent.auth # None /\ intent.auth \in Identities
      /\ intent.status # "completed"
      /\ \A b \in Attempts : shown[b] = None
      /\ \A b \in Attempts : b # a => step[b] \notin Inside
  BY <1>1, InsideFacts DEF Inside
<1>4. DOMAIN auth' = DOMAIN auth \cup {intent.auth} /\ auth'[intent.auth] = a
  BY <1>1 DEF Passworded
<1>5. TypeOK' /\ AttemptsTyped'
  BY <1>1, <1>2, <1>3, <1>4 DEF AccountInv, TypeOK, AttemptsTyped
<1>6. OneIdentity' /\ LinkedIsReserved' /\ LateIsReserved'
  BY <1>1, <1>4 DEF AccountInv, OneIdentity, LinkedIsReserved, LateIsReserved
<1>7. HolderIsInside' /\ CompletedHolds'
  BY <1>1, <1>2, <1>3 DEF AccountInv, HolderIsInside, CompletedHolds, Inside
<1>8. \A b \in Attempts : InsideHolds(b)'
  BY <1>1, <1>2, <1>3, <1>4 DEF AccountInv, InsideHolds, Inside
<1> QED BY <1>1, <1>3, <1>5, <1>6, <1>7, <1>8 DEF AccountInv

LEMMA LinkKeeps ==
    ASSUME CredentialAssumption, AccountInv, NEW a \in Attempts, Link(a)
    PROVE  AccountInv'
<1>1. /\ step[a] = "identified" /\ linked = None /\ linked' = intent.auth
      /\ UNCHANGED <<intent, auth, holder, shown, late, faults>>
  BY DEF Link
<1>2. /\ step' \in [Attempts -> {"start", "prepared", "done", "failed"} \cup Inside]
      /\ step'[a] = "linked" /\ \A b \in Attempts : b # a => step'[b] = step[b]
  BY GotoFacts DEF AccountInv, Link, Inside
<1>3. /\ holder = a /\ intent.auth # None /\ intent.auth \in Identities
      /\ intent.status # "completed"
      /\ \A b \in Attempts : shown[b] = None
      /\ \A b \in Attempts : b # a => step[b] \notin Inside
  BY <1>1, InsideFacts DEF Inside
<1>4. TypeOK' /\ AttemptsTyped'
  BY <1>1, <1>2, <1>3 DEF AccountInv, TypeOK, AttemptsTyped
<1>5. OneIdentity' /\ LinkedIsReserved' /\ LateIsReserved'
  BY <1>1, <1>3 DEF AccountInv, OneIdentity, LinkedIsReserved, LateIsReserved, InsideHolds
<1>6. HolderIsInside' /\ CompletedHolds'
  BY <1>1, <1>2, <1>3 DEF AccountInv, HolderIsInside, CompletedHolds, Inside
<1>7. \A b \in Attempts : InsideHolds(b)'
  BY <1>1, <1>2, <1>3 DEF AccountInv, InsideHolds, Inside
<1> QED BY <1>1, <1>3, <1>4, <1>5, <1>6, <1>7 DEF AccountInv

LEMMA CompleteKeeps ==
    ASSUME CredentialAssumption, AccountInv, NEW a \in Attempts, Complete(a)
    PROVE  AccountInv'
<1>1. /\ step[a] = "linked" /\ intent' = [intent EXCEPT !.status = "completed"]
      /\ holder' = None /\ shown' = [shown EXCEPT ![a] = a]
      /\ UNCHANGED <<auth, linked, late, faults>>
  BY DEF Complete
<1>2. /\ step' \in [Attempts -> {"start", "prepared", "done", "failed"} \cup Inside]
      /\ step'[a] = "done" /\ \A b \in Attempts : b # a => step'[b] = step[b]
  BY GotoFacts DEF AccountInv, Complete
<1>3. /\ holder = a /\ intent.auth # None
      /\ \A b \in Attempts : shown[b] = None
      /\ \A b \in Attempts : b # a => step[b] \notin Inside
      /\ \A b \in Attempts : b # None
  BY <1>1, InsideFacts DEF Inside, CredentialAssumption
<1>4. intent'.status = "completed" /\ intent'.auth = intent.auth
  BY <1>1 DEF AccountInv, AttemptsTyped
<1>5. /\ shown' \in [Attempts -> Attempts \cup {None}] /\ shown'[a] = a
      /\ \A b \in Attempts : b # a => shown'[b] = None
  BY <1>1, <1>3 DEF AccountInv, AttemptsTyped
<1>6. TypeOK' /\ AttemptsTyped'
  BY <1>1, <1>2, <1>3, <1>4, <1>5 DEF AccountInv, TypeOK, AttemptsTyped
<1>7. linked # None /\ (~Late => auth[intent.auth] = a)
  BY <1>1 DEF AccountInv, InsideHolds
<1>8. OneIdentity' /\ LinkedIsReserved' /\ LateIsReserved'
  BY <1>1, <1>4, <1>7 DEF AccountInv, OneIdentity, LinkedIsReserved, LateIsReserved
<1>9. HolderIsInside' /\ CompletedHolds'
  BY <1>1, <1>2, <1>3, <1>4, <1>5, <1>7 DEF AccountInv, HolderIsInside, CompletedHolds, Inside
<1>10. \A b \in Attempts : InsideHolds(b)'
  BY <1>2, <1>3 DEF InsideHolds, Inside
<1> QED BY <1>5, <1>6, <1>8, <1>9, <1>10 DEF AccountInv

\* A lost answer frees the row; the identity, its password and the profile are as the
\* call left them.
LEMMA UncertainKeeps ==
    ASSUME CredentialAssumption, AccountInv, NEW a \in Attempts, Uncertain(a)
    PROVE  AccountInv'
<1>1. /\ step[a] \in {"locked", "identified"} /\ faults < MaxFaults
      /\ intent' = [intent EXCEPT !.status = "reconciliation_required"]
      /\ holder' = None /\ faults' = faults + 1 /\ UNCHANGED shown
  BY DEF Uncertain
<1>2. /\ step' \in [Attempts -> {"start", "prepared", "done", "failed"} \cup Inside]
      /\ step'[a] = "failed" /\ \A b \in Attempts : b # a => step'[b] = step[b]
  BY GotoFacts DEF AccountInv, Uncertain
<1>3. /\ holder = a /\ intent.auth # None /\ intent.auth \in Identities
      /\ \A b \in Attempts : shown[b] = None
      /\ \A b \in Attempts : b # a => step[b] \notin Inside
      /\ \A b \in Attempts : b # None
  BY <1>1, InsideFacts DEF Inside, CredentialAssumption
<1>4. intent'.status = "reconciliation_required" /\ intent'.auth = intent.auth
  BY <1>1 DEF AccountInv, AttemptsTyped
<1>5. /\ DOMAIN auth' \subseteq {intent.auth} /\ DOMAIN auth \subseteq DOMAIN auth'
      /\ linked' # None => linked' = intent.auth /\ linked' \in DOMAIN auth'
      /\ linked' \in Identities \cup {None}
      /\ \A q \in late' : q.identity = intent.auth
      /\ ~Late => late' = {}
  <2>1. CASE /\ step[a] = "locked" /\ auth' \in {auth, Passworded(a)} /\ UNCHANGED <<linked, late>>
    <3>1. DOMAIN auth' \subseteq DOMAIN auth \cup {intent.auth} /\ DOMAIN auth \subseteq DOMAIN auth'
      BY <2>1 DEF Passworded
    <3> QED
      BY <2>1, <3>1 DEF AccountInv, TypeOK, OneIdentity, LinkedIsReserved, LateIsReserved
  <2>2. CASE Late /\ late' = late \cup {Request(a)} /\ UNCHANGED <<auth, linked>>
    <3>1. Request(a).identity = intent.auth
      BY DEF Request
    <3> QED
      BY <2>2, <3>1 DEF AccountInv, TypeOK, OneIdentity, LinkedIsReserved, LateIsReserved
  <2>3. CASE /\ step[a] = "identified" /\ linked' \in {linked, intent.auth}
             /\ UNCHANGED <<auth, late>>
    BY <1>3, <2>3
       DEF AccountInv, TypeOK, OneIdentity, LinkedIsReserved, LateIsReserved, InsideHolds
  <2> QED BY <2>1, <2>2, <2>3 DEF Uncertain
<1>6. \A b \in Attempts : step'[b] \notin Inside
  BY <1>2, <1>3 DEF Inside
<1>7. TypeOK' /\ AttemptsTyped'
  BY <1>1, <1>2, <1>3, <1>4, <1>5 DEF AccountInv, TypeOK, AttemptsTyped, CredentialAssumption
<1>8. OneIdentity' /\ LinkedIsReserved' /\ LateIsReserved'
  BY <1>3, <1>4, <1>5 DEF OneIdentity, LinkedIsReserved, LateIsReserved
<1>9. HolderIsInside' /\ CompletedHolds'
  BY <1>1, <1>3, <1>4, <1>6 DEF HolderIsInside, CompletedHolds
<1>10. \A b \in Attempts : InsideHolds(b)'
  BY <1>6 DEF InsideHolds, Inside
<1> QED BY <1>1, <1>3, <1>7, <1>8, <1>9, <1>10 DEF AccountInv

\* A request that arrives late is about the reserved identity.
LEMMA ArriveKeeps ==
    ASSUME CredentialAssumption, AccountInv, NEW q \in late, Arrive(q)
    PROVE  AccountInv'
<1>1. late' = late \ {q} /\ UNCHANGED <<intent, linked, holder, step, shown, faults>>
  BY DEF Arrive
<1>2. Late /\ q.identity = intent.auth /\ intent.auth \in Identities
  BY DEF AccountInv, LateIsReserved, TypeOK
<1>3. DOMAIN auth' \in {DOMAIN auth, DOMAIN auth \cup {intent.auth}}
  BY <1>2 DEF Arrive
<1>4. TypeOK' /\ AttemptsTyped'
  BY <1>1, <1>2, <1>3 DEF AccountInv, TypeOK, AttemptsTyped
<1>5. OneIdentity' /\ LinkedIsReserved' /\ LateIsReserved'
  BY <1>1, <1>2, <1>3 DEF AccountInv, OneIdentity, LinkedIsReserved, LateIsReserved
<1>6. HolderIsInside' /\ CompletedHolds'
  BY <1>1, <1>2 DEF AccountInv, HolderIsInside, CompletedHolds
<1>7. \A b \in Attempts : InsideHolds(b)'
  BY <1>1, <1>2, <1>3 DEF AccountInv, InsideHolds
<1> QED BY <1>1, <1>4, <1>5, <1>6, <1>7 DEF AccountInv

LEMMA StopKeeps ==
    ASSUME CredentialAssumption, AccountInv, NEW a \in Attempts, Stop(a)
    PROVE  AccountInv'
<1>1. /\ step[a] \notin {"start", "done", "failed"} /\ faults < MaxFaults
      /\ holder' = (IF holder = a THEN None ELSE holder)
      /\ faults' = faults + 1
      /\ UNCHANGED <<intent, auth, linked, shown, late>>
  BY DEF Stop
<1>2. /\ step' \in [Attempts -> {"start", "prepared", "done", "failed"} \cup Inside]
      /\ step'[a] = "failed" /\ \A b \in Attempts : b # a => step'[b] = step[b]
      /\ a # None
  BY GotoFacts DEF AccountInv, Stop, CredentialAssumption
<1>3. TypeOK' /\ AttemptsTyped'
  BY <1>1, <1>2 DEF AccountInv, TypeOK, AttemptsTyped, CredentialAssumption
<1>4. OneIdentity' /\ LinkedIsReserved' /\ LateIsReserved'
  BY <1>1 DEF AccountInv, OneIdentity, LinkedIsReserved, LateIsReserved
<1>5. HolderIsInside' /\ CompletedHolds'
  BY <1>1, <1>2 DEF AccountInv, HolderIsInside, CompletedHolds, Inside, CredentialAssumption
<1>6. \A b \in Attempts : InsideHolds(b)'
  BY <1>1, <1>2 DEF AccountInv, InsideHolds, Inside
<1> QED BY <1>1, <1>3, <1>4, <1>5, <1>6 DEF AccountInv

LEMMA RetryKeeps ==
    ASSUME CredentialAssumption, AccountInv, NEW a \in Attempts, Retry(a)
    PROVE  AccountInv'
<1>1. step[a] = "failed" /\ UNCHANGED <<intent, auth, linked, holder, shown, late, faults>>
  BY DEF Retry
<1>2. /\ step' \in [Attempts -> {"start", "prepared", "done", "failed"} \cup Inside]
      /\ step'[a] = "start" /\ \A b \in Attempts : b # a => step'[b] = step[b]
  BY GotoFacts DEF AccountInv, Retry
<1> QED
  BY <1>1, <1>2
     DEF AccountInv, TypeOK, AttemptsTyped, OneIdentity, LinkedIsReserved, LateIsReserved,
         HolderIsInside, CompletedHolds, InsideHolds, Inside

-----------------------------------------------------------------------------
(* Every step.                                                             *)

LEMMA InitAccount ==
    ASSUME CredentialAssumption, Init
    PROVE  AccountInv
<1>1. TypeOK /\ AttemptsTyped
  BY DEF Init, TypeOK, AttemptsTyped, CredentialAssumption
<1>2. \A a \in Attempts : step[a] = "start" /\ shown[a] = None /\ a # None
  BY DEF Init, CredentialAssumption
<1> QED
  BY <1>1, <1>2
     DEF Init, AccountInv, OneIdentity, LinkedIsReserved, LateIsReserved,
         HolderIsInside, CompletedHolds, InsideHolds, Inside

LEMMA NextKeeps ==
    ASSUME CredentialAssumption, AccountInv, [Next]_vars
    PROVE  AccountInv'
<1>1. CASE UNCHANGED vars
  BY <1>1
     DEF vars, AccountInv, TypeOK, AttemptsTyped, OneIdentity, LinkedIsReserved, LateIsReserved,
         HolderIsInside, CompletedHolds, InsideHolds
<1>2. ASSUME NEW a \in Attempts, Proceed(a) \/ Uncertain(a) \/ Stop(a) \/ Retry(a)
      PROVE  AccountInv'
  BY <1>2, PrepareKeeps, LockedKeeps, AskAuthKeeps, LinkKeeps, CompleteKeeps,
     UncertainKeeps, StopKeeps, RetryKeeps DEF Proceed
<1> QED BY <1>1, <1>2, ArriveKeeps DEF Next

LEMMA AccountStays ==
    ASSUME CredentialAssumption
    PROVE  Spec => []AccountInv
<1>1. Init => AccountInv
  BY InitAccount
<1>2. AccountInv /\ [Next]_vars => AccountInv'
  BY NextKeeps
<1> QED BY <1>1, <1>2, PTL DEF Spec

\* The borrower has one identity and one profile, a completed intent has its profile,
\* credentials are shown once and, where no request arrives late, they open the account:
\* for any number of attempts beside each other, failures and stops (provision,
\* retry).
THEOREM AccountStaysOne ==
    ASSUME CredentialAssumption
    PROVE  Spec => []AccountIsOne
<1>1. AccountInv => AccountIsOne
  <2> SUFFICES ASSUME AccountInv PROVE AccountIsOne
    OBVIOUS
  <2> DEFINE S == {a \in Attempts : shown[a] # None}
  <2>1. Cardinality(S) <= 1
    <3>1. CASE S = {}
      BY <3>1, FS_EmptySet
    <3>2. ASSUME NEW a \in S PROVE Cardinality(S) <= 1
      <4>1. S = {a}
        BY DEF AccountInv
      <4>2. Cardinality({a}) = 1
        BY FS_Singleton, Zenon
      <4>3. Cardinality(S) = 1
        BY <4>1, <4>2, Zenon
      <4> QED BY <4>3
    <3> QED BY <3>1, <3>2
  <2>2. ~Late => ShownOpens
    BY DEF AccountInv, CompletedHolds, LinkedIsReserved, ShownOpens
  <2> QED BY <2>1, <2>2 DEF AccountInv, AccountIsOne, ShownOnce
<1> QED BY <1>1, AccountStays, PTL
================================================================================

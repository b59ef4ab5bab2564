--------------------------- MODULE CollectorDayProofs ---------------------------
(***************************************************************************)
(* What a collector received, less what went back to borrowers and less    *)
(* what remittances ask for, is what is left in hand, and no refund leaves  *)
(* that is not owed.                                                       *)
(*                                                                         *)
(* The records are sums over one another's rows.  CustodyInv says of each   *)
(* sum what a step adds to it: a release adds to what is released and to    *)
(* what no remittance took into account, a remittance takes its lines from  *)
(* the one and its receipts from what is held.  A release that read the     *)
(* cash and did not write yet holds its place under the approval.           *)
(***************************************************************************)
EXTENDS CashCustody, CollectorSurplus, PaymentPromise, Sums, SequenceTheorems

-----------------------------------------------------------------------------
(* The sums, of the records they are taken over.                           *)

RemittanceType ==
    [items : SUBSET Receipts, lines : [Keys -> Nat],
     status : {"submitted", "received", "rejected"}, total : Nat]

AmountIn(rows) == [k \in Keys |-> rows[k].amount]
ApprovedIn(as, r) == SumOf(AmountIn(as), {k \in Keys : as[k].receipt = r})
ReleasedIn(rs, a) == SumOf(AmountIn(rs), {k \in Keys : rs[k].approval = a})
ReleasedByIn(rs) == [k \in Keys |-> ReleasedIn(rs, k)]

StandingIn(ms) == {i \in DOMAIN ms : ms[i].status # "rejected"}
LineIn(ms, k) == [i \in DOMAIN ms |-> ms[i].lines[k]]
LeftIn(rs, ms) == [k \in Keys |-> rs[k].amount - SumOf(LineIn(ms, k), StandingIn(ms))]
TotalIn(ms) == [i \in DOMAIN ms |-> ms[i].total]
LockedIn(rcs) == {r \in Receipts : rcs[r] = "locked"}

\* A fold over a set is the sum of the function it maps by.
LEMMA AmountSum ==
    ASSUME NEW rows, NEW S \in SUBSET Keys
    PROVE  MapThenSumSet(LAMBDA k : rows[k].amount, S) = SumOf(AmountIn(rows), S)
<1> DEFINE f == AmountIn(rows)
<1>1. \A s \in SUBSET S : s # {} => f[Pick(s)] = rows[Pick(s)].amount
  BY PickIsMember DEF AmountIn
<1>2. ASSUME NEW g
      PROVE  [s \in SUBSET S |-> IF s = {} THEN 0 ELSE f[Pick(s)] + g[s \ {Pick(s)}]]
             = [s \in SUBSET S |-> IF s = {} THEN 0 ELSE rows[Pick(s)].amount + g[s \ {Pick(s)}]]
  BY <1>1
<1> DEFINE Eq(g) == g = [s \in SUBSET S |-> IF s = {} THEN 0
                                           ELSE rows[Pick(s)].amount + g[s \ {Pick(s)}]]
<1>3. \A g : IsSum(f, g, S) <=> Eq(g)
  BY <1>2 DEF IsSum
<1>4. (CHOOSE g : IsSum(f, g, S)) = (CHOOSE g : Eq(g))
  BY <1>3
<1>5. SumOf(f, S) = (CHOOSE g : IsSum(f, g, S))[S]
  BY DEF SumOf, MapThenSumSet, MapThenFoldSet, IsSum, Pick
<1>6. MapThenSumSet(LAMBDA k : rows[k].amount, S) = (CHOOSE g : Eq(g))[S]
  BY DEF MapThenSumSet, MapThenFoldSet, Pick
<1> QED BY <1>4, <1>5, <1>6

LEMMA LineSum ==
    ASSUME NEW ms, NEW k, NEW S \in SUBSET DOMAIN ms
    PROVE  MapThenSumSet(LAMBDA i : ms[i].lines[k], S) = SumOf(LineIn(ms, k), S)
<1> DEFINE f == LineIn(ms, k)
<1>1. \A s \in SUBSET S : s # {} => f[Pick(s)] = ms[Pick(s)].lines[k]
  BY PickIsMember DEF LineIn
<1>2. ASSUME NEW g
      PROVE  [s \in SUBSET S |-> IF s = {} THEN 0 ELSE f[Pick(s)] + g[s \ {Pick(s)}]]
             = [s \in SUBSET S |-> IF s = {} THEN 0 ELSE ms[Pick(s)].lines[k] + g[s \ {Pick(s)}]]
  BY <1>1
<1> DEFINE Eq(g) == g = [s \in SUBSET S |-> IF s = {} THEN 0
                                           ELSE ms[Pick(s)].lines[k] + g[s \ {Pick(s)}]]
<1>3. \A g : IsSum(f, g, S) <=> Eq(g)
  BY <1>2 DEF IsSum
<1>4. (CHOOSE g : IsSum(f, g, S)) = (CHOOSE g : Eq(g))
  BY <1>3
<1>5. SumOf(f, S) = (CHOOSE g : IsSum(f, g, S))[S]
  BY DEF SumOf, MapThenSumSet, MapThenFoldSet, IsSum, Pick
<1>6. MapThenSumSet(LAMBDA i : ms[i].lines[k], S) = (CHOOSE g : Eq(g))[S]
  BY DEF MapThenSumSet, MapThenFoldSet, Pick
<1> QED BY <1>4, <1>5, <1>6

LEMMA TotalSum ==
    ASSUME NEW ms, NEW S \in SUBSET DOMAIN ms
    PROVE  MapThenSumSet(LAMBDA i : ms[i].total, S) = SumOf(TotalIn(ms), S)
<1> DEFINE f == TotalIn(ms)
<1>1. \A s \in SUBSET S : s # {} => f[Pick(s)] = ms[Pick(s)].total
  BY PickIsMember DEF TotalIn
<1>2. ASSUME NEW g
      PROVE  [s \in SUBSET S |-> IF s = {} THEN 0 ELSE f[Pick(s)] + g[s \ {Pick(s)}]]
             = [s \in SUBSET S |-> IF s = {} THEN 0 ELSE ms[Pick(s)].total + g[s \ {Pick(s)}]]
  BY <1>1
<1> DEFINE Eq(g) == g = [s \in SUBSET S |-> IF s = {} THEN 0
                                           ELSE ms[Pick(s)].total + g[s \ {Pick(s)}]]
<1>3. \A g : IsSum(f, g, S) <=> Eq(g)
  BY <1>2 DEF IsSum
<1>4. (CHOOSE g : IsSum(f, g, S)) = (CHOOSE g : Eq(g))
  BY <1>3
<1>5. SumOf(f, S) = (CHOOSE g : IsSum(f, g, S))[S]
  BY DEF SumOf, MapThenSumSet, MapThenFoldSet, IsSum, Pick
<1>6. MapThenSumSet(LAMBDA i : ms[i].total, S) = (CHOOSE g : Eq(g))[S]
  BY DEF MapThenSumSet, MapThenFoldSet, Pick
<1> QED BY <1>4, <1>5, <1>6

\* What is approved and released now.
LEMMA RefundNow ==
    /\ \A r : Approved(r) = ApprovedIn(approvals, r)
    /\ \A a : Released(a) = ReleasedIn(releases, a)
<1>1. ASSUME NEW r PROVE Approved(r) = ApprovedIn(approvals, r)
  <2>1. MapThenSumSet(LAMBDA k : approvals[k].amount, {k \in Keys : approvals[k].receipt = r})
        = ApprovedIn(approvals, r)
    BY AmountSum DEF ApprovedIn
  <2> QED BY <2>1 DEF Approved, MapThenSumSet, MapThenFoldSet
<1>2. ASSUME NEW a PROVE Released(a) = ReleasedIn(releases, a)
  <2>1. MapThenSumSet(LAMBDA k : releases[k].amount, {k \in Keys : releases[k].approval = a})
        = ReleasedIn(releases, a)
    BY AmountSum DEF ReleasedIn
  <2> QED BY <2>1 DEF Released, MapThenSumSet, MapThenFoldSet
<1> QED BY <1>1, <1>2

LEMMA ReleasedOfNow ==
    ASSUME NEW r
    PROVE  ReleasedOf(r) = SumOf(ReleasedByIn(releases), {k \in Keys : approvals[k].receipt = r})
<1> DEFINE f == ReleasedByIn(releases)
           S == {k \in Keys : approvals[k].receipt = r}
<1>1. \A s \in SUBSET S : s # {} => f[Pick(s)] = Released(Pick(s))
  BY PickIsMember, RefundNow DEF ReleasedByIn
<1>2. ASSUME NEW g
      PROVE  [s \in SUBSET S |-> IF s = {} THEN 0 ELSE f[Pick(s)] + g[s \ {Pick(s)}]]
             = [s \in SUBSET S |-> IF s = {} THEN 0 ELSE Released(Pick(s)) + g[s \ {Pick(s)}]]
  BY <1>1
<1> DEFINE Eq(g) == g = [s \in SUBSET S |-> IF s = {} THEN 0
                                           ELSE Released(Pick(s)) + g[s \ {Pick(s)}]]
<1>3. \A g : IsSum(f, g, S) <=> Eq(g)
  BY <1>2 DEF IsSum
<1>4. (CHOOSE g : IsSum(f, g, S)) = (CHOOSE g : Eq(g))
  BY <1>3
<1>5. SumOf(f, S) = (CHOOSE g : IsSum(f, g, S))[S]
  BY DEF SumOf, MapThenSumSet, MapThenFoldSet, IsSum, Pick
<1>6. ReleasedOf(r) = (CHOOSE g : Eq(g))[S]
  BY DEF ReleasedOf, MapThenSumSet, MapThenFoldSet, Pick
<1> QED BY <1>4, <1>5, <1>6

\* What no remittance took into account now.
LEMMA LeftNow ==
    ASSUME NEW S \in SUBSET Keys
    PROVE  /\ \A k \in S : Unremitted(k) = LeftIn(releases, remittances)[k]
           /\ MapThenSumSet(Unremitted, S) = SumOf(LeftIn(releases, remittances), S)
<1> DEFINE f == LeftIn(releases, remittances)
<1>0. Standing = StandingIn(remittances) /\ Standing \in SUBSET DOMAIN remittances
  BY DEF Standing, StandingIn
<1>1. ASSUME NEW k \in S PROVE Unremitted(k) = f[k]
  <2>1. MapThenSumSet(LAMBDA i : remittances[i].lines[k], Standing)
        = SumOf(LineIn(remittances, k), Standing)
    BY <1>0, LineSum
  <2>2. Unremitted(k) = releases[k].amount - SumOf(LineIn(remittances, k), Standing)
    BY <2>1 DEF Unremitted, MapThenSumSet, MapThenFoldSet
  <2> QED BY <1>0, <2>2 DEF LeftIn
<1>2. \A s \in SUBSET S : s # {} => f[Pick(s)] = Unremitted(Pick(s))
  BY <1>1, PickIsMember
<1>3. ASSUME NEW g
      PROVE  [s \in SUBSET S |-> IF s = {} THEN 0 ELSE f[Pick(s)] + g[s \ {Pick(s)}]]
             = [s \in SUBSET S |-> IF s = {} THEN 0 ELSE Unremitted(Pick(s)) + g[s \ {Pick(s)}]]
  BY <1>2
<1> DEFINE Eq(g) == g = [s \in SUBSET S |-> IF s = {} THEN 0
                                           ELSE Unremitted(Pick(s)) + g[s \ {Pick(s)}]]
<1>4. \A g : IsSum(f, g, S) <=> Eq(g)
  BY <1>3 DEF IsSum
<1>5. (CHOOSE g : IsSum(f, g, S)) = (CHOOSE g : Eq(g))
  BY <1>4
<1>6. SumOf(f, S) = (CHOOSE g : IsSum(f, g, S))[S]
  BY DEF SumOf, MapThenSumSet, MapThenFoldSet, IsSum, Pick
<1>7. MapThenSumSet(Unremitted, S) = (CHOOSE g : Eq(g))[S]
  BY DEF MapThenSumSet, MapThenFoldSet, Pick
<1> QED BY <1>1, <1>5, <1>6, <1>7

LEMMA CashIsSum ==
    /\ \A R : Cash(R) = SumOf(AmountOf, R)
    /\ \A lines : MapThenSumSet(LAMBDA k : lines[k], Keys) = SumOf(lines, Keys)
  BY DEF Cash, SumOf, MapThenSumSet, MapThenFoldSet

-----------------------------------------------------------------------------
(* The invariant.                                                          *)

Rows ==
    /\ receipts \in [Receipts -> {"none", "held", "locked", "voided"}]
    /\ approvals \in [Keys -> {Unapproved} \cup [receipt : Receipts, amount : Nat]]
    /\ releasing \in [Keys -> [approval : Keys \cup {0}, amount : Nat]]
    /\ releases \in [Keys -> [approval : Keys \cup {0}, amount : Nat]]
    /\ remittances \in Seq(RemittanceType)

\* A release under way keeps its place under an approval that stands.
ReleaseHolds(k) ==
    LET a == releasing[k].approval IN
    /\ releases[k] = None /\ a \in Keys /\ approvals[a] # Unapproved
    /\ receipts[approvals[a].receipt] # "voided"
    /\ ReleasedIn(releases, a) + releasing[k].amount <= approvals[a].amount

RefundHolds ==
    /\ \A a \in Keys : ReleasedIn(releases, a) <= approvals[a].amount
    /\ \A r \in Receipts : ApprovedIn(approvals, r) <= DueOf[r]
    /\ \A a \in Keys, r \in Receipts :
         approvals[a].receipt = r /\ receipts[r] = "voided" => ReleasedIn(releases, a) = 0
    /\ \A k \in Keys : releasing[k] # None => ReleaseHolds(k)
    /\ \A j, k \in Keys :
         /\ releasing[j] # None /\ releasing[k] # None
         /\ approvals[releasing[j].approval].receipt = approvals[releasing[k].approval].receipt
         => j = k

HandoverHolds ==
    /\ \A k \in Keys : LeftIn(releases, remittances)[k] >= 0
    /\ SumOf(AmountOf, LockedIn(receipts)) + SumOf(LeftIn(releases, remittances), Keys)
       = SumOf(TotalIn(remittances), StandingIn(remittances)) + SumOf(AmountIn(releases), Keys)
    /\ \A i, j \in StandingIn(remittances) :
         i # j => remittances[i].items \cap remittances[j].items = {}
    /\ \A r \in Receipts :
         receipts[r] = "locked" <=> \E i \in StandingIn(remittances) : r \in remittances[i].items
    /\ \A i \in DOMAIN remittances :
         remittances[i].total = SumOf(AmountOf, remittances[i].items) - SumOf(remittances[i].lines, Keys)

CustodyInv == Rows /\ RefundHolds /\ HandoverHolds

\* Every sum is a number.
LEMMA AmountsAreNat ==
    ASSUME CustodyAssumption, NEW rows, \A k \in Keys : rows[k].amount \in Nat, NEW S \in SUBSET Keys
    PROVE  /\ IsFiniteSet(S) /\ SumOf(AmountIn(rows), S) \in Nat
           /\ \A k \in Keys : AmountIn(rows)[k] = rows[k].amount
<1>1. IsFiniteSet(S)
  BY FS_Subset DEF CustodyAssumption
<1>2. \A k \in Keys : AmountIn(rows)[k] = rows[k].amount
  BY DEF AmountIn
<1>3. \A k \in S : AmountIn(rows)[k] \in Nat
  BY <1>2
<1>4. S \in SUBSET S
  OBVIOUS
<1>5. SumOf(AmountIn(rows), S) \in Nat
  BY <1>1, <1>3, <1>4, SumIsMonotone
<1> QED BY <1>1, <1>2, <1>5

LEMMA CashIsNat ==
    ASSUME CustodyAssumption, NEW R \in SUBSET Receipts
    PROVE  IsFiniteSet(R) /\ SumOf(AmountOf, R) \in Nat /\ \A r \in R : AmountOf[r] \in Nat
<1>1. IsFiniteSet(R) /\ (\A r \in R : AmountOf[r] \in Nat) /\ R \in SUBSET R
  BY FS_Subset DEF CustodyAssumption
<1>2. SumOf(AmountOf, R) \in Nat
  BY <1>1, SumIsMonotone
<1> QED BY <1>1, <1>2

LEMMA LeftIsInt ==
    ASSUME CustodyAssumption, NEW rs, NEW ms \in Seq(RemittanceType),
           \A k \in Keys : rs[k].amount \in Nat
    PROVE  /\ IsFiniteSet(StandingIn(ms)) /\ SumOf(TotalIn(ms), StandingIn(ms)) \in Int
           /\ \A k \in Keys : /\ SumOf(LineIn(ms, k), StandingIn(ms)) \in Int
                              /\ LeftIn(rs, ms)[k] \in Int
           /\ SumOf(LeftIn(rs, ms), Keys) \in Int
<1>1. StandingIn(ms) \subseteq DOMAIN ms /\ \A i \in DOMAIN ms : ms[i] \in RemittanceType
  BY DEF StandingIn
<1>2. IsFiniteSet(StandingIn(ms))
  <2>1. IsFiniteSet(1 .. Len(ms))
    BY FS_Interval
  <2> QED BY <1>1, <2>1, FS_Subset
<1>3. SumOf(TotalIn(ms), StandingIn(ms)) \in Int
  <2>1. \A i \in StandingIn(ms) : TotalIn(ms)[i] \in Int
    BY <1>1 DEF TotalIn, RemittanceType
  <2> QED BY <1>2, <2>1, SumIsInt
<1>4. ASSUME NEW k \in Keys
      PROVE  SumOf(LineIn(ms, k), StandingIn(ms)) \in Int
  <2>1. \A i \in StandingIn(ms) : LineIn(ms, k)[i] \in Int
    BY <1>1 DEF LineIn, RemittanceType
  <2> QED BY <1>2, <2>1, SumIsInt
<1>5. \A k \in Keys : LeftIn(rs, ms)[k] \in Int
  BY <1>4 DEF LeftIn
<1>6. SumOf(LeftIn(rs, ms), Keys) \in Int
  <2>1. IsFiniteSet(Keys)
    BY DEF CustodyAssumption
  <2> QED BY <1>5, <2>1, SumIsInt
<1> QED BY <1>2, <1>3, <1>4, <1>5, <1>6

-----------------------------------------------------------------------------
(* Refund Due.                                                             *)

\* A step that hands nothing over and releases nothing.
LEMMA HandoverStays ==
    ASSUME HandoverHolds, releases' = releases, remittances' = remittances,
           \A r \in Receipts : receipts'[r] = "locked" <=> receipts[r] = "locked"
    PROVE  HandoverHolds'
<1>1. LockedIn(receipts') = LockedIn(receipts)
  BY DEF LockedIn
<1> QED BY <1>1 DEF HandoverHolds

\* A step that only hands over or takes back.
LEMMA RefundStays ==
    ASSUME RefundHolds, approvals' = approvals, releasing' = releasing, releases' = releases,
           Rows, \A r \in Receipts : receipts'[r] = "voided" <=> receipts[r] = "voided"
    PROVE  RefundHolds'
<1>1. \A a \in Keys : approvals[a] # Unapproved => approvals[a].receipt \in Receipts
  BY DEF Rows
<1>2. ASSUME NEW k \in Keys, releasing[k] # None
      PROVE  ReleaseHolds(k)'
  <2>1. ReleaseHolds(k)
    BY <1>2 DEF RefundHolds
  <2> QED BY <1>1, <2>1 DEF ReleaseHolds
<1> QED BY <1>2 DEF RefundHolds

LEMMA PostKeeps ==
    ASSUME CustodyInv, NEW r \in Receipts, Post(r)
    PROVE  CustodyInv'
<1>1. Rows /\ RefundHolds /\ HandoverHolds
  BY DEF CustodyInv
<1>2. Rows'
  BY <1>1 DEF Rows, Post
<1>3. HandoverHolds'
  <2>1. \A s \in Receipts : receipts'[s] = "locked" <=> receipts[s] = "locked"
    BY <1>1 DEF Rows, Post
  <2> QED BY <1>1, <2>1, HandoverStays DEF Post
<1>4. RefundHolds'
  <2>1. \A s \in Receipts : receipts'[s] = "voided" <=> receipts[s] = "voided"
    BY <1>1 DEF Rows, Post
  <2> QED BY <1>1, <2>1, RefundStays DEF Post
<1> QED BY <1>2, <1>3, <1>4 DEF CustodyInv

\* Nothing was released for the receipt that is voided, and nothing is being released.
LEMMA VoidReceiptKeeps ==
    ASSUME CustodyAssumption, CustodyInv, NEW r \in Receipts, VoidReceipt(r)
    PROVE  CustodyInv'
<1>1. Rows /\ RefundHolds /\ HandoverHolds
  BY DEF CustodyInv
<1>2. /\ receipts' = [receipts EXCEPT ![r] = "voided"] /\ receipts[r] = "held"
      /\ Unlocked(r) /\ ReleasedOf(r) = 0 /\ approvals' = approvals /\ releasing' = releasing
      /\ releases' = releases /\ remittances' = remittances
  BY DEF VoidReceipt, Reversible
<1>3. Rows'
  BY <1>1, <1>2 DEF Rows
<1>4. HandoverHolds'
  <2>1. \A s \in Receipts : receipts'[s] = "locked" <=> receipts[s] = "locked"
    BY <1>1, <1>2 DEF Rows
  <2> QED BY <1>1, <1>2, <2>1, HandoverStays
<1>5. \A a \in Keys : approvals[a].receipt = r => ReleasedIn(releases, a) = 0
  <2> SUFFICES ASSUME NEW a \in Keys, approvals[a].receipt = r PROVE ReleasedIn(releases, a) = 0
    OBVIOUS
  <2> DEFINE f == ReleasedByIn(releases)
             S == {k \in Keys : approvals[k].receipt = r}
  <2>1. \A k \in Keys : f[k] \in Nat /\ f[k] = ReleasedIn(releases, k)
    <3>1. \A k \in Keys : releases[k].amount \in Nat
      BY <1>1 DEF Rows
    <3> QED BY <3>1, AmountsAreNat DEF ReleasedByIn, ReleasedIn
  <2>2. SumOf(f, S) = 0
    BY <1>2, ReleasedOfNow
  <2>3. IsFiniteSet(S) /\ IsFiniteSet({a}) /\ {a} \in SUBSET S
    BY FS_Subset, FS_Singleton DEF CustodyAssumption
  <2>4. SumOf(f, {a}) \in Nat /\ SumOf(f, {a}) <= SumOf(f, S)
    <3>1. \A k \in S : f[k] \in Nat
      BY <2>1
    <3> HIDE DEF f, S
    <3> QED BY <2>3, <3>1, SumIsMonotone
  <2>5. SumOf(f, {a}) = f[a]
    <3>1. IsFiniteSet({}) /\ a \notin {} /\ (\A y \in {} \cup {a} : f[y] \in Int) /\ {} \cup {a} = {a}
      BY <2>1, FS_EmptySet
    <3>2. SumOf(f, {} \cup {a}) = SumOf(f, {}) + f[a]
      <4> HIDE DEF f
      <4> QED BY <3>1, SumWith
    <3>3. SumOf(f, {}) = 0 /\ f[a] \in Nat
      BY <2>1, SumOfNone
    <3> HIDE DEF f
    <3> QED BY <3>1, <3>2, <3>3
  <2> HIDE DEF f, S
  <2> QED BY <2>1, <2>2, <2>4, <2>5
<1>6. RefundHolds'
  <2>1. /\ \A s \in Receipts : receipts'[s] = "voided" => s = r \/ receipts[s] = "voided"
        /\ \A s : s # r => receipts'[s] = receipts[s]
    BY <1>1, <1>2 DEF Rows
  <2>2. ASSUME NEW k \in Keys, releasing[k] # None PROVE ReleaseHolds(k)'
    <3>1. ReleaseHolds(k)
      BY <1>1, <2>2 DEF RefundHolds
    <3>2. approvals[releasing[k].approval].receipt # r
      BY <1>2, <2>2 DEF Unlocked
    <3> QED BY <1>2, <2>1, <3>1, <3>2 DEF ReleaseHolds
  <2>3. \A a \in Keys, s \in Receipts :
          approvals[a].receipt = s /\ receipts'[s] = "voided" => ReleasedIn(releases, a) = 0
    BY <1>1, <1>5, <2>1 DEF RefundHolds
  <2> QED BY <1>1, <1>2, <2>2, <2>3 DEF RefundHolds
<1> QED BY <1>3, <1>4, <1>6 DEF CustodyInv

LEMMA ApproveKeeps ==
    ASSUME CustodyAssumption, CustodyInv, NEW k \in Keys, NEW r \in Receipts, NEW amount \in Amounts,
           Approve(k, r, amount)
    PROVE  CustodyInv'
<1>1. Rows /\ RefundHolds /\ HandoverHolds /\ amount \in Nat /\ amount > 0 /\ r # 0
  BY DEF CustodyInv, CustodyAssumption
<1>2. PICK row : row = [receipt |-> r, amount |-> amount]
  OBVIOUS
<1>3. /\ approvals[k] = Unapproved /\ Unlocked(r) /\ amount <= Approvable(r)
      /\ approvals' = [approvals EXCEPT ![k] = row] /\ receipts' = receipts
      /\ releasing' = releasing /\ releases' = releases /\ remittances' = remittances
  BY <1>2 DEF Approve
<1>4. /\ row.receipt = r /\ row.amount = amount /\ row \in [receipt : Receipts \cup {0}, amount : Nat]
      /\ row # Unapproved
  BY <1>1, <1>2 DEF Unapproved
<1>5. /\ approvals'[k] = row /\ \A a \in Keys : a # k => approvals'[a] = approvals[a]
      /\ approvals[k].receipt = 0 /\ approvals[k].amount = 0
  BY <1>1, <1>3 DEF Rows, Unapproved
<1>6. /\ \A a \in Keys : approvals[a].amount \in Nat /\ approvals'[a].amount \in Nat
      /\ receipts[r] # "voided" /\ amount <= DueOf[r] - ApprovedIn(approvals, r)
  <2>1. \A a \in Keys : approvals[a].amount \in Nat /\ approvals'[a].amount \in Nat
    BY <1>1, <1>4, <1>5 DEF Rows, Unapproved
  <2>2. receipts[r] \notin {"none", "voided"} /\ amount <= DueOf[r] - Approved(r)
    BY <1>1, <1>3 DEF Approvable
  <2> QED BY <2>1, <2>2, RefundNow
<1>7. Rows'
  BY <1>1, <1>3, <1>4 DEF Rows
<1>8. HandoverHolds'
  BY <1>1, <1>3, HandoverStays
<1>9. \A s \in Receipts : ApprovedIn(approvals', s) <= DueOf[s]
  <2> TAKE s \in Receipts
  <2>1. PICK f : f = AmountIn(approvals)
    OBVIOUS
  <2>2. PICK g : g = AmountIn(approvals')
    OBVIOUS
  <2>3. PICK S : S = {a \in Keys : approvals[a].receipt = s}
    OBVIOUS
  <2>4. /\ \A a \in Keys : f[a] = approvals[a].amount /\ g[a] = approvals'[a].amount
        /\ IsFiniteSet(S) /\ S \subseteq Keys /\ k \notin S /\ s # 0
        /\ SumOf(f, S) \in Nat /\ SumOf(f, S) <= DueOf[s]
    <3>1. k \notin S /\ s # 0 /\ S \in SUBSET Keys
      BY <1>5, <2>3 DEF CustodyAssumption
    <3>2. SumOf(f, S) <= DueOf[s]
      BY <1>1, <2>1, <2>3 DEF RefundHolds, ApprovedIn
    <3>3. IsFiniteSet(S) /\ SumOf(f, S) \in Nat
      BY <1>6, <2>1, <3>1, AmountsAreNat
    <3> QED BY <2>1, <2>2, <3>1, <3>2, <3>3 DEF AmountIn
  <2>5. SumOf(g, S) = SumOf(f, S)
    <3>1. \A a \in S : g[a] = f[a]
      BY <1>5, <2>4
    <3> QED BY <3>1, SumOfSame
  <2>6. CASE s = r
    <3>1. {a \in Keys : approvals'[a].receipt = s} = S \cup {k}
      BY <1>4, <1>5, <2>3, <2>6
    <3>2. SumOf(g, S \cup {k}) = SumOf(g, S) + g[k]
      <4>1. \A a \in S \cup {k} : g[a] \in Int
        BY <1>6, <2>4
      <4> QED BY <2>4, <4>1, SumWith
    <3>3. ApprovedIn(approvals', s) = SumOf(f, S) + amount
      BY <1>4, <1>5, <2>2, <2>4, <2>5, <3>1, <3>2 DEF ApprovedIn
    <3>4. amount <= DueOf[s] - SumOf(f, S)
      BY <1>6, <2>1, <2>3, <2>6 DEF ApprovedIn
    <3>5. DueOf[s] \in Nat
      BY DEF CustodyAssumption
    <3> QED BY <1>1, <2>4, <3>3, <3>4, <3>5
  <2>7. CASE s # r
    <3>1. {a \in Keys : approvals'[a].receipt = s} = S
      BY <1>4, <1>5, <2>3, <2>4, <2>7
    <3> QED BY <2>2, <2>4, <2>5, <3>1 DEF ApprovedIn
  <2> QED BY <2>6, <2>7
<1>10. \A a \in Keys : ReleasedIn(releases, a) <= approvals'[a].amount
  <2> TAKE a \in Keys
  <2>1. ReleasedIn(releases, a) <= approvals[a].amount
    BY <1>1 DEF RefundHolds
  <2>2. CASE a = k
    <3>1. \A j \in Keys : releases[j].amount \in Nat
      BY <1>1 DEF Rows
    <3>2. ReleasedIn(releases, a) \in Nat
      BY <3>1, AmountsAreNat DEF ReleasedIn
    <3> QED BY <1>1, <1>4, <1>5, <2>1, <2>2, <3>2
  <2> QED BY <1>5, <2>1, <2>2
<1>11. \A a \in Keys, s \in Receipts :
         approvals'[a].receipt = s /\ receipts[s] = "voided" => ReleasedIn(releases, a) = 0
  BY <1>1, <1>4, <1>5, <1>6 DEF RefundHolds
<1>12. \A j \in Keys : releasing[j] # None =>
         /\ releasing[j].approval \in Keys /\ releasing[j].approval # k
         /\ approvals'[releasing[j].approval] = approvals[releasing[j].approval]
  BY <1>1, <1>3, <1>5 DEF RefundHolds, ReleaseHolds
<1>13. \A j \in Keys : releasing[j] # None => ReleaseHolds(j)'
  BY <1>1, <1>3, <1>12 DEF RefundHolds, ReleaseHolds
<1>14. RefundHolds'
  <2>1. \A j, i \in Keys :
          /\ releasing[j] # None /\ releasing[i] # None
          /\ approvals'[releasing[j].approval].receipt = approvals'[releasing[i].approval].receipt
          => j = i
    BY <1>1, <1>12 DEF RefundHolds
  <2>2. releases' = releases /\ releasing' = releasing /\ receipts' = receipts
    BY <1>3
  <2> QED BY <2>1, <2>2, <1>9, <1>10, <1>11, <1>13 DEF RefundHolds
<1> QED BY <1>7, <1>8, <1>14 DEF CustodyInv

\* A release reads the cash under the lock of its adjustment.
LEMMA BeginReleaseKeeps ==
    ASSUME CustodyAssumption, CustodyInv, NEW k \in Keys, NEW a \in Keys, NEW amount \in Amounts,
           BeginRelease(k, a, amount)
    PROVE  CustodyInv'
<1>1. Rows /\ RefundHolds /\ HandoverHolds /\ amount \in Nat /\ amount > 0
  BY DEF CustodyInv, CustodyAssumption
<1>2. PICK row : row = [approval |-> a, amount |-> amount]
  OBVIOUS
<1>3. /\ releases[k] = None /\ releasing[k] = None /\ approvals[a] # Unapproved
      /\ Unlocked(approvals[a].receipt) /\ receipts[approvals[a].receipt] # "voided"
      /\ amount <= approvals[a].amount - ReleasedIn(releases, a)
      /\ releasing' = [releasing EXCEPT ![k] = row] /\ receipts' = receipts
      /\ approvals' = approvals /\ releases' = releases /\ remittances' = remittances
  BY <1>2, RefundNow DEF BeginRelease
<1>4. row.approval = a /\ row.amount = amount /\ row \in [approval : Keys \cup {0}, amount : Nat]
  BY <1>1, <1>2
<1>5. releasing'[k] = row /\ \A j \in Keys : j # k => releasing'[j] = releasing[j]
  BY <1>1, <1>3 DEF Rows
<1>6. Rows'
  BY <1>1, <1>3, <1>4 DEF Rows
<1>7. HandoverHolds'
  BY <1>1, <1>3, HandoverStays
<1>8. ReleaseHolds(k)'
  <2>1. \A j \in Keys : releases[j].amount \in Nat /\ approvals[j].amount \in Nat
    BY <1>1 DEF Rows, Unapproved
  <2>2. ReleasedIn(releases, a) \in Nat
    BY <2>1, AmountsAreNat DEF ReleasedIn
  <2>3. ReleasedIn(releases, a) + amount <= approvals[a].amount
    BY <1>1, <1>3, <2>1, <2>2
  <2> QED BY <1>3, <1>4, <1>5, <2>3 DEF ReleaseHolds
<1>9. \A j \in Keys : releasing'[j] # None => ReleaseHolds(j)'
  BY <1>1, <1>3, <1>5, <1>8 DEF RefundHolds, ReleaseHolds
<1>10. \A j \in Keys : j # k /\ releasing'[j] # None =>
         approvals[releasing'[j].approval].receipt # approvals[a].receipt
  BY <1>3, <1>5 DEF Unlocked
<1>11. RefundHolds'
  BY <1>1, <1>3, <1>4, <1>5, <1>9, <1>10 DEF RefundHolds
<1> QED BY <1>6, <1>7, <1>11 DEF CustodyInv

LEMMA LoseReleaseKeeps ==
    ASSUME CustodyAssumption, CustodyInv, NEW k \in Keys, LoseRelease(k)
    PROVE  CustodyInv'
<1>1. Rows /\ RefundHolds /\ HandoverHolds
  BY DEF CustodyInv
<1>2. /\ releasing' = [releasing EXCEPT ![k] = None] /\ receipts' = receipts
      /\ approvals' = approvals /\ releases' = releases /\ remittances' = remittances
  BY DEF LoseRelease
<1>3. releasing'[k] = None /\ \A j \in Keys : j # k => releasing'[j] = releasing[j]
  BY <1>1, <1>2 DEF Rows
<1>4. Rows'
  <2>1. None \in [approval : Keys \cup {0}, amount : Nat]
    BY DEF None
  <2> QED BY <1>1, <1>2, <2>1 DEF Rows
<1>5. HandoverHolds'
  BY <1>1, <1>2, HandoverStays
<1>6. RefundHolds'
  BY <1>1, <1>2, <1>3 DEF RefundHolds, ReleaseHolds
<1> QED BY <1>4, <1>5, <1>6 DEF CustodyInv

\* A release is written where it kept its place.
LEMMA FinishReleaseKeeps ==
    ASSUME CustodyAssumption, CustodyInv, NEW k \in Keys, FinishRelease(k)
    PROVE  CustodyInv'
<1>1. Rows /\ RefundHolds /\ HandoverHolds
  BY DEF CustodyInv
<1>2. PICK x : x = releasing[k]
  OBVIOUS
<1>3. PICK a : a = x.approval
  OBVIOUS
<1>4. PICK m : m = x.amount
  OBVIOUS
<1>5. PICK rs : rs = releases'
  OBVIOUS
<1>6. /\ x # None /\ rs = [releases EXCEPT ![k] = x] /\ releasing' = [releasing EXCEPT ![k] = None]
      /\ receipts' = receipts /\ approvals' = approvals /\ remittances' = remittances
  BY <1>2, <1>5 DEF FinishRelease
<1>7. /\ x \in [approval : Keys \cup {0}, amount : Nat] /\ m \in Nat
      /\ rs[k] = x /\ \A j \in Keys : j # k => rs[j] = releases[j]
      /\ releasing'[k] = None /\ \A j \in Keys : j # k => releasing'[j] = releasing[j]
  BY <1>1, <1>2, <1>4, <1>6 DEF Rows
<1>8. /\ releases[k] = None /\ a \in Keys /\ approvals[a] # Unapproved
      /\ receipts[approvals[a].receipt] # "voided"
      /\ ReleasedIn(releases, a) + m <= approvals[a].amount
  BY <1>1, <1>2, <1>3, <1>4, <1>6 DEF RefundHolds, ReleaseHolds
<1>9. releases[k].amount = 0 /\ releases[k].approval = 0 /\ 0 \notin Keys
  BY <1>8 DEF None, CustodyAssumption
<1>10. /\ \A j \in Keys : releases[j].amount \in Nat /\ rs[j].amount \in Nat
       /\ \A j \in Keys : AmountIn(releases)[j] = releases[j].amount /\ AmountIn(rs)[j] = rs[j].amount
  BY <1>1, <1>7 DEF Rows, AmountIn
<1>11. Rows'
  <2>1. None \in [approval : Keys \cup {0}, amount : Nat]
    BY DEF None
  <2>2. rs \in [Keys -> [approval : Keys \cup {0}, amount : Nat]]
    BY <1>1, <1>6, <1>7 DEF Rows
  <2>3. releasing' \in [Keys -> [approval : Keys \cup {0}, amount : Nat]]
    BY <1>1, <1>6, <2>1 DEF Rows
  <2> QED BY <1>1, <1>5, <1>6, <2>2, <2>3 DEF Rows
<1>12. ASSUME NEW b \in Keys
       PROVE  ReleasedIn(rs, b) = IF b = a THEN ReleasedIn(releases, a) + m ELSE ReleasedIn(releases, b)
  <2>1. PICK S : S = {j \in Keys : releases[j].approval = b}
    OBVIOUS
  <2>2. k \notin S /\ S \in SUBSET Keys /\ IsFiniteSet(S)
    BY <1>9, <2>1, FS_Subset DEF CustodyAssumption
  <2>3. SumOf(AmountIn(rs), S) = SumOf(AmountIn(releases), S)
    <3>1. \A j \in S : AmountIn(rs)[j] = AmountIn(releases)[j]
      BY <1>7, <1>10, <2>2
    <3> QED BY <3>1, SumOfSame
  <2>4. CASE b = a
    <3>1. {j \in Keys : rs[j].approval = b} = S \cup {k}
      BY <1>3, <1>7, <2>1, <2>4
    <3>2. SumOf(AmountIn(rs), S \cup {k}) = SumOf(AmountIn(rs), S) + AmountIn(rs)[k]
      <4>1. \A j \in S \cup {k} : AmountIn(rs)[j] \in Int
        BY <1>10, <2>2
      <4> QED BY <2>2, <4>1, SumWith
    <3>3. AmountIn(rs)[k] = m
      BY <1>4, <1>7, <1>10
    <3> QED BY <2>1, <2>3, <2>4, <3>1, <3>2, <3>3 DEF ReleasedIn
  <2>5. CASE b # a
    <3>1. {j \in Keys : rs[j].approval = b} = S
      BY <1>3, <1>7, <2>1, <2>2, <2>5
    <3> QED BY <2>1, <2>3, <2>5, <3>1 DEF ReleasedIn
  <2> QED BY <2>4, <2>5
<1>13. HandoverHolds'
  <2>1. PICK f : f = LeftIn(releases, remittances)
    OBVIOUS
  <2>2. PICK g : g = LeftIn(rs, remittances)
    OBVIOUS
  <2>3. remittances \in Seq(RemittanceType) /\ IsFiniteSet(Keys)
    BY <1>1 DEF Rows, CustodyAssumption
  <2>4. /\ \A j \in Keys : f[j] \in Int /\ g[j] \in Int
        /\ SumOf(f, Keys) \in Int /\ SumOf(g, Keys) \in Int
    BY <1>10, <2>1, <2>2, <2>3, LeftIsInt
  <2>5. g[k] = f[k] + m /\ \A j \in Keys : j # k => g[j] = f[j]
    <3>1. \A j \in Keys : SumOf(LineIn(remittances, j), StandingIn(remittances)) \in Int
      BY <1>10, <2>3, LeftIsInt
    <3> QED BY <1>4, <1>7, <1>9, <2>1, <2>2, <3>1 DEF LeftIn
  <2>6. SumOf(g, Keys) = SumOf(f, Keys) + m
    <3>1. SumOf(g, Keys) = SumOf(f, Keys) + (g[k] - f[k])
      BY <2>3, <2>4, <2>5, SumUpdated
    <3> QED BY <1>7, <2>4, <2>5, <3>1
  <2>7. SumOf(AmountIn(rs), Keys) = SumOf(AmountIn(releases), Keys) + m
    <3>1. PICK u : u = AmountIn(releases)
      OBVIOUS
    <3>2. PICK v : v = AmountIn(rs)
      OBVIOUS
    <3>3. /\ \A j \in Keys : u[j] \in Int /\ v[j] \in Int /\ (j # k => v[j] = u[j])
          /\ u[k] = 0 /\ v[k] = m
      BY <1>4, <1>7, <1>9, <1>10, <3>1, <3>2
    <3>4. SumOf(v, Keys) = SumOf(u, Keys) + (v[k] - u[k])
      BY <2>3, <3>3, SumUpdated
    <3>5. v[k] - u[k] = m
      BY <1>7, <3>3
    <3> QED BY <3>1, <3>2, <3>4, <3>5
  <2>8. \A j \in Keys : g[j] >= 0
    BY <1>1, <1>7, <2>1, <2>4, <2>5 DEF HandoverHolds
  <2>9. SumOf(AmountOf, LockedIn(receipts)) + SumOf(g, Keys)
        = SumOf(TotalIn(remittances), StandingIn(remittances)) + SumOf(AmountIn(rs), Keys)
    <3>1. SumOf(AmountOf, LockedIn(receipts)) \in Nat
      BY CashIsNat DEF LockedIn
    <3>2. SumOf(AmountIn(releases), Keys) \in Nat
      BY <1>10, AmountsAreNat
    <3>3. SumOf(TotalIn(remittances), StandingIn(remittances)) \in Int
      BY <1>10, <2>3, LeftIsInt
    <3>4. SumOf(AmountOf, LockedIn(receipts)) + SumOf(f, Keys)
          = SumOf(TotalIn(remittances), StandingIn(remittances)) + SumOf(AmountIn(releases), Keys)
      BY <1>1, <2>1 DEF HandoverHolds
    <3> QED BY <1>7, <2>4, <2>6, <2>7, <3>1, <3>2, <3>3, <3>4
  <2> QED BY <1>1, <1>5, <1>6, <2>2, <2>8, <2>9 DEF HandoverHolds
<1>14. RefundHolds'
  <2>1. \A b \in Keys : ReleasedIn(rs, b) <= approvals[b].amount
    BY <1>1, <1>8, <1>12 DEF RefundHolds
  <2>2. \A b \in Keys, r \in Receipts :
          approvals[b].receipt = r /\ receipts[r] = "voided" => ReleasedIn(rs, b) = 0
    BY <1>1, <1>8, <1>12 DEF RefundHolds
  <2>3. ASSUME NEW j \in Keys, releasing'[j] # None
        PROVE  ReleaseHolds(j)'
    <3>1. j # k /\ releasing'[j] = releasing[j] /\ rs[j] = releases[j]
      BY <1>7, <2>3
    <3>2. ReleaseHolds(j)
      BY <1>1, <2>3, <3>1 DEF RefundHolds
    <3>3. releasing[j].approval # a
      BY <1>1, <1>2, <1>3, <1>6, <2>3, <3>1 DEF RefundHolds
    <3>4. ReleasedIn(rs, releasing[j].approval) = ReleasedIn(releases, releasing[j].approval)
      BY <1>12, <3>2, <3>3 DEF ReleaseHolds
    <3> QED BY <1>5, <1>6, <3>1, <3>2, <3>4 DEF ReleaseHolds
  <2>4. \A i, j \in Keys :
          /\ releasing'[i] # None /\ releasing'[j] # None
          /\ approvals[releasing'[i].approval].receipt = approvals[releasing'[j].approval].receipt
          => i = j
    BY <1>1, <1>7 DEF RefundHolds
  <2> QED BY <1>1, <1>5, <1>6, <2>1, <2>2, <2>3, <2>4 DEF RefundHolds
<1> QED BY <1>11, <1>13, <1>14 DEF CustodyInv

-----------------------------------------------------------------------------
(* Remittances.                                                            *)

\* ns is ms with n among the remittances that stand.
Joins(rs, ms, ns, n) ==
    /\ \A k \in Keys : rs[k].amount \in Nat
    /\ ms \in Seq(RemittanceType) /\ ns \in Seq(RemittanceType) /\ n \in DOMAIN ns
    /\ n \notin StandingIn(ms) /\ StandingIn(ns) = StandingIn(ms) \cup {n}
    /\ \A i \in StandingIn(ms) : ns[i].lines = ms[i].lines /\ ns[i].total = ms[i].total

\* One more remittance stands.
LEMMA OneMoreStands ==
    ASSUME CustodyAssumption, NEW rs, NEW ms, NEW ns, NEW n, Joins(rs, ms, ns, n)
    PROVE  /\ \A k \in Keys : LeftIn(rs, ns)[k] = LeftIn(rs, ms)[k] - ns[n].lines[k]
           /\ SumOf(LeftIn(rs, ns), Keys) = SumOf(LeftIn(rs, ms), Keys) - SumOf(ns[n].lines, Keys)
           /\ SumOf(TotalIn(ns), StandingIn(ns)) = SumOf(TotalIn(ms), StandingIn(ms)) + ns[n].total
           /\ SumOf(ns[n].lines, Keys) \in Nat
<1>0. /\ \A k \in Keys : rs[k].amount \in Nat
      /\ ms \in Seq(RemittanceType) /\ ns \in Seq(RemittanceType) /\ n \in DOMAIN ns
      /\ n \notin StandingIn(ms) /\ StandingIn(ns) = StandingIn(ms) \cup {n}
      /\ \A i \in StandingIn(ms) : ns[i].lines = ms[i].lines /\ ns[i].total = ms[i].total
  BY DEF Joins
<1>1. PICK S : S = StandingIn(ms)
  OBVIOUS
<1>2. /\ S \subseteq DOMAIN ms /\ IsFiniteSet(S) /\ S \subseteq DOMAIN ns /\ IsFiniteSet(Keys)
      /\ \A i \in DOMAIN ms : ms[i] \in RemittanceType
      /\ \A i \in DOMAIN ns : ns[i] \in RemittanceType
      /\ n \notin S /\ StandingIn(ns) = S \cup {n}
  <2>1. S \subseteq DOMAIN ms /\ S \subseteq DOMAIN ns
    BY <1>0, <1>1 DEF StandingIn
  <2>2. IsFiniteSet(S)
    BY <1>0, <1>1, LeftIsInt
  <2> QED BY <1>0, <1>1, <2>1, <2>2 DEF CustodyAssumption
<1>3. \A i \in DOMAIN ns : ns[i].lines \in [Keys -> Nat] /\ ns[i].total \in Nat
  BY <1>0, <1>2 DEF RemittanceType
<1>4. ASSUME NEW k \in Keys
      PROVE  LeftIn(rs, ns)[k] = LeftIn(rs, ms)[k] - ns[n].lines[k]
  <2>1. SumOf(LineIn(ns, k), S) = SumOf(LineIn(ms, k), S)
    <3>1. \A i \in S : LineIn(ns, k)[i] = LineIn(ms, k)[i]
      BY <1>0, <1>1, <1>2 DEF LineIn
    <3> QED BY <3>1, SumOfSame
  <2>2. SumOf(LineIn(ns, k), S \cup {n}) = SumOf(LineIn(ns, k), S) + LineIn(ns, k)[n]
    <3>1. \A i \in S \cup {n} : LineIn(ns, k)[i] \in Int
      BY <1>0, <1>2, <1>3 DEF LineIn
    <3> QED BY <1>0, <1>2, <3>1, SumWith
  <2>3. LineIn(ns, k)[n] = ns[n].lines[k] /\ ns[n].lines[k] \in Nat
    BY <1>0, <1>3 DEF LineIn
  <2>4. SumOf(LineIn(ms, k), S) \in Int
    BY <1>0, <1>1, LeftIsInt
  <2>5. rs[k].amount \in Nat
    BY <1>0
  <2>6. LeftIn(rs, ns)[k] = rs[k].amount - (SumOf(LineIn(ms, k), S) + ns[n].lines[k])
    BY <1>0, <1>2, <2>1, <2>2, <2>3 DEF LeftIn
  <2>7. LeftIn(rs, ms)[k] = rs[k].amount - SumOf(LineIn(ms, k), S)
    BY <1>0, <1>1 DEF LeftIn
  <2> QED BY <2>3, <2>4, <2>5, <2>6, <2>7
<1>5. SumOf(ns[n].lines, Keys) \in Nat
  <2>1. (\A k \in Keys : ns[n].lines[k] \in Nat) /\ Keys \in SUBSET Keys
    BY <1>0, <1>3
  <2> QED BY <1>0, <1>2, <2>1, SumIsMonotone
<1>6. SumOf(LeftIn(rs, ns), Keys) = SumOf(LeftIn(rs, ms), Keys) - SumOf(ns[n].lines, Keys)
  <2>1. \A k \in Keys : LeftIn(rs, ns)[k] \in Int /\ LeftIn(rs, ms)[k] \in Int
                        /\ ns[n].lines[k] \in Int
    BY <1>0, <1>3, LeftIsInt
  <2>2. \A k \in Keys : LeftIn(rs, ms)[k] = LeftIn(rs, ns)[k] + ns[n].lines[k]
    BY <1>0, <1>4, <2>1
  <2>3. SumOf(LeftIn(rs, ms), Keys) = SumOf(LeftIn(rs, ns), Keys) + SumOf(ns[n].lines, Keys)
    BY <1>0, <1>2, <2>1, <2>2, SumOfAdded
  <2>4. SumOf(LeftIn(rs, ns), Keys) \in Int
    BY <1>0, LeftIsInt
  <2> QED BY <1>0, <1>5, <2>3, <2>4
<1>7. SumOf(TotalIn(ns), StandingIn(ns)) = SumOf(TotalIn(ms), StandingIn(ms)) + ns[n].total
  <2>1. SumOf(TotalIn(ns), S) = SumOf(TotalIn(ms), S)
    <3>1. \A i \in S : TotalIn(ns)[i] = TotalIn(ms)[i]
      BY <1>0, <1>1, <1>2 DEF TotalIn
    <3> QED BY <3>1, SumOfSame
  <2>2. SumOf(TotalIn(ns), S \cup {n}) = SumOf(TotalIn(ns), S) + TotalIn(ns)[n]
    <3>1. \A i \in S \cup {n} : TotalIn(ns)[i] \in Int
      BY <1>0, <1>2, <1>3 DEF TotalIn
    <3> QED BY <1>0, <1>2, <3>1, SumWith
  <2>3. TotalIn(ns)[n] = ns[n].total
    BY <1>0 DEF TotalIn
  <2> QED BY <1>0, <1>1, <1>2, <2>1, <2>2, <2>3
<1> QED BY <1>4, <1>5, <1>6, <1>7

\* What of a release fits into the cash the earlier ones leave.
Fitting(u, cash, S, x) ==
    LET left == cash - SumOf(u, {y \in S : y < x})
    IN  IF left <= 0 THEN 0 ELSE IF u[x] <= left THEN u[x] ELSE left

\* The lines fill the cash in the order of the keys and never go past it.
LEMMA FilledInOrder ==
    ASSUME NEW S, IsFiniteSet(S), \A x \in S : x \in Nat, NEW cash \in Nat,
           NEW u, \A x \in S : u[x] \in Nat, NEW lines,
           \A x \in S : lines[x] = Fitting(u, cash, S, x)
    PROVE  SumOf(lines, S) <= cash /\ \A x \in S : lines[x] \in Nat /\ lines[x] <= u[x]
<1> DEFINE Below(x) == {y \in S : y < x}
           Closed(s) == \A x \in s, y \in S : y < x => y \in s
           Filled(s) == SumOf(lines, s) = IF SumOf(u, s) <= cash THEN SumOf(u, s) ELSE cash
           B == {s \in SUBSET S : Closed(s) /\ ~Filled(s)}
<1>1. \A s \in SUBSET S : IsFiniteSet(s) /\ SumOf(u, s) \in Nat
  <2> TAKE s \in SUBSET S
  <2>1. IsFiniteSet(s) /\ (\A x \in s : u[x] \in Nat) /\ s \in SUBSET s
    BY FS_Subset
  <2> QED BY <2>1, SumIsMonotone
<1>2. \A x \in S : lines[x] \in Nat /\ lines[x] <= u[x]
  <2> TAKE x \in S
  <2>1. PICK left : left = cash - SumOf(u, {y \in S : y < x})
    OBVIOUS
  <2>2. SumOf(u, {y \in S : y < x}) \in Nat
    BY <1>1
  <2>3. left \in Int
    BY <2>1, <2>2
  <2>4. lines[x] = IF left <= 0 THEN 0 ELSE IF u[x] <= left THEN u[x] ELSE left
    BY <2>1 DEF Fitting
  <2>5. u[x] \in Nat
    OBVIOUS
  <2> QED BY <2>3, <2>4, <2>5
<1>3. B = {}
  <2> SUFFICES ASSUME B # {} PROVE FALSE
    OBVIOUS
  <2>1. PICK s \in B : \A t \in B : t \subseteq s => t = s
    <3>1. B \subseteq SUBSET S
      OBVIOUS
    <3> HIDE DEF B
    <3> QED BY <3>1, SmallestMember
  <2>2. s \in SUBSET S /\ Closed(s) /\ ~Filled(s)
    BY <2>1
  <2>3. s # {}
    <3>1. SumOf(lines, {}) = 0 /\ SumOf(u, {}) = 0
      BY SumOfNone
    <3> QED BY <2>2, <3>1
  <2>4. PICK x \in s : \A y \in s : y <= x
    <3>1. IsFiniteSet(s) /\ s \subseteq Nat
      BY <1>1, <2>2
    <3> QED BY <2>3, <3>1, LargestExists
  <2>5. x \in S /\ x \in Nat /\ \A y \in S : y \in Nat
    BY <2>2
  <2>6. PICK t : t = s \ {x}
    OBVIOUS
  <2>7. t = {y \in S : y < x}
    <3>1. \A y \in t : y \in S /\ y < x
      <4> TAKE y \in t
      <4>1. y \in s /\ y # x /\ y \in Nat /\ y <= x
        BY <2>2, <2>4, <2>5, <2>6
      <4> QED BY <2>2, <2>5, <4>1
    <3>2. \A y \in S : y < x => y \in t
      <4> TAKE y \in S
      <4> HAVE y < x
      <4>1. y \in s
        BY <2>2
      <4>2. y # x
        BY <2>5
      <4> QED BY <2>6, <4>1, <4>2
    <3> QED BY <3>1, <3>2
  <2>8. t \in SUBSET S /\ Closed(t) /\ t \subseteq s /\ t # s
    BY <2>2, <2>4, <2>5, <2>6, <2>7
  <2>9. Filled(t)
    BY <2>1, <2>8
  <2>10. PICK p : p = SumOf(u, t)
    OBVIOUS
  <2>11. p \in Nat /\ u[x] \in Nat /\ lines[x] \in Nat
    BY <1>1, <1>2, <2>5, <2>8, <2>10
  <2>12. SumOf(u, s) = u[x] + p
    <3>1. \A y \in s : u[y] \in Int
      BY <2>2
    <3>2. SumOf(u, s) = u[x] + SumOf(u, s \ {x})
      BY <1>1, <2>2, <3>1, SumWithout
    <3> QED BY <2>6, <2>10, <3>2
  <2>13. SumOf(lines, s) = lines[x] + SumOf(lines, t)
    <3>1. \A y \in s : lines[y] \in Int
      BY <1>2, <2>2
    <3>2. SumOf(lines, s) = lines[x] + SumOf(lines, s \ {x})
      BY <1>1, <2>2, <3>1, SumWithout
    <3> QED BY <2>6, <3>2
  <2>14. PICK left : left = cash - p
    OBVIOUS
  <2>15. lines[x] = IF left <= 0 THEN 0 ELSE IF u[x] <= left THEN u[x] ELSE left
    BY <2>5, <2>7, <2>10, <2>14 DEF Fitting
  <2>16. SumOf(lines, t) = IF p <= cash THEN p ELSE cash
    BY <2>9, <2>10
  <2>17. lines[x] + SumOf(lines, t) = IF u[x] + p <= cash THEN u[x] + p ELSE cash
    BY <2>11, <2>14, <2>15, <2>16
  <2>18. Filled(s)
    BY <2>12, <2>13, <2>17
  <2> QED BY <2>2, <2>18
<1>4. Filled(S)
  <2>1. S \in SUBSET S /\ Closed(S)
    OBVIOUS
  <2> QED BY <1>3, <2>1
<1>5. SumOf(u, S) \in Nat
  BY <1>1
<1> QED BY <1>2, <1>4, <1>5

\* The larger and the smaller of two numbers.
LEMMA OfTwo ==
    ASSUME NEW a \in Int, NEW b \in Int
    PROVE  /\ Max({a, b}) = IF a >= b THEN a ELSE b
           /\ Min({a, b}) = IF a <= b THEN a ELSE b
<1>1. PICK m \in {a, b} : m = IF a >= b THEN a ELSE b
  OBVIOUS
<1>2. PICK n \in {a, b} : n = IF a <= b THEN a ELSE b
  OBVIOUS
<1>3. (\A y \in {a, b} : m >= y) /\ \A x \in {a, b} : (\A y \in {a, b} : x >= y) => x = m
  BY <1>1
<1>4. (\A y \in {a, b} : n <= y) /\ \A x \in {a, b} : (\A y \in {a, b} : x <= y) => x = n
  BY <1>2
<1>5. Max({a, b}) = m
  BY <1>3 DEF Max
<1>6. Min({a, b}) = n
  BY <1>4 DEF Min
<1> QED BY <1>1, <1>2, <1>5, <1>6

\* The refund lines of a remittance take no more than was left and than it hands over.
LEMMA LinesFit ==
    ASSUME CustodyAssumption, Rows, HandoverHolds, NEW items \in SUBSET Receipts
    PROVE  /\ Lines(items) \in [Keys -> Nat]
           /\ \A k \in Keys : Lines(items)[k] <= LeftIn(releases, remittances)[k]
           /\ SumOf(Lines(items), Keys) <= SumOf(AmountOf, items)
<1>1. PICK u : u = LeftIn(releases, remittances)
  OBVIOUS
<1>2. PICK cash : cash = SumOf(AmountOf, items)
  OBVIOUS
<1>3. PICK lines : lines = Lines(items)
  OBVIOUS
<1>4. cash \in Nat /\ IsFiniteSet(Keys) /\ \A k \in Keys : k \in Nat
  BY <1>2, CashIsNat DEF CustodyAssumption
<1>5. \A k \in Keys : u[k] \in Nat
  <2>1. \A k \in Keys : releases[k].amount \in Nat
    BY DEF Rows
  <2>2. \A k \in Keys : u[k] \in Int
    BY <1>1, <2>1, LeftIsInt DEF Rows
  <2> QED BY <1>1, <2>2 DEF HandoverHolds
<1>6. ASSUME NEW k \in Keys
      PROVE  lines[k] = Fitting(u, cash, Keys, k)
  <2>1. PICK S : S = {j \in Keys : j < k}
    OBVIOUS
  <2>2. PICK left : left = cash - SumOf(u, S)
    OBVIOUS
  <2>3. SumOf(u, S) \in Nat
    <3>1. (\A j \in S : u[j] \in Nat) /\ S \in SUBSET S /\ IsFiniteSet(S)
      BY <1>4, <1>5, <2>1, FS_Subset
    <3> QED BY <3>1, SumIsMonotone
  <2>4. left \in Int /\ u[k] \in Int
    BY <1>4, <1>5, <2>2, <2>3
  <2>5. MapThenSumSet(Unremitted, S) = SumOf(u, S) /\ Unremitted(k) = u[k]
    <3>1. S \in SUBSET Keys /\ Keys \in SUBSET Keys
      BY <2>1
    <3> QED BY <1>1, <3>1, LeftNow
  <2>6. Cash(items) - MapThenSumSet(Unremitted, {j \in Keys : j < k}) = left
    BY <1>2, <2>1, <2>2, <2>5, CashIsSum
  <2>7. lines[k] = Max({0, Min({Unremitted(k), left})})
    BY <1>3, <2>6 DEF Lines
  <2>8. Min({u[k], left}) = IF u[k] <= left THEN u[k] ELSE left
    BY <2>4, OfTwo
  <2>9. PICK m : m = Min({u[k], left})
    OBVIOUS
  <2>10. m \in Int
    BY <2>4, <2>8, <2>9
  <2>11. lines[k] = IF 0 >= m THEN 0 ELSE m
    BY <2>5, <2>7, <2>9, <2>10, OfTwo
  <2>12. u[k] \in Nat
    BY <1>5
  <2>13. lines[k] = IF left <= 0 THEN 0 ELSE IF u[k] <= left THEN u[k] ELSE left
    BY <2>4, <2>8, <2>9, <2>11, <2>12
  <2> QED BY <2>1, <2>2, <2>13 DEF Fitting
<1>7. SumOf(lines, Keys) <= cash /\ \A k \in Keys : lines[k] \in Nat /\ lines[k] <= u[k]
  BY <1>4, <1>5, <1>6, FilledInOrder
<1>8. lines \in [Keys -> Nat]
  <2>1. lines = [k \in Keys |-> lines[k]]
    BY <1>3 DEF Lines
  <2> QED BY <1>7, <2>1
<1> QED BY <1>1, <1>2, <1>3, <1>7, <1>8

\* A remittance takes receipts that are held, and no more of the refunds than was left.
LEMMA SubmitKeeps ==
    ASSUME CustodyAssumption, CustodyInv, NEW items \in SUBSET Receipts, NEW lines \in [Keys -> Nat],
           \A r \in items : receipts[r] = "held",
           \A k \in Keys : lines[k] <= LeftIn(releases, remittances)[k],
           SumOf(lines, Keys) <= SumOf(AmountOf, items),
           SubmitWith(items, lines)
    PROVE  CustodyInv'
<1>1. Rows /\ RefundHolds /\ HandoverHolds
  BY DEF CustodyInv
<1>2. PICK ms : ms = remittances
  OBVIOUS
<1>3. PICK ns : ns = remittances'
  OBVIOUS
<1>4. PICK n : n = Len(ms) + 1
  OBVIOUS
<1>5. PICK row : row = Handover(items, lines)
  OBVIOUS
<1>6. PICK rcs : rcs = receipts'
  OBVIOUS
<1>7. /\ ns = Append(ms, row) /\ approvals' = approvals /\ releasing' = releasing
      /\ rcs = [r \in Receipts |-> IF r \in items THEN "locked" ELSE receipts[r]]
      /\ releases' = releases
  BY <1>2, <1>3, <1>5, <1>6 DEF SubmitWith
<1>8. SumOf(AmountOf, items) \in Nat /\ SumOf(lines, Keys) \in Int
  <2>1. \A k \in Keys : lines[k] \in Int
    OBVIOUS
  <2>2. IsFiniteSet(Keys)
    BY DEF CustodyAssumption
  <2> QED BY <2>1, <2>2, CashIsNat, SumIsInt
<1>9. /\ row.items = items /\ row.lines = lines /\ row.status = "submitted"
      /\ row.total = SumOf(AmountOf, items) - SumOf(lines, Keys)
  BY <1>5, CashIsSum DEF Handover
<1>10. row \in RemittanceType
  <2>1. row.total \in Nat
    BY <1>8, <1>9
  <2>2. row = [items |-> row.items, lines |-> row.lines, status |-> row.status, total |-> row.total]
    BY <1>5 DEF Handover
  <2> QED BY <1>9, <2>1, <2>2 DEF RemittanceType
<1>11. /\ ms \in Seq(RemittanceType) /\ ns \in Seq(RemittanceType) /\ n \in DOMAIN ns
       /\ n \notin DOMAIN ms /\ DOMAIN ns = DOMAIN ms \cup {n} /\ ns[n] = row
       /\ \A i \in DOMAIN ms : ns[i] = ms[i]
  <2>1. ms \in Seq(RemittanceType)
    BY <1>1, <1>2 DEF Rows
  <2> QED BY <1>4, <1>7, <1>10, <2>1
<1>12. StandingIn(ns) = StandingIn(ms) \cup {n} /\ n \notin StandingIn(ms)
       /\ StandingIn(ms) \subseteq DOMAIN ms
  BY <1>9, <1>11 DEF StandingIn
<1>13. /\ \A k \in Keys : LeftIn(releases, ns)[k] = LeftIn(releases, ms)[k] - ns[n].lines[k]
       /\ SumOf(LeftIn(releases, ns), Keys) = SumOf(LeftIn(releases, ms), Keys) - SumOf(ns[n].lines, Keys)
       /\ SumOf(TotalIn(ns), StandingIn(ns)) = SumOf(TotalIn(ms), StandingIn(ms)) + ns[n].total
  <2>1. \A k \in Keys : releases[k].amount \in Nat
    BY <1>1 DEF Rows
  <2>2. \A i \in StandingIn(ms) : ns[i].lines = ms[i].lines /\ ns[i].total = ms[i].total
    BY <1>11, <1>12
  <2>3. PICK rs : rs = releases
    OBVIOUS
  <2>4. \A k \in Keys : rs[k].amount \in Nat
    BY <2>1, <2>3
  <2>5. Joins(rs, ms, ns, n)
    BY <1>11, <1>12, <2>2, <2>4 DEF Joins
  <2>6. /\ \A k \in Keys : LeftIn(rs, ns)[k] = LeftIn(rs, ms)[k] - ns[n].lines[k]
        /\ SumOf(LeftIn(rs, ns), Keys) = SumOf(LeftIn(rs, ms), Keys) - SumOf(ns[n].lines, Keys)
        /\ SumOf(TotalIn(ns), StandingIn(ns)) = SumOf(TotalIn(ms), StandingIn(ms)) + ns[n].total
    BY <2>5, OneMoreStands
  <2> QED BY <2>3, <2>6
<1>14. Rows'
  <2>1. rcs \in [Receipts -> {"none", "held", "locked", "voided"}]
    BY <1>1, <1>7 DEF Rows
  <2> QED BY <1>1, <1>3, <1>6, <1>7, <1>11, <2>1 DEF Rows
<1>15. RefundHolds'
  <2>1. \A r \in Receipts : rcs[r] = "voided" <=> receipts[r] = "voided"
    BY <1>7
  <2> QED BY <1>1, <1>6, <1>7, <2>1, RefundStays
<1>16. SumOf(AmountOf, LockedIn(rcs)) = SumOf(AmountOf, LockedIn(receipts)) + SumOf(AmountOf, items)
  <2>1. LockedIn(rcs) = LockedIn(receipts) \cup items /\ LockedIn(receipts) \cap items = {}
    BY <1>1, <1>7 DEF LockedIn, Rows
  <2>2. LockedIn(receipts) \in SUBSET Receipts
    BY DEF LockedIn
  <2>3. /\ IsFiniteSet(LockedIn(receipts)) /\ IsFiniteSet(items)
        /\ \A r \in LockedIn(receipts) \cup items : AmountOf[r] \in Int
    BY <2>2, CashIsNat
  <2> QED BY <2>1, <2>3, SumOfParts
<1>17. HandoverHolds'
  <2>1. \A k \in Keys : LeftIn(releases, ns)[k] >= 0
    <3> TAKE k \in Keys
    <3>1. \A j \in Keys : releases[j].amount \in Nat
      BY <1>1 DEF Rows
    <3>2. LeftIn(releases, ms)[k] \in Int
      BY <1>11, <3>1, LeftIsInt
    <3>3. lines[k] \in Nat /\ lines[k] <= LeftIn(releases, ms)[k]
      BY <1>2
    <3>4. LeftIn(releases, ns)[k] = LeftIn(releases, ms)[k] - lines[k]
      BY <1>9, <1>11, <1>13
    <3> QED BY <3>2, <3>3, <3>4
  <2>2. SumOf(AmountOf, LockedIn(rcs)) + SumOf(LeftIn(releases, ns), Keys)
        = SumOf(TotalIn(ns), StandingIn(ns)) + SumOf(AmountIn(releases), Keys)
    <3>1. \A j \in Keys : releases[j].amount \in Nat
      BY <1>1 DEF Rows
    <3>2. SumOf(AmountOf, LockedIn(receipts)) \in Nat
      BY CashIsNat DEF LockedIn
    <3>3. SumOf(AmountIn(releases), Keys) \in Nat
      BY <3>1, AmountsAreNat
    <3>4. SumOf(TotalIn(ms), StandingIn(ms)) \in Int /\ SumOf(LeftIn(releases, ms), Keys) \in Int
      BY <1>11, <3>1, LeftIsInt
    <3>5. SumOf(AmountOf, LockedIn(receipts)) + SumOf(LeftIn(releases, ms), Keys)
          = SumOf(TotalIn(ms), StandingIn(ms)) + SumOf(AmountIn(releases), Keys)
      BY <1>1, <1>2 DEF HandoverHolds
    <3>6. SumOf(LeftIn(releases, ns), Keys) = SumOf(LeftIn(releases, ms), Keys) - SumOf(lines, Keys)
      BY <1>9, <1>11, <1>13
    <3>7. SumOf(TotalIn(ns), StandingIn(ns))
          = SumOf(TotalIn(ms), StandingIn(ms)) + (SumOf(AmountOf, items) - SumOf(lines, Keys))
      BY <1>9, <1>11, <1>13
    <3> QED BY <1>8, <1>16, <3>2, <3>3, <3>4, <3>5, <3>6, <3>7
  <2>3. \A i \in StandingIn(ms) : ms[i].items \cap items = {}
    BY <1>1, <1>2 DEF HandoverHolds
  <2>4. \A i, j \in StandingIn(ns) : i # j => ns[i].items \cap ns[j].items = {}
    <3>1. \A i, j \in StandingIn(ms) : i # j => ms[i].items \cap ms[j].items = {}
      BY <1>1, <1>2 DEF HandoverHolds
    <3>2. ns[n].items = items /\ \A i \in StandingIn(ms) : ns[i].items = ms[i].items
      BY <1>9, <1>11, <1>12
    <3> QED BY <1>12, <2>3, <3>1, <3>2
  <2>5. \A r \in Receipts : rcs[r] = "locked" <=> \E i \in StandingIn(ns) : r \in ns[i].items
    <3>1. \A r \in Receipts : receipts[r] = "locked" <=> \E i \in StandingIn(ms) : r \in ms[i].items
      BY <1>1, <1>2 DEF HandoverHolds
    <3>2. ns[n].items = items /\ \A i \in StandingIn(ms) : ns[i].items = ms[i].items
      BY <1>9, <1>11, <1>12
    <3>3. \A r \in Receipts : (\E i \in StandingIn(ns) : r \in ns[i].items)
            <=> r \in items \/ \E i \in StandingIn(ms) : r \in ms[i].items
      BY <1>12, <3>2
    <3> QED BY <1>7, <3>1, <3>3
  <2>6. \A i \in DOMAIN ns :
          ns[i].total = SumOf(AmountOf, ns[i].items) - SumOf(ns[i].lines, Keys)
    BY <1>1, <1>2, <1>9, <1>11 DEF HandoverHolds
  <2> QED BY <1>3, <1>6, <1>7, <2>1, <2>2, <2>4, <2>5, <2>6 DEF HandoverHolds
<1> QED BY <1>14, <1>15, <1>17 DEF CustodyInv

LEMMA SubmitsKeep ==
    ASSUME CustodyAssumption, CustodyInv, NEW date, Submit(date) \/ SubmitCross(date)
    PROVE  CustodyInv'
<1>1. Rows /\ RefundHolds /\ HandoverHolds
  BY DEF CustodyInv
<1>2. PICK items : items = HeldOn(date)
  OBVIOUS
<1>3. items \in SUBSET Receipts /\ \A r \in items : receipts[r] = "held"
  BY <1>2 DEF HeldOn
<1>4. CASE Submit(date)
  <2>1. PICK lines : lines = Lines(items)
    OBVIOUS
  <2>2. /\ lines \in [Keys -> Nat] /\ SumOf(lines, Keys) <= SumOf(AmountOf, items)
        /\ \A k \in Keys : lines[k] <= LeftIn(releases, remittances)[k]
    BY <1>1, <1>3, <2>1, LinesFit
  <2>3. SubmitWith(items, lines)
    BY <1>2, <1>4, <2>1 DEF Submit
  <2> QED BY <1>3, <2>2, <2>3, SubmitKeeps
<1>5. CASE SubmitCross(date)
  <2>1. PICK cross : cross = items \cap CrossArea
    OBVIOUS
  <2>2. cross \in SUBSET Receipts /\ \A r \in cross : receipts[r] = "held"
    BY <1>3, <2>1
  <2>3. PICK lines : lines = NoLines
    OBVIOUS
  <2>4. lines \in [Keys -> Nat] /\ \A k \in Keys : lines[k] = 0
    BY <2>3 DEF NoLines
  <2>5. SumOf(lines, Keys) = 0
    <3>1. IsFiniteSet(Keys)
      BY DEF CustodyAssumption
    <3> QED BY <2>4, <3>1, SumOfZeros
  <2>6. SumOf(lines, Keys) <= SumOf(AmountOf, cross)
    <3>1. SumOf(AmountOf, cross) \in Nat
      BY <2>2, CashIsNat
    <3> QED BY <2>5, <3>1
  <2>7. \A k \in Keys : lines[k] <= LeftIn(releases, remittances)[k]
    <3>1. \A k \in Keys : releases[k].amount \in Nat
      BY <1>1 DEF Rows
    <3>2. \A k \in Keys : LeftIn(releases, remittances)[k] \in Int
      BY <1>1, <3>1, LeftIsInt DEF Rows
    <3> QED BY <1>1, <2>4, <3>2 DEF HandoverHolds
  <2>8. SubmitWith(cross, lines)
    BY <1>2, <1>5, <2>1, <2>3 DEF SubmitCross
  <2> QED BY <2>2, <2>4, <2>6, <2>7, <2>8, SubmitKeeps
<1> QED BY <1>4, <1>5

\* What is left depends on the lines of the remittances that stand.
LEMMA LeftStays ==
    ASSUME NEW rs, NEW ms, NEW ns, DOMAIN ns = DOMAIN ms, StandingIn(ns) = StandingIn(ms),
           \A i \in DOMAIN ms : ns[i].lines = ms[i].lines /\ ns[i].total = ms[i].total
    PROVE  LeftIn(rs, ns) = LeftIn(rs, ms) /\ TotalIn(ns) = TotalIn(ms)
<1>1. TotalIn(ns) = TotalIn(ms)
  BY DEF TotalIn
<1>2. \A k : LineIn(ns, k) = LineIn(ms, k)
  BY DEF LineIn
<1>3. LeftIn(rs, ns) = LeftIn(rs, ms)
  BY <1>2 DEF LeftIn
<1> QED BY <1>1, <1>3

LEMMA ReceiveKeeps ==
    ASSUME CustodyInv, NEW i \in DOMAIN remittances, Receive(i)
    PROVE  CustodyInv'
<1>1. Rows /\ RefundHolds /\ HandoverHolds
  BY DEF CustodyInv
<1>2. PICK ms : ms = remittances
  OBVIOUS
<1>3. PICK ns : ns = remittances'
  OBVIOUS
<1>4. PICK row : row = [ms[i] EXCEPT !.status = "received"]
  OBVIOUS
<1>5. /\ ms[i].status = "submitted" /\ ns = [ms EXCEPT ![i] = row]
      /\ receipts' = receipts /\ approvals' = approvals /\ releasing' = releasing /\ releases' = releases
  BY <1>2, <1>3, <1>4 DEF Receive
<1>6. ms \in Seq(RemittanceType) /\ ms[i] \in RemittanceType /\ i \in DOMAIN ms
  <2>1. ms \in Seq(RemittanceType) /\ i \in DOMAIN ms
    BY <1>1, <1>2 DEF Rows
  <2> QED BY <2>1
<1>7. /\ row \in RemittanceType /\ row.status = "received" /\ row.items = ms[i].items
      /\ row.lines = ms[i].lines /\ row.total = ms[i].total
  BY <1>4, <1>6 DEF RemittanceType
<1>8. /\ ns \in Seq(RemittanceType) /\ DOMAIN ns = DOMAIN ms /\ ns[i] = row
      /\ \A j \in DOMAIN ms : j # i => ns[j] = ms[j]
  BY <1>5, <1>6, <1>7
<1>9. /\ StandingIn(ns) = StandingIn(ms) /\ StandingIn(ms) \subseteq DOMAIN ms
      /\ \A j \in DOMAIN ms : /\ ns[j].items = ms[j].items /\ ns[j].lines = ms[j].lines
                              /\ ns[j].total = ms[j].total
  BY <1>5, <1>7, <1>8 DEF StandingIn
<1>10. LeftIn(releases, ns) = LeftIn(releases, ms) /\ TotalIn(ns) = TotalIn(ms)
  BY <1>8, <1>9, LeftStays
<1>11. Rows'
  BY <1>1, <1>3, <1>5, <1>8 DEF Rows
<1>12. RefundHolds'
  BY <1>1, <1>5, RefundStays
<1>13. HandoverHolds'
  <2>1. \A j, l \in StandingIn(ns) : j # l => ns[j].items \cap ns[l].items = {}
    BY <1>1, <1>2, <1>9 DEF HandoverHolds
  <2>2. \A r \in Receipts : receipts[r] = "locked" <=> \E j \in StandingIn(ns) : r \in ns[j].items
    BY <1>1, <1>2, <1>9 DEF HandoverHolds
  <2>3. \A j \in DOMAIN ns :
          ns[j].total = SumOf(AmountOf, ns[j].items) - SumOf(ns[j].lines, Keys)
    BY <1>1, <1>2, <1>8, <1>9 DEF HandoverHolds
  <2>4. /\ \A k \in Keys : LeftIn(releases, ns)[k] >= 0
        /\ SumOf(AmountOf, LockedIn(receipts)) + SumOf(LeftIn(releases, ns), Keys)
           = SumOf(TotalIn(ns), StandingIn(ns)) + SumOf(AmountIn(releases), Keys)
    BY <1>1, <1>2, <1>9, <1>10 DEF HandoverHolds
  <2> QED BY <1>3, <1>5, <2>1, <2>2, <2>3, <2>4 DEF HandoverHolds
<1> QED BY <1>11, <1>12, <1>13 DEF CustodyInv

\* A rejected remittance gives its receipts and its lines back.
LEMMA RejectKeeps ==
    ASSUME CustodyAssumption, CustodyInv, NEW i \in DOMAIN remittances, Reject(i)
    PROVE  CustodyInv'
<1>1. Rows /\ RefundHolds /\ HandoverHolds
  BY DEF CustodyInv
<1>2. PICK ms : ms = remittances
  OBVIOUS
<1>3. PICK ns : ns = remittances'
  OBVIOUS
<1>4. PICK row : row = [ms[i] EXCEPT !.status = "rejected"]
  OBVIOUS
<1>5. PICK rcs : rcs = receipts'
  OBVIOUS
<1>6. /\ ms[i].status = "submitted" /\ ns = [ms EXCEPT ![i] = row]
      /\ approvals' = approvals /\ releasing' = releasing /\ releases' = releases
      /\ rcs = [r \in Receipts |-> IF r \in ms[i].items THEN "held" ELSE receipts[r]]
  BY <1>2, <1>3, <1>4, <1>5 DEF Reject
<1>7. ms \in Seq(RemittanceType) /\ ms[i] \in RemittanceType /\ i \in DOMAIN ms
  <2>1. ms \in Seq(RemittanceType) /\ i \in DOMAIN ms
    BY <1>1, <1>2 DEF Rows
  <2> QED BY <2>1
<1>8. /\ row \in RemittanceType /\ row.status = "rejected" /\ row.items = ms[i].items
      /\ row.lines = ms[i].lines /\ row.total = ms[i].total
  BY <1>4, <1>7 DEF RemittanceType
<1>9. /\ ns \in Seq(RemittanceType) /\ DOMAIN ns = DOMAIN ms /\ ns[i] = row
      /\ \A j \in DOMAIN ms : j # i => ns[j] = ms[j]
  BY <1>6, <1>7, <1>8
<1>10. /\ StandingIn(ms) = StandingIn(ns) \cup {i} /\ i \notin StandingIn(ns)
       /\ StandingIn(ms) \subseteq DOMAIN ms
       /\ \A j \in DOMAIN ms : /\ ns[j].items = ms[j].items /\ ns[j].lines = ms[j].lines
                               /\ ns[j].total = ms[j].total
  BY <1>6, <1>7, <1>8, <1>9 DEF StandingIn
<1>11. PICK rs : rs = releases
  OBVIOUS
<1>12. \A k \in Keys : rs[k].amount \in Nat
  BY <1>1, <1>11 DEF Rows
<1>13. /\ \A k \in Keys : LeftIn(rs, ms)[k] = LeftIn(rs, ns)[k] - ms[i].lines[k]
       /\ SumOf(LeftIn(rs, ms), Keys) = SumOf(LeftIn(rs, ns), Keys) - SumOf(ms[i].lines, Keys)
       /\ SumOf(TotalIn(ms), StandingIn(ms)) = SumOf(TotalIn(ns), StandingIn(ns)) + ms[i].total
       /\ SumOf(ms[i].lines, Keys) \in Nat
  <2>1. Joins(rs, ns, ms, i)
    BY <1>7, <1>9, <1>10, <1>12 DEF Joins
  <2> QED BY <2>1, OneMoreStands
<1>14. PICK items : items = ms[i].items
  OBVIOUS
<1>15. /\ items \in SUBSET Receipts /\ \A r \in items : receipts[r] = "locked"
       /\ ms[i].total = SumOf(AmountOf, items) - SumOf(ms[i].lines, Keys)
  <2>1. items \in SUBSET Receipts
    BY <1>7, <1>14 DEF RemittanceType
  <2> QED BY <1>1, <1>2, <1>7, <1>10, <1>14, <2>1 DEF HandoverHolds
<1>16. SumOf(AmountOf, LockedIn(receipts)) = SumOf(AmountOf, LockedIn(rcs)) + SumOf(AmountOf, items)
  <2>1. LockedIn(receipts) = LockedIn(rcs) \cup items /\ LockedIn(rcs) \cap items = {}
    BY <1>6, <1>14, <1>15 DEF LockedIn
  <2>2. LockedIn(rcs) \in SUBSET Receipts
    BY DEF LockedIn
  <2>3. /\ IsFiniteSet(LockedIn(rcs)) /\ IsFiniteSet(items)
        /\ \A r \in LockedIn(rcs) \cup items : AmountOf[r] \in Int
    <3>1. items \in SUBSET Receipts
      BY <1>15
    <3> QED BY <2>2, <3>1, CashIsNat
  <2> QED BY <2>1, <2>3, SumOfParts
<1>17. Rows'
  <2>1. rcs \in [Receipts -> {"none", "held", "locked", "voided"}]
    BY <1>1, <1>6 DEF Rows
  <2> QED BY <1>1, <1>3, <1>5, <1>6, <1>9, <2>1 DEF Rows
<1>18. RefundHolds'
  <2>1. \A r \in Receipts : rcs[r] = "voided" <=> receipts[r] = "voided"
    BY <1>6, <1>14, <1>15
  <2> QED BY <1>1, <1>5, <1>6, <2>1, RefundStays
<1>19. HandoverHolds'
  <2>1. \A k \in Keys : LeftIn(rs, ns)[k] >= 0
    <3> TAKE k \in Keys
    <3>1. LeftIn(rs, ns)[k] \in Int /\ LeftIn(rs, ms)[k] \in Int
      BY <1>7, <1>9, <1>12, LeftIsInt
    <3>2. ms[i].lines[k] \in Nat /\ LeftIn(rs, ms)[k] >= 0
      BY <1>1, <1>2, <1>7, <1>11 DEF RemittanceType, HandoverHolds
    <3>3. LeftIn(rs, ms)[k] = LeftIn(rs, ns)[k] - ms[i].lines[k]
      BY <1>13
    <3> QED BY <3>1, <3>2, <3>3
  <2>2. SumOf(AmountOf, LockedIn(rcs)) + SumOf(LeftIn(rs, ns), Keys)
        = SumOf(TotalIn(ns), StandingIn(ns)) + SumOf(AmountIn(rs), Keys)
    <3>1. SumOf(AmountOf, LockedIn(rcs)) \in Nat /\ SumOf(AmountOf, items) \in Nat
      <4>1. items \in SUBSET Receipts /\ LockedIn(rcs) \in SUBSET Receipts
        BY <1>15 DEF LockedIn
      <4> QED BY <4>1, CashIsNat
    <3>2. SumOf(AmountIn(rs), Keys) \in Nat
      BY <1>12, AmountsAreNat
    <3>3. SumOf(TotalIn(ns), StandingIn(ns)) \in Int /\ SumOf(LeftIn(rs, ns), Keys) \in Int
      BY <1>9, <1>12, LeftIsInt
    <3>4. SumOf(AmountOf, LockedIn(receipts)) + SumOf(LeftIn(rs, ms), Keys)
          = SumOf(TotalIn(ms), StandingIn(ms)) + SumOf(AmountIn(rs), Keys)
      BY <1>1, <1>2, <1>11 DEF HandoverHolds
    <3>5. PICK taken : taken = SumOf(ms[i].lines, Keys)
      OBVIOUS
    <3>6. PICK asked : asked = ms[i].total
      OBVIOUS
    <3>7. /\ taken \in Nat /\ asked = SumOf(AmountOf, items) - taken
          /\ SumOf(LeftIn(rs, ms), Keys) = SumOf(LeftIn(rs, ns), Keys) - taken
          /\ SumOf(TotalIn(ms), StandingIn(ms)) = SumOf(TotalIn(ns), StandingIn(ns)) + asked
      BY <1>13, <1>15, <3>5, <3>6
    <3>8. SumOf(AmountOf, LockedIn(rcs)) + SumOf(AmountOf, items) + (SumOf(LeftIn(rs, ns), Keys) - taken)
          = SumOf(TotalIn(ns), StandingIn(ns)) + (SumOf(AmountOf, items) - taken) + SumOf(AmountIn(rs), Keys)
      BY <1>16, <3>4, <3>7
    <3>9. PICK a, b, c, d, e : /\ a = SumOf(AmountOf, LockedIn(rcs)) /\ b = SumOf(AmountOf, items)
                               /\ c = SumOf(LeftIn(rs, ns), Keys) /\ e = SumOf(AmountIn(rs), Keys)
                               /\ d = SumOf(TotalIn(ns), StandingIn(ns))
      OBVIOUS
    <3>10. a \in Int /\ b \in Int /\ c \in Int /\ d \in Int /\ e \in Int /\ taken \in Int
      BY <3>1, <3>2, <3>3, <3>7, <3>9
    <3>11. a + b + (c - taken) = d + (b - taken) + e
      BY <3>8, <3>9
    <3>12. a + c = d + e
      BY <3>10, <3>11
    <3> QED BY <3>9, <3>12
  <2>3. \A j, l \in StandingIn(ns) : j # l => ns[j].items \cap ns[l].items = {}
    BY <1>1, <1>2, <1>10 DEF HandoverHolds
  <2>4. \A r \in Receipts : rcs[r] = "locked" <=> \E j \in StandingIn(ns) : r \in ns[j].items
    <3> TAKE r \in Receipts
    <3>1. receipts[r] = "locked" <=> \E j \in StandingIn(ms) : r \in ms[j].items
      BY <1>1, <1>2 DEF HandoverHolds
    <3>2. \A j \in StandingIn(ns) : ms[j].items \cap items = {}
      BY <1>1, <1>2, <1>10, <1>14 DEF HandoverHolds
    <3>3. (\E j \in StandingIn(ns) : r \in ns[j].items) <=> \E j \in StandingIn(ns) : r \in ms[j].items
      BY <1>10
    <3>4. rcs[r] = IF r \in items THEN "held" ELSE receipts[r]
      BY <1>6, <1>14
    <3>5. CASE r \in items
      BY <3>2, <3>3, <3>4, <3>5
    <3>6. CASE r \notin items
      BY <1>10, <1>14, <3>1, <3>3, <3>4, <3>6
    <3> QED BY <3>5, <3>6
  <2>5. \A j \in DOMAIN ns :
          ns[j].total = SumOf(AmountOf, ns[j].items) - SumOf(ns[j].lines, Keys)
    BY <1>1, <1>2, <1>9, <1>10 DEF HandoverHolds
  <2> QED BY <1>3, <1>5, <1>6, <1>11, <2>1, <2>2, <2>3, <2>4, <2>5 DEF HandoverHolds
<1> QED BY <1>17, <1>18, <1>19 DEF CustodyInv

-----------------------------------------------------------------------------
(* The custody of a collector.                                             *)

LEMMA CustodyStarts ==
    ASSUME CustodyAssumption, Init
    PROVE  CustodyInv
<1>1. /\ receipts = [r \in Receipts |-> "none"] /\ approvals = [k \in Keys |-> Unapproved]
      /\ releasing = [k \in Keys |-> None] /\ releases = [k \in Keys |-> None] /\ remittances = <<>>
      /\ IsFiniteSet(Keys) /\ 0 \notin Keys /\ 0 \notin Receipts
  BY DEF Init, CustodyAssumption
<1>2. None \in [approval : Keys \cup {0}, amount : Nat] /\ None.amount = 0 /\ None.approval = 0
      /\ Unapproved.receipt = 0 /\ Unapproved.amount = 0
  BY DEF None, Unapproved
<1>3. Rows
  BY <1>1, <1>2 DEF Rows
<1>4. \A a \in Keys : ReleasedIn(releases, a) = 0
  <2> TAKE a \in Keys
  <2>1. {k \in Keys : releases[k].approval = a} = {}
    BY <1>1, <1>2
  <2> QED BY <2>1, SumOfNone DEF ReleasedIn
<1>5. \A r \in Receipts : ApprovedIn(approvals, r) = 0
  <2> TAKE r \in Receipts
  <2>1. {k \in Keys : approvals[k].receipt = r} = {}
    BY <1>1, <1>2
  <2> QED BY <2>1, SumOfNone DEF ApprovedIn
<1>6. RefundHolds
  <2>1. \A a \in Keys : approvals[a].amount = 0 /\ releasing[a] = None
    BY <1>1, <1>2
  <2>2. \A r \in Receipts : DueOf[r] \in Nat
    BY DEF CustodyAssumption
  <2> QED BY <1>4, <1>5, <2>1, <2>2 DEF RefundHolds
<1>7. HandoverHolds
  <2>1. StandingIn(remittances) = {} /\ LockedIn(receipts) = {} /\ DOMAIN remittances = {}
    BY <1>1 DEF StandingIn, LockedIn
  <2>2. /\ \A k \in Keys : SumOf(LineIn(remittances, k), {}) = 0
        /\ SumOf(TotalIn(remittances), {}) = 0 /\ SumOf(AmountOf, {}) = 0
    BY SumOfNone
  <2>3. \A k \in Keys : LeftIn(releases, remittances)[k] = 0
    <3> TAKE k \in Keys
    <3>1. releases[k].amount = 0 /\ SumOf(LineIn(remittances, k), StandingIn(remittances)) = 0
      BY <1>1, <1>2, <2>1, <2>2
    <3>2. LeftIn(releases, remittances)[k]
          = releases[k].amount - SumOf(LineIn(remittances, k), StandingIn(remittances))
      BY DEF LeftIn
    <3> QED BY <3>1, <3>2
  <2>4. \A k \in Keys : AmountIn(releases)[k] = 0
    BY <1>1, <1>2 DEF AmountIn
  <2>5. SumOf(LeftIn(releases, remittances), Keys) = 0 /\ SumOf(AmountIn(releases), Keys) = 0
    BY <1>1, <2>3, <2>4, SumOfZeros
  <2>6. \A r \in Receipts : receipts[r] # "locked"
    BY <1>1
  <2> QED BY <2>1, <2>2, <2>3, <2>5, <2>6 DEF HandoverHolds
<1> QED BY <1>3, <1>6, <1>7 DEF CustodyInv

LEMMA CustodyKept ==
    ASSUME CustodyAssumption, CustodyInv, [Next]_vars
    PROVE  CustodyInv'
<1>1. CASE \E r \in Receipts : Post(r)
  BY <1>1, PostKeeps
<1>2. CASE \E k \in Keys, r \in Receipts, amount \in Amounts : Approve(k, r, amount)
  BY <1>2, ApproveKeeps
<1>3. CASE \E k, a \in Keys, amount \in Amounts : BeginRelease(k, a, amount)
  BY <1>3, BeginReleaseKeeps
<1>4. CASE \E k \in Keys : FinishRelease(k)
  BY <1>4, FinishReleaseKeeps
<1>5. CASE \E k \in Keys : LoseRelease(k)
  BY <1>5, LoseReleaseKeeps
<1>6. CASE \E r \in Receipts : VoidReceipt(r)
  BY <1>6, VoidReceiptKeeps
<1>7. CASE \E date \in Dates : Submit(date) \/ SubmitCross(date)
  BY <1>7, SubmitsKeep
<1>8. CASE \E i \in DOMAIN remittances : Receive(i)
  BY <1>8, ReceiveKeeps
<1>9. CASE \E i \in DOMAIN remittances : Reject(i)
  BY <1>9, RejectKeeps
<1>10. CASE UNCHANGED vars
  <2>1. /\ receipts' = receipts /\ approvals' = approvals /\ releasing' = releasing
        /\ releases' = releases /\ remittances' = remittances
    BY <1>10 DEF vars
  <2> QED BY <2>1 DEF CustodyInv, Rows, RefundHolds, ReleaseHolds, HandoverHolds
<1> QED BY <1>1, <1>2, <1>3, <1>4, <1>5, <1>6, <1>7, <1>8, <1>9, <1>10 DEF Next

\* What is in hand is what the records say of the receipts held.
LEMMA InHandIsConserved ==
    ASSUME CustodyAssumption, CustodyInv
    PROVE  CashIsConserved
<1>1. Rows /\ HandoverHolds
  BY DEF CustodyInv
<1>2. PICK H : H = {r \in Receipts : receipts[r] = "held"}
  OBVIOUS
<1>3. PICK L : L = LockedIn(receipts)
  OBVIOUS
<1>4. H \in SUBSET Receipts /\ L \in SUBSET Receipts /\ H \cap L = {}
      /\ {r \in Receipts : receipts[r] \in {"held", "locked"}} = H \cup L
  BY <1>2, <1>3 DEF LockedIn
<1>5. SumOf(AmountOf, H \cup L) = SumOf(AmountOf, H) + SumOf(AmountOf, L)
  <2>1. IsFiniteSet(H) /\ IsFiniteSet(L) /\ \A r \in H \cup L : AmountOf[r] \in Int
    BY <1>4, CashIsNat
  <2> QED BY <1>4, <2>1, SumOfParts
<1>6. PICK left : left = SumOf(LeftIn(releases, remittances), Keys)
  OBVIOUS
<1>7. PICK out : out = SumOf(AmountIn(releases), Keys)
  OBVIOUS
<1>8. PICK asked : asked = SumOf(TotalIn(remittances), StandingIn(remittances))
  OBVIOUS
<1>9. Keys \in SUBSET Keys /\ \A k \in Keys : releases[k].amount \in Nat
  BY <1>1 DEF Rows
<1>10. InHand = SumOf(AmountOf, H) - left
  <2>1. MapThenSumSet(Unremitted, Keys) = left
    BY <1>6, <1>9, LeftNow
  <2> QED BY <1>2, <2>1, CashIsSum DEF InHand
<1>11. MapThenSumSet(LAMBDA k : releases[k].amount, Keys) = out
  BY <1>7, <1>9, AmountSum
<1>12. MapThenSumSet(LAMBDA i : remittances[i].total, Standing) = asked
  <2>1. Standing = StandingIn(remittances) /\ Standing \in SUBSET DOMAIN remittances
    BY DEF Standing, StandingIn
  <2> QED BY <1>8, <2>1, TotalSum
<1>13. Cash(H \cup L) = SumOf(AmountOf, H) + SumOf(AmountOf, L)
  BY <1>5, CashIsSum
<1>14. SumOf(AmountOf, L) + left = asked + out
  BY <1>1, <1>3, <1>6, <1>7, <1>8 DEF HandoverHolds
<1>15. SumOf(AmountOf, H) \in Nat /\ SumOf(AmountOf, L) \in Nat
  BY <1>4, CashIsNat
<1>16. left \in Int /\ asked \in Int
  BY <1>1, <1>6, <1>8, <1>9, LeftIsInt DEF Rows
<1>17. out \in Nat
  BY <1>7, <1>9, AmountsAreNat
<1>18. InHand = Cash(H \cup L) - out - asked
  <2>1. PICK h, l, c : h = SumOf(AmountOf, H) /\ l = SumOf(AmountOf, L) /\ c = Cash(H \cup L)
    OBVIOUS
  <2>2. h \in Int /\ l \in Int /\ left \in Int /\ asked \in Int /\ out \in Int
    BY <1>15, <1>16, <1>17, <2>1
  <2>3. c = h + l /\ l + left = asked + out /\ InHand = h - left
    BY <1>10, <1>13, <1>14, <2>1
  <2>4. h - left = (h + l) - out - asked
    BY <2>2, <2>3
  <2> QED BY <2>1, <2>3, <2>4
<1>19. Cash({r \in Receipts : receipts[r] \in {"held", "locked"}}) = Cash(H \cup L)
  BY <1>4
<1>20. InHand = Cash({r \in Receipts : receipts[r] \in {"held", "locked"}})
                - MapThenSumSet(LAMBDA k : releases[k].amount, Keys)
                - MapThenSumSet(LAMBDA i : remittances[i].total, Standing)
  BY <1>11, <1>12, <1>18, <1>19
<1> QED BY <1>20 DEF CashIsConserved, MapThenSumSet, MapThenFoldSet

\* Each release is covered by its approval, so their sums are.
LEMMA RefundsAreOwed ==
    ASSUME CustodyAssumption, CustodyInv
    PROVE  RefundIsOwed
<1> SUFFICES ASSUME NEW r \in Receipts
             PROVE  /\ ReleasedOf(r) <= Approved(r) /\ Approved(r) <= DueOf[r]
                    /\ receipts[r] = "voided" => ReleasedOf(r) = 0
  BY DEF RefundIsOwed
<1>1. Rows /\ RefundHolds
  BY DEF CustodyInv
<1>2. PICK S : S = {k \in Keys : approvals[k].receipt = r}
  OBVIOUS
<1>3. S \in SUBSET Keys /\ IsFiniteSet(S) /\ \A k \in S : approvals[k].receipt = r
  BY <1>2, FS_Subset DEF CustodyAssumption
<1>4. PICK f : f = ReleasedByIn(releases)
  OBVIOUS
<1>5. PICK g : g = AmountIn(approvals)
  OBVIOUS
<1>6. ReleasedOf(r) = SumOf(f, S) /\ Approved(r) = SumOf(g, S) /\ Approved(r) = ApprovedIn(approvals, r)
  BY <1>2, <1>4, <1>5, ReleasedOfNow, RefundNow DEF ApprovedIn
<1>7. \A k \in Keys : approvals[k].amount \in Nat /\ releases[k].amount \in Nat
  BY <1>1 DEF Rows, Unapproved
<1>8. \A k \in S : f[k] = ReleasedIn(releases, k) /\ f[k] \in Nat /\ g[k] = approvals[k].amount
  <2> TAKE k \in S
  <2>1. {j \in Keys : releases[j].approval = k} \in SUBSET Keys
    OBVIOUS
  <2>2. ReleasedIn(releases, k) \in Nat
    BY <1>7, <2>1, AmountsAreNat DEF ReleasedIn
  <2> QED BY <1>3, <1>4, <1>5, <2>2 DEF ReleasedByIn, AmountIn
<1>9. SumOf(f, S) <= SumOf(g, S)
  <2>1. \A k \in S : f[k] \in Int /\ g[k] \in Int /\ f[k] <= g[k]
    BY <1>1, <1>3, <1>7, <1>8 DEF RefundHolds
  <2> QED BY <1>3, <2>1, SumOfSmaller
<1>10. ASSUME receipts[r] = "voided" PROVE SumOf(f, S) = 0
  <2>1. \A k \in S : f[k] = 0
    BY <1>1, <1>3, <1>8, <1>10 DEF RefundHolds
  <2> QED BY <1>3, <2>1, SumOfZeros
<1> QED BY <1>1, <1>6, <1>9, <1>10 DEF RefundHolds

\* Standing remittances share no receipt and hold the locked ones.
LEMMA LockedBelongs ==
    ASSUME CustodyInv
    PROVE  LockedBelongsToOne
<1> SUFFICES ASSUME NEW r \in Receipts
             PROVE  Cardinality({i \in Standing : r \in remittances[i].items})
                    = IF receipts[r] = "locked" THEN 1 ELSE 0
  BY DEF LockedBelongsToOne
<1>1. PICK S : S = {i \in Standing : r \in remittances[i].items}
  OBVIOUS
<1>2. /\ \A i, j \in Standing : i # j => remittances[i].items \cap remittances[j].items = {}
      /\ receipts[r] = "locked" <=> \E i \in Standing : r \in remittances[i].items
  BY DEF CustodyInv, HandoverHolds, Standing, StandingIn
<1>3. CASE receipts[r] = "locked"
  <2>1. PICK i \in Standing : r \in remittances[i].items
    BY <1>2, <1>3
  <2>2. S = {i}
    BY <1>1, <1>2, <2>1
  <2>3. Cardinality({i}) = 1
    BY FS_Singleton, Zenon
  <2> QED BY <1>1, <1>3, <2>2, <2>3
<1>4. CASE receipts[r] # "locked"
  <2>1. S = {}
    BY <1>1, <1>2, <1>4
  <2> QED BY <1>1, <1>4, <2>1, FS_EmptySet
<1> QED BY <1>3, <1>4

\* Cash custody: the cash a collector received, less what went back to
\* borrowers and less what remittances ask for, is what the records leave in
\* hand; no release is netted twice, none leaves that is not owed, and a locked
\* receipt belongs to one standing remittance (remittance_repository,
\* refund_due_repository), for any receipts, keys, amounts and remittances.
THEOREM CustodyStaysBalanced ==
    ASSUME CustodyAssumption
    PROVE  Spec => [](TypeOK /\ CustodyBalances)
<1>1. Init => CustodyInv
  BY CustodyStarts
<1>2. CustodyInv /\ [Next]_vars => CustodyInv'
  BY CustodyKept
<1>3. ASSUME CustodyInv PROVE TypeOK /\ CustodyBalances
  <2>1. TypeOK
    <3>1. \A k \in Keys : /\ approvals[k].amount \in Nat /\ releases[k].amount \in Nat
                          /\ releasing[k].amount \in Nat
      BY <1>3 DEF CustodyInv, Rows, Unapproved
    <3>2. \A i \in DOMAIN remittances : remittances[i] \in RemittanceType
      BY <1>3 DEF CustodyInv, Rows
    <3>3. \A i \in DOMAIN remittances :
            /\ remittances[i].items \subseteq Receipts
            /\ remittances[i].status \in {"submitted", "received", "rejected"}
            /\ remittances[i].total \in Nat
      BY <3>2 DEF RemittanceType
    <3> QED BY <1>3, <3>1, <3>3 DEF TypeOK, CustodyInv, Rows
  <2>2. ReleaseNettedOnce
    <3>1. Keys \in SUBSET Keys
      OBVIOUS
    <3>2. \A k \in Keys : Unremitted(k) = LeftIn(releases, remittances)[k]
      BY <3>1, LeftNow
    <3> QED BY <1>3, <3>2 DEF ReleaseNettedOnce, CustodyInv, HandoverHolds
  <2> QED BY <1>3, <2>1, <2>2, InHandIsConserved, RefundsAreOwed, LockedBelongs DEF CustodyBalances
<1> QED BY <1>1, <1>2, <1>3, PTL DEF Spec

-----------------------------------------------------------------------------
(***************************************************************************)
(* A promise is judged once, and while one is pending its remaining amount  *)
(* is what is still due on its installment.                                 *)
(*                                                                         *)
(* A receipt reduces the record of its day and the promise on it together;  *)
(* a void restores neither.  PromisesInv says why that is right: an         *)
(* installment has one record, money of a day that has a record goes to the *)
(* record first, and the receipts that brought such money are held; those   *)
(* a void can still touch brought no money to any record.                   *)
(***************************************************************************)

ReceiptRow ==
    [loan : Loans, day : Days, kind : {"payment", "pass"}, spread : [Days -> Nat],
     live : BOOLEAN, linked : BOOLEAN]
DueRow == [loan : Loans, day : Days, original : Nat, remaining : Nat, source : Nat]
PromiseRow ==
    [obligation : Nat, amount : Nat \ {0}, deadline : Days, remaining : Nat,
     status : {"pending", "kept", "partially_kept", "not_kept"}]

PromiseTables ==
    /\ posted \in Seq(ReceiptRow) /\ obligations \in Seq(DueRow)
    /\ promises \in Seq(PromiseRow) /\ followups \in Nat
    /\ \A i \in DOMAIN obligations :
        /\ obligations[i].remaining <= obligations[i].original
        /\ obligations[i].source \in DOMAIN posted
    /\ \A i \in DOMAIN promises :
        /\ promises[i].obligation \in DOMAIN obligations
        /\ promises[i].remaining <= promises[i].amount

OnePends(ps) ==
    \A i, j \in DOMAIN ps : ps[i].status = "pending" /\ ps[j].status = "pending" => i = j

FollowsDue(ps, os) ==
    \A i \in DOMAIN ps : ps[i].status = "pending" =>
        ps[i].remaining = LeftPromised(ps[i], os) /\ ps[i].remaining > 0

\* One record for an installment.
OneRecord(os) ==
    \A i, j \in DOMAIN os :
        os[i].loan = os[j].loan /\ os[i].day = os[j].day /\ os[i].loan \in ContractLoans => i = j

\* The receipt that found a shortfall cannot be voided, and neither can one
\* whose money reached its record.
RecordsAreHeld ==
    \A o \in DOMAIN obligations :
        LET s == obligations[o].source IN
        /\ posted[s].linked /\ posted[s].loan = obligations[o].loan
        /\ obligations[o].loan \in ContractLoans =>
            \A i \in DOMAIN posted :
                i > s /\ posted[i].loan = obligations[o].loan /\ ~posted[i].linked
                    => posted[i].spread[obligations[o].day] = 0

PromisesInv ==
    /\ PromiseTables
    /\ OnePends(promises)
    /\ FollowsDue(promises, obligations)
    /\ followups = 0 => DueIsUnpaid /\ OneRecord(obligations) /\ RecordsAreHeld
-----------------------------------------------------------------------------
(* The sums.                                                               *)

SpreadIn(rs, d) == [i \in DOMAIN rs |-> rs[i].spread[d]]
LiveOf(rs, l) == {i \in DOMAIN rs : rs[i].live /\ rs[i].loan = l}
UnpaidIn(rs, l, d) == AtLeast0(Daily[l] - AppliedIn(rs, l, d))

\* Folds over receipts, days and records are sums of the function they map by.
LEMMA SpreadSum ==
    ASSUME NEW rs, NEW d, NEW S \in SUBSET DOMAIN rs
    PROVE  MapThenSumSet(LAMBDA i : rs[i].spread[d], S) = SumOf(SpreadIn(rs, d), S)
<1> DEFINE f == SpreadIn(rs, d)
<1>1. \A s \in SUBSET S : s # {} => f[Pick(s)] = rs[Pick(s)].spread[d]
  BY PickIsMember DEF SpreadIn
<1>2. ASSUME NEW g
      PROVE  [s \in SUBSET S |-> IF s = {} THEN 0 ELSE f[Pick(s)] + g[s \ {Pick(s)}]]
             = [s \in SUBSET S |-> IF s = {} THEN 0 ELSE rs[Pick(s)].spread[d] + g[s \ {Pick(s)}]]
  BY <1>1
<1> DEFINE Eq(g) == g = [s \in SUBSET S |-> IF s = {} THEN 0
                                           ELSE rs[Pick(s)].spread[d] + g[s \ {Pick(s)}]]
<1>3. \A g : IsSum(f, g, S) <=> Eq(g)
  BY <1>2 DEF IsSum
<1>4. (CHOOSE g : IsSum(f, g, S)) = (CHOOSE g : Eq(g))
  BY <1>3
<1>5. SumOf(f, S) = (CHOOSE g : IsSum(f, g, S))[S]
  BY DEF SumOf, MapThenSumSet, MapThenFoldSet, IsSum, Pick
<1>6. MapThenSumSet(LAMBDA i : rs[i].spread[d], S) = (CHOOSE g : Eq(g))[S]
  BY DEF MapThenSumSet, MapThenFoldSet, Pick
<1> QED BY <1>4, <1>5, <1>6

LEMMA BalanceSum ==
    ASSUME NEW rs, NEW l
    PROVE  BalanceIn(rs, l) = SumOf([d \in Days |-> Daily[l] - AppliedIn(rs, l, d)], Days)
<1> DEFINE f == [d \in Days |-> Daily[l] - AppliedIn(rs, l, d)]
<1>1. \A s \in SUBSET Days : s # {} => f[Pick(s)] = Daily[l] - AppliedIn(rs, l, Pick(s))
  BY PickIsMember
<1>2. ASSUME NEW g
      PROVE  [s \in SUBSET Days |-> IF s = {} THEN 0 ELSE f[Pick(s)] + g[s \ {Pick(s)}]]
             = [s \in SUBSET Days |-> IF s = {} THEN 0 ELSE Daily[l] - AppliedIn(rs, l, Pick(s)) + g[s \ {Pick(s)}]]
  BY <1>1
<1> DEFINE Eq(g) == g = [s \in SUBSET Days |-> IF s = {} THEN 0
                                           ELSE Daily[l] - AppliedIn(rs, l, Pick(s)) + g[s \ {Pick(s)}]]
<1>3. \A g : IsSum(f, g, Days) <=> Eq(g)
  BY <1>2 DEF IsSum
<1>4. (CHOOSE g : IsSum(f, g, Days)) = (CHOOSE g : Eq(g))
  BY <1>3
<1>5. SumOf(f, Days) = (CHOOSE g : IsSum(f, g, Days))[Days]
  BY DEF SumOf, MapThenSumSet, MapThenFoldSet, IsSum, Pick
<1>6. BalanceIn(rs, l) = (CHOOSE g : Eq(g))[Days]
  BY DEF MapThenSumSet, MapThenFoldSet, Pick, BalanceIn
<1> QED BY <1>4, <1>5, <1>6

LEMMA UnpaidSum ==
    ASSUME NEW l, NEW S \in SUBSET Days
    PROVE  MapThenSumSet(LAMBDA e : Unpaid(l, e), S) = SumOf([e \in Days |-> Unpaid(l, e)], S)
<1> DEFINE f == [e \in Days |-> Unpaid(l, e)]
<1>1. \A s \in SUBSET S : s # {} => f[Pick(s)] = Unpaid(l, Pick(s))
  BY PickIsMember
<1>2. ASSUME NEW g
      PROVE  [s \in SUBSET S |-> IF s = {} THEN 0 ELSE f[Pick(s)] + g[s \ {Pick(s)}]]
             = [s \in SUBSET S |-> IF s = {} THEN 0 ELSE Unpaid(l, Pick(s)) + g[s \ {Pick(s)}]]
  BY <1>1
<1> DEFINE Eq(g) == g = [s \in SUBSET S |-> IF s = {} THEN 0
                                           ELSE Unpaid(l, Pick(s)) + g[s \ {Pick(s)}]]
<1>3. \A g : IsSum(f, g, S) <=> Eq(g)
  BY <1>2 DEF IsSum
<1>4. (CHOOSE g : IsSum(f, g, S)) = (CHOOSE g : Eq(g))
  BY <1>3
<1>5. SumOf(f, S) = (CHOOSE g : IsSum(f, g, S))[S]
  BY DEF SumOf, MapThenSumSet, MapThenFoldSet, IsSum, Pick
<1>6. MapThenSumSet(LAMBDA e : Unpaid(l, e), S) = (CHOOSE g : Eq(g))[S]
  BY DEF MapThenSumSet, MapThenFoldSet, Pick
<1> QED BY <1>4, <1>5, <1>6

LEMMA RemainingSum ==
    ASSUME NEW S \in SUBSET DOMAIN obligations
    PROVE  MapThenSumSet(LAMBDA j : obligations[j].remaining, S)
           = SumOf([j \in DOMAIN obligations |-> obligations[j].remaining], S)
<1> DEFINE f == [j \in DOMAIN obligations |-> obligations[j].remaining]
<1>1. \A s \in SUBSET S : s # {} => f[Pick(s)] = obligations[Pick(s)].remaining
  BY PickIsMember
<1>2. ASSUME NEW g
      PROVE  [s \in SUBSET S |-> IF s = {} THEN 0 ELSE f[Pick(s)] + g[s \ {Pick(s)}]]
             = [s \in SUBSET S |-> IF s = {} THEN 0 ELSE obligations[Pick(s)].remaining + g[s \ {Pick(s)}]]
  BY <1>1
<1> DEFINE Eq(g) == g = [s \in SUBSET S |-> IF s = {} THEN 0
                                           ELSE obligations[Pick(s)].remaining + g[s \ {Pick(s)}]]
<1>3. \A g : IsSum(f, g, S) <=> Eq(g)
  BY <1>2 DEF IsSum
<1>4. (CHOOSE g : IsSum(f, g, S)) = (CHOOSE g : Eq(g))
  BY <1>3
<1>5. SumOf(f, S) = (CHOOSE g : IsSum(f, g, S))[S]
  BY DEF SumOf, MapThenSumSet, MapThenFoldSet, IsSum, Pick
<1>6. MapThenSumSet(LAMBDA j : obligations[j].remaining, S) = (CHOOSE g : Eq(g))[S]
  BY DEF MapThenSumSet, MapThenFoldSet, Pick
<1> QED BY <1>4, <1>5, <1>6

\* The larger and the smaller of two numbers.
LEMMA TwoNumbers ==
    ASSUME NEW a \in Int, NEW b \in Int
    PROVE  /\ AtLeast0(a) = IF a >= 0 THEN a ELSE 0
           /\ Least(a, b) = IF a <= b THEN a ELSE b
<1>1. PICK m \in {0, a} : m = IF a >= 0 THEN a ELSE 0
  OBVIOUS
<1>2. PICK n \in {a, b} : n = IF a <= b THEN a ELSE b
  OBVIOUS
<1>3. (\A y \in {0, a} : m >= y) /\ \A x \in {0, a} : (\A y \in {0, a} : x >= y) => x = m
  BY <1>1
<1>4. (\A y \in {a, b} : n <= y) /\ \A x \in {a, b} : (\A y \in {a, b} : x <= y) => x = n
  BY <1>2
<1>5. Max({0, a}) = m
  BY <1>3 DEF Max
<1>6. Min({a, b}) = n
  BY <1>4 DEF Min
<1> QED BY <1>1, <1>2, <1>5, <1>6 DEF AtLeast0, Least

\* The terms of the sums of receipts.
LEMMA TermsOfLive ==
    ASSUME NEW rs \in Seq(ReceiptRow), NEW l, NEW d \in Days
    PROVE  /\ IsFiniteSet(LiveOf(rs, l)) /\ LiveOf(rs, l) \in SUBSET DOMAIN rs
           /\ \A i \in DOMAIN rs : SpreadIn(rs, d)[i] \in Nat
<1>1. IsFiniteSet(LiveOf(rs, l)) /\ LiveOf(rs, l) \in SUBSET DOMAIN rs
  BY FS_Interval, FS_Subset, LenProperties DEF LiveOf
<1>2. ASSUME NEW i \in DOMAIN rs PROVE SpreadIn(rs, d)[i] \in Nat
  <2>1. rs[i] \in ReceiptRow
    BY ElementOfSeq, LenProperties
  <2>2. rs[i].spread \in [Days -> Nat]
    BY <2>1 DEF ReceiptRow
  <2> QED BY <2>2 DEF SpreadIn
<1> QED BY <1>1, <1>2

\* What receipts applied to an installment is a number.
LEMMA AppliedIsNat ==
    ASSUME NEW rs \in Seq(ReceiptRow), NEW l, NEW d \in Days
    PROVE  AppliedIn(rs, l, d) \in Nat
<1>1. IsFiniteSet(LiveOf(rs, l)) /\ LiveOf(rs, l) \in SUBSET DOMAIN rs
  BY TermsOfLive
<1>2. \A i \in LiveOf(rs, l) : SpreadIn(rs, d)[i] \in Nat
  BY <1>1, TermsOfLive
<1>3. SumOf(SpreadIn(rs, d), LiveOf(rs, l)) \in Nat
  BY <1>1, <1>2, SumIsMonotone
<1> QED BY <1>1, <1>3, SpreadSum DEF AppliedIn, LiveOf

LEMMA BalanceIsInt ==
    ASSUME PromiseAssumption, NEW rs \in Seq(ReceiptRow), NEW l \in Loans
    PROVE  BalanceIn(rs, l) \in Int
<1> DEFINE f == [d \in Days |-> Daily[l] - AppliedIn(rs, l, d)]
<1>1. \A d \in Days : f[d] \in Int
  BY AppliedIsNat DEF PromiseAssumption
<1>2. SumOf(f, Days) \in Int
  BY <1>1, SumIsInt DEF PromiseAssumption
<1> QED BY <1>2, BalanceSum

LEMMA UnpaidIsNat ==
    ASSUME PromiseAssumption, NEW rs \in Seq(ReceiptRow), NEW l \in Loans, NEW d \in Days
    PROVE  /\ UnpaidIn(rs, l, d) \in Nat
           /\ UnpaidIn(rs, l, d) = IF Daily[l] - AppliedIn(rs, l, d) >= 0
                                 THEN Daily[l] - AppliedIn(rs, l, d) ELSE 0
<1>1. Daily[l] - AppliedIn(rs, l, d) \in Int
  BY AppliedIsNat DEF PromiseAssumption
<1> QED BY <1>1, TwoNumbers DEF UnpaidIn

\* A receipt adds its part to its loan.
LEMMA AppliedGrows ==
    ASSUME NEW rs \in Seq(ReceiptRow), NEW r \in ReceiptRow, r.live, NEW l, NEW d \in Days
    PROVE  AppliedIn(Append(rs, r), l, d)
           = AppliedIn(rs, l, d) + IF r.loan = l THEN r.spread[d] ELSE 0
<1> DEFINE n == Len(rs) + 1
<1>1. PICK all : all = Append(rs, r)
  OBVIOUS
<1>2. /\ all \in Seq(ReceiptRow) /\ DOMAIN all = DOMAIN rs \cup {n} /\ n \notin DOMAIN rs
      /\ all[n] = r /\ \A i \in DOMAIN rs : all[i] = rs[i]
  BY <1>1, AppendProperties, LenProperties
<1>3. /\ IsFiniteSet(LiveOf(rs, l)) /\ LiveOf(rs, l) \subseteq DOMAIN rs
      /\ \A i \in DOMAIN all : SpreadIn(all, d)[i] \in Int
  <2>1. \A i \in DOMAIN all : SpreadIn(all, d)[i] \in Nat
    BY <1>2, TermsOfLive
  <2> QED BY <2>1, TermsOfLive
<1>4. SumOf(SpreadIn(all, d), LiveOf(rs, l)) = SumOf(SpreadIn(rs, d), LiveOf(rs, l))
  <2>1. \A i \in LiveOf(rs, l) : SpreadIn(all, d)[i] = SpreadIn(rs, d)[i]
    BY <1>2, <1>3 DEF SpreadIn
  <2> QED BY <2>1, SumOfSame
<1>5. SumOf(SpreadIn(all, d), LiveOf(all, l))
      = SumOf(SpreadIn(rs, d), LiveOf(rs, l)) + IF r.loan = l THEN r.spread[d] ELSE 0
  <2>1. CASE r.loan = l
    <3>1. LiveOf(all, l) = LiveOf(rs, l) \cup {n}
      BY <1>2, <2>1 DEF LiveOf
    <3>2. SpreadIn(all, d)[n] = r.spread[d]
      BY <1>2 DEF SpreadIn
    <3>3. \A i \in LiveOf(rs, l) \cup {n} : SpreadIn(all, d)[i] \in Int
      BY <1>2, <1>3
    <3>4. n \notin LiveOf(rs, l)
      BY <1>2, <1>3
    <3>5. SumOf(SpreadIn(all, d), LiveOf(rs, l) \cup {n})
          = SumOf(SpreadIn(all, d), LiveOf(rs, l)) + SpreadIn(all, d)[n]
      BY <1>3, <3>3, <3>4, SumWith
    <3> QED BY <1>4, <2>1, <3>1, <3>2, <3>5
  <2>2. CASE r.loan # l
    <3>1. LiveOf(all, l) = LiveOf(rs, l)
      BY <1>2, <2>2 DEF LiveOf
    <3>2. SumOf(SpreadIn(rs, d), LiveOf(rs, l)) \in Int
      <4>1. \A i \in LiveOf(rs, l) : SpreadIn(rs, d)[i] \in Int
        BY <1>2, <1>3 DEF SpreadIn
      <4> QED BY <1>3, <4>1, SumIsInt
    <3> QED BY <1>4, <2>2, <3>1, <3>2
  <2> QED BY <2>1, <2>2
<1>6. /\ AppliedIn(all, l, d) = SumOf(SpreadIn(all, d), LiveOf(all, l))
      /\ AppliedIn(rs, l, d) = SumOf(SpreadIn(rs, d), LiveOf(rs, l))
  BY SpreadSum DEF AppliedIn, LiveOf
<1> QED BY <1>1, <1>5, <1>6

\* A void takes it back.
LEMMA AppliedVoided ==
    ASSUME NEW rs \in Seq(ReceiptRow), NEW i \in DOMAIN rs, rs[i].live, NEW l, NEW d \in Days
    PROVE  AppliedIn([rs EXCEPT ![i].live = FALSE], l, d)
           = AppliedIn(rs, l, d) - IF rs[i].loan = l THEN rs[i].spread[d] ELSE 0
<1>1. PICK left : left = [rs EXCEPT ![i].live = FALSE]
  OBVIOUS
<1>2. /\ DOMAIN left = DOMAIN rs /\ ~left[i].live
      /\ \A j \in DOMAIN rs \ {i} : left[j] = rs[j]
      /\ \A j \in DOMAIN rs : left[j].spread = rs[j].spread
  <2>1. \A j \in DOMAIN rs : rs[j] \in ReceiptRow
    BY ElementOfSeq, LenProperties
  <2> QED BY <1>1, <2>1 DEF ReceiptRow
<1>3. /\ IsFiniteSet(LiveOf(rs, l)) /\ LiveOf(rs, l) \subseteq DOMAIN rs
      /\ \A j \in DOMAIN rs : SpreadIn(rs, d)[j] \in Int
  <2>1. \A j \in DOMAIN rs : SpreadIn(rs, d)[j] \in Nat
    BY TermsOfLive
  <2> QED BY <2>1, TermsOfLive
<1>4. SpreadIn(left, d) = SpreadIn(rs, d) /\ LiveOf(left, l) = LiveOf(rs, l) \ {i}
  BY <1>2 DEF SpreadIn, LiveOf
<1>5. SumOf(SpreadIn(rs, d), LiveOf(rs, l) \ {i})
      = SumOf(SpreadIn(rs, d), LiveOf(rs, l)) - IF rs[i].loan = l THEN rs[i].spread[d] ELSE 0
  <2>1. \A j \in LiveOf(rs, l) : SpreadIn(rs, d)[j] \in Int
    BY <1>3
  <2>2. /\ SumOf(SpreadIn(rs, d), LiveOf(rs, l)) \in Int
        /\ SumOf(SpreadIn(rs, d), LiveOf(rs, l) \ {i}) \in Int
    <3>1. IsFiniteSet(LiveOf(rs, l) \ {i}) /\ LiveOf(rs, l) \ {i} \subseteq LiveOf(rs, l)
      BY <1>3, FS_Subset
    <3> QED BY <1>3, <2>1, <3>1, SumIsInt
  <2>3. CASE rs[i].loan = l
    <3>1. i \in LiveOf(rs, l) /\ SpreadIn(rs, d)[i] = rs[i].spread[d]
      BY <2>3 DEF LiveOf, SpreadIn
    <3>2. SumOf(SpreadIn(rs, d), LiveOf(rs, l))
          = SpreadIn(rs, d)[i] + SumOf(SpreadIn(rs, d), LiveOf(rs, l) \ {i})
      BY <1>3, <2>1, <3>1, SumWithout
    <3> QED BY <1>3, <2>2, <2>3, <3>1, <3>2
  <2>4. CASE rs[i].loan # l
    <3>1. LiveOf(rs, l) \ {i} = LiveOf(rs, l)
      BY <2>4 DEF LiveOf
    <3>2. SumOf(SpreadIn(rs, d), LiveOf(rs, l) \ {i}) = SumOf(SpreadIn(rs, d), LiveOf(rs, l))
      BY <3>1
    <3>3. \A n \in Int : n = n - IF rs[i].loan = l THEN rs[i].spread[d] ELSE 0
      BY <2>4
    <3> QED BY <2>2, <3>2, <3>3
  <2> QED BY <2>3, <2>4
<1>6. /\ AppliedIn(left, l, d) = SumOf(SpreadIn(left, d), LiveOf(left, l))
      /\ AppliedIn(rs, l, d) = SumOf(SpreadIn(rs, d), LiveOf(rs, l))
  BY SpreadSum DEF AppliedIn, LiveOf
<1> QED BY <1>1, <1>4, <1>5, <1>6

-----------------------------------------------------------------------------
(* Money, records and promises.                                            *)

LEMMA UnpaidIsLeft ==
    ASSUME PromiseAssumption, PromiseTables, NEW l \in Loans, NEW d \in Days
    PROVE  Unpaid(l, d) = UnpaidIn(posted, l, d) /\ Unpaid(l, d) \in Nat
  BY UnpaidIsNat DEF Unpaid, UnpaidIn, PromiseTables

\* Money spread over installments goes to none beyond what it lacks, or all to its day.
Fits(s, l, day) ==
    /\ s \in [Days -> Nat]
    /\ l \in ContractLoans => \A d \in Days : s[d] <= Unpaid(l, d)
    /\ l \notin ContractLoans => \A d \in Days \ {day} : s[d] = 0

\* Money goes where something is unpaid, on the legacy path to the day of the receipt.
LEMMA SpreadFits ==
    ASSUME PromiseAssumption, PromiseTables, NEW l \in Loans, NEW day \in Days, NEW amount \in Nat
    PROVE  Fits(Spread(l, day, amount), l, day)
<1> DEFINE u == [e \in Days |-> Unpaid(l, e)]
           sum(d) == MapThenSumSet(LAMBDA e : Unpaid(l, e), 1 .. d - 1)
           part(d) == AtLeast0(Least(Unpaid(l, d), amount - sum(d)))
<1>1. \A d \in Days : Unpaid(l, d) \in Nat
  BY UnpaidIsLeft
<1>2. ASSUME NEW d \in Days PROVE sum(d) \in Int
  <2>1. PICK S : S = 1 .. d - 1
    OBVIOUS
  <2>2. S \in SUBSET Days /\ IsFiniteSet(S)
    BY <2>1, FS_Subset, FS_CardinalityType DEF PromiseAssumption
  <2>3. SumOf(u, S) \in Int
    BY <1>1, <2>2, SumIsInt
  <2>4. MapThenSumSet(LAMBDA e : Unpaid(l, e), S) = SumOf(u, S)
    BY <2>2, UnpaidSum
  <2> QED BY <2>1, <2>3, <2>4
<1>3. Spread(l, day, amount) = [d \in Days |-> IF l \in ContractLoans THEN part(d)
                                               ELSE IF d = day THEN amount ELSE 0]
  BY DEF Spread
<1>4. ASSUME NEW d \in Days PROVE part(d) \in Nat /\ part(d) <= Unpaid(l, d)
  <2>1. PICK n \in Int : n = sum(d)
    BY <1>2
  <2>2. part(d) = AtLeast0(Least(Unpaid(l, d), amount - n))
    BY <2>1
  <2>3. Least(Unpaid(l, d), amount - n) = IF Unpaid(l, d) <= amount - n THEN Unpaid(l, d) ELSE amount - n
    BY <1>1, TwoNumbers
  <2>4. AtLeast0(Least(Unpaid(l, d), amount - n))
        = IF Least(Unpaid(l, d), amount - n) >= 0 THEN Least(Unpaid(l, d), amount - n) ELSE 0
    BY <1>1, <2>3, TwoNumbers
  <2> QED BY <1>1, <2>2, <2>3, <2>4
<1> HIDE DEF part
<1> QED BY <1>3, <1>4 DEF Fits

\* What money of a receipt does to the records.
LEMMA ReduceTakes ==
    ASSUME PromiseAssumption, PromiseTables, NEW rs \in Seq(ReceiptRow), NEW l \in Loans,
           NEW day \in Days, NEW spread \in [Days -> Nat], NEW os, os = Reduce(rs, l, day, spread)
    PROVE  /\ os \in Seq(DueRow) /\ DOMAIN os = DOMAIN obligations /\ Len(os) = Len(obligations)
           /\ \A i \in DOMAIN obligations :
                /\ os[i].loan = obligations[i].loan /\ os[i].day = obligations[i].day
                /\ os[i].original = obligations[i].original
                /\ os[i].source = obligations[i].source
                /\ os[i].remaining <= obligations[i].remaining
                /\ obligations[i].loan # l => os[i] = obligations[i]
                /\ obligations[i].loan = l =>
                    /\ l \notin ContractLoans =>
                        IF obligations[i].day = day THEN os[i].remaining <= UnpaidIn(rs, l, day)
                        ELSE os[i] = obligations[i]
                    /\ l \in ContractLoans /\ OneRecord(obligations) =>
                        os[i].remaining =
                            IF spread[obligations[i].day] <= obligations[i].remaining
                            THEN obligations[i].remaining - spread[obligations[i].day] ELSE 0
<1> DEFINE earlier(i) == {j \in 1 .. i - 1 : obligations[j].loan = l
                                             /\ obligations[j].day = obligations[i].day}
           before(i) == MapThenSumSet(LAMBDA j : obligations[j].remaining, earlier(i))
           due == AtLeast0(Least(Daily[l] - AppliedIn(rs, l, day), BalanceIn(rs, l)))
           taken(i) == AtLeast0(Least(obligations[i].remaining,
                                      spread[obligations[i].day] - before(i)))
           rest(i) == IF obligations[i].loan # l THEN obligations[i].remaining
                      ELSE IF l \in ContractLoans THEN obligations[i].remaining - taken(i)
                      ELSE IF obligations[i].day = day THEN Least(obligations[i].remaining, due)
                      ELSE obligations[i].remaining
           f == [j \in DOMAIN obligations |-> obligations[j].remaining]
<1>1. \A i \in DOMAIN obligations : obligations[i] \in DueRow
  BY ElementOfSeq, LenProperties DEF PromiseTables
<1>2. /\ DOMAIN os = DOMAIN obligations
      /\ \A i \in DOMAIN obligations :
            os[i] = IF obligations[i].loan # l THEN obligations[i]
                    ELSE IF l \in ContractLoans
                    THEN [obligations[i] EXCEPT !.remaining = obligations[i].remaining - taken(i)]
                    ELSE IF obligations[i].day = day
                    THEN [obligations[i] EXCEPT !.remaining = Least(obligations[i].remaining, due)]
                    ELSE obligations[i]
  BY DEF Reduce
<1>3. ASSUME NEW i \in DOMAIN obligations
      PROVE  before(i) \in Int /\ (l \in ContractLoans /\ obligations[i].loan = l
                                    /\ OneRecord(obligations) => before(i) = 0)
  <2>1. PICK S : S = earlier(i)
    OBVIOUS
  <2>2. S \in SUBSET DOMAIN obligations /\ IsFiniteSet(S)
    <3>1. DOMAIN obligations = 1 .. Len(obligations) /\ Len(obligations) \in Nat
      BY LenProperties DEF PromiseTables
    <3>2. S \in SUBSET DOMAIN obligations
      BY <2>1, <3>1
    <3>3. IsFiniteSet(1 .. Len(obligations))
      BY <3>1, FS_Interval
    <3> QED BY <3>1, <3>2, <3>3, FS_Subset
  <2>3. before(i) = SumOf(f, S)
    BY <2>1, <2>2, RemainingSum
  <2>4. \A j \in S : f[j] \in Int
    BY <1>1, <2>2 DEF DueRow
  <2>5. SumOf(f, S) \in Int
    BY <2>2, <2>4, SumIsInt
  <2>6. ASSUME l \in ContractLoans, obligations[i].loan = l, OneRecord(obligations)
        PROVE  S = {}
    <3>1. DOMAIN obligations = 1 .. Len(obligations) /\ Len(obligations) \in Nat
      BY LenProperties DEF PromiseTables
    <3> QED BY <2>1, <2>2, <2>6, <3>1 DEF OneRecord
  <2>7. S = {} => SumOf(f, S) = 0
    BY SumOfNone
  <2> HIDE DEF f, before
  <2> QED BY <2>3, <2>5, <2>6, <2>7
<1>4. due \in Nat /\ due <= UnpaidIn(rs, l, day)
  <2>1. PICK a \in Int : a = Daily[l] - AppliedIn(rs, l, day)
    BY AppliedIsNat DEF PromiseAssumption
  <2>2. PICK b \in Int : b = BalanceIn(rs, l)
    BY BalanceIsInt
  <2>3. Least(a, b) = IF a <= b THEN a ELSE b
    BY TwoNumbers
  <2>4. AtLeast0(Least(a, b)) = IF Least(a, b) >= 0 THEN Least(a, b) ELSE 0
    BY <2>3, TwoNumbers
  <2>5. UnpaidIn(rs, l, day) = IF a >= 0 THEN a ELSE 0
    BY <2>1, UnpaidIsNat
  <2> QED BY <2>1, <2>2, <2>3, <2>4, <2>5
<1>5. ASSUME NEW i \in DOMAIN obligations
      PROVE  /\ taken(i) \in Nat /\ taken(i) <= obligations[i].remaining
             /\ before(i) = 0 => taken(i) = IF spread[obligations[i].day] <= obligations[i].remaining
                                            THEN spread[obligations[i].day]
                                            ELSE obligations[i].remaining
             /\ Least(obligations[i].remaining, due) \in Nat
             /\ Least(obligations[i].remaining, due) <= obligations[i].remaining
             /\ Least(obligations[i].remaining, due) <= due
  <2>1. obligations[i].remaining \in Nat /\ obligations[i].day \in Days
    BY <1>1 DEF DueRow
  <2>2. PICK m \in Nat : m = obligations[i].remaining
    BY <2>1
  <2>3. PICK b \in Int : b = before(i)
    BY <1>3
  <2>4. PICK s \in Nat : s = spread[obligations[i].day]
    BY <2>1
  <2>5. PICK e \in Nat : e = due
    BY <1>4
  <2>6. taken(i) = AtLeast0(Least(m, s - b))
    BY <2>2, <2>3, <2>4
  <2>7. Least(m, s - b) = (IF m <= s - b THEN m ELSE s - b) /\ Least(m, e) = IF m <= e THEN m ELSE e
    BY TwoNumbers
  <2>8. AtLeast0(Least(m, s - b)) = IF Least(m, s - b) >= 0 THEN Least(m, s - b) ELSE 0
    BY <2>7, TwoNumbers
  <2> HIDE DEF taken, before, due
  <2> QED BY <2>2, <2>3, <2>4, <2>5, <2>6, <2>7, <2>8
<1> HIDE DEF taken, before, due
<1>6. ASSUME NEW i \in DOMAIN obligations
      PROVE  /\ os[i] \in DueRow
             /\ os[i].loan = obligations[i].loan /\ os[i].day = obligations[i].day
             /\ os[i].original = obligations[i].original
             /\ os[i].source = obligations[i].source
             /\ os[i].remaining = rest(i)
             /\ os[i].remaining = obligations[i].remaining => os[i] = obligations[i]
  <2>1. PICK o \in DueRow : o = obligations[i]
    BY <1>1
  <2>2. PICK t \in Nat : t = taken(i) /\ t <= o.remaining
    BY <1>5, <2>1
  <2>3. PICK e \in Nat : e = Least(obligations[i].remaining, due)
    BY <1>5
  <2>4. o.remaining \in Nat /\ o.remaining - t \in Nat
    BY <2>2 DEF DueRow
  <2>5. \A n \in Nat : LET p == [o EXCEPT !.remaining = n] IN
            /\ p \in DueRow /\ p.loan = o.loan /\ p.day = o.day /\ p.original = o.original
            /\ p.source = o.source /\ p.remaining = n /\ (n = o.remaining => p = o)
    BY DEF DueRow
  <2>6. \/ os[i] = o /\ rest(i) = o.remaining
        \/ os[i] = [o EXCEPT !.remaining = o.remaining - t] /\ rest(i) = o.remaining - t
        \/ os[i] = [o EXCEPT !.remaining = e] /\ rest(i) = e
    BY <1>2, <2>1, <2>2, <2>3
  <2> HIDE DEF rest
  <2>7. CASE os[i] = o /\ rest(i) = o.remaining
    BY <2>1, <2>7 DEF DueRow
  <2>8. CASE os[i] = [o EXCEPT !.remaining = o.remaining - t] /\ rest(i) = o.remaining - t
    BY <2>1, <2>4, <2>5, <2>8
  <2>9. CASE os[i] = [o EXCEPT !.remaining = e] /\ rest(i) = e
    BY <2>1, <2>5, <2>9
  <2> QED BY <2>6, <2>7, <2>8, <2>9
<1>7. os \in Seq(DueRow) /\ Len(os) = Len(obligations)
  <2>1. DOMAIN obligations = 1 .. Len(obligations) /\ Len(obligations) \in Nat
    BY LenProperties DEF PromiseTables
  <2>2. os = [i \in 1 .. Len(obligations) |-> os[i]]
    BY <1>2, <2>1 DEF Reduce
  <2> QED BY <1>6, <2>1, <2>2, IsASeq
<1>8. ASSUME NEW i \in DOMAIN obligations
      PROVE  /\ os[i].remaining <= obligations[i].remaining
             /\ obligations[i].loan # l => os[i] = obligations[i]
             /\ obligations[i].loan = l =>
                    /\ l \notin ContractLoans =>
                        IF obligations[i].day = day THEN os[i].remaining <= UnpaidIn(rs, l, day)
                        ELSE os[i] = obligations[i]
                    /\ l \in ContractLoans /\ OneRecord(obligations) =>
                        os[i].remaining =
                            IF spread[obligations[i].day] <= obligations[i].remaining
                            THEN obligations[i].remaining - spread[obligations[i].day] ELSE 0
  <2>1. obligations[i].remaining \in Nat /\ spread[obligations[i].day] \in Nat
    BY <1>1 DEF DueRow
  <2>2. obligations[i].loan # l => os[i].remaining = obligations[i].remaining
    BY <1>6
  <2>3. CASE obligations[i].loan # l
    BY <1>6, <2>1, <2>2, <2>3
  <2>4. CASE obligations[i].loan = l /\ l \in ContractLoans
    <3>1. os[i].remaining = obligations[i].remaining - taken(i)
      BY <1>6, <2>4
    <3>2. OneRecord(obligations) => before(i) = 0
      BY <1>3, <2>4
    <3> QED BY <1>5, <2>1, <2>4, <3>1, <3>2
  <2>5. CASE obligations[i].loan = l /\ l \notin ContractLoans
    <3>1. UnpaidIn(rs, l, day) \in Nat
      BY UnpaidIsNat
    <3>2. os[i].remaining = IF obligations[i].day = day THEN Least(obligations[i].remaining, due)
                            ELSE obligations[i].remaining
      BY <1>6, <2>5
    <3> QED BY <1>4, <1>5, <1>6, <2>1, <2>5, <3>1, <3>2
  <2> QED BY <2>3, <2>4, <2>5
<1> QED BY <1>2, <1>6, <1>7, <1>8

LEMMA DaysAreNumbers ==
    ASSUME PromiseAssumption
    PROVE  Days \subseteq Nat
  BY FS_CardinalityType DEF PromiseAssumption

\* A promise asks for no more than its amount.
LEMMA LeftPromisedFits ==
    ASSUME NEW p \in PromiseRow, NEW os, os[p.obligation] \in DueRow,
           os[p.obligation].remaining <= os[p.obligation].original
    PROVE  /\ LeftPromised(p, os) \in Nat /\ LeftPromised(p, os) <= p.amount
           /\ os[p.obligation].remaining = os[p.obligation].original
                => LeftPromised(p, os) = p.amount
<1>1. PICK a \in Nat : a = p.amount
  BY DEF PromiseRow
<1>2. PICK n \in Nat : n = os[p.obligation].original - os[p.obligation].remaining
  BY DEF DueRow
<1>3. Least(a, n) = IF a <= n THEN a ELSE n
  BY TwoNumbers
<1>4. os[p.obligation].remaining = os[p.obligation].original => n = 0
  BY <1>2 DEF DueRow
<1> QED BY <1>1, <1>2, <1>3, <1>4 DEF LeftPromised

PromisesStand(ps, os) ==
    \A i \in DOMAIN ps :
        ps[i].obligation \in DOMAIN os /\ ps[i].remaining <= ps[i].amount

\* Closing overdue promises changes their status alone.
LEMMA CloseKeeps ==
    ASSUME PromiseAssumption, NEW ps \in Seq(PromiseRow), NEW day \in Days,
           NEW qs, qs = CloseOverdue(ps, day)
    PROVE  /\ qs \in Seq(PromiseRow) /\ DOMAIN qs = DOMAIN ps
           /\ \A i \in DOMAIN ps :
                /\ qs[i].obligation = ps[i].obligation /\ qs[i].amount = ps[i].amount
                /\ qs[i].deadline = ps[i].deadline /\ qs[i].remaining = ps[i].remaining
                /\ qs[i].status = "pending" => qs[i] = ps[i]
                /\ ps[i].status # "pending" => qs[i] = ps[i]
                /\ ps[i].deadline >= day => qs[i] = ps[i]
                /\ ps[i].deadline < day => qs[i].status # "pending"
                /\ ps[i].status = "pending" /\ ps[i].deadline < day /\ ps[i].remaining > 0
                     => qs[i].status # "kept"
<1>1. DOMAIN ps = 1 .. Len(ps) /\ Len(ps) \in Nat
  BY LenProperties
<1>2. qs = [i \in 1 .. Len(ps) |->
                IF ps[i].status = "pending" /\ ps[i].deadline < day
                THEN [ps[i] EXCEPT !.status = DeadlineStatus(ps[i])] ELSE ps[i]]
  BY <1>1 DEF CloseOverdue
<1>3. ASSUME NEW i \in DOMAIN ps
      PROVE  /\ qs[i] \in PromiseRow
             /\ qs[i].obligation = ps[i].obligation /\ qs[i].amount = ps[i].amount
             /\ qs[i].deadline = ps[i].deadline /\ qs[i].remaining = ps[i].remaining
             /\ qs[i].status = "pending" => qs[i] = ps[i]
             /\ ps[i].status # "pending" => qs[i] = ps[i]
             /\ ps[i].deadline >= day => qs[i] = ps[i]
             /\ ps[i].deadline < day => qs[i].status # "pending"
             /\ ps[i].status = "pending" /\ ps[i].deadline < day /\ ps[i].remaining > 0
                  => qs[i].status # "kept"
  <2>1. PICK p \in PromiseRow : p = ps[i]
    BY ElementOfSeq, <1>1
  <2>2. /\ DeadlineStatus(p) \in {"kept", "partially_kept", "not_kept"}
        /\ p.remaining > 0 => DeadlineStatus(p) # "kept"
    BY DEF DeadlineStatus, PromiseRow
  <2>3. PICK c \in {"kept", "partially_kept", "not_kept"} : c = DeadlineStatus(p)
    BY <2>2
  <2>4. CASE p.status = "pending" /\ p.deadline < day
    <3>1. qs[i] = [p EXCEPT !.status = c]
      BY <1>1, <1>2, <2>1, <2>3, <2>4
    <3>2. PICK q : q = [p EXCEPT !.status = c]
      OBVIOUS
    <3>3. /\ q \in PromiseRow /\ q.status = c /\ q.obligation = p.obligation
          /\ q.amount = p.amount /\ q.deadline = p.deadline /\ q.remaining = p.remaining
      BY <3>2 DEF PromiseRow
    <3>4. p.deadline \in Nat /\ day \in Nat
      BY DaysAreNumbers DEF PromiseRow
    <3> QED BY <2>1, <2>2, <2>3, <2>4, <3>1, <3>2, <3>3, <3>4
  <2>5. CASE ~(p.status = "pending" /\ p.deadline < day)
    <3>1. qs[i] = p
      BY <1>1, <1>2, <2>1, <2>5
    <3> QED BY <2>1, <2>5, <3>1
  <2> QED BY <2>4, <2>5
<1>4. qs \in Seq(PromiseRow) /\ DOMAIN qs = DOMAIN ps
  <2>1. \A i \in 1 .. Len(ps) : qs[i] \in PromiseRow
    BY <1>1, <1>3
  <2>2. qs = [i \in 1 .. Len(ps) |-> qs[i]]
    BY <1>2
  <2> QED BY <1>1, <2>1, <2>2, IsASeq
<1> QED BY <1>3, <1>4

\* The promises follow the records that money reached.
LEMMA ReconcileKeeps ==
    ASSUME PromiseTables, NEW ps \in Seq(PromiseRow), PromisesStand(ps, obligations),
           NEW os \in Seq(DueRow), DOMAIN os = DOMAIN obligations,
           \A i \in DOMAIN os : os[i].remaining <= os[i].original,
           NEW qs, qs = Reconcile(ps, os)
    PROVE  /\ qs \in Seq(PromiseRow) /\ DOMAIN qs = DOMAIN ps /\ PromisesStand(qs, os)
           /\ \A i \in DOMAIN ps :
                /\ qs[i].obligation = ps[i].obligation /\ qs[i].amount = ps[i].amount
                /\ qs[i].deadline = ps[i].deadline
                /\ ps[i].status # "pending" => qs[i] = ps[i]
                /\ ps[i].status = "pending" => qs[i].status \in {"pending", "kept"}
           /\ FollowsDue(ps, obligations) => FollowsDue(qs, os)
<1>1. DOMAIN ps = 1 .. Len(ps) /\ Len(ps) \in Nat
  BY LenProperties
<1>2. qs = [i \in 1 .. Len(ps) |->
                IF ps[i].status = "pending" /\ os[ps[i].obligation] # obligations[ps[i].obligation]
                THEN [ps[i] EXCEPT !.remaining = LeftPromised(ps[i], os),
                                   !.status = IF LeftPromised(ps[i], os) = 0
                                              THEN "kept" ELSE "pending"]
                ELSE ps[i]]
  BY <1>1 DEF Reconcile
<1>3. ASSUME NEW i \in DOMAIN ps
      PROVE  /\ qs[i] \in PromiseRow
             /\ qs[i].obligation = ps[i].obligation /\ qs[i].amount = ps[i].amount
             /\ qs[i].deadline = ps[i].deadline /\ qs[i].remaining <= qs[i].amount
             /\ ps[i].status # "pending" => qs[i] = ps[i]
             /\ ps[i].status = "pending" => qs[i].status \in {"pending", "kept"}
             /\ FollowsDue(ps, obligations) /\ qs[i].status = "pending" =>
                    qs[i].remaining = LeftPromised(qs[i], os) /\ qs[i].remaining > 0
  <2>1. PICK p \in PromiseRow : p = ps[i]
    BY ElementOfSeq, <1>1
  <2>2. p.obligation \in DOMAIN os /\ p.remaining <= p.amount
    BY <2>1 DEF PromisesStand
  <2>3. os[p.obligation] \in DueRow
    BY <2>2, ElementOfSeq, LenProperties
  <2>4. PICK n \in Nat : n = LeftPromised(p, os) /\ n <= p.amount
    BY <2>2, <2>3, LeftPromisedFits
  <2>5. CASE p.status = "pending" /\ os[p.obligation] # obligations[p.obligation]
    <3>1. PICK c \in {"kept", "pending"} : c = IF n = 0 THEN "kept" ELSE "pending"
      OBVIOUS
    <3>2. PICK q : q = [p EXCEPT !.remaining = n, !.status = c]
      OBVIOUS
    <3>3. qs[i] = q
      BY <1>1, <1>2, <2>1, <2>4, <2>5, <3>1, <3>2
    <3>4. /\ q \in PromiseRow /\ q.status = c /\ q.obligation = p.obligation
          /\ q.amount = p.amount /\ q.deadline = p.deadline /\ q.remaining = n
      BY <3>2 DEF PromiseRow
    <3>5. LeftPromised(q, os) = n
      BY <2>4, <3>4 DEF LeftPromised
    <3> QED BY <2>1, <2>4, <2>5, <3>1, <3>3, <3>4, <3>5
  <2>6. CASE ~(p.status = "pending" /\ os[p.obligation] # obligations[p.obligation])
    <3>1. qs[i] = p
      BY <1>1, <1>2, <2>1, <2>6
    <3>2. p.status = "pending" => LeftPromised(p, os) = LeftPromised(p, obligations)
      BY <2>6 DEF LeftPromised
    <3> QED BY <2>1, <2>2, <3>1, <3>2 DEF FollowsDue
  <2> QED BY <2>5, <2>6
<1>4. qs \in Seq(PromiseRow) /\ DOMAIN qs = DOMAIN ps
  <2>1. \A i \in 1 .. Len(ps) : qs[i] \in PromiseRow
    BY <1>1, <1>3
  <2>2. qs = [i \in 1 .. Len(ps) |-> qs[i]]
    BY <1>2
  <2> QED BY <1>1, <2>1, <2>2, IsASeq
<1>5. PromisesStand(qs, os)
  BY <1>3, <1>4 DEF PromisesStand
<1>6. FollowsDue(ps, obligations) => FollowsDue(qs, os)
  BY <1>3, <1>4 DEF FollowsDue
<1> QED BY <1>3, <1>4, <1>5, <1>6

\* A record, and a promise on it, are added.
Extended(all, os, l, day, amount, source) ==
    /\ all \in Seq(DueRow) /\ Len(all) = Len(os) + 1
    /\ DOMAIN all = DOMAIN os \cup {Len(all)} /\ Len(all) \notin DOMAIN os
    /\ \A i \in DOMAIN os : all[i] = os[i]
    /\ all[Len(all)].loan = l /\ all[Len(all)].day = day /\ all[Len(all)].source = source
    /\ all[Len(all)].original = amount /\ all[Len(all)].remaining = amount

LEMMA RecordAdds ==
    ASSUME NEW os \in Seq(DueRow), NEW l \in Loans, NEW day \in Days, NEW amount \in Nat,
           NEW source \in Nat
    PROVE  Extended(Record(os, l, day, amount, source), os, l, day, amount, source)
<1>1. PICK o \in DueRow : o = [loan |-> l, day |-> day, original |-> amount,
                              remaining |-> amount, source |-> source]
  BY DEF DueRow
<1>2. PICK all : all = Append(os, o)
  OBVIOUS
<1>3. /\ all \in Seq(DueRow) /\ Len(all) = Len(os) + 1 /\ all[Len(os) + 1] = o
      /\ \A i \in 1 .. Len(os) : all[i] = os[i]
  BY <1>2, AppendProperties
<1>4. DOMAIN all = 1 .. Len(all) /\ DOMAIN os = 1 .. Len(os) /\ Len(os) \in Nat
  BY <1>3, LenProperties
<1>5. Extended(all, os, l, day, amount, source)
  BY <1>1, <1>3, <1>4 DEF Extended
<1> QED BY <1>1, <1>2, <1>5 DEF Record

LEMMA FollowsLonger ==
    ASSUME NEW ps, NEW os, NEW all, DOMAIN os \subseteq DOMAIN all,
           \A i \in DOMAIN os : all[i] = os[i], PromisesStand(ps, os), FollowsDue(ps, os)
    PROVE  PromisesStand(ps, all) /\ FollowsDue(ps, all)
<1>1. \A i \in DOMAIN ps : LeftPromised(ps[i], all) = LeftPromised(ps[i], os)
  BY DEF LeftPromised, PromisesStand
<1>2. FollowsDue(ps, all)
  BY <1>1 DEF FollowsDue
<1> QED BY <1>2 DEF PromisesStand

LEMMA PromiseAdds ==
    ASSUME PromiseAssumption, NEW ps \in Seq(PromiseRow), NEW os \in Seq(DueRow), Len(os) > 0,
           os[Len(os)].remaining = os[Len(os)].original,
           PromisesStand(ps, os), OnePends(ps), FollowsDue(ps, os),
           NEW due, NEW amount \in Nat, NEW deadline \in Days, NEW day,
           Promise(ps, os, due, amount, deadline, day)
    PROVE  /\ promises' \in Seq(PromiseRow) /\ PromisesStand(promises', os)
           /\ OnePends(promises') /\ FollowsDue(promises', os)
           /\ DOMAIN ps \subseteq DOMAIN promises' /\ \A i \in DOMAIN ps : promises'[i] = ps[i]
<1>1. CASE amount = 0
  BY <1>1 DEF Promise
<1>2. CASE amount # 0
  <2>1. /\ promises' = Append(ps, NewPromise(Len(os), amount, deadline))
        /\ \A i \in DOMAIN ps : ps[i].status # "pending"
    BY <1>2 DEF Promise, MayPromise
  <2>2. Len(os) \in Nat /\ Len(os) \in DOMAIN os /\ os[Len(os)] \in DueRow
    BY LenProperties, ElementOfSeq
  <2>3. PICK p \in PromiseRow : p = NewPromise(Len(os), amount, deadline)
    BY <1>2, <2>2 DEF NewPromise, PromiseRow
  <2>4. p.obligation = Len(os) /\ p.amount = amount /\ p.remaining = amount
    BY <2>3 DEF NewPromise
  <2>5. PICK qs : qs = Append(ps, p)
    OBVIOUS
  <2>6. /\ qs \in Seq(PromiseRow) /\ Len(qs) = Len(ps) + 1 /\ qs[Len(ps) + 1] = p
        /\ \A i \in 1 .. Len(ps) : qs[i] = ps[i]
    BY <2>5, AppendProperties
  <2>7. DOMAIN qs = 1 .. Len(qs) /\ DOMAIN ps = 1 .. Len(ps) /\ Len(ps) \in Nat
    BY <2>6, LenProperties
  <2>8. DOMAIN qs = DOMAIN ps \cup {Len(qs)}
    BY <2>6, <2>7
  <2>9. LeftPromised(p, os) = amount
    <3>1. os[p.obligation] \in DueRow /\ os[p.obligation].remaining = os[p.obligation].original
      BY <2>2, <2>4
    <3>2. os[p.obligation].remaining <= os[p.obligation].original
      BY <3>1 DEF DueRow
    <3> QED BY <2>4, <3>1, <3>2, LeftPromisedFits
  <2>10. PromisesStand(qs, os)
    BY <2>2, <2>4, <2>6, <2>7, <2>8 DEF PromisesStand
  <2>11. OnePends(qs)
    BY <2>1, <2>6, <2>7, <2>8 DEF OnePends
  <2>12. FollowsDue(qs, os)
    BY <1>2, <2>1, <2>4, <2>6, <2>7, <2>8, <2>9 DEF FollowsDue
  <2>13. promises' = qs
    BY <2>1, <2>3, <2>5
  <2> QED BY <2>6, <2>7, <2>8, <2>10, <2>11, <2>12, <2>13
<1> QED BY <1>1, <1>2

LEMMA PromiseOnRecord ==
    ASSUME PromiseAssumption, NEW ps \in Seq(PromiseRow), NEW os \in Seq(DueRow),
           PromisesStand(ps, os), OnePends(ps), FollowsDue(ps, os), NEW l \in Loans,
           NEW day \in Days, NEW due \in Nat, NEW source \in Nat, NEW amount \in Nat,
           NEW deadline \in Days, NEW all, all = Record(os, l, day, due, source),
           Promise(ps, all, due, amount, deadline, day)
    PROVE  /\ promises' \in Seq(PromiseRow) /\ PromisesStand(promises', all)
           /\ OnePends(promises') /\ FollowsDue(promises', all)
           /\ DOMAIN ps \subseteq DOMAIN promises' /\ \A i \in DOMAIN ps : promises'[i] = ps[i]
<1>1. /\ all \in Seq(DueRow) /\ Len(all) = Len(os) + 1 /\ DOMAIN all = DOMAIN os \cup {Len(all)}
      /\ \A i \in DOMAIN os : all[i] = os[i]
      /\ all[Len(all)].remaining = all[Len(all)].original
  <2>1. Extended(all, os, l, day, due, source)
    BY RecordAdds
  <2> QED BY <2>1 DEF Extended
<1>2. PromisesStand(ps, all) /\ FollowsDue(ps, all)
  BY <1>1, FollowsLonger
<1>3. Len(all) > 0
  BY <1>1, LenProperties
<1> QED BY <1>1, <1>2, <1>3, PromiseAdds

-----------------------------------------------------------------------------
(* The steps.                                                              *)

SaysDue(rs, os) ==
    \A i \in DOMAIN os :
        /\ os[i].remaining <= UnpaidIn(rs, os[i].loan, os[i].day)
        /\ os[i].loan \in ContractLoans => os[i].remaining = UnpaidIn(rs, os[i].loan, os[i].day)

LEMMA DueIsSaid == DueIsUnpaid <=> SaysDue(posted, obligations)
  BY DEF DueIsUnpaid, SaysDue, Unpaid, UnpaidIn

\* What a receipt leaves: r is its row, os the records after its money, due what its
\* day still lacks then.
PostChanges(l, day, kind, cash, r, os, due, linked) ==
    /\ r.loan = l /\ r.day = day /\ r.live
    /\ posted' = Append(posted, [r EXCEPT !.linked = linked])
    /\ ~linked => obligations' = obligations
    /\ UNCHANGED followups
    /\ IF kind = "pass" THEN os = obligations /\ \A d \in Days : r.spread[d] = 0
       ELSE /\ r.spread = Spread(l, day, cash)
            /\ os = Reduce(Append(posted, r), l, day, r.spread)
    /\ due = Shortfall(Append(posted, r), os, l, day)
    /\ obligations' = IF due = 0 THEN os ELSE Record(os, l, day, due, Len(posted) + 1)
    /\ promises' \in Seq(PromiseRow) /\ PromisesStand(promises', obligations')
    /\ OnePends(promises') /\ FollowsDue(promises', obligations')
    /\ \A i \in DOMAIN promises :
         /\ i \in DOMAIN promises'
         /\ promises[i].status # "pending" => promises'[i] = promises[i]
         /\ promises[i].status = "pending" /\ promises'[i].status # "pending" =>
              (promises'[i].status = "kept" <=> day <= promises[i].deadline)

\* What a receipt does to the promises: those whose day has passed are closed,
\* the others follow the records, and a new one is added last.
LEMMA PostFollows ==
    ASSUME PromiseAssumption, PromisesInv, NEW l \in Loans, NEW day \in Days,
           NEW kind \in {"payment", "pass"}, NEW cash \in PastDueAmounts \cup {0},
           NEW promised \in PastDueAmounts \cup {0}, NEW deadline \in Days,
           PostReceipt(l, day, kind, cash, promised, deadline)
    PROVE  \E r \in ReceiptRow, os \in Seq(DueRow), due \in Nat, linked \in BOOLEAN :
               PostChanges(l, day, kind, cash, r, os, due, linked)
<1> DEFINE spread == IF kind = "pass" THEN [d \in Days |-> 0] ELSE Spread(l, day, cash)
           row == [loan |-> l, day |-> day, kind |-> kind, spread |-> spread,
                   live |-> TRUE, linked |-> FALSE]
           reduced == IF kind = "pass" THEN obligations
                      ELSE Reduce(Append(posted, row), l, day, spread)
           short == Shortfall(Append(posted, row), reduced, l, day)
<1>1. cash \in Nat /\ promised \in Nat
  BY DEF PromiseAssumption
<1>2. PromiseTables /\ OnePends(promises) /\ FollowsDue(promises, obligations)
  BY DEF PromisesInv
<1>3. spread \in [Days -> Nat]
  BY <1>1, <1>2, SpreadFits DEF Fits
<1>4. row \in ReceiptRow
  BY <1>3 DEF ReceiptRow
<1>5. PICK rs : rs = Append(posted, row)
  OBVIOUS
<1>6. /\ rs \in Seq(ReceiptRow) /\ Len(rs) = Len(posted) + 1 /\ rs[Len(rs)] = row
      /\ DOMAIN rs = 1 .. Len(rs) /\ Len(posted) \in Nat
      /\ \A i \in 1 .. Len(posted) : rs[i] = posted[i]
  BY <1>2, <1>4, <1>5, AppendProperties, LenProperties DEF PromiseTables
<1>7. PICK os : os = reduced
  OBVIOUS
<1>8. /\ os \in Seq(DueRow) /\ DOMAIN os = DOMAIN obligations
      /\ \A i \in DOMAIN os : os[i].remaining <= os[i].original
  <2>1. CASE kind = "pass"
    BY <1>2, <1>7, <2>1 DEF PromiseTables
  <2>2. CASE kind # "pass"
    <3>1. /\ os \in Seq(DueRow) /\ DOMAIN os = DOMAIN obligations
          /\ \A i \in DOMAIN obligations : os[i].original = obligations[i].original
                                           /\ os[i].remaining <= obligations[i].remaining
      <4>1. PICK sp \in [Days -> Nat] : sp = spread
        BY <1>3
      <4>2. os = Reduce(rs, l, day, sp)
        BY <1>5, <1>7, <2>2, <4>1
      <4> HIDE DEF spread, reduced, row
      <4> QED BY <1>2, <1>6, <4>2, ReduceTakes
    <3>2. \A i \in DOMAIN obligations : os[i] \in DueRow /\ obligations[i] \in DueRow
                                        /\ obligations[i].remaining <= obligations[i].original
      BY <1>2, <3>1, ElementOfSeq, LenProperties DEF PromiseTables
    <3> QED BY <3>1, <3>2 DEF DueRow
  <2> QED BY <2>1, <2>2
<1>9. PICK closed : closed = CloseOverdue(promises, day)
  OBVIOUS
<1>10. promises \in Seq(PromiseRow) /\ PromisesStand(promises, obligations)
  BY <1>2 DEF PromiseTables, PromisesStand
<1>11. /\ closed \in Seq(PromiseRow) /\ DOMAIN closed = DOMAIN promises
       /\ \A i \in DOMAIN promises :
            /\ closed[i].obligation = promises[i].obligation /\ closed[i].amount = promises[i].amount
            /\ closed[i].deadline = promises[i].deadline /\ closed[i].remaining = promises[i].remaining
            /\ closed[i].status = "pending" => closed[i] = promises[i]
            /\ promises[i].status # "pending" => closed[i] = promises[i]
            /\ promises[i].deadline >= day => closed[i] = promises[i]
            /\ promises[i].deadline < day => closed[i].status # "pending"
            /\ promises[i].status = "pending" /\ promises[i].deadline < day
               /\ promises[i].remaining > 0 => closed[i].status # "kept"
  BY <1>9, <1>10, CloseKeeps
<1>12. PromisesStand(closed, obligations) /\ OnePends(closed) /\ FollowsDue(closed, obligations)
  <2>1. PromisesStand(closed, obligations)
    BY <1>10, <1>11 DEF PromisesStand
  <2>2. OnePends(closed)
    BY <1>2, <1>11 DEF OnePends
  <2>3. FollowsDue(closed, obligations)
    BY <1>2, <1>11 DEF FollowsDue
  <2> QED BY <2>1, <2>2, <2>3
<1>13. PICK followed : followed = Reconcile(closed, os)
  OBVIOUS
<1>14. /\ followed \in Seq(PromiseRow) /\ DOMAIN followed = DOMAIN closed
       /\ PromisesStand(followed, os) /\ FollowsDue(followed, os)
       /\ \A i \in DOMAIN closed :
            /\ closed[i].status # "pending" => followed[i] = closed[i]
            /\ closed[i].status = "pending" => followed[i].status \in {"pending", "kept"}
  BY <1>2, <1>8, <1>11, <1>12, <1>13, ReconcileKeeps
<1>15. OnePends(followed)
  BY <1>12, <1>14 DEF OnePends
<1>16. ASSUME NEW i \in DOMAIN promises
       PROVE  /\ promises[i].status # "pending" => followed[i] = promises[i]
              /\ promises[i].status = "pending" /\ followed[i].status # "pending" =>
                   (followed[i].status = "kept" <=> day <= promises[i].deadline)
  <2>1. promises[i].status = "pending" => promises[i].remaining > 0
    BY <1>2 DEF FollowsDue
  <2>2. promises[i] \in PromiseRow
    BY <1>10, ElementOfSeq, LenProperties
  <2>3. promises[i].deadline \in Nat /\ day \in Nat
    BY <2>2, DaysAreNumbers DEF PromiseRow
  <2>4. CASE promises[i].status # "pending"
    BY <1>11, <1>14, <2>4
  <2>5. CASE promises[i].status = "pending" /\ promises[i].deadline >= day
    BY <1>11, <1>14, <2>3, <2>5
  <2>6. CASE promises[i].status = "pending" /\ promises[i].deadline < day
    BY <1>11, <1>14, <2>1, <2>3, <2>6
  <2> QED BY <2>3, <2>4, <2>5, <2>6
<1>17. PICK due : due = Shortfall(rs, os, l, day)
  OBVIOUS
<1>18. due \in Nat
  <2>1. PICK a \in Int : a = Daily[l] - AppliedIn(rs, l, day)
    BY <1>6, AppliedIsNat DEF PromiseAssumption
  <2>2. PICK b \in Int : b = BalanceIn(rs, l)
    BY <1>6, BalanceIsInt
  <2>3. Least(a, b) \in Int
    BY TwoNumbers
  <2>4. AtLeast0(Least(a, b)) \in Nat /\ AtLeast0(a) \in Nat
    BY <2>3, TwoNumbers
  <2>5. due \in {0, AtLeast0(Least(a, b)), AtLeast0(a)}
    BY <1>17, <2>1, <2>2 DEF Shortfall
  <2> QED BY <2>4, <2>5
<1> HIDE DEF spread
<1>19. /\ IF due = 0 THEN obligations' = os /\ promises' = followed
          ELSE /\ obligations' = Record(os, l, day, due, Len(rs))
               /\ Promise(followed, obligations', due, promised, deadline, day)
       /\ posted' = [rs EXCEPT ![Len(rs)].linked = obligations' # obligations \/ promises' # promises]
       /\ UNCHANGED followups
  BY <1>5, <1>7, <1>9, <1>13, <1>17 DEF PostReceipt, spread
<1>20. /\ promises' \in Seq(PromiseRow) /\ PromisesStand(promises', obligations')
       /\ OnePends(promises') /\ FollowsDue(promises', obligations')
       /\ DOMAIN followed \subseteq DOMAIN promises'
       /\ \A i \in DOMAIN followed : promises'[i] = followed[i]
  <2>1. CASE due = 0
    BY <1>14, <1>15, <1>19, <2>1
  <2>2. CASE due # 0
    <3>1. PICK all : all = obligations' /\ all = Record(os, l, day, due, Len(rs))
      BY <1>19, <2>2
    <3>2. Promise(followed, all, due, promised, deadline, day)
      BY <1>19, <2>2, <3>1
    <3>3. Len(rs) \in Nat
      BY <1>6
    <3> HIDE DEF reduced, row, short
    <3>4. /\ promises' \in Seq(PromiseRow) /\ PromisesStand(promises', all)
          /\ OnePends(promises') /\ FollowsDue(promises', all)
          /\ DOMAIN followed \subseteq DOMAIN promises'
          /\ \A i \in DOMAIN followed : promises'[i] = followed[i]
      BY <1>1, <1>8, <1>14, <1>15, <1>18, <3>1, <3>2, <3>3, PromiseOnRecord
    <3> QED BY <3>1, <3>4
  <2> QED BY <2>1, <2>2
<1>21. PICK linked \in BOOLEAN : linked = (obligations' # obligations \/ promises' # promises)
  OBVIOUS
<1>22. posted' = Append(posted, [row EXCEPT !.linked = linked])
  <2>1. posted \in Seq(ReceiptRow)
    BY <1>2 DEF PromiseTables
  <2>2. posted' = [rs EXCEPT ![Len(rs)].linked = linked]
    BY <1>19, <1>21
  <2>3. PICK r : r = [row EXCEPT !.linked = linked]
    OBVIOUS
  <2>4. posted' = [rs EXCEPT ![Len(rs)] = r]
    BY <1>6, <2>2, <2>3
  <2>5. r \in ReceiptRow
    BY <1>4, <2>3 DEF ReceiptRow
  <2>6. PICK new : new = [rs EXCEPT ![Len(rs)] = r]
    OBVIOUS
  <2>7. /\ new \in Seq(ReceiptRow) /\ Len(new) = Len(rs) /\ new[Len(rs)] = r
        /\ \A i \in 1 .. Len(posted) : new[i] = posted[i]
    BY <1>6, <2>5, <2>6, ExceptSeq
  <2>8. PICK more : more = Append(posted, r)
    OBVIOUS
  <2>9. /\ more \in Seq(ReceiptRow) /\ Len(more) = Len(posted) + 1 /\ more[Len(posted) + 1] = r
        /\ \A i \in 1 .. Len(posted) : more[i] = posted[i]
    BY <2>1, <2>5, <2>8, AppendProperties
  <2>10. \A i \in 1 .. Len(new) : new[i] = more[i]
    BY <1>6, <2>7, <2>9
  <2>11. new = more
    BY <1>6, <2>7, <2>9, <2>10, SeqEqual
  <2> QED BY <2>3, <2>4, <2>6, <2>8, <2>11
<1>23. /\ row.loan = l /\ row.day = day /\ row.live /\ row.spread = spread
       /\ kind = "pass" => \A d \in Days : spread[d] = 0
       /\ kind # "pass" => spread = Spread(l, day, cash)
  BY DEF spread
<1>24. PICK r \in ReceiptRow : r = row
  BY <1>4
<1>25. /\ IF kind = "pass" THEN os = obligations /\ \A d \in Days : r.spread[d] = 0
          ELSE r.spread = Spread(l, day, cash) /\ os = Reduce(Append(posted, r), l, day, r.spread)
       /\ due = Shortfall(Append(posted, r), os, l, day)
       /\ obligations' = IF due = 0 THEN os ELSE Record(os, l, day, due, Len(posted) + 1)
  BY <1>5, <1>6, <1>7, <1>17, <1>19, <1>23, <1>24
<1>26. \A i \in DOMAIN promises : i \in DOMAIN promises' /\ promises'[i] = followed[i]
  BY <1>11, <1>14, <1>20
<1>27. \A i \in DOMAIN promises :
          /\ i \in DOMAIN promises'
          /\ promises[i].status # "pending" => promises'[i] = promises[i]
          /\ promises[i].status = "pending" /\ promises'[i].status # "pending" =>
               (promises'[i].status = "kept" <=> day <= promises[i].deadline)
  BY <1>16, <1>26
<1>28. (~linked => obligations' = obligations) /\ UNCHANGED followups
  BY <1>19, <1>21
<1>29. posted' = Append(posted, [r EXCEPT !.linked = linked]) /\ r.loan = l /\ r.day = day /\ r.live
  BY <1>22, <1>23, <1>24
<1> HIDE DEF row, reduced, short
<1>30. PostChanges(l, day, kind, cash, r, os, due, linked)
  BY <1>20, <1>25, <1>27, <1>28, <1>29 DEF PostChanges
<1> QED BY <1>8, <1>18, <1>30

\* The tables after a receipt, and what it leaves of each record.
LEMMA PostKeepsTables ==
    ASSUME PromiseAssumption, PromiseTables, NEW r \in ReceiptRow, NEW os \in Seq(DueRow),
           NEW due \in Nat, NEW linked \in BOOLEAN, NEW l \in Loans, NEW day \in Days,
           DOMAIN os = DOMAIN obligations,
           \A i \in DOMAIN obligations :
             os[i].remaining <= os[i].original /\ os[i].source = obligations[i].source,
           posted' = Append(posted, [r EXCEPT !.linked = linked]), UNCHANGED followups,
           obligations' = IF due = 0 THEN os ELSE Record(os, l, day, due, Len(posted) + 1),
           promises' \in Seq(PromiseRow), PromisesStand(promises', obligations')
    PROVE  /\ PromiseTables'
           /\ DOMAIN posted' = DOMAIN posted \cup {Len(posted) + 1}
           /\ Len(posted) + 1 \notin DOMAIN posted
           /\ \A i \in DOMAIN posted : posted'[i] = posted[i] /\ i < Len(posted) + 1
           /\ posted'[Len(posted) + 1] = [r EXCEPT !.linked = linked]
           /\ due = 0 => obligations' = os
           /\ due # 0 => Extended(obligations', os, l, day, due, Len(posted) + 1)
<1>1. PICK q \in ReceiptRow : q = [r EXCEPT !.linked = linked]
  BY DEF ReceiptRow
<1>2. PICK rs : rs = posted' /\ rs = Append(posted, q)
  BY <1>1
<1>3. /\ rs \in Seq(ReceiptRow) /\ Len(rs) = Len(posted) + 1 /\ rs[Len(posted) + 1] = q
      /\ \A i \in 1 .. Len(posted) : rs[i] = posted[i]
  BY <1>2, AppendProperties DEF PromiseTables
<1>4. DOMAIN rs = 1 .. Len(rs) /\ DOMAIN posted = 1 .. Len(posted) /\ Len(posted) \in Nat
  BY <1>3, LenProperties DEF PromiseTables
<1>5. PICK n \in Nat : n = Len(posted) + 1
  BY <1>4
<1>6. due # 0 => Extended(obligations', os, l, day, due, n)
  <2>1. Extended(Record(os, l, day, due, n), os, l, day, due, n)
    BY RecordAdds
  <2> QED BY <1>5, <2>1
<1>7. /\ obligations' \in Seq(DueRow)
      /\ \A i \in DOMAIN obligations' :
            obligations'[i].remaining <= obligations'[i].original /\ obligations'[i].source \in 1 .. n
  <2>1. \A i \in DOMAIN os : os[i].source \in 1 .. n /\ os[i].remaining <= os[i].original
    BY <1>4, <1>5 DEF PromiseTables
  <2>2. CASE due = 0
    BY <2>1, <2>2
  <2>3. CASE due # 0
    <3>1. PICK all : all = obligations' /\ Extended(all, os, l, day, due, n)
      BY <1>6, <2>3
    <3>2. n \in 1 .. n
      BY <1>4, <1>5
    <3>3. \A i \in DOMAIN all : all[i].remaining <= all[i].original /\ all[i].source \in 1 .. n
      BY <2>1, <3>1, <3>2 DEF Extended
    <3> QED BY <3>1, <3>3 DEF Extended
  <2> QED BY <2>2, <2>3
<1>8. PromiseTables'
  BY <1>2, <1>3, <1>4, <1>5, <1>7 DEF PromiseTables, PromisesStand
<1> QED BY <1>1, <1>2, <1>3, <1>4, <1>5, <1>6, <1>8

LEMMA ReceiptKeeps ==
    ASSUME PromiseAssumption, PromisesInv, NEW l \in Loans, NEW day \in Days,
           NEW kind \in {"payment", "pass"}, NEW cash \in PastDueAmounts \cup {0},
           NEW promised \in PastDueAmounts \cup {0}, NEW deadline \in Days,
           PostReceipt(l, day, kind, cash, promised, deadline)
    PROVE  PromisesInv'
<1>0. PICK r \in ReceiptRow, os \in Seq(DueRow), due \in Nat, linked \in BOOLEAN :
         PostChanges(l, day, kind, cash, r, os, due, linked)
  BY PostFollows
<1>1. /\ r.loan = l /\ r.day = day /\ r.live
      /\ posted' = Append(posted, [r EXCEPT !.linked = linked])
      /\ ~linked => obligations' = obligations
      /\ UNCHANGED followups
      /\ IF kind = "pass" THEN os = obligations /\ \A d \in Days : r.spread[d] = 0
         ELSE /\ r.spread = Spread(l, day, cash)
              /\ os = Reduce(Append(posted, r), l, day, r.spread)
      /\ due = Shortfall(Append(posted, r), os, l, day)
      /\ obligations' = IF due = 0 THEN os ELSE Record(os, l, day, due, Len(posted) + 1)
      /\ promises' \in Seq(PromiseRow) /\ PromisesStand(promises', obligations')
      /\ OnePends(promises') /\ FollowsDue(promises', obligations')
  BY <1>0 DEF PostChanges
<1>2. /\ PromiseTables /\ posted \in Seq(ReceiptRow) /\ obligations \in Seq(DueRow)
      /\ cash \in Nat
  <2>1. cash \in Nat
    BY DEF PromiseAssumption
  <2> QED BY <2>1 DEF PromisesInv, PromiseTables
<1>3. PICK rs : rs = Append(posted, r)
  OBVIOUS
<1>4. rs \in Seq(ReceiptRow)
  BY <1>2, <1>3, AppendProperties
<1>5. PICK spread \in [Days -> Nat] : spread = r.spread
  BY DEF ReceiptRow
<1>6. \A m \in Loans, d \in Days :
        AppliedIn(rs, m, d) = AppliedIn(posted, m, d) + IF m = l THEN spread[d] ELSE 0
  BY <1>1, <1>2, <1>3, <1>5, AppliedGrows
<1>7. \A m \in Loans, d \in Days : AppliedIn(posted', m, d) = AppliedIn(rs, m, d)
  <2>1. PICK q \in ReceiptRow : q = [r EXCEPT !.linked = linked]
    BY DEF ReceiptRow
  <2>2. q.loan = r.loan /\ q.spread = r.spread /\ q.live = r.live
    BY <2>1 DEF ReceiptRow
  <2>3. q.live /\ q.loan = l /\ q.spread = spread
    BY <1>1, <1>5, <2>2
  <2>4. \A m, d : d \in Days => AppliedIn(Append(posted, q), m, d)
                               = AppliedIn(posted, m, d) + IF q.loan = m THEN q.spread[d] ELSE 0
    BY <1>2, <2>3, AppliedGrows
  <2>5. posted' = Append(posted, q)
    BY <1>1, <2>1
  <2> QED BY <1>6, <2>3, <2>4, <2>5
<1>8. \A m \in Loans, d \in Days :
        /\ UnpaidIn(posted', m, d) = UnpaidIn(rs, m, d)
        /\ UnpaidIn(posted, m, d) \in Nat /\ UnpaidIn(rs, m, d) \in Nat
        /\ m # l => UnpaidIn(rs, m, d) = UnpaidIn(posted, m, d)
        /\ spread[d] = 0 => UnpaidIn(rs, m, d) = UnpaidIn(posted, m, d)
        /\ m = l /\ spread[d] <= UnpaidIn(posted, m, d)
             => UnpaidIn(rs, m, d) = UnpaidIn(posted, m, d) - spread[d]
  <2> TAKE m \in Loans, d \in Days
  <2>1. PICK a \in Int : a = AppliedIn(posted, m, d)
    BY <1>2, AppliedIsNat
  <2>2. PICK b \in Int : b = AppliedIn(rs, m, d)
    BY <1>4, AppliedIsNat
  <2>3. Daily[m] \in Nat /\ spread[d] \in Nat
    BY DEF PromiseAssumption
  <2>4. b = a + IF m = l THEN spread[d] ELSE 0
    BY <1>6, <2>1, <2>2
  <2>5. UnpaidIn(posted, m, d) = IF Daily[m] - a >= 0 THEN Daily[m] - a ELSE 0
    BY <1>2, <2>1, UnpaidIsNat
  <2>6. UnpaidIn(rs, m, d) = IF Daily[m] - b >= 0 THEN Daily[m] - b ELSE 0
    BY <1>4, <2>2, UnpaidIsNat
  <2>7. UnpaidIn(posted', m, d) = UnpaidIn(rs, m, d)
    BY <1>7 DEF UnpaidIn
  <2>8. CASE m = l
    BY <2>3, <2>4, <2>5, <2>6, <2>7, <2>8
  <2>9. CASE m # l
    BY <2>3, <2>4, <2>5, <2>6, <2>7, <2>9
  <2> QED BY <2>8, <2>9
<1>9. kind # "pass" =>
        /\ l \in ContractLoans => \A d \in Days : spread[d] <= UnpaidIn(posted, l, d)
        /\ l \notin ContractLoans => \A d \in Days \ {day} : spread[d] = 0
  <2> SUFFICES ASSUME kind # "pass"
               PROVE  /\ l \in ContractLoans => \A d \in Days : spread[d] <= UnpaidIn(posted, l, d)
                      /\ l \notin ContractLoans => \A d \in Days \ {day} : spread[d] = 0
    OBVIOUS
  <2>1. spread = Spread(l, day, cash)
    BY <1>1, <1>5
  <2>2. \A d \in Days : Unpaid(l, d) = UnpaidIn(posted, l, d)
    BY <1>2, UnpaidIsLeft
  <2>3. /\ l \in ContractLoans => \A d \in Days : Spread(l, day, cash)[d] <= Unpaid(l, d)
        /\ l \notin ContractLoans => \A d \in Days \ {day} : Spread(l, day, cash)[d] = 0
    <3>1. Fits(Spread(l, day, cash), l, day)
      BY <1>2, SpreadFits
    <3> QED BY <3>1 DEF Fits
  <2> QED BY <2>1, <2>2, <2>3
<1>10. kind # "pass" =>
           /\ DOMAIN os = DOMAIN obligations /\ Len(os) = Len(obligations)
           /\ \A i \in DOMAIN obligations :
                /\ os[i].loan = obligations[i].loan /\ os[i].day = obligations[i].day
                /\ os[i].original = obligations[i].original
                /\ os[i].source = obligations[i].source
                /\ os[i].remaining <= obligations[i].remaining
                /\ obligations[i].loan # l => os[i] = obligations[i]
                /\ obligations[i].loan = l =>
                    /\ l \notin ContractLoans =>
                        IF obligations[i].day = day THEN os[i].remaining <= UnpaidIn(rs, l, day)
                        ELSE os[i] = obligations[i]
                    /\ l \in ContractLoans /\ OneRecord(obligations) =>
                        os[i].remaining =
                            IF spread[obligations[i].day] <= obligations[i].remaining
                            THEN obligations[i].remaining - spread[obligations[i].day] ELSE 0
  <2> SUFFICES ASSUME kind # "pass" PROVE os = Reduce(rs, l, day, spread)
    BY <1>2, <1>4, ReduceTakes
  <2> QED BY <1>1, <1>3, <1>5
<1>11. \A i \in DOMAIN obligations :
         /\ obligations[i] \in DueRow /\ obligations[i].remaining <= obligations[i].original
         /\ obligations[i].source \in DOMAIN posted
  BY <1>2, ElementOfSeq, LenProperties DEF PromiseTables
<1>12. /\ DOMAIN os = DOMAIN obligations
       /\ \A i \in DOMAIN obligations :
            /\ os[i].loan = obligations[i].loan /\ os[i].day = obligations[i].day
            /\ os[i].source = obligations[i].source /\ os[i].remaining <= os[i].original
            /\ os[i] \in DueRow
  <2>1. CASE kind = "pass"
    BY <1>1, <1>11, <2>1
  <2>2. CASE kind # "pass"
    <3>1. DOMAIN os = DOMAIN obligations
      BY <1>10, <2>2
    <3>2. \A i \in DOMAIN obligations : os[i] \in DueRow
      BY <3>1, ElementOfSeq, LenProperties
    <3>3. \A i \in DOMAIN obligations :
            /\ os[i].loan = obligations[i].loan /\ os[i].day = obligations[i].day
            /\ os[i].source = obligations[i].source /\ os[i].original = obligations[i].original
            /\ os[i].remaining <= obligations[i].remaining
      BY <1>10, <2>2
    <3> QED BY <1>11, <3>1, <3>2, <3>3 DEF DueRow
  <2> QED BY <2>1, <2>2
<1>13. PICK n \in Nat : n = Len(posted) + 1
  BY <1>2, LenProperties
<1>14. /\ PromiseTables'
       /\ DOMAIN posted' = DOMAIN posted \cup {n} /\ n \notin DOMAIN posted
       /\ \A i \in DOMAIN posted : posted'[i] = posted[i] /\ i < n
       /\ posted'[n] = [r EXCEPT !.linked = linked]
       /\ due = 0 => obligations' = os
       /\ due # 0 => Extended(obligations', os, l, day, due, n)
  <2>1. /\ PromiseTables'
        /\ DOMAIN posted' = DOMAIN posted \cup {Len(posted) + 1}
        /\ Len(posted) + 1 \notin DOMAIN posted
        /\ \A i \in DOMAIN posted : posted'[i] = posted[i] /\ i < Len(posted) + 1
        /\ posted'[Len(posted) + 1] = [r EXCEPT !.linked = linked]
        /\ due = 0 => obligations' = os
        /\ due # 0 => Extended(obligations', os, l, day, due, Len(posted) + 1)
    <3>1. /\ posted' = Append(posted, [r EXCEPT !.linked = linked]) /\ UNCHANGED followups
          /\ obligations' = IF due = 0 THEN os ELSE Record(os, l, day, due, Len(posted) + 1)
          /\ promises' \in Seq(PromiseRow) /\ PromisesStand(promises', obligations')
      BY <1>1
    <3>2. /\ DOMAIN os = DOMAIN obligations
          /\ \A i \in DOMAIN obligations :
               os[i].remaining <= os[i].original /\ os[i].source = obligations[i].source
      BY <1>12
    <3> QED BY <1>2, <3>1, <3>2, PostKeepsTables
  <2> QED BY <1>13, <2>1
<1>15. OnePends(promises') /\ FollowsDue(promises', obligations')
  BY <1>1
<1>16. ASSUME followups = 0 PROVE SaysDue(posted', obligations') /\ OneRecord(obligations') /\ RecordsAreHeld'
  <2>1. SaysDue(posted, obligations) /\ OneRecord(obligations) /\ RecordsAreHeld
    BY <1>16, DueIsSaid DEF PromisesInv
  <2>2. ASSUME NEW i \in DOMAIN obligations
        PROVE  /\ os[i].remaining <= UnpaidIn(rs, os[i].loan, os[i].day)
               /\ os[i].loan \in ContractLoans => os[i].remaining = UnpaidIn(rs, os[i].loan, os[i].day)
               /\ os[i].loan = l /\ l \in ContractLoans /\ spread[os[i].day] # 0
                    => os[i] # obligations[i]
    <3>1. PICK o \in DueRow : o = obligations[i]
      BY <1>11
    <3>2. PICK p \in DueRow : p = os[i] /\ p.loan = o.loan /\ p.day = o.day
      BY <1>12, <3>1
    <3>3. /\ o.remaining <= UnpaidIn(posted, o.loan, o.day)
          /\ o.loan \in ContractLoans => o.remaining = UnpaidIn(posted, o.loan, o.day)
      BY <2>1, <3>1 DEF SaysDue
    <3>4. o.loan \in Loans /\ o.day \in Days /\ o.remaining \in Nat /\ p.remaining \in Nat
          /\ spread[o.day] \in Nat
      BY DEF DueRow
    <3>5. PICK a \in Nat, b \in Nat : a = UnpaidIn(posted, o.loan, o.day) /\ b = UnpaidIn(rs, o.loan, o.day)
      BY <1>8, <3>4
    <3>6. CASE kind = "pass"
      <4>1. p = o /\ spread[o.day] = 0 /\ b = a
        BY <1>1, <1>5, <1>8, <3>1, <3>2, <3>4, <3>5, <3>6
      <4> QED BY <3>1, <3>2, <3>3, <3>5, <4>1
    <3>7. CASE kind # "pass" /\ o.loan # l
      <4>1. p = o /\ b = a
        BY <1>8, <1>10, <3>1, <3>2, <3>4, <3>5, <3>7
      <4> QED BY <3>1, <3>2, <3>3, <3>5, <3>7, <4>1
    <3>8. CASE kind # "pass" /\ o.loan = l /\ l \in ContractLoans
      <4>1. spread[o.day] <= a /\ o.remaining = a
        BY <1>9, <3>3, <3>4, <3>5, <3>8
      <4>2. p.remaining = IF spread[o.day] <= o.remaining THEN o.remaining - spread[o.day] ELSE 0
        BY <1>10, <2>1, <3>1, <3>2, <3>8
      <4>3. b = a - spread[o.day]
        BY <1>8, <3>4, <3>5, <3>8, <4>1
      <4>4. p.remaining = b /\ (spread[o.day] # 0 => p # o)
        BY <3>4, <4>1, <4>2, <4>3
      <4> QED BY <3>1, <3>2, <3>4, <3>5, <3>8, <4>4
    <3>9. CASE kind # "pass" /\ o.loan = l /\ l \notin ContractLoans /\ o.day = day
      <4>1. p.remaining <= b
        BY <1>10, <3>1, <3>2, <3>5, <3>9
      <4> QED BY <3>1, <3>2, <3>5, <3>9, <4>1
    <3>10. CASE kind # "pass" /\ o.loan = l /\ l \notin ContractLoans /\ o.day # day
      <4>1. p = o
        BY <1>10, <3>1, <3>2, <3>10
      <4>2. spread[o.day] = 0
        BY <1>9, <3>4, <3>10
      <4>3. b = a
        BY <1>8, <3>4, <3>5, <4>2
      <4> QED BY <3>1, <3>2, <3>3, <3>5, <3>10, <4>1, <4>3
    <3> QED BY <3>6, <3>7, <3>8, <3>9, <3>10
  <2>3. /\ due # 0 => ~\E i \in DOMAIN os : os[i].loan = l /\ os[i].day = day /\ os[i].remaining > 0
        /\ due <= UnpaidIn(rs, l, day)
        /\ l \in ContractLoans /\ due # 0 => due = UnpaidIn(rs, l, day)
    <3>1. PICK a \in Int : a = Daily[l] - AppliedIn(rs, l, day)
      BY <1>4, AppliedIsNat DEF PromiseAssumption
    <3>2. PICK b \in Int : b = BalanceIn(rs, l)
      BY <1>4, BalanceIsInt
    <3>3. Least(a, b) = IF a <= b THEN a ELSE b
      BY TwoNumbers
    <3>4. /\ AtLeast0(a) = IF a >= 0 THEN a ELSE 0
          /\ AtLeast0(Least(a, b)) = IF Least(a, b) >= 0 THEN Least(a, b) ELSE 0
      BY <3>3, TwoNumbers
    <3>5. UnpaidIn(rs, l, day) = IF a >= 0 THEN a ELSE 0
      BY <1>4, <3>1, UnpaidIsNat
    <3>6. due = IF \E i \in DOMAIN os : os[i].loan = l /\ os[i].day = day /\ os[i].remaining > 0 THEN 0
                ELSE AtLeast0(IF l \in ContractLoans THEN a ELSE Least(a, b))
      BY <1>1, <1>3, <3>1, <3>2 DEF Shortfall
    <3> QED BY <3>3, <3>4, <3>5, <3>6
  <2>4. SaysDue(rs, obligations')
    <3>1. SaysDue(rs, os)
      BY <1>12, <2>2 DEF SaysDue
    <3>2. CASE due = 0
      BY <1>14, <3>1, <3>2
    <3>3. CASE due # 0
      <4>1. PICK all : all = obligations' /\ Extended(all, os, l, day, due, n)
        BY <1>14, <3>3
      <4>2. SaysDue(rs, all)
        BY <2>3, <3>1, <3>3, <4>1 DEF Extended, SaysDue
      <4> QED BY <4>1, <4>2
    <3> QED BY <3>2, <3>3
  <2>5. SaysDue(posted', obligations')
    <3>1. \A i \in DOMAIN obligations' : obligations'[i].loan \in Loans /\ obligations'[i].day \in Days
      <4>1. \A i \in DOMAIN obligations' : obligations'[i] \in DueRow
        BY <1>14, ElementOfSeq, LenProperties DEF PromiseTables
      <4> QED BY <4>1 DEF DueRow
    <3> QED BY <1>8, <2>4, <3>1 DEF SaysDue
  <2>6. OneRecord(obligations')
    <3>1. OneRecord(os)
      BY <1>12, <2>1 DEF OneRecord
    <3>2. CASE due = 0
      BY <1>14, <3>1, <3>2
    <3>3. CASE due # 0
      <4>1. PICK all : all = obligations' /\ Extended(all, os, l, day, due, n)
        BY <1>14, <3>3
      <4>2. l \in ContractLoans =>
              \A i \in DOMAIN os : ~(os[i].loan = l /\ os[i].day = day)
        <5> SUFFICES ASSUME l \in ContractLoans, NEW i \in DOMAIN os, os[i].loan = l, os[i].day = day
                     PROVE  FALSE
          OBVIOUS
        <5>1. os[i].remaining = UnpaidIn(rs, l, day) /\ due = UnpaidIn(rs, l, day)
          BY <1>12, <2>2, <2>3, <3>3
        <5>2. os[i].remaining > 0
          BY <3>3, <5>1
        <5> QED BY <2>3, <3>3, <5>2
      <4>3. OneRecord(all)
        BY <3>1, <4>1, <4>2 DEF Extended, OneRecord
      <4> QED BY <4>1, <4>3
    <3> QED BY <3>2, <3>3
  <2>7. ASSUME NEW o \in DOMAIN os
        PROVE  /\ os[o].source \in DOMAIN posted /\ posted'[os[o].source].linked
               /\ posted'[os[o].source].loan = os[o].loan
               /\ os[o].loan \in ContractLoans =>
                    \A i \in DOMAIN posted' :
                        i > os[o].source /\ posted'[i].loan = os[o].loan /\ ~posted'[i].linked
                            => posted'[i].spread[os[o].day] = 0
    <3>1. PICK s : s = obligations[o].source /\ s = os[o].source /\ s \in DOMAIN posted
      BY <1>11, <1>12
    <3>2. /\ posted[s].linked /\ posted[s].loan = os[o].loan
          /\ os[o].loan \in ContractLoans =>
               \A i \in DOMAIN posted :
                   i > s /\ posted[i].loan = os[o].loan /\ ~posted[i].linked
                       => posted[i].spread[os[o].day] = 0
      BY <1>12, <2>1, <3>1 DEF RecordsAreHeld
    <3>3. posted'[s] = posted[s]
      BY <1>14, <3>1
    <3>4. ASSUME os[o].loan \in ContractLoans, posted'[n].loan = os[o].loan, ~posted'[n].linked
          PROVE  posted'[n].spread[os[o].day] = 0
      <4>1. PICK q : q = posted'[n] /\ q.loan = l /\ q.spread = spread /\ q.linked = linked
        BY <1>1, <1>5, <1>14 DEF ReceiptRow
      <4>2. obligations' = obligations
        BY <1>1, <3>4, <4>1
      <4>3. due = 0
        <5> SUFFICES ASSUME due # 0 PROVE FALSE
          OBVIOUS
        <5>1. PICK all : all = obligations' /\ Extended(all, os, l, day, due, n)
          BY <1>14
        <5> QED BY <1>12, <4>2, <5>1 DEF Extended
      <4>4. os = obligations
        BY <1>14, <4>2, <4>3
      <4> QED BY <1>12, <2>2, <3>4, <4>1, <4>4
    <3>5. posted'[s].linked /\ posted'[s].loan = os[o].loan
      BY <3>2, <3>3
    <3>6. ASSUME os[o].loan \in ContractLoans, NEW i \in DOMAIN posted',
                 i > s, posted'[i].loan = os[o].loan, ~posted'[i].linked
          PROVE  posted'[i].spread[os[o].day] = 0
      <4>1. CASE i = n
        BY <3>4, <3>6, <4>1
      <4>2. CASE i \in DOMAIN posted
        <5>1. posted'[i] = posted[i]
          BY <1>14, <4>2
        <5> QED BY <3>2, <3>6, <4>2, <5>1
      <4> QED BY <1>14, <3>6, <4>1, <4>2
    <3> QED BY <1>14, <3>1, <3>5, <3>6
  <2>8. ASSUME due # 0 PROVE posted'[n].linked /\ posted'[n].loan = l
    <3>1. PICK q : q = posted'[n] /\ q.loan = l /\ q.linked = linked
      BY <1>1, <1>14 DEF ReceiptRow
    <3>2. PICK all : all = obligations' /\ Extended(all, os, l, day, due, n)
      BY <1>14, <2>8
    <3>3. obligations' # obligations
      BY <1>12, <3>2 DEF Extended
    <3> QED BY <1>1, <3>1, <3>3
  <2>9. RecordsAreHeld'
    <3>1. ASSUME NEW o \in DOMAIN obligations'
          PROVE  /\ posted'[obligations'[o].source].linked
                 /\ posted'[obligations'[o].source].loan = obligations'[o].loan
                 /\ obligations'[o].loan \in ContractLoans =>
                      \A i \in DOMAIN posted' :
                          i > obligations'[o].source /\ posted'[i].loan = obligations'[o].loan
                            /\ ~posted'[i].linked
                              => posted'[i].spread[obligations'[o].day] = 0
      <4>1. CASE due = 0
        BY <1>14, <2>7, <4>1
      <4>2. CASE due # 0
        <5>1. PICK all : all = obligations' /\ Extended(all, os, l, day, due, n)
          BY <1>14, <4>2
        <5>2. CASE o \in DOMAIN os
          <6>1. all[o] = os[o]
            BY <5>1, <5>2 DEF Extended
          <6> QED BY <2>7, <5>1, <5>2, <6>1
        <5>3. CASE o \notin DOMAIN os
          <6>1. all[o].source = n /\ all[o].loan = l
            BY <5>1, <5>3 DEF Extended
          <6>2. \A i \in DOMAIN posted' : ~(i > n)
            BY <1>2, <1>14, LenProperties
          <6> QED BY <2>8, <4>2, <5>1, <6>1, <6>2
        <5> QED BY <5>2, <5>3
      <4> QED BY <4>1, <4>2
    <3> QED BY <3>1 DEF RecordsAreHeld
  <2> QED BY <2>5, <2>6, <2>9
<1>17. (followups = 0 => DueIsUnpaid /\ OneRecord(obligations) /\ RecordsAreHeld)'
  <2>1. followups' = followups
    BY <1>1
  <2>2. DueIsUnpaid' <=> SaysDue(posted', obligations')
    BY DEF DueIsUnpaid, SaysDue, Unpaid, UnpaidIn
  <2> QED BY <1>16, <2>1, <2>2
<1> QED BY <1>14, <1>15, <1>17 DEF PromisesInv

\* A record made by hand, and its promise, are added.
LEMMA FollowupKeeps ==
    ASSUME PromiseAssumption, PromisesInv, NEW i \in DOMAIN posted, NEW day \in Days,
           NEW amount \in PastDueAmounts, NEW promised \in PastDueAmounts \cup {0},
           NEW deadline \in Days, AddFollowup(i, day, amount, promised, deadline)
    PROVE  /\ PromisesInv'
           /\ \A j \in DOMAIN promises : j \in DOMAIN promises' /\ promises'[j] = promises[j]
<1>1. PromiseTables /\ OnePends(promises) /\ FollowsDue(promises, obligations)
  BY DEF PromisesInv
<1>2. /\ amount \in Nat /\ promised \in Nat /\ followups \in Nat
      /\ promises \in Seq(PromiseRow) /\ obligations \in Seq(DueRow)
      /\ PromisesStand(promises, obligations)
  <2>1. amount \in Nat /\ promised \in Nat
    BY DEF PromiseAssumption
  <2> QED BY <1>1, <2>1 DEF PromiseTables, PromisesStand
<1>3. PICK l \in Loans : l = posted[i].loan
  <2>1. posted[i] \in ReceiptRow
    BY <1>1, ElementOfSeq, LenProperties DEF PromiseTables
  <2> QED BY <2>1 DEF ReceiptRow
<1>4. PICK n \in Nat : n = i /\ n \in DOMAIN posted
  BY <1>1, LenProperties DEF PromiseTables
<1>5. PICK all : all = obligations' /\ all = Record(obligations, l, day, amount, n)
  BY <1>3, <1>4 DEF AddFollowup
<1>6. Extended(all, obligations, l, day, amount, n)
  <2>1. Extended(Record(obligations, l, day, amount, n), obligations, l, day, amount, n)
    BY <1>2, RecordAdds
  <2> QED BY <1>5, <2>1
<1>7. PICK today : today = posted[i].day
  OBVIOUS
<1>8. /\ Promise(promises, all, amount, promised, deadline, today)
      /\ followups' = followups + 1 /\ UNCHANGED posted
  BY <1>3, <1>4, <1>5, <1>7 DEF AddFollowup
<1>9. /\ promises' \in Seq(PromiseRow) /\ PromisesStand(promises', all)
      /\ OnePends(promises') /\ FollowsDue(promises', all)
      /\ DOMAIN promises \subseteq DOMAIN promises'
      /\ \A j \in DOMAIN promises : promises'[j] = promises[j]
  <2>1. PromisesStand(promises, all) /\ FollowsDue(promises, all)
    BY <1>1, <1>2, <1>6, FollowsLonger DEF Extended
  <2>2. /\ all \in Seq(DueRow) /\ Len(all) > 0
        /\ all[Len(all)].remaining = all[Len(all)].original
    BY <1>2, <1>6, LenProperties DEF Extended
  <2> QED BY <1>1, <1>2, <1>8, <2>1, <2>2, PromiseAdds
<1>10. PromiseTables'
  <2>1. \A j \in DOMAIN all : all[j].remaining <= all[j].original /\ all[j].source \in DOMAIN posted
    BY <1>1, <1>2, <1>4, <1>6 DEF Extended, PromiseTables
  <2>2. all \in Seq(DueRow)
    BY <1>6 DEF Extended
  <2> QED BY <1>1, <1>2, <1>5, <1>8, <1>9, <2>1, <2>2 DEF PromiseTables, PromisesStand
<1>11. followups' # 0
  BY <1>2, <1>8
<1> QED BY <1>5, <1>9, <1>10, <1>11 DEF PromisesInv

\* Only a receipt whose money reached no record is voided.
LEMMA VoidKeeps ==
    ASSUME PromiseAssumption, PromisesInv, NEW i \in DOMAIN posted, Void(i)
    PROVE  PromisesInv'
<1>1. PromiseTables /\ posted \in Seq(ReceiptRow)
  BY DEF PromisesInv, PromiseTables
<1>2. /\ posted[i].live /\ ~posted[i].linked
      /\ \A j \in DOMAIN posted : j > i => posted[j].loan # posted[i].loan
      /\ posted' = [posted EXCEPT ![i].live = FALSE]
      /\ UNCHANGED <<obligations, promises, followups>>
  BY DEF Void, Voidable
<1>3. DOMAIN posted = 1 .. Len(posted) /\ Len(posted) \in Nat
  BY <1>1, LenProperties
<1>4. PICK q \in ReceiptRow : q = [posted[i] EXCEPT !.live = FALSE]
  <2>1. posted[i] \in ReceiptRow
    BY <1>1, <1>3, ElementOfSeq
  <2> QED BY <2>1 DEF ReceiptRow
<1>5. q.loan = posted[i].loan /\ q.linked = posted[i].linked /\ q.spread = posted[i].spread
  <2>1. posted[i] \in ReceiptRow
    BY <1>1, <1>3, ElementOfSeq
  <2> QED BY <1>4, <2>1 DEF ReceiptRow
<1>6. /\ posted' \in Seq(ReceiptRow) /\ DOMAIN posted' = DOMAIN posted
      /\ \A j \in DOMAIN posted : posted'[j] = IF j = i THEN q ELSE posted[j]
  <2>1. PICK rs : rs = [posted EXCEPT ![i] = q]
    OBVIOUS
  <2>2. posted' = rs
    BY <1>2, <1>4, <2>1
  <2>3. rs \in Seq(ReceiptRow)
    BY <1>1, <1>3, <2>1, ExceptSeq
  <2>4. DOMAIN rs = DOMAIN posted /\ \A j \in DOMAIN posted : rs[j] = IF j = i THEN q ELSE posted[j]
    BY <1>3, <2>1
  <2> QED BY <2>2, <2>3, <2>4
<1>7. PromiseTables'
  BY <1>1, <1>2, <1>6 DEF PromiseTables
<1>8. OnePends(promises') /\ FollowsDue(promises', obligations')
  BY <1>2 DEF PromisesInv, OnePends, FollowsDue, LeftPromised
<1>9. ASSUME followups = 0
      PROVE  SaysDue(posted', obligations') /\ OneRecord(obligations') /\ RecordsAreHeld'
  <2>1. SaysDue(posted, obligations) /\ OneRecord(obligations) /\ RecordsAreHeld
    BY <1>9, DueIsSaid DEF PromisesInv
  <2>2. ASSUME NEW o \in DOMAIN obligations
        PROVE  /\ obligations[o].source \in DOMAIN posted
               /\ posted[obligations[o].source].linked
               /\ posted[obligations[o].source].loan = obligations[o].loan
               /\ obligations[o].loan \in ContractLoans =>
                    \A j \in DOMAIN posted :
                        j > obligations[o].source /\ posted[j].loan = obligations[o].loan
                          /\ ~posted[j].linked
                            => posted[j].spread[obligations[o].day] = 0
    BY <1>1, <2>1 DEF RecordsAreHeld, PromiseTables
  <2>3. RecordsAreHeld'
    <3>1. ASSUME NEW o \in DOMAIN obligations
          PROVE  /\ posted'[obligations[o].source].linked
                 /\ posted'[obligations[o].source].loan = obligations[o].loan
                 /\ obligations[o].loan \in ContractLoans =>
                      \A j \in DOMAIN posted' :
                          j > obligations[o].source /\ posted'[j].loan = obligations[o].loan
                            /\ ~posted'[j].linked
                              => posted'[j].spread[obligations[o].day] = 0
      BY <1>5, <1>6, <2>2
    <3> QED BY <1>2, <3>1 DEF RecordsAreHeld
  <2>4. ASSUME NEW o \in DOMAIN obligations
        PROVE  /\ obligations[o].remaining <= UnpaidIn(posted', obligations[o].loan, obligations[o].day)
               /\ obligations[o].loan \in ContractLoans =>
                    obligations[o].remaining = UnpaidIn(posted', obligations[o].loan, obligations[o].day)
    <3>1. PICK p \in DueRow : p = obligations[o]
      BY <1>1, ElementOfSeq, LenProperties DEF PromiseTables
    <3>2. p.loan \in Loans /\ p.day \in Days /\ p.remaining \in Nat
      BY DEF DueRow
    <3>3. PICK a \in Nat : a = AppliedIn(posted, p.loan, p.day)
      BY <1>1, <3>2, AppliedIsNat
    <3>4. PICK b \in Nat : b = AppliedIn(posted', p.loan, p.day)
      BY <1>6, <3>2, AppliedIsNat
    <3>5. b = a - IF posted[i].loan = p.loan THEN posted[i].spread[p.day] ELSE 0
      <4>1. AppliedIn([posted EXCEPT ![i].live = FALSE], p.loan, p.day)
            = AppliedIn(posted, p.loan, p.day)
              - IF posted[i].loan = p.loan THEN posted[i].spread[p.day] ELSE 0
        <5>1. PICK l \in Loans, d \in Days : l = p.loan /\ d = p.day
          BY <3>2
        <5>2. PICK rs \in Seq(ReceiptRow) : rs = posted
          BY <1>1
        <5>3. i \in DOMAIN rs /\ rs[i].live
          BY <1>2, <5>2
        <5>4. AppliedIn([rs EXCEPT ![i].live = FALSE], l, d)
              = AppliedIn(rs, l, d) - IF rs[i].loan = l THEN rs[i].spread[d] ELSE 0
          BY <5>3, AppliedVoided
        <5> QED BY <5>1, <5>2, <5>4
      <4> QED BY <1>2, <3>3, <3>4, <4>1
    <3>6. posted[i].spread[p.day] \in Nat
      <4>1. posted[i] \in ReceiptRow
        BY <1>1, <1>3, ElementOfSeq
      <4> QED BY <3>2, <4>1 DEF ReceiptRow
    <3>7. p.loan \in ContractLoans => b = a
      <4>1. ASSUME p.loan \in ContractLoans, posted[i].loan = p.loan
            PROVE  posted[i].spread[p.day] = 0
        <5>1. p.source \in DOMAIN posted /\ posted[p.source].linked /\ posted[p.source].loan = p.loan
          BY <2>2, <3>1
        <5>2. i > p.source
          BY <1>2, <1>3, <4>1, <5>1
        <5> QED BY <1>2, <2>2, <3>1, <4>1, <5>2
      <4> QED BY <3>5, <4>1
    <3>8. Daily[p.loan] \in Nat
      BY <3>2 DEF PromiseAssumption
    <3>9. UnpaidIn(posted, p.loan, p.day) = IF Daily[p.loan] - a >= 0 THEN Daily[p.loan] - a ELSE 0
      BY <1>1, <3>2, <3>3, UnpaidIsNat
    <3>10. UnpaidIn(posted', p.loan, p.day) = IF Daily[p.loan] - b >= 0 THEN Daily[p.loan] - b ELSE 0
      BY <1>6, <3>2, <3>4, UnpaidIsNat
    <3>11. /\ p.remaining <= UnpaidIn(posted, p.loan, p.day)
           /\ p.loan \in ContractLoans => p.remaining = UnpaidIn(posted, p.loan, p.day)
      BY <2>1, <3>1 DEF SaysDue
    <3>12. b <= a
      BY <3>5, <3>6
    <3>13. UnpaidIn(posted, p.loan, p.day) <= UnpaidIn(posted', p.loan, p.day)
      BY <3>8, <3>9, <3>10, <3>12
    <3>14. UnpaidIn(posted, p.loan, p.day) \in Nat /\ UnpaidIn(posted', p.loan, p.day) \in Nat
      BY <3>8, <3>9, <3>10
    <3> QED BY <3>1, <3>2, <3>7, <3>9, <3>10, <3>11, <3>13, <3>14
  <2>5. SaysDue(posted', obligations')
    BY <1>2, <2>4 DEF SaysDue
  <2> QED BY <1>2, <2>1, <2>3, <2>5 DEF OneRecord
<1>10. (followups = 0 => DueIsUnpaid /\ OneRecord(obligations) /\ RecordsAreHeld)'
  <2>1. followups' = followups
    BY <1>2
  <2>2. DueIsUnpaid' <=> SaysDue(posted', obligations')
    BY DEF DueIsUnpaid, SaysDue, Unpaid, UnpaidIn
  <2> QED BY <1>9, <2>1, <2>2
<1> QED BY <1>7, <1>8, <1>10 DEF PromisesInv

-----------------------------------------------------------------------------
(* The theorems.                                                           *)

LEMMA PromisesStart ==
    ASSUME PromisesInit
    PROVE  PromisesInv
<1>1. /\ posted = <<>> /\ obligations = <<>> /\ promises = <<>> /\ followups = 0
      /\ DOMAIN obligations = {} /\ DOMAIN promises = {}
  BY DEF PromisesInit
<1>2. PromiseTables
  BY <1>1, EmptySeq DEF PromiseTables
<1>3. OnePends(promises) /\ FollowsDue(promises, obligations)
  BY <1>1 DEF OnePends, FollowsDue
<1>4. DueIsUnpaid /\ OneRecord(obligations) /\ RecordsAreHeld
  BY <1>1 DEF DueIsUnpaid, OneRecord, RecordsAreHeld
<1> QED BY <1>2, <1>3, <1>4 DEF PromisesInv

LEMMA PromisesKept ==
    ASSUME PromiseAssumption, PromisesInv, [PromisesNext]_promiseVars
    PROVE  PromisesInv'
<1>1. ASSUME NEW l \in Loans, NEW day \in Days, NEW kind \in {"payment", "pass"},
             NEW cash \in PastDueAmounts \cup {0}, NEW promised \in PastDueAmounts \cup {0},
             NEW deadline \in Days, PostReceipt(l, day, kind, cash, promised, deadline)
      PROVE  PromisesInv'
  BY <1>1, ReceiptKeeps
<1>2. ASSUME NEW i \in DOMAIN posted, NEW day \in Days, NEW amount \in PastDueAmounts,
             NEW promised \in PastDueAmounts \cup {0}, NEW deadline \in Days,
             AddFollowup(i, day, amount, promised, deadline)
      PROVE  PromisesInv'
  BY <1>2, FollowupKeeps
<1>3. ASSUME NEW i \in DOMAIN posted, Void(i) PROVE PromisesInv'
  BY <1>3, VoidKeeps
<1>4. CASE UNCHANGED promiseVars
  <2>1. posted' = posted /\ obligations' = obligations /\ promises' = promises /\ followups' = followups
    BY <1>4 DEF promiseVars
  <2>2. PromiseTables' /\ OnePends(promises') /\ FollowsDue(promises', obligations')
    BY <2>1 DEF PromisesInv, PromiseTables
  <2>3. DueIsUnpaid => DueIsUnpaid'
    BY <2>1 DEF DueIsUnpaid, Unpaid
  <2>4. RecordsAreHeld => RecordsAreHeld'
    BY <2>1 DEF RecordsAreHeld
  <2> QED BY <2>1, <2>2, <2>3, <2>4 DEF PromisesInv
<1> QED BY <1>1, <1>2, <1>3, <1>4 DEF PromisesNext

LEMMA PromisesAreTypedNow ==
    ASSUME PromiseAssumption, PromisesInv
    PROVE  PromisesTypeOK /\ PromisesFollowDue
<1>1. PromiseTables
  BY DEF PromisesInv
<1>2. \A i \in DOMAIN posted : posted[i].spread \in [Days -> Nat]
  <2>1. \A i \in DOMAIN posted : posted[i] \in ReceiptRow
    BY <1>1, ElementOfSeq, LenProperties DEF PromiseTables
  <2> QED BY <2>1 DEF ReceiptRow
<1>3. \A i \in DOMAIN obligations : obligations[i].remaining \in 0 .. obligations[i].original
  <2>1. \A i \in DOMAIN obligations : obligations[i] \in DueRow
    BY <1>1, ElementOfSeq, LenProperties DEF PromiseTables
  <2> QED BY <1>1, <2>1 DEF PromiseTables, DueRow
<1>4. \A i \in DOMAIN promises :
        promises[i] \in PromiseRow /\ promises[i].remaining \in 0 .. promises[i].amount
  <2>1. \A i \in DOMAIN promises : promises[i] \in PromiseRow
    BY <1>1, ElementOfSeq, LenProperties DEF PromiseTables
  <2> QED BY <1>1, <2>1 DEF PromiseTables, PromiseRow
<1>5. PromisesTypeOK
  BY <1>2, <1>3, <1>4 DEF PromisesTypeOK
<1>6. OnePendingPromise
  <2>1. PICK S : S = {i \in DOMAIN promises : promises[i].status = "pending"}
    OBVIOUS
  <2>2. \A i, j \in S : i = j
    BY <2>1 DEF PromisesInv, OnePends
  <2>3. CASE S = {}
    <3>1. Cardinality(S) = 0
      BY <2>3, FS_EmptySet
    <3> QED BY <2>1, <3>1 DEF OnePendingPromise
  <2>4. CASE S # {}
    <3>1. PICK i : S = {i}
      BY <2>2, <2>4
    <3>2. Cardinality(S) = 1
      BY <3>1, FS_Singleton
    <3> QED BY <2>1, <3>2 DEF OnePendingPromise
  <2> QED BY <2>3, <2>4
<1>7. PendingFollowsDue
  BY DEF PromisesInv, FollowsDue, LeftPromised, PendingFollowsDue
<1> QED BY <1>5, <1>6, <1>7 DEF PromisesInv, PromisesFollowDue

\* A step judges a promise once, and by its day.
LEMMA StepJudges ==
    ASSUME PromiseAssumption, PromisesInv, [PromisesNext]_promiseVars
    PROVE  [JudgedOnce /\ KeptInTime]_promiseVars
<1>1. ASSUME NEW l \in Loans, NEW day \in Days, NEW kind \in {"payment", "pass"},
             NEW cash \in PastDueAmounts \cup {0}, NEW promised \in PastDueAmounts \cup {0},
             NEW deadline \in Days, PostReceipt(l, day, kind, cash, promised, deadline)
      PROVE  JudgedOnce /\ KeptInTime
  <2>1. PICK r \in ReceiptRow, os \in Seq(DueRow), due \in Nat, linked \in BOOLEAN :
          PostChanges(l, day, kind, cash, r, os, due, linked)
    BY <1>1, PostFollows
  <2>2. /\ posted' = Append(posted, [r EXCEPT !.linked = linked]) /\ r.day = day
        /\ \A i \in DOMAIN promises :
             /\ promises[i].status # "pending" => promises'[i] = promises[i]
             /\ promises[i].status = "pending" /\ promises'[i].status # "pending" =>
                  (promises'[i].status = "kept" <=> day <= promises[i].deadline)
    BY <2>1 DEF PostChanges
  <2>3. PICK q : q = [r EXCEPT !.linked = linked] /\ q \in ReceiptRow /\ q.day = day
    <3>1. PICK q : q = [r EXCEPT !.linked = linked]
      OBVIOUS
    <3>2. q \in ReceiptRow /\ q.day = r.day
      BY <3>1 DEF ReceiptRow
    <3> QED BY <2>2, <3>1, <3>2
  <2>4. posted \in Seq(ReceiptRow)
    BY DEF PromisesInv, PromiseTables
  <2>5. posted' = Append(posted, q)
    BY <2>2, <2>3
  <2>6. Len(posted') = Len(posted) + 1 /\ posted'[Len(posted) + 1] = q
    BY <2>4, <2>5, AppendProperties
  <2>7. posted'[Len(posted')].day = day
    BY <2>3, <2>6
  <2> QED BY <2>2, <2>7 DEF JudgedOnce, KeptInTime
<1>2. ASSUME NEW i \in DOMAIN posted, NEW day \in Days, NEW amount \in PastDueAmounts,
             NEW promised \in PastDueAmounts \cup {0}, NEW deadline \in Days,
             AddFollowup(i, day, amount, promised, deadline)
      PROVE  JudgedOnce /\ KeptInTime
  <2>1. \A j \in DOMAIN promises : promises'[j] = promises[j]
    BY <1>2, FollowupKeeps
  <2> QED BY <2>1 DEF JudgedOnce, KeptInTime
<1>3. ASSUME NEW i \in DOMAIN posted, Void(i) PROVE JudgedOnce /\ KeptInTime
  <2>1. promises' = promises
    BY <1>3 DEF Void
  <2> QED BY <2>1 DEF JudgedOnce, KeptInTime
<1> QED BY <1>1, <1>2, <1>3 DEF PromisesNext

\* The borrower has one pending promise, it asks for what its Past Due record still owes
\* of it, and the records say what their day lacks (past_due_promise_progress and
\* collection_past_due_capture), in every reachable state.
THEOREM PromisesStayTrue ==
    ASSUME PromiseAssumption
    PROVE  PromisesSpec => [](PromisesTypeOK /\ PromisesFollowDue)
<1>1. PromisesInit => PromisesInv
  BY PromisesStart
<1>2. PromisesInv /\ [PromisesNext]_promiseVars => PromisesInv'
  BY PromisesKept
<1>3. PromisesInv => PromisesTypeOK /\ PromisesFollowDue
  BY PromisesAreTypedNow
<1> QED BY <1>1, <1>2, <1>3, PTL DEF PromisesSpec

\* A promise is kept by receipts of its day or before, judged missed by the first later
\* one, and never judged again (class comment of PastDuePromiseProgress).
THEOREM PromisesAreJudgedOnce ==
    ASSUME PromiseAssumption
    PROVE  PromisesSpec => PromiseIsJudgedOnce
<1>1. PromisesInit => PromisesInv
  BY PromisesStart
<1>2. PromisesInv /\ [PromisesNext]_promiseVars => PromisesInv'
  BY PromisesKept
<1>3. PromisesInv /\ [PromisesNext]_promiseVars => [JudgedOnce /\ KeptInTime]_promiseVars
  BY StepJudges
<1> QED BY <1>1, <1>2, <1>3, PTL DEF PromisesSpec, PromiseIsJudgedOnce

-----------------------------------------------------------------------------
(***************************************************************************)
(* What a credit and disputed cash hold is what their actions add up to,    *)
(* and an accepted remittance is covered.                                  *)
(*                                                                         *)
(* SurplusInv says what a step needs to know.  An action's row fits its     *)
(* kind, so that each step moves the columns by the difference one row      *)
(* makes; of a remittance nobody accepted nothing is identified or applied; *)
(* what a case has left and what was recognised of it stay one sum; and a   *)
(* payment belongs to one action, which is past being cancelled.            *)
(***************************************************************************)
ActionRow ==
    [kind : {"none", "return", "application", "exception_return"},
     target : Credits \cup Counts \cup {0}, remittance : Remittances \cup {0}, amount : Nat,
     status : {"none", "requested", "cancelled", "applied"} \cup Pending \cup Paid,
     payment : Refs \cup {0}, ack : {"none", "received", "not_received"}, reversed : Nat]
CreditRow ==
    [case : Cases \cup {0}, recognized : Nat, returned : Int, applied : Int,
     reserved : Int, frozen : BOOLEAN, opening : BOOLEAN]
CountRow ==
    [remittance : Remittances \cup {0}, counted : Nat, application : Actions \cup {0},
     early : BOOLEAN]
ExceptionRow == [retained : Nat, returned : Int, reserved : Int]
PaymentRow == [action : Actions \cup {0}, amount : Nat, linked : BOOLEAN, revised : BOOLEAN]
AnchorRow ==
    [kind : {"none", "credit", "pending_excess"}, amount : Nat,
     status : {"none", "draft", "active"}]

SurplusTables ==
    /\ remitted \in [Remittances -> {"submitted", "received", "rejected"}]
    /\ counts \in [Counts -> CountRow]
    /\ \A n \in Counts : counts[n] = NoCount \/ counts[n].remittance # 0
    /\ exceptions \in [Counts -> ExceptionRow]
    /\ settlements \in [Remittances -> Counts \cup {0}]
    /\ cases \in [Cases -> Nat] /\ credits \in [Credits -> CreditRow]
    /\ actions \in [Actions -> ActionRow] /\ payments \in [Refs -> PaymentRow]
    /\ anchors \in [Collectors -> AnchorRow]

-----------------------------------------------------------------------------
(* What one action adds to each sum.                                       *)

Reserves(r, c) == IF r.target = c /\ r.kind \in {"return", "application"} /\ r.status \in Pending
                  THEN r.amount ELSE 0
Returns(r, c) == IF r.target = c /\ r.kind = "return" /\ r.status \in Paid
                 THEN r.amount - r.reversed ELSE 0
Applies(r, c) == IF r.target = c /\ r.kind = "application" /\ r.status = "applied"
                 THEN r.amount ELSE 0
Holds(r, n) == IF r.target = n /\ r.kind = "exception_return" /\ r.status \in Pending
               THEN r.amount ELSE 0
GivesBack(r, n) == IF r.target = n /\ r.kind = "exception_return" /\ r.status = "paid"
                   THEN r.amount ELSE 0
Settles(r, m) == IF r.remittance = m /\ r.status = "applied" THEN r.amount ELSE 0

AllReserved(as, c) == SumOf([k \in Actions |-> Reserves(as[k], c)], Actions)
AllReturned(as, c) == SumOf([k \in Actions |-> Returns(as[k], c)], Actions)
AllApplied(as, c) == SumOf([k \in Actions |-> Applies(as[k], c)], Actions)
AllHeld(as, n) == SumOf([k \in Actions |-> Holds(as[k], n)], Actions)
AllGivenBack(as, n) == SumOf([k \in Actions |-> GivesBack(as[k], n)], Actions)
AllSettled(as, m) == SumOf([k \in Actions |-> Settles(as[k], m)], Actions)

\* What credits of a case were recognised from it.
Recognizes(r, s) == IF r.case = s THEN r.recognized ELSE 0
AllRecognized(cs, s) == SumOf([c \in Credits |-> Recognizes(cs[c], s)], Credits)

-----------------------------------------------------------------------------
(* The inductive invariant.                                                *)

\* An action is of a kind that its other columns fit.
ActionFits(r) ==
    /\ r.kind = "none" => r = NoAction
    /\ r.kind # "none" => r.status # "none" /\ r.target # 0
    /\ r.kind \in {"return", "application"} => r.target \in Credits
    /\ r.kind = "exception_return" => r.target \in Counts /\ r.status \notin {"partly_reversed", "reversed"}
    /\ r.kind = "application" => r.remittance \in Remittances /\ r.status \notin {"debited"} \cup Paid
    /\ r.kind # "application" => r.status # "applied"
    /\ r.reversed <= r.amount /\ (r.status \notin Paid => r.reversed = 0)

Capacity(as, cs, es) ==
    /\ \A c \in Credits : /\ cs[c].reserved = AllReserved(as, c)
                          /\ cs[c].returned = AllReturned(as, c)
                          /\ cs[c].applied = AllApplied(as, c)
    /\ \A n \in Counts : /\ es[n].reserved = AllHeld(as, n)
                         /\ es[n].returned = AllGivenBack(as, n)

RoomIsLeft(cs, es) ==
    /\ \A c \in Credits :
        cs[c].recognized - cs[c].returned - cs[c].applied - cs[c].reserved >= 0
    /\ \A n \in Counts : es[n].retained - es[n].returned >= es[n].reserved

\* Nothing is identified or applied of a remittance that is not accepted, and an
\* accepted one is covered.
Covered(m) ==
    IF settlements[m] = 0
    THEN cases[m] = 0 /\ AllRecognized(credits, m) = 0 /\ AllSettled(actions, m) = 0
    ELSE /\ remitted[m] = "received" /\ counts[settlements[m]] # NoCount
         /\ counts[settlements[m]].counted + AllSettled(actions, m)
              = Gross[m] - Refund[m] + cases[m] + AllRecognized(credits, m)

\* A payment is of one action that is not open to be cancelled.
PaymentsFit(ps, as) ==
    /\ \A e \in Refs : ps[e].action = 0 => ps[e] = NoPayment
    /\ \A d, e \in Refs : ps[d].action = ps[e].action /\ ps[e].action # 0 => d = e
    /\ \A e \in Refs : ps[e].action # 0 =>
        LET r == as[ps[e].action] IN
        /\ r.status \notin {"none", "requested", "cancelled"}
        /\ ps[e].linked => /\ r.payment = e /\ ps[e].amount = r.amount
                           /\ r.status \in {"debited"} \cup Paid

AnchorAmounts(an) == [w \in Collectors |-> an[w].amount]
AnchorsFit ==
    /\ SumOf(AnchorAmounts(anchors), Collectors) <= OpeningAmount
    /\ \A w \in Collectors :
        cases[w] + AllRecognized(credits, w)
            = IF anchors[w].status = "active" THEN anchors[w].amount ELSE 0

SurplusInv ==
    /\ SurplusTables /\ \A k \in Actions : ActionFits(actions[k])
    /\ Capacity(actions, credits, exceptions) /\ RoomIsLeft(credits, exceptions)
    /\ \A m \in Remittances : Covered(m)
    /\ ClosedWithoutDispute
    /\ PaymentsFit(payments, actions)
    /\ AnchorsFit
-----------------------------------------------------------------------------
(* The sums follow the rows.                                               *)

LEMMA AddsNat ==
    ASSUME NEW r \in ActionRow, ActionFits(r), NEW t
    PROVE  /\ Reserves(r, t) \in Nat /\ Returns(r, t) \in Nat /\ Applies(r, t) \in Nat
           /\ Holds(r, t) \in Nat /\ GivesBack(r, t) \in Nat /\ Settles(r, t) \in Nat
<1>1. r.amount \in Nat /\ r.reversed \in Nat /\ r.reversed <= r.amount
  BY DEF ActionRow, ActionFits
<1> QED BY <1>1 DEF Reserves, Returns, Applies, Holds, GivesBack, Settles

\* A table of actions that differs in one row.
Differ(as, bs, k) ==
    /\ as \in [Actions -> ActionRow] /\ bs \in [Actions -> ActionRow]
    /\ \A j \in Actions : ActionFits(as[j]) /\ ActionFits(bs[j])
    /\ \A j \in Actions \ {k} : bs[j] = as[j]

TotalsMove(as, bs, k, t) ==
    /\ AllReserved(bs, t) = AllReserved(as, t) + (Reserves(bs[k], t) - Reserves(as[k], t))
    /\ AllReturned(bs, t) = AllReturned(as, t) + (Returns(bs[k], t) - Returns(as[k], t))
    /\ AllApplied(bs, t) = AllApplied(as, t) + (Applies(bs[k], t) - Applies(as[k], t))
    /\ AllHeld(bs, t) = AllHeld(as, t) + (Holds(bs[k], t) - Holds(as[k], t))
    /\ AllGivenBack(bs, t) = AllGivenBack(as, t) + (GivesBack(bs[k], t) - GivesBack(as[k], t))
    /\ AllSettled(bs, t) = AllSettled(as, t) + (Settles(bs[k], t) - Settles(as[k], t))

LEMMA TotalsFollow ==
    ASSUME SurplusAssumption, NEW as, NEW bs, NEW k \in Actions, Differ(as, bs, k), NEW t
    PROVE  TotalsMove(as, bs, k, t)
<1>1. IsFiniteSet(Actions)
  BY DEF SurplusAssumption
<1>2. /\ \A j \in Actions : as[j] \in ActionRow /\ ActionFits(as[j])
      /\ \A j \in Actions : bs[j] \in ActionRow /\ ActionFits(bs[j])
      /\ \A j \in Actions \ {k} : bs[j] = as[j]
  BY DEF Differ
<1>3. AllReserved(bs, t) = AllReserved(as, t) + (Reserves(bs[k], t) - Reserves(as[k], t))
  <2> DEFINE f == [j \in Actions |-> Reserves(as[j], t)]
             g == [j \in Actions |-> Reserves(bs[j], t)]
  <2>0. \A j \in Actions : Reserves(as[j], t) \in Nat /\ Reserves(bs[j], t) \in Nat
    BY <1>2, AddsNat
  <2>1. \A j \in Actions : f[j] \in Nat /\ g[j] \in Nat
    BY <2>0
  <2>2. \A j \in Actions \ {k} : g[j] = f[j]
    BY <1>2
  <2>3. f[k] = Reserves(as[k], t) /\ g[k] = Reserves(bs[k], t)
    OBVIOUS
  <2>4. AllReserved(as, t) = SumOf(f, Actions) /\ AllReserved(bs, t) = SumOf(g, Actions)
    BY DEF AllReserved
  <2> HIDE DEF f, g
  <2>5. SumOf(g, Actions) = SumOf(f, Actions) + (g[k] - f[k])
    BY <1>1, <2>1, <2>2, SumUpdated
  <2> QED BY <2>3, <2>4, <2>5
<1>4. AllReturned(bs, t) = AllReturned(as, t) + (Returns(bs[k], t) - Returns(as[k], t))
  <2> DEFINE f == [j \in Actions |-> Returns(as[j], t)]
             g == [j \in Actions |-> Returns(bs[j], t)]
  <2>0. \A j \in Actions : Returns(as[j], t) \in Nat /\ Returns(bs[j], t) \in Nat
    BY <1>2, AddsNat
  <2>1. \A j \in Actions : f[j] \in Nat /\ g[j] \in Nat
    BY <2>0
  <2>2. \A j \in Actions \ {k} : g[j] = f[j]
    BY <1>2
  <2>3. f[k] = Returns(as[k], t) /\ g[k] = Returns(bs[k], t)
    OBVIOUS
  <2>4. AllReturned(as, t) = SumOf(f, Actions) /\ AllReturned(bs, t) = SumOf(g, Actions)
    BY DEF AllReturned
  <2> HIDE DEF f, g
  <2>5. SumOf(g, Actions) = SumOf(f, Actions) + (g[k] - f[k])
    BY <1>1, <2>1, <2>2, SumUpdated
  <2> QED BY <2>3, <2>4, <2>5
<1>5. AllApplied(bs, t) = AllApplied(as, t) + (Applies(bs[k], t) - Applies(as[k], t))
  <2> DEFINE f == [j \in Actions |-> Applies(as[j], t)]
             g == [j \in Actions |-> Applies(bs[j], t)]
  <2>0. \A j \in Actions : Applies(as[j], t) \in Nat /\ Applies(bs[j], t) \in Nat
    BY <1>2, AddsNat
  <2>1. \A j \in Actions : f[j] \in Nat /\ g[j] \in Nat
    BY <2>0
  <2>2. \A j \in Actions \ {k} : g[j] = f[j]
    BY <1>2
  <2>3. f[k] = Applies(as[k], t) /\ g[k] = Applies(bs[k], t)
    OBVIOUS
  <2>4. AllApplied(as, t) = SumOf(f, Actions) /\ AllApplied(bs, t) = SumOf(g, Actions)
    BY DEF AllApplied
  <2> HIDE DEF f, g
  <2>5. SumOf(g, Actions) = SumOf(f, Actions) + (g[k] - f[k])
    BY <1>1, <2>1, <2>2, SumUpdated
  <2> QED BY <2>3, <2>4, <2>5
<1>6. AllHeld(bs, t) = AllHeld(as, t) + (Holds(bs[k], t) - Holds(as[k], t))
  <2> DEFINE f == [j \in Actions |-> Holds(as[j], t)]
             g == [j \in Actions |-> Holds(bs[j], t)]
  <2>0. \A j \in Actions : Holds(as[j], t) \in Nat /\ Holds(bs[j], t) \in Nat
    BY <1>2, AddsNat
  <2>1. \A j \in Actions : f[j] \in Nat /\ g[j] \in Nat
    BY <2>0
  <2>2. \A j \in Actions \ {k} : g[j] = f[j]
    BY <1>2
  <2>3. f[k] = Holds(as[k], t) /\ g[k] = Holds(bs[k], t)
    OBVIOUS
  <2>4. AllHeld(as, t) = SumOf(f, Actions) /\ AllHeld(bs, t) = SumOf(g, Actions)
    BY DEF AllHeld
  <2> HIDE DEF f, g
  <2>5. SumOf(g, Actions) = SumOf(f, Actions) + (g[k] - f[k])
    BY <1>1, <2>1, <2>2, SumUpdated
  <2> QED BY <2>3, <2>4, <2>5
<1>7. AllGivenBack(bs, t) = AllGivenBack(as, t) + (GivesBack(bs[k], t) - GivesBack(as[k], t))
  <2> DEFINE f == [j \in Actions |-> GivesBack(as[j], t)]
             g == [j \in Actions |-> GivesBack(bs[j], t)]
  <2>0. \A j \in Actions : GivesBack(as[j], t) \in Nat /\ GivesBack(bs[j], t) \in Nat
    BY <1>2, AddsNat
  <2>1. \A j \in Actions : f[j] \in Nat /\ g[j] \in Nat
    BY <2>0
  <2>2. \A j \in Actions \ {k} : g[j] = f[j]
    BY <1>2
  <2>3. f[k] = GivesBack(as[k], t) /\ g[k] = GivesBack(bs[k], t)
    OBVIOUS
  <2>4. AllGivenBack(as, t) = SumOf(f, Actions) /\ AllGivenBack(bs, t) = SumOf(g, Actions)
    BY DEF AllGivenBack
  <2> HIDE DEF f, g
  <2>5. SumOf(g, Actions) = SumOf(f, Actions) + (g[k] - f[k])
    BY <1>1, <2>1, <2>2, SumUpdated
  <2> QED BY <2>3, <2>4, <2>5
<1>8. AllSettled(bs, t) = AllSettled(as, t) + (Settles(bs[k], t) - Settles(as[k], t))
  <2> DEFINE f == [j \in Actions |-> Settles(as[j], t)]
             g == [j \in Actions |-> Settles(bs[j], t)]
  <2>0. \A j \in Actions : Settles(as[j], t) \in Nat /\ Settles(bs[j], t) \in Nat
    BY <1>2, AddsNat
  <2>1. \A j \in Actions : f[j] \in Nat /\ g[j] \in Nat
    BY <2>0
  <2>2. \A j \in Actions \ {k} : g[j] = f[j]
    BY <1>2
  <2>3. f[k] = Settles(as[k], t) /\ g[k] = Settles(bs[k], t)
    OBVIOUS
  <2>4. AllSettled(as, t) = SumOf(f, Actions) /\ AllSettled(bs, t) = SumOf(g, Actions)
    BY DEF AllSettled
  <2> HIDE DEF f, g
  <2>5. SumOf(g, Actions) = SumOf(f, Actions) + (g[k] - f[k])
    BY <1>1, <2>1, <2>2, SumUpdated
  <2> QED BY <2>3, <2>4, <2>5
<1> QED BY <1>3, <1>4, <1>5, <1>6, <1>7, <1>8 DEF TotalsMove

LEMMA TotalsAreNat ==
    ASSUME SurplusAssumption, NEW as \in [Actions -> ActionRow],
           \A j \in Actions : ActionFits(as[j]), NEW t
    PROVE  /\ AllReserved(as, t) \in Nat /\ AllReturned(as, t) \in Nat
           /\ AllApplied(as, t) \in Nat /\ AllHeld(as, t) \in Nat
           /\ AllGivenBack(as, t) \in Nat /\ AllSettled(as, t) \in Nat
<1>1. IsFiniteSet(Actions)
  BY DEF SurplusAssumption
<1>2. \A j \in Actions : as[j] \in ActionRow /\ ActionFits(as[j])
  OBVIOUS
<1>3. AllReserved(as, t) \in Nat
  <2> DEFINE f == [j \in Actions |-> Reserves(as[j], t)]
  <2>1. \A j \in Actions : f[j] \in Nat
    BY <1>2, AddsNat
  <2>2. AllReserved(as, t) = SumOf(f, Actions)
    BY DEF AllReserved
  <2> HIDE DEF f
  <2> QED BY <1>1, <2>1, <2>2, SumIsMonotone
<1>4. AllReturned(as, t) \in Nat
  <2> DEFINE f == [j \in Actions |-> Returns(as[j], t)]
  <2>1. \A j \in Actions : f[j] \in Nat
    BY <1>2, AddsNat
  <2>2. AllReturned(as, t) = SumOf(f, Actions)
    BY DEF AllReturned
  <2> HIDE DEF f
  <2> QED BY <1>1, <2>1, <2>2, SumIsMonotone
<1>5. AllApplied(as, t) \in Nat
  <2> DEFINE f == [j \in Actions |-> Applies(as[j], t)]
  <2>1. \A j \in Actions : f[j] \in Nat
    BY <1>2, AddsNat
  <2>2. AllApplied(as, t) = SumOf(f, Actions)
    BY DEF AllApplied
  <2> HIDE DEF f
  <2> QED BY <1>1, <2>1, <2>2, SumIsMonotone
<1>6. AllHeld(as, t) \in Nat
  <2> DEFINE f == [j \in Actions |-> Holds(as[j], t)]
  <2>1. \A j \in Actions : f[j] \in Nat
    BY <1>2, AddsNat
  <2>2. AllHeld(as, t) = SumOf(f, Actions)
    BY DEF AllHeld
  <2> HIDE DEF f
  <2> QED BY <1>1, <2>1, <2>2, SumIsMonotone
<1>7. AllGivenBack(as, t) \in Nat
  <2> DEFINE f == [j \in Actions |-> GivesBack(as[j], t)]
  <2>1. \A j \in Actions : f[j] \in Nat
    BY <1>2, AddsNat
  <2>2. AllGivenBack(as, t) = SumOf(f, Actions)
    BY DEF AllGivenBack
  <2> HIDE DEF f
  <2> QED BY <1>1, <2>1, <2>2, SumIsMonotone
<1>8. AllSettled(as, t) \in Nat
  <2> DEFINE f == [j \in Actions |-> Settles(as[j], t)]
  <2>1. \A j \in Actions : f[j] \in Nat
    BY <1>2, AddsNat
  <2>2. AllSettled(as, t) = SumOf(f, Actions)
    BY DEF AllSettled
  <2> HIDE DEF f
  <2> QED BY <1>1, <2>1, <2>2, SumIsMonotone
<1> QED BY <1>3, <1>4, <1>5, <1>6, <1>7, <1>8

\* What is recognised of a case depends on two columns.
LEMMA SameRecognized ==
    ASSUME NEW cs, NEW ds, NEW s,
           \A c \in Credits : ds[c].case = cs[c].case /\ ds[c].recognized = cs[c].recognized
    PROVE  AllRecognized(ds, s) = AllRecognized(cs, s)
<1> DEFINE f == [c \in Credits |-> Recognizes(cs[c], s)]
           g == [c \in Credits |-> Recognizes(ds[c], s)]
<1>1. \A c \in Credits : g[c] = f[c]
  BY DEF Recognizes
<1> QED BY <1>1 DEF AllRecognized

RecognizedMoves(cs, ds, c, s) ==
    /\ AllRecognized(cs, s) \in Nat
    /\ AllRecognized(ds, s) = AllRecognized(cs, s) + (Recognizes(ds[c], s) - Recognizes(cs[c], s))

LEMMA RecognizedFollows ==
    ASSUME SurplusAssumption, NEW cs \in [Credits -> CreditRow], NEW ds \in [Credits -> CreditRow],
           NEW c \in Credits, \A d \in Credits \ {c} : ds[d] = cs[d], NEW s
    PROVE  RecognizedMoves(cs, ds, c, s)
<1> DEFINE f == [d \in Credits |-> Recognizes(cs[d], s)]
           g == [d \in Credits |-> Recognizes(ds[d], s)]
<1>1. IsFiniteSet(Credits)
  BY DEF SurplusAssumption
<1>2. \A d \in Credits : f[d] \in Nat /\ g[d] \in Nat
  <2> SUFFICES ASSUME NEW d \in Credits PROVE f[d] \in Nat /\ g[d] \in Nat
    OBVIOUS
  <2>1. cs[d].recognized \in Nat /\ ds[d].recognized \in Nat
    BY DEF CreditRow
  <2> QED BY <2>1 DEF Recognizes
<1>3. \A d \in Credits \ {c} : g[d] = f[d]
  OBVIOUS
<1>4. f[c] = Recognizes(cs[c], s) /\ g[c] = Recognizes(ds[c], s)
  OBVIOUS
<1>5. AllRecognized(cs, s) = SumOf(f, Credits) /\ AllRecognized(ds, s) = SumOf(g, Credits)
  BY DEF AllRecognized
<1> HIDE DEF f, g
<1>6. SumOf(g, Credits) = SumOf(f, Credits) + (g[c] - f[c])
  BY <1>1, <1>2, <1>3, SumUpdated
<1>7. SumOf(f, Credits) \in Nat
  BY <1>1, <1>2, SumIsMonotone
<1> QED BY <1>4, <1>5, <1>6, <1>7 DEF RecognizedMoves
-----------------------------------------------------------------------------
(* What a change of the capacity does.                                     *)

\* Credits and disputed cash changed by what row q of an action becoming r says.
Moves(cs, ds, es, fs, q, r) ==
    /\ \A c \in Credits :
        /\ ds[c].case = cs[c].case /\ ds[c].recognized = cs[c].recognized
        /\ ds[c].reserved = cs[c].reserved + (Reserves(r, c) - Reserves(q, c))
        /\ ds[c].returned = cs[c].returned + (Returns(r, c) - Returns(q, c))
        /\ ds[c].applied = cs[c].applied + (Applies(r, c) - Applies(q, c))
    /\ \A n \in Counts :
        /\ fs[n].retained = es[n].retained
        /\ fs[n].reserved = es[n].reserved + (Holds(r, n) - Holds(q, n))
        /\ fs[n].returned = es[n].returned + (GivesBack(r, n) - GivesBack(q, n))

\* ... and the tables stay as they must be.
MovedTo(q, r) ==
    /\ credits' \in [Credits -> CreditRow] /\ exceptions' \in [Counts -> ExceptionRow]
    /\ RoomIsLeft(credits', exceptions')
    /\ Moves(credits, credits', exceptions, exceptions', q, r)

LEMMA CreditChanges ==
    ASSUME SurplusTables, RoomIsLeft(credits, exceptions), NEW c \in Credits,
           NEW x \in Int, NEW y \in Int, NEW z \in Int,
           ChangeCredit(c, x, y, z), UNCHANGED exceptions,
           NEW q \in ActionRow, NEW r \in ActionRow, q.target = c, r.target = c,
           q.kind = r.kind, q.kind \in {"return", "application"},
           x = Reserves(r, c) - Reserves(q, c), y = Returns(r, c) - Returns(q, c),
           z = Applies(r, c) - Applies(q, c)
    PROVE  MovedTo(q, r)
<1>1. /\ credits \in [Credits -> CreditRow] /\ exceptions \in [Counts -> ExceptionRow]
      /\ credits[c] \in CreditRow
  BY DEF SurplusTables
<1>2. PICK new : new = [credits[c] EXCEPT !.reserved = @ + x, !.returned = @ + y, !.applied = @ + z]
  OBVIOUS
<1>3. /\ new \in CreditRow /\ new.case = credits[c].case /\ new.recognized = credits[c].recognized
      /\ new.reserved = credits[c].reserved + x /\ new.returned = credits[c].returned + y
      /\ new.applied = credits[c].applied + z
  <2>1. PICK old \in CreditRow : old = credits[c]
    BY <1>1
  <2>2. PICK a \in Int, b \in Int, e \in Int : a = old.reserved + x /\ b = old.returned + y /\ e = old.applied + z
    BY DEF CreditRow
  <2>3. new = [old EXCEPT !.reserved = a, !.returned = b, !.applied = e]
    BY <1>2, <2>1, <2>2
  <2>4. /\ new \in CreditRow /\ new.case = old.case /\ new.recognized = old.recognized
        /\ new.reserved = a /\ new.returned = b /\ new.applied = e
    BY <2>3 DEF CreditRow
  <2> QED BY <2>1, <2>2, <2>4
<1>4. credits' = [credits EXCEPT ![c] = new]
  BY <1>1, <1>2 DEF ChangeCredit
<1>5. /\ credits' \in [Credits -> CreditRow] /\ credits'[c] = new
      /\ \A d \in Credits \ {c} : credits'[d] = credits[d]
  BY <1>1, <1>3, <1>4
<1>6. credits[c].recognized - credits[c].returned - credits[c].applied - credits[c].reserved - x - y - z >= 0
  BY DEF ChangeCredit, Available, Outstanding
<1>7. new.recognized - new.returned - new.applied - new.reserved >= 0
  BY <1>1, <1>3, <1>6 DEF CreditRow
<1>8. RoomIsLeft(credits', exceptions')
  BY <1>5, <1>7 DEF RoomIsLeft
<1>9. ASSUME NEW d \in Credits \ {c}
      PROVE  /\ Reserves(r, d) = 0 /\ Reserves(q, d) = 0 /\ Returns(r, d) = 0 /\ Returns(q, d) = 0
             /\ Applies(r, d) = 0 /\ Applies(q, d) = 0
  BY <1>9 DEF Reserves, Returns, Applies
<1>10. \A n : Holds(r, n) = 0 /\ Holds(q, n) = 0 /\ GivesBack(r, n) = 0 /\ GivesBack(q, n) = 0
  BY DEF Holds, GivesBack
<1>11. ASSUME NEW d \in Credits
       PROVE  /\ credits'[d].case = credits[d].case /\ credits'[d].recognized = credits[d].recognized
              /\ credits'[d].reserved = credits[d].reserved + (Reserves(r, d) - Reserves(q, d))
              /\ credits'[d].returned = credits[d].returned + (Returns(r, d) - Returns(q, d))
              /\ credits'[d].applied = credits[d].applied + (Applies(r, d) - Applies(q, d))
  <2>1. CASE d = c
    BY <1>3, <1>5, <2>1
  <2>2. CASE d # c
    <3>1. credits[d] \in CreditRow
      BY <1>1
    <3> QED BY <1>5, <1>9, <2>2, <3>1 DEF CreditRow
  <2> QED BY <2>1, <2>2
<1>12. ASSUME NEW n \in Counts
       PROVE  /\ exceptions'[n].retained = exceptions[n].retained
              /\ exceptions'[n].reserved = exceptions[n].reserved + (Holds(r, n) - Holds(q, n))
              /\ exceptions'[n].returned = exceptions[n].returned + (GivesBack(r, n) - GivesBack(q, n))
  <2>1. exceptions[n] \in ExceptionRow
    BY <1>1
  <2> QED BY <1>10, <2>1 DEF ExceptionRow
<1> QED BY <1>1, <1>5, <1>8, <1>11, <1>12 DEF MovedTo, Moves

LEMMA ExceptionChanges ==
    ASSUME SurplusTables, RoomIsLeft(credits, exceptions), NEW n \in Counts,
           NEW x \in Int, NEW y \in Int,
           ChangeException(n, x, y), UNCHANGED credits,
           NEW q \in ActionRow, NEW r \in ActionRow, q = NoAction \/ q.target = n, r.target = n,
           q = NoAction \/ q.kind = "exception_return", r.kind = "exception_return",
           x = Holds(r, n) - Holds(q, n), y = GivesBack(r, n) - GivesBack(q, n)
    PROVE  MovedTo(q, r)
<1>1. /\ credits \in [Credits -> CreditRow] /\ exceptions \in [Counts -> ExceptionRow]
      /\ exceptions[n] \in ExceptionRow
  BY DEF SurplusTables
<1>2. PICK new : new = [exceptions[n] EXCEPT !.reserved = @ + x, !.returned = @ + y]
  OBVIOUS
<1>3. /\ new \in ExceptionRow /\ new.retained = exceptions[n].retained
      /\ new.reserved = exceptions[n].reserved + x /\ new.returned = exceptions[n].returned + y
  <2>1. PICK old \in ExceptionRow : old = exceptions[n]
    BY <1>1
  <2>2. PICK a \in Int, b \in Int : a = old.reserved + x /\ b = old.returned + y
    BY DEF ExceptionRow
  <2>3. new = [old EXCEPT !.reserved = a, !.returned = b]
    BY <1>2, <2>1, <2>2
  <2>4. /\ new \in ExceptionRow /\ new.retained = old.retained
        /\ new.reserved = a /\ new.returned = b
    BY <2>3 DEF ExceptionRow
  <2> QED BY <2>1, <2>2, <2>4
<1>4. exceptions' = [exceptions EXCEPT ![n] = new]
  BY <1>1, <1>2 DEF ChangeException
<1>5. /\ exceptions' \in [Counts -> ExceptionRow] /\ exceptions'[n] = new
      /\ \A o \in Counts \ {n} : exceptions'[o] = exceptions[o]
  BY <1>1, <1>3, <1>4
<1>6. exceptions[n].retained - exceptions[n].returned - y - exceptions[n].reserved - x >= 0
  BY DEF ChangeException, Held
<1>7. new.retained - new.returned >= new.reserved
  BY <1>1, <1>3, <1>6 DEF ExceptionRow
<1>8. RoomIsLeft(credits', exceptions')
  BY <1>5, <1>7 DEF RoomIsLeft
<1>9. \A o \in Counts \ {n} :
        Holds(r, o) = 0 /\ Holds(q, o) = 0 /\ GivesBack(r, o) = 0 /\ GivesBack(q, o) = 0
  BY DEF Holds, GivesBack, NoAction
<1>10. \A c : /\ Reserves(r, c) = 0 /\ Reserves(q, c) = 0 /\ Returns(r, c) = 0 /\ Returns(q, c) = 0
              /\ Applies(r, c) = 0 /\ Applies(q, c) = 0
  BY DEF Reserves, Returns, Applies, NoAction
<1>11. ASSUME NEW d \in Credits
       PROVE  /\ credits'[d].case = credits[d].case /\ credits'[d].recognized = credits[d].recognized
              /\ credits'[d].reserved = credits[d].reserved + (Reserves(r, d) - Reserves(q, d))
              /\ credits'[d].returned = credits[d].returned + (Returns(r, d) - Returns(q, d))
              /\ credits'[d].applied = credits[d].applied + (Applies(r, d) - Applies(q, d))
  <2>1. credits[d] \in CreditRow
    BY <1>1
  <2> QED BY <1>10, <2>1 DEF CreditRow
<1>12. ASSUME NEW o \in Counts
       PROVE  /\ exceptions'[o].retained = exceptions[o].retained
              /\ exceptions'[o].reserved = exceptions[o].reserved + (Holds(r, o) - Holds(q, o))
              /\ exceptions'[o].returned = exceptions[o].returned + (GivesBack(r, o) - GivesBack(q, o))
  <2>1. CASE o = n
    BY <1>3, <1>5, <2>1
  <2>2. CASE o # n
    <3>1. exceptions[o] \in ExceptionRow
      BY <1>1
    <3> QED BY <1>5, <1>9, <2>2, <3>1 DEF ExceptionRow
  <2> QED BY <2>1, <2>2
<1> QED BY <1>1, <1>5, <1>8, <1>11, <1>12 DEF MovedTo, Moves

\* Nothing moves when no row that counts does.
LEMMA NothingMoves ==
    ASSUME SurplusTables, RoomIsLeft(credits, exceptions), UNCHANGED <<credits, exceptions>>,
           NEW q \in ActionRow, NEW r \in ActionRow, ActionFits(q), ActionFits(r),
           \A t : /\ Reserves(r, t) = Reserves(q, t) /\ Returns(r, t) = Returns(q, t)
                  /\ Applies(r, t) = Applies(q, t) /\ Holds(r, t) = Holds(q, t)
                  /\ GivesBack(r, t) = GivesBack(q, t)
    PROVE  MovedTo(q, r)
<1>1. /\ credits \in [Credits -> CreditRow] /\ exceptions \in [Counts -> ExceptionRow]
  BY DEF SurplusTables
<1>2. \A t : /\ Reserves(r, t) - Reserves(q, t) = 0 /\ Returns(r, t) - Returns(q, t) = 0
             /\ Applies(r, t) - Applies(q, t) = 0 /\ Holds(r, t) - Holds(q, t) = 0
             /\ GivesBack(r, t) - GivesBack(q, t) = 0
  <2> SUFFICES ASSUME NEW t
               PROVE  /\ Reserves(r, t) - Reserves(q, t) = 0 /\ Returns(r, t) - Returns(q, t) = 0
                      /\ Applies(r, t) - Applies(q, t) = 0 /\ Holds(r, t) - Holds(q, t) = 0
                      /\ GivesBack(r, t) - GivesBack(q, t) = 0
    OBVIOUS
  <2>1. /\ Reserves(q, t) \in Nat /\ Returns(q, t) \in Nat /\ Applies(q, t) \in Nat
        /\ Holds(q, t) \in Nat /\ GivesBack(q, t) \in Nat
    BY AddsNat
  <2> QED BY <2>1
<1>3. ASSUME NEW d \in Credits
      PROVE  /\ credits'[d].case = credits[d].case /\ credits'[d].recognized = credits[d].recognized
             /\ credits'[d].reserved = credits[d].reserved + (Reserves(r, d) - Reserves(q, d))
             /\ credits'[d].returned = credits[d].returned + (Returns(r, d) - Returns(q, d))
             /\ credits'[d].applied = credits[d].applied + (Applies(r, d) - Applies(q, d))
  <2>1. credits[d] \in CreditRow
    BY <1>1
  <2> QED BY <1>2, <2>1 DEF CreditRow
<1>4. ASSUME NEW o \in Counts
      PROVE  /\ exceptions'[o].retained = exceptions[o].retained
             /\ exceptions'[o].reserved = exceptions[o].reserved + (Holds(r, o) - Holds(q, o))
             /\ exceptions'[o].returned = exceptions[o].returned + (GivesBack(r, o) - GivesBack(q, o))
  <2>1. exceptions[o] \in ExceptionRow
    BY <1>1
  <2> QED BY <1>2, <2>1 DEF ExceptionRow
<1> QED BY <1>1, <1>3, <1>4 DEF MovedTo, Moves
-----------------------------------------------------------------------------
(* One action changes, and what it reserved or gave back with it.          *)

LEMMA CapacityKept ==
    ASSUME SurplusAssumption, SurplusTables, Capacity(actions, credits, exceptions),
           NEW k \in Actions, NEW r \in ActionRow, Differ(actions, actions', k), actions'[k] = r,
           MovedTo(actions[k], r)
    PROVE  Capacity(actions', credits', exceptions')
<1>1. Moves(credits, credits', exceptions, exceptions', actions[k], r)
  BY DEF MovedTo
<1>2. ASSUME NEW c \in Credits
      PROVE  /\ credits'[c].reserved = AllReserved(actions', c)
             /\ credits'[c].returned = AllReturned(actions', c)
             /\ credits'[c].applied = AllApplied(actions', c)
  <2>1. /\ credits[c].reserved = AllReserved(actions, c) /\ credits[c].returned = AllReturned(actions, c)
        /\ credits[c].applied = AllApplied(actions, c)
    BY DEF Capacity
  <2>2. /\ credits'[c].reserved = credits[c].reserved + (Reserves(r, c) - Reserves(actions[k], c))
        /\ credits'[c].returned = credits[c].returned + (Returns(r, c) - Returns(actions[k], c))
        /\ credits'[c].applied = credits[c].applied + (Applies(r, c) - Applies(actions[k], c))
    BY <1>1 DEF Moves
  <2>3. /\ AllReserved(actions', c) = AllReserved(actions, c) + (Reserves(r, c) - Reserves(actions[k], c))
        /\ AllReturned(actions', c) = AllReturned(actions, c) + (Returns(r, c) - Returns(actions[k], c))
        /\ AllApplied(actions', c) = AllApplied(actions, c) + (Applies(r, c) - Applies(actions[k], c))
    BY TotalsFollow DEF TotalsMove
  <2> QED BY <2>1, <2>2, <2>3
<1>3. ASSUME NEW n \in Counts
      PROVE  /\ exceptions'[n].reserved = AllHeld(actions', n)
             /\ exceptions'[n].returned = AllGivenBack(actions', n)
  <2>1. /\ exceptions[n].reserved = AllHeld(actions, n) /\ exceptions[n].returned = AllGivenBack(actions, n)
    BY DEF Capacity
  <2>2. /\ exceptions'[n].reserved = exceptions[n].reserved + (Holds(r, n) - Holds(actions[k], n))
        /\ exceptions'[n].returned = exceptions[n].returned + (GivesBack(r, n) - GivesBack(actions[k], n))
    BY <1>1 DEF Moves
  <2>3. /\ AllHeld(actions', n) = AllHeld(actions, n) + (Holds(r, n) - Holds(actions[k], n))
        /\ AllGivenBack(actions', n) = AllGivenBack(actions, n) + (GivesBack(r, n) - GivesBack(actions[k], n))
    BY TotalsFollow DEF TotalsMove
  <2> QED BY <2>1, <2>2, <2>3
<1> QED BY <1>2, <1>3 DEF Capacity

LEMMA RowDiffers ==
    ASSUME SurplusInv, NEW k \in Actions, NEW r \in ActionRow, ActionFits(r),
           actions' = [actions EXCEPT ![k] = r]
    PROVE  Differ(actions, actions', k) /\ actions'[k] = r
<1>1. actions \in [Actions -> ActionRow] /\ \A j \in Actions : ActionFits(actions[j])
  BY DEF SurplusInv, SurplusTables
<1>2. actions' \in [Actions -> ActionRow] /\ actions'[k] = r
  BY <1>1
<1>3. \A j \in Actions \ {k} : actions'[j] = actions[j]
  BY <1>1
<1>4. \A j \in Actions : ActionFits(actions'[j])
  <2> SUFFICES ASSUME NEW j \in Actions PROVE ActionFits(actions'[j])
    OBVIOUS
  <2>1. CASE j = k
    BY <1>2, <2>1
  <2>2. CASE j # k
    BY <1>1, <1>3, <2>2
  <2> QED BY <2>1, <2>2
<1> QED BY <1>1, <1>2, <1>3, <1>4 DEF Differ

LEMMA RowKeeps ==
    ASSUME SurplusAssumption, SurplusInv, NEW k \in Actions, NEW r \in ActionRow, ActionFits(r),
           actions' = [actions EXCEPT ![k] = r], MovedTo(actions[k], r),
           UNCHANGED <<remitted, counts, settlements, cases, anchors>>,
           r.status # "applied", actions[k].status # "applied",
           \A n : GivesBack(r, n) >= GivesBack(actions[k], n),
           payments' \in [Refs -> PaymentRow], PaymentsFit(payments', actions')
    PROVE  SurplusInv'
<1>1. Differ(actions, actions', k) /\ actions'[k] = r
  BY RowDiffers
<1>2. SurplusTables /\ Capacity(actions, credits, exceptions)
  BY DEF SurplusInv
<1>3. SurplusTables'
  BY <1>1, <1>2 DEF SurplusTables, MovedTo, Differ
<1>4. \A j \in Actions : ActionFits(actions'[j])
  BY <1>1 DEF Differ
<1>5. Capacity(actions', credits', exceptions') /\ RoomIsLeft(credits', exceptions')
  BY <1>1, <1>2, CapacityKept DEF MovedTo
<1>6. Moves(credits, credits', exceptions, exceptions', actions[k], r)
  BY DEF MovedTo
<1>7. \A s : AllRecognized(credits', s) = AllRecognized(credits, s)
  <2> SUFFICES ASSUME NEW s PROVE AllRecognized(credits', s) = AllRecognized(credits, s)
    OBVIOUS
  <2>1. \A c \in Credits : credits'[c].case = credits[c].case /\ credits'[c].recognized = credits[c].recognized
    BY <1>6 DEF Moves
  <2> QED BY <2>1, SameRecognized
<1>8. \A m : AllSettled(actions', m) = AllSettled(actions, m)
  <2> SUFFICES ASSUME NEW m PROVE AllSettled(actions', m) = AllSettled(actions, m)
    OBVIOUS
  <2>1. Settles(r, m) = 0 /\ Settles(actions[k], m) = 0
    BY DEF Settles
  <2>2. AllSettled(actions', m) = AllSettled(actions, m) + (Settles(r, m) - Settles(actions[k], m))
    <3>1. Differ(actions, actions', k)
      BY <1>1
    <3>2. AllSettled(actions', m) = AllSettled(actions, m) + (Settles(actions'[k], m) - Settles(actions[k], m))
      <4>1. TotalsMove(actions, actions', k, m)
        BY <3>1, TotalsFollow
      <4> QED BY <4>1 DEF TotalsMove
    <3> QED BY <1>1, <3>2
  <2>3. AllSettled(actions, m) \in Nat
    BY <1>1, TotalsAreNat DEF Differ
  <2> QED BY <2>1, <2>2, <2>3
<1>9. \A m \in Remittances : Covered(m)'
  <2> SUFFICES ASSUME NEW m \in Remittances PROVE Covered(m)'
    OBVIOUS
  <2>1. Covered(m)
    BY DEF SurplusInv
  <2>2. AllRecognized(credits', m) = AllRecognized(credits, m) /\ AllSettled(actions', m) = AllSettled(actions, m)
    BY <1>7, <1>8
  <2> QED BY <2>1, <2>2 DEF Covered
<1>10. ClosedWithoutDispute'
  <2>1. \A n \in Counts : Held(n)' <= Held(n) /\ Held(n)' \in Int /\ Held(n) \in Int
    <3> SUFFICES ASSUME NEW n \in Counts PROVE Held(n)' <= Held(n) /\ Held(n)' \in Int /\ Held(n) \in Int
      OBVIOUS
    <3>1. exceptions[n] \in ExceptionRow /\ exceptions'[n] \in ExceptionRow
      BY <1>2, <1>3 DEF SurplusTables
    <3>2. /\ exceptions'[n].retained = exceptions[n].retained
          /\ exceptions'[n].returned = exceptions[n].returned + (GivesBack(r, n) - GivesBack(actions[k], n))
      BY <1>6 DEF Moves
    <3>3. GivesBack(r, n) \in Nat /\ GivesBack(actions[k], n) \in Nat /\ GivesBack(r, n) >= GivesBack(actions[k], n)
      BY <1>1, AddsNat DEF Differ
    <3>4. /\ exceptions[n].retained \in Nat /\ exceptions[n].returned \in Int
          /\ exceptions'[n].returned \in Int
      BY <3>1 DEF ExceptionRow
    <3> QED BY <3>2, <3>3, <3>4 DEF Held
  <2>2. ClosedWithoutDispute
    BY DEF SurplusInv
  <2>3. \A m : Disputed(m)' => Disputed(m)
    BY <2>1 DEF Disputed
  <2> QED BY <2>2, <2>3 DEF ClosedWithoutDispute
<1>11. AnchorsFit'
  <2>1. AnchorsFit
    BY DEF SurplusInv
  <2> QED BY <1>7, <2>1 DEF AnchorsFit
<1> QED BY <1>3, <1>4, <1>5, <1>9, <1>10, <1>11 DEF SurplusInv

\* Payments fit an action that changes: it has none, or keeps what they name.
LEMMA PaymentsStay ==
    ASSUME SurplusInv, UNCHANGED payments, NEW k \in Actions, NEW r \in ActionRow,
           actions' = [actions EXCEPT ![k] = r],
           \/ PaidFor(k) = {}
           \/ /\ r.status \notin {"none", "requested", "cancelled"}
              /\ r.payment = actions[k].payment /\ r.amount = actions[k].amount
              /\ actions[k].status \in {"debited"} \cup Paid => r.status \in {"debited"} \cup Paid
    PROVE  payments' \in [Refs -> PaymentRow] /\ PaymentsFit(payments', actions')
<1>1. /\ actions \in [Actions -> ActionRow] /\ payments \in [Refs -> PaymentRow]
      /\ PaymentsFit(payments, actions)
  BY DEF SurplusInv, SurplusTables
<1>2. actions'[k] = r /\ \A j \in Actions \ {k} : actions'[j] = actions[j]
  BY <1>1
<1>3. ASSUME NEW e \in Refs, payments[e].action # 0
      PROVE  LET s == actions'[payments[e].action] IN
             /\ s.status \notin {"none", "requested", "cancelled"}
             /\ payments[e].linked => /\ s.payment = e /\ payments[e].amount = s.amount
                                      /\ s.status \in {"debited"} \cup Paid
  <2>1. PICK j \in Actions : j = payments[e].action
    BY <1>1, <1>3 DEF PaymentRow
  <2>2. /\ actions[j].status \notin {"none", "requested", "cancelled"}
        /\ payments[e].linked => /\ actions[j].payment = e /\ payments[e].amount = actions[j].amount
                                 /\ actions[j].status \in {"debited"} \cup Paid
    BY <1>1, <1>3, <2>1 DEF PaymentsFit
  <2>3. CASE j # k
    BY <1>2, <2>1, <2>2, <2>3
  <2>4. CASE j = k
    <3>1. e \in PaidFor(k)
      BY <2>1, <2>4 DEF PaidFor
    <3>2. /\ r.status \notin {"none", "requested", "cancelled"}
          /\ r.payment = actions[k].payment /\ r.amount = actions[k].amount
          /\ actions[k].status \in {"debited"} \cup Paid => r.status \in {"debited"} \cup Paid
      BY <3>1
    <3> QED BY <1>2, <2>1, <2>2, <2>4, <3>2
  <2> QED BY <2>3, <2>4
<1>4. /\ \A e \in Refs : payments[e].action = 0 => payments[e] = NoPayment
      /\ \A d, e \in Refs : payments[d].action = payments[e].action /\ payments[e].action # 0 => d = e
  BY <1>1 DEF PaymentsFit
<1> QED BY <1>1, <1>3, <1>4 DEF PaymentsFit
-----------------------------------------------------------------------------
(* Returns and applications.                                               *)

LEMMA RowOf ==
    ASSUME SurplusInv, NEW k \in Actions
    PROVE  /\ actions \in [Actions -> ActionRow] /\ actions[k] \in ActionRow
           /\ ActionFits(actions[k]) /\ actions[k].amount \in Nat
           /\ SurplusTables /\ RoomIsLeft(credits, exceptions)
  BY DEF SurplusInv, SurplusTables, ActionRow

\* An action that is open or cancelled was not paid.
LEMMA OpenIsUnpaid ==
    ASSUME SurplusAssumption, SurplusInv, NEW k \in Actions,
           actions[k].status \in {"none", "requested", "cancelled"}
    PROVE  PaidFor(k) = {}
<1> SUFFICES ASSUME NEW e \in PaidFor(k) PROVE FALSE
  OBVIOUS
<1>1. e \in Refs /\ payments[e].action = k
  BY DEF PaidFor
<1>2. k # 0
  BY DEF SurplusAssumption
<1>3. PaymentsFit(payments, actions)
  BY DEF SurplusInv
<1>4. actions[payments[e].action].status \notin {"none", "requested", "cancelled"}
  BY <1>1, <1>2, <1>3 DEF PaymentsFit
<1> QED BY <1>1, <1>4

LEMMA RequestKeeps ==
    ASSUME SurplusAssumption, SurplusInv, NEW k \in Actions, NEW kind \in {"return", "application"},
           NEW c \in Credits, NEW m \in Remittances \cup {0}, NEW amount \in Entered,
           Request(k, kind, c, m, amount)
    PROVE  SurplusInv'
<1>1. PICK r : r = [NoAction EXCEPT !.kind = kind, !.target = c, !.remittance = m, !.amount = amount,
                                   !.status = "requested"]
  OBVIOUS
<1>2. /\ r.kind = kind /\ r.target = c /\ r.remittance = m /\ r.amount = amount
      /\ r.status = "requested" /\ r.reversed = 0
      /\ r = [kind |-> kind, target |-> c, remittance |-> m, amount |-> amount,
              status |-> "requested", payment |-> 0, ack |-> "none", reversed |-> 0]
  BY <1>1 DEF NoAction
<1>3. amount \in Nat
  BY DEF SurplusAssumption
<1>4. r \in ActionRow
  BY <1>2, <1>3 DEF ActionRow
<1>5. ActionFits(r)
  <2>1. c # 0 /\ (kind = "application" => m # 0)
    BY DEF SurplusAssumption, Request
  <2> QED BY <1>2, <1>3, <2>1 DEF ActionFits, Paid
<1>6. actions[k] = NoAction /\ actions' = [actions EXCEPT ![k] = r]
  BY <1>1 DEF Request
<1>7. \A t : /\ Reserves(r, t) = Reserves(actions[k], t) /\ Returns(r, t) = Returns(actions[k], t)
             /\ Applies(r, t) = Applies(actions[k], t) /\ Holds(r, t) = Holds(actions[k], t)
             /\ GivesBack(r, t) = GivesBack(actions[k], t) /\ GivesBack(r, t) = 0
  BY <1>2, <1>6 DEF Reserves, Returns, Applies, Holds, GivesBack, Pending, Paid, NoAction
<1>8. MovedTo(actions[k], r)
  BY <1>4, <1>5, <1>7, RowOf, NothingMoves DEF Request
<1>9. PaidFor(k) = {}
  BY <1>6, OpenIsUnpaid DEF NoAction
<1>10. payments' \in [Refs -> PaymentRow] /\ PaymentsFit(payments', actions')
  BY <1>4, <1>6, <1>9, PaymentsStay DEF Request
<1>11. \A n : GivesBack(r, n) >= GivesBack(actions[k], n)
  <2>1. \A n : GivesBack(r, n) = 0 /\ GivesBack(actions[k], n) = 0
    BY <1>7
  <2> QED BY <2>1
<1>12. /\ UNCHANGED <<remitted, counts, settlements, cases, anchors>>
       /\ r.status # "applied" /\ actions[k].status # "applied"
  BY <1>2, <1>6 DEF Request, NoAction
<1> QED BY <1>4, <1>5, <1>6, <1>8, <1>10, <1>11, <1>12, RowKeeps

\* The row of an action that only gets another status.
LEMMA StatusOf ==
    ASSUME SurplusInv, NEW k \in Actions,
           NEW status \in {"none", "requested", "cancelled", "applied"} \cup Pending \cup Paid,
           Status(k, status)
    PROVE  \E r \in ActionRow :
               /\ actions' = [actions EXCEPT ![k] = r]
               /\ r.kind = actions[k].kind /\ r.target = actions[k].target
               /\ r.remittance = actions[k].remittance /\ r.amount = actions[k].amount
               /\ r.status = status /\ r.payment = actions[k].payment
               /\ r.reversed = actions[k].reversed
<1>1. PICK q \in ActionRow : q = actions[k]
  BY RowOf
<1>2. PICK r : r = [q EXCEPT !.status = status]
  OBVIOUS
<1>3. /\ r \in ActionRow /\ r.kind = q.kind /\ r.target = q.target /\ r.remittance = q.remittance
      /\ r.amount = q.amount /\ r.status = status /\ r.payment = q.payment /\ r.reversed = q.reversed
  BY <1>2 DEF ActionRow
<1>4. actions' = [actions EXCEPT ![k] = r]
  BY <1>1, <1>2, RowOf DEF Status
<1> QED BY <1>1, <1>3, <1>4

\* A request becomes a reservation of its credit.
LEMMA ReserveKeeps ==
    ASSUME SurplusAssumption, SurplusInv, NEW k \in Actions,
           actions[k].kind \in {"return", "application"}, actions[k].status = "requested",
           ChangeCredit(actions[k].target, actions[k].amount, 0, 0), Status(k, "reserved"),
           UNCHANGED <<remitted, counts, exceptions, settlements, cases, payments, anchors>>
    PROVE  SurplusInv'
<1>1. PICK r \in ActionRow :
        /\ actions' = [actions EXCEPT ![k] = r]
        /\ r.kind = actions[k].kind /\ r.target = actions[k].target
        /\ r.remittance = actions[k].remittance /\ r.amount = actions[k].amount
        /\ r.status = "reserved" /\ r.payment = actions[k].payment
        /\ r.reversed = actions[k].reversed
  BY StatusOf DEF Pending
<1>2. PICK q \in ActionRow : q = actions[k] /\ ActionFits(q) /\ q.amount \in Nat
  BY RowOf
<1>3. q.target \in Credits /\ q.target # 0 /\ q.reversed = 0
  BY <1>2 DEF ActionFits, SurplusAssumption, Paid
<1>4. ActionFits(r)
  BY <1>1, <1>2, <1>3 DEF ActionFits, Paid
<1>5. PICK c \in Credits : c = q.target
  BY <1>3
<1>6. /\ q.amount = Reserves(r, c) - Reserves(q, c) /\ 0 = Returns(r, c) - Returns(q, c)
      /\ 0 = Applies(r, c) - Applies(q, c)
  BY <1>1, <1>2, <1>5 DEF Reserves, Returns, Applies, Pending, Paid
<1>7. MovedTo(q, r)
  <2>1. ChangeCredit(c, q.amount, 0, 0) /\ UNCHANGED exceptions
    BY <1>2, <1>5
  <2>2. SurplusTables /\ RoomIsLeft(credits, exceptions)
    BY RowOf
  <2>3. q.target = c /\ r.target = c /\ q.kind = r.kind /\ q.kind \in {"return", "application"}
    BY <1>1, <1>2, <1>5
  <2> QED BY <1>2, <1>6, <2>1, <2>2, <2>3, CreditChanges
<1>8. \A n : GivesBack(r, n) = 0 /\ GivesBack(q, n) = 0
  BY <1>1, <1>2 DEF GivesBack
<1>9. PaidFor(k) = {}
  BY OpenIsUnpaid
<1>10. payments' \in [Refs -> PaymentRow] /\ PaymentsFit(payments', actions')
  BY <1>1, <1>9, PaymentsStay
<1>11. \A n : GivesBack(r, n) >= GivesBack(actions[k], n)
  BY <1>2, <1>8
<1>12. r.status # "applied" /\ actions[k].status # "applied" /\ MovedTo(actions[k], r)
  BY <1>1, <1>2, <1>7
<1> QED BY <1>1, <1>4, <1>10, <1>11, <1>12, RowKeeps

LEMMA PrepareReturnKeeps ==
    ASSUME SurplusAssumption, SurplusInv, NEW k \in Actions, PrepareReturn(k)
    PROVE  SurplusInv'
  BY ReserveKeeps DEF PrepareReturn

LEMMA PrepareApplicationKeeps ==
    ASSUME SurplusAssumption, SurplusInv, NEW k \in Actions, PrepareApplication(k)
    PROVE  SurplusInv'
  BY ReserveKeeps DEF PrepareApplication

LEMMA PrepareExceptionReturnKeeps ==
    ASSUME SurplusAssumption, SurplusInv, NEW k \in Actions, NEW n \in Counts,
           NEW amount \in Entered, PrepareExceptionReturn(k, n, amount)
    PROVE  SurplusInv'
<1>1. PICK r : r = [NoAction EXCEPT !.kind = "exception_return", !.target = n, !.amount = amount,
                                   !.status = "reserved"]
  OBVIOUS
<1>2. /\ r.kind = "exception_return" /\ r.target = n /\ r.amount = amount
      /\ r.status = "reserved" /\ r.reversed = 0
      /\ r = [kind |-> "exception_return", target |-> n, remittance |-> 0, amount |-> amount,
              status |-> "reserved", payment |-> 0, ack |-> "none", reversed |-> 0]
  BY <1>1 DEF NoAction
<1>3. amount \in Nat
  BY DEF SurplusAssumption
<1>4. r \in ActionRow
  BY <1>2, <1>3 DEF ActionRow, Pending
<1>5. ActionFits(r)
  <2>1. n # 0
    BY DEF SurplusAssumption
  <2> QED BY <1>2, <1>3, <2>1 DEF ActionFits, Paid
<1>6. actions[k] = NoAction /\ actions' = [actions EXCEPT ![k] = r]
  BY <1>1 DEF PrepareExceptionReturn
<1>7. NoAction \in ActionRow
  BY <1>6, RowOf
<1>8. amount = Holds(r, n) - Holds(NoAction, n) /\ 0 = GivesBack(r, n) - GivesBack(NoAction, n)
  BY <1>2, <1>3 DEF Holds, GivesBack, Pending, NoAction
<1>9. MovedTo(actions[k], r)
  BY <1>2, <1>3, <1>4, <1>6, <1>7, <1>8, RowOf, ExceptionChanges DEF PrepareExceptionReturn
<1>10. \A o : GivesBack(r, o) = 0 /\ GivesBack(actions[k], o) = 0
  BY <1>2, <1>6 DEF GivesBack, NoAction
<1>11. PaidFor(k) = {}
  BY <1>6, OpenIsUnpaid DEF NoAction
<1>12. payments' \in [Refs -> PaymentRow] /\ PaymentsFit(payments', actions')
  BY <1>4, <1>6, <1>11, PaymentsStay DEF PrepareExceptionReturn
<1>13. /\ UNCHANGED <<remitted, counts, settlements, cases, anchors>>
       /\ r.status # "applied" /\ actions[k].status # "applied"
  BY <1>2, <1>6 DEF PrepareExceptionReturn, NoAction
<1>14. \A o : GivesBack(r, o) >= GivesBack(actions[k], o)
  BY <1>10
<1> QED BY <1>4, <1>5, <1>6, <1>9, <1>12, <1>13, <1>14, RowKeeps
\* What acts on a credit, or on disputed cash, moves it by what the action says.
LEMMA TargetMoves ==
    ASSUME SurplusInv, NEW k \in Actions, NEW x \in Int, NEW y \in Int, ChangeTarget(k, x, y),
           NEW q \in ActionRow, q = actions[k], q.kind # "none",
           NEW r \in ActionRow, r.kind = q.kind, r.target = q.target,
           q.kind = "exception_return" =>
               /\ x = Holds(r, q.target) - Holds(q, q.target)
               /\ y = GivesBack(r, q.target) - GivesBack(q, q.target),
           q.kind # "exception_return" =>
               /\ x = Reserves(r, q.target) - Reserves(q, q.target)
               /\ y = Returns(r, q.target) - Returns(q, q.target)
               /\ 0 = Applies(r, q.target) - Applies(q, q.target)
    PROVE  MovedTo(q, r)
<1>1. SurplusTables /\ RoomIsLeft(credits, exceptions) /\ ActionFits(q)
  BY RowOf
<1>2. CASE q.kind = "exception_return"
  <2>1. PICK n \in Counts : n = q.target
    BY <1>1, <1>2 DEF ActionFits
  <2>2. ChangeException(n, x, y) /\ UNCHANGED credits
    BY <1>2, <2>1 DEF ChangeTarget
  <2>3. x = Holds(r, n) - Holds(q, n) /\ y = GivesBack(r, n) - GivesBack(q, n)
    BY <1>2, <2>1
  <2> QED BY <1>1, <1>2, <2>1, <2>2, <2>3, ExceptionChanges
<1>3. CASE q.kind # "exception_return"
  <2>1. q.kind \in {"return", "application"}
    BY <1>3 DEF ActionRow
  <2>2. PICK c \in Credits : c = q.target
    BY <1>1, <2>1 DEF ActionFits
  <2>3. ChangeCredit(c, x, y, 0) /\ UNCHANGED exceptions
    BY <1>3, <2>2 DEF ChangeTarget
  <2>4. /\ x = Reserves(r, c) - Reserves(q, c) /\ y = Returns(r, c) - Returns(q, c)
        /\ 0 = Applies(r, c) - Applies(q, c)
    BY <1>3, <2>2
  <2> QED BY <1>1, <2>1, <2>2, <2>3, <2>4, CreditChanges
<1> QED BY <1>2, <1>3

LEMMA CancelKeeps ==
    ASSUME SurplusAssumption, SurplusInv, NEW k \in Actions, Cancel(k)
    PROVE  SurplusInv'
<1>1. PICK r \in ActionRow :
        /\ actions' = [actions EXCEPT ![k] = r]
        /\ r.kind = actions[k].kind /\ r.target = actions[k].target
        /\ r.remittance = actions[k].remittance /\ r.amount = actions[k].amount
        /\ r.status = "cancelled" /\ r.payment = actions[k].payment
        /\ r.reversed = actions[k].reversed
  BY StatusOf DEF Cancel
<1>2. PICK q \in ActionRow : q = actions[k] /\ ActionFits(q) /\ q.amount \in Nat
  BY RowOf
<1>3. q.status = "reserved" /\ PaidFor(k) = {}
  BY <1>2 DEF Cancel, Cancellable
<1>4. q.kind # "none" /\ q.target # 0 /\ q.reversed = 0
  <2>1. q.kind # "none"
    BY <1>2, <1>3 DEF ActionFits, NoAction
  <2> QED BY <1>2, <1>3, <2>1 DEF ActionFits, Paid
<1>5. ActionFits(r)
  BY <1>1, <1>2, <1>4 DEF ActionFits, Paid
<1>6. /\ q.kind = "exception_return" =>
            -q.amount = Holds(r, q.target) - Holds(q, q.target)
      /\ q.kind # "exception_return" =>
            -q.amount = Reserves(r, q.target) - Reserves(q, q.target)
  BY <1>1, <1>2, <1>3, <1>4 DEF Holds, Reserves, Pending, ActionRow
<1>7. \A t : /\ GivesBack(r, t) = 0 /\ GivesBack(q, t) = 0 /\ Returns(r, t) = 0 /\ Returns(q, t) = 0
             /\ Applies(r, t) = 0 /\ Applies(q, t) = 0
  BY <1>1, <1>2, <1>3 DEF GivesBack, Returns, Applies, Paid
<1>8. MovedTo(q, r)
  <2>1. ChangeTarget(k, -q.amount, 0)
    BY <1>2 DEF Cancel
  <2>2. /\ 0 = GivesBack(r, q.target) - GivesBack(q, q.target)
        /\ 0 = Returns(r, q.target) - Returns(q, q.target)
        /\ 0 = Applies(r, q.target) - Applies(q, q.target)
    BY <1>7
  <2>3. -q.amount \in Int /\ r.kind = q.kind /\ r.target = q.target
    BY <1>1, <1>2
  <2> QED BY <1>2, <1>4, <1>6, <2>1, <2>2, <2>3, TargetMoves
<1>9. payments' \in [Refs -> PaymentRow] /\ PaymentsFit(payments', actions')
  BY <1>1, <1>3, PaymentsStay DEF Cancel
<1>10. /\ UNCHANGED <<remitted, counts, settlements, cases, anchors>>
       /\ r.status # "applied" /\ actions[k].status # "applied" /\ MovedTo(actions[k], r)
  BY <1>1, <1>2, <1>3, <1>8 DEF Cancel
<1>11. \A n : GivesBack(r, n) >= GivesBack(actions[k], n)
  BY <1>2, <1>7
<1> QED BY <1>1, <1>5, <1>9, <1>10, <1>11, RowKeeps

LEMMA SettleKeeps ==
    ASSUME SurplusAssumption, SurplusInv, NEW k \in Actions, Settle(k)
    PROVE  SurplusInv'
<1>1. PICK r \in ActionRow :
        /\ actions' = [actions EXCEPT ![k] = r]
        /\ r.kind = actions[k].kind /\ r.target = actions[k].target
        /\ r.remittance = actions[k].remittance /\ r.amount = actions[k].amount
        /\ r.status = "paid" /\ r.payment = actions[k].payment
        /\ r.reversed = actions[k].reversed
  BY StatusOf DEF Settle, Paid
<1>2. PICK q \in ActionRow : q = actions[k] /\ ActionFits(q) /\ q.amount \in Nat
  BY RowOf
<1>3. q.status = "debited"
  BY <1>2 DEF Settle
<1>4. q.kind \in {"return", "exception_return"} /\ q.target # 0 /\ q.reversed = 0
  <2>1. q.kind # "none" /\ q.kind # "application"
    BY <1>2, <1>3 DEF ActionFits, NoAction
  <2> QED BY <1>2, <1>3, <2>1 DEF ActionFits, Paid, ActionRow
<1>5. ActionFits(r)
  BY <1>1, <1>2, <1>4 DEF ActionFits, Paid
<1>6. /\ q.kind = "exception_return" =>
            /\ -q.amount = Holds(r, q.target) - Holds(q, q.target)
            /\ q.amount = GivesBack(r, q.target) - GivesBack(q, q.target)
      /\ q.kind # "exception_return" =>
            /\ -q.amount = Reserves(r, q.target) - Reserves(q, q.target)
            /\ q.amount = Returns(r, q.target) - Returns(q, q.target)
            /\ 0 = Applies(r, q.target) - Applies(q, q.target)
  BY <1>1, <1>2, <1>3, <1>4 DEF Holds, GivesBack, Reserves, Returns, Applies, Pending, Paid
<1>7. MovedTo(q, r)
  <2>1. ChangeTarget(k, -q.amount, q.amount)
    BY <1>2 DEF Settle
  <2>2. -q.amount \in Int /\ q.amount \in Int /\ r.kind = q.kind /\ r.target = q.target /\ q.kind # "none"
    BY <1>1, <1>2, <1>4
  <2> QED BY <1>2, <1>6, <2>1, <2>2, TargetMoves
<1>8. payments' \in [Refs -> PaymentRow] /\ PaymentsFit(payments', actions')
  BY <1>1, PaymentsStay DEF Settle, Paid
<1>9. /\ UNCHANGED <<remitted, counts, settlements, cases, anchors>>
      /\ r.status # "applied" /\ actions[k].status # "applied" /\ MovedTo(actions[k], r)
  BY <1>1, <1>2, <1>3, <1>7 DEF Settle
<1>10. \A n : GivesBack(r, n) >= GivesBack(actions[k], n)
  <2>1. \A n : GivesBack(q, n) = 0 /\ GivesBack(r, n) \in Nat
    BY <1>3, <1>5, AddsNat DEF GivesBack
  <2> QED BY <1>2, <2>1
<1> QED BY <1>1, <1>5, <1>8, <1>9, <1>10, RowKeeps

LEMMA AcknowledgeKeeps ==
    ASSUME SurplusAssumption, SurplusInv, NEW k \in Actions,
           NEW answer \in {"received", "not_received"}, Acknowledge(k, answer)
    PROVE  SurplusInv'
<1>1. PICK q \in ActionRow : q = actions[k] /\ ActionFits(q) /\ q.amount \in Nat
  BY RowOf
<1>2. PICK r : r = [q EXCEPT !.ack = answer]
  OBVIOUS
<1>3. /\ r \in ActionRow /\ r.kind = q.kind /\ r.target = q.target /\ r.remittance = q.remittance
      /\ r.amount = q.amount /\ r.status = q.status /\ r.payment = q.payment /\ r.reversed = q.reversed
  BY <1>2 DEF ActionRow
<1>4. actions' = [actions EXCEPT ![k] = r] /\ q.status = "debited"
  BY <1>1, <1>2, RowOf DEF Acknowledge
<1>5. ActionFits(r)
  <2>1. q.kind # "none"
    BY <1>1, <1>4 DEF ActionFits, NoAction
  <2> QED BY <1>1, <1>3, <2>1 DEF ActionFits
<1>6. \A t : /\ Reserves(r, t) = Reserves(q, t) /\ Returns(r, t) = Returns(q, t)
             /\ Applies(r, t) = Applies(q, t) /\ Holds(r, t) = Holds(q, t)
             /\ GivesBack(r, t) = GivesBack(q, t)
  BY <1>3 DEF Reserves, Returns, Applies, Holds, GivesBack
<1>7. MovedTo(q, r)
  BY <1>1, <1>3, <1>5, <1>6, RowOf, NothingMoves DEF Acknowledge
<1>8. payments' \in [Refs -> PaymentRow] /\ PaymentsFit(payments', actions')
  BY <1>1, <1>3, <1>4, PaymentsStay DEF Acknowledge
<1>9. /\ UNCHANGED <<remitted, counts, settlements, cases, anchors>>
      /\ r.status # "applied" /\ actions[k].status # "applied" /\ MovedTo(actions[k], r)
  BY <1>1, <1>3, <1>4, <1>7 DEF Acknowledge
<1>10. \A n : GivesBack(r, n) >= GivesBack(actions[k], n)
  <2>1. \A n : GivesBack(q, n) \in Nat
    BY <1>1, AddsNat
  <2> QED BY <1>1, <1>6, <2>1
<1> QED BY <1>3, <1>4, <1>5, <1>8, <1>9, <1>10, RowKeeps

LEMMA ReverseReturnKeeps ==
    ASSUME SurplusAssumption, SurplusInv, NEW k \in Actions, NEW amount \in Entered,
           ReverseReturn(k, amount)
    PROVE  SurplusInv'
<1>1. PICK q \in ActionRow : q = actions[k] /\ ActionFits(q) /\ q.amount \in Nat /\ q.reversed \in Nat
  <2>1. PICK q \in ActionRow : q = actions[k] /\ ActionFits(q)
    BY RowOf
  <2> QED BY <2>1 DEF ActionRow
<1>2. amount \in Nat
  BY DEF SurplusAssumption
<1>3. PICK status \in {"reversed", "partly_reversed"} :
        status = IF amount = LeftToReverse(k) THEN "reversed" ELSE "partly_reversed"
  OBVIOUS
<1>4. PICK r : r = [q EXCEPT !.reversed = q.reversed + amount, !.status = status]
  OBVIOUS
<1>5. /\ r \in ActionRow /\ r.kind = q.kind /\ r.target = q.target /\ r.remittance = q.remittance
      /\ r.amount = q.amount /\ r.status = status /\ r.payment = q.payment
      /\ r.reversed = q.reversed + amount
  <2>1. PICK v \in Nat : v = q.reversed + amount
    BY <1>1, <1>2
  <2>2. r = [q EXCEPT !.reversed = v, !.status = status]
    BY <1>4, <2>1
  <2>3. status \in Paid
    BY DEF Paid
  <2>4. /\ r \in ActionRow /\ r.kind = q.kind /\ r.target = q.target /\ r.remittance = q.remittance
        /\ r.amount = q.amount /\ r.status = status /\ r.payment = q.payment /\ r.reversed = v
    BY <2>2, <2>3 DEF ActionRow
  <2> QED BY <2>1, <2>4
<1>6. actions' = [actions EXCEPT ![k] = r]
  BY <1>1, <1>3, <1>4, RowOf DEF ReverseReturn
<1>7. /\ q.kind = "return" /\ q.status \in {"paid", "partly_reversed"}
      /\ amount <= q.amount - q.reversed
  BY <1>1 DEF ReverseReturn, LeftToReverse
<1>8. q.target \in Credits
  BY <1>1, <1>7 DEF ActionFits
<1>9. ActionFits(r)
  BY <1>1, <1>2, <1>3, <1>5, <1>7 DEF ActionFits, Paid
<1>10. PICK c \in Credits : c = q.target
  BY <1>8
<1>11. /\ 0 = Reserves(r, c) - Reserves(q, c) /\ 0 = Applies(r, c) - Applies(q, c)
       /\ -amount = Returns(r, c) - Returns(q, c)
  BY <1>1, <1>2, <1>3, <1>5, <1>7, <1>10 DEF Reserves, Returns, Applies, Pending, Paid
<1>12. MovedTo(q, r)
  <2>1. ChangeCredit(c, 0, -amount, 0) /\ UNCHANGED exceptions
    BY <1>1, <1>10 DEF ReverseReturn
  <2>2. SurplusTables /\ RoomIsLeft(credits, exceptions) /\ -amount \in Int
    BY <1>2, RowOf
  <2>3. q.target = c /\ r.target = c /\ q.kind = r.kind /\ q.kind \in {"return", "application"}
    BY <1>5, <1>7, <1>10
  <2> QED BY <1>5, <1>11, <2>1, <2>2, <2>3, CreditChanges
<1>13. payments' \in [Refs -> PaymentRow] /\ PaymentsFit(payments', actions')
  <2>1. /\ r.status \notin {"none", "requested", "cancelled"}
        /\ r.payment = actions[k].payment /\ r.amount = actions[k].amount
        /\ r.status \in {"debited"} \cup Paid
    BY <1>1, <1>3, <1>5 DEF Paid
  <2>2. UNCHANGED payments
    BY DEF ReverseReturn
  <2> QED BY <1>5, <1>6, <2>1, <2>2, PaymentsStay
<1>14. /\ UNCHANGED <<remitted, counts, settlements, cases, anchors>>
       /\ r.status # "applied" /\ actions[k].status # "applied" /\ MovedTo(actions[k], r)
  BY <1>1, <1>3, <1>5, <1>7, <1>12 DEF ReverseReturn
<1>15. \A n : GivesBack(r, n) >= GivesBack(actions[k], n)
  <2>1. \A n : GivesBack(r, n) = 0 /\ GivesBack(q, n) = 0
    BY <1>5, <1>7 DEF GivesBack
  <2> QED BY <1>1, <2>1
<1> QED BY <1>5, <1>6, <1>9, <1>13, <1>14, <1>15, RowKeeps
-----------------------------------------------------------------------------
(* Payments.                                                               *)

LEMMA OnlyPayments ==
    ASSUME SurplusInv,
           UNCHANGED <<remitted, counts, exceptions, settlements, cases, credits, actions, anchors>>,
           payments' \in [Refs -> PaymentRow], PaymentsFit(payments', actions)
    PROVE  SurplusInv'
<1>1. SurplusTables'
  BY DEF SurplusInv, SurplusTables
<1>2. /\ \A k \in Actions : ActionFits(actions'[k])
      /\ Capacity(actions', credits', exceptions') /\ RoomIsLeft(credits', exceptions')
  BY DEF SurplusInv
<1>3. \A m \in Remittances : Covered(m)'
  BY DEF SurplusInv, Covered
<1>4. ClosedWithoutDispute'
  BY DEF SurplusInv, ClosedWithoutDispute, Disputed, Held
<1>5. AnchorsFit'
  BY DEF SurplusInv, AnchorsFit
<1>6. PaymentsFit(payments', actions')
  OBVIOUS
<1> QED BY <1>1, <1>2, <1>3, <1>4, <1>5, <1>6 DEF SurplusInv

LEMMA CorrectKeeps ==
    ASSUME SurplusAssumption, SurplusInv, NEW e \in Refs, Correct(e)
    PROVE  SurplusInv'
<1>1. payments \in [Refs -> PaymentRow] /\ PaymentsFit(payments, actions)
  BY DEF SurplusInv, SurplusTables
<1>2. PICK p \in PaymentRow : p = payments[e]
  BY <1>1
<1>3. PICK new : new = [p EXCEPT !.revised = TRUE]
  OBVIOUS
<1>4. /\ new \in PaymentRow /\ new.action = p.action /\ new.amount = p.amount /\ new.linked = p.linked
  BY <1>3 DEF PaymentRow
<1>5. payments' = [payments EXCEPT ![e] = new] /\ p # NoPayment
  BY <1>1, <1>2, <1>3 DEF Correct
<1>6. payments' \in [Refs -> PaymentRow] /\ payments'[e] = new
  BY <1>1, <1>4, <1>5
<1>7. \A d \in Refs \ {e} : payments'[d] = payments[d]
  BY <1>1, <1>5
<1>8. \A d \in Refs : /\ payments'[d].action = payments[d].action
                       /\ payments'[d].amount = payments[d].amount
                       /\ payments'[d].linked = payments[d].linked
  BY <1>2, <1>4, <1>6, <1>7
<1>9. PaymentsFit(payments', actions)
  <2>1. \A d \in Refs : payments'[d].action = 0 => payments'[d] = NoPayment
    <3>1. p.action # 0
      BY <1>1, <1>2, <1>5 DEF PaymentsFit
    <3> QED BY <1>1, <1>2, <1>4, <1>6, <1>7, <3>1 DEF PaymentsFit
  <2> QED BY <1>1, <1>8, <2>1 DEF PaymentsFit
<1> QED BY <1>6, <1>9, OnlyPayments DEF Correct

\* A payment is recorded for an action that has no other.
LEMMA PaymentsAdd ==
    ASSUME SurplusAssumption, SurplusInv, NEW k \in Actions, NEW e \in Refs, NEW amount \in Entered,
           Payable(k, e, amount), NEW new \in PaymentRow, new.action = k, new.amount = amount,
           payments' = [payments EXCEPT ![e] = new],
           NEW r \in ActionRow, actions' = [actions EXCEPT ![k] = r],
           r.status \in {"reserved", "debited"},
           new.linked => r.status = "debited" /\ r.payment = e /\ r.amount = amount
    PROVE  payments' \in [Refs -> PaymentRow] /\ PaymentsFit(payments', actions')
<1>1. /\ payments \in [Refs -> PaymentRow] /\ PaymentsFit(payments, actions)
      /\ actions \in [Actions -> ActionRow]
  BY DEF SurplusInv, SurplusTables
<1>2. /\ payments' \in [Refs -> PaymentRow] /\ payments'[e] = new
      /\ \A d \in Refs \ {e} : payments'[d] = payments[d]
  BY <1>1
<1>3. actions'[k] = r /\ \A j \in Actions \ {k} : actions'[j] = actions[j]
  BY <1>1
<1>4. k # 0
  BY DEF SurplusAssumption
<1>5. \A d \in Refs \ {e} : payments[d].action # k
  BY DEF Payable, PaidFor
<1>6. \A d \in Refs : payments'[d].action = 0 => payments'[d] = NoPayment
  BY <1>1, <1>2, <1>4 DEF PaymentsFit
<1>7. ASSUME NEW d \in Refs, NEW o \in Refs, payments'[d].action = payments'[o].action,
             payments'[o].action # 0
      PROVE  d = o
  <2>1. CASE d = e \/ o = e
    BY <1>2, <1>5, <1>7, <2>1
  <2>2. CASE d # e /\ o # e
    BY <1>1, <1>2, <1>7, <2>2 DEF PaymentsFit
  <2> QED BY <2>1, <2>2
<1>8. ASSUME NEW d \in Refs, payments'[d].action # 0
      PROVE  LET s == actions'[payments'[d].action] IN
             /\ s.status \notin {"none", "requested", "cancelled"}
             /\ payments'[d].linked => /\ s.payment = d /\ payments'[d].amount = s.amount
                                       /\ s.status \in {"debited"} \cup Paid
  <2>1. CASE d = e
    BY <1>2, <1>3, <2>1
  <2>2. CASE d # e
    <3>1. PICK j \in Actions : j = payments[d].action /\ j # k
      BY <1>1, <1>2, <1>5, <1>8, <2>2 DEF PaymentRow
    <3>2. payments'[d] = payments[d] /\ actions'[j] = actions[j]
      BY <1>2, <1>3, <2>2, <3>1
    <3> QED BY <1>1, <1>8, <3>1, <3>2 DEF PaymentsFit
  <2> QED BY <2>1, <2>2
<1> QED BY <1>2, <1>6, <1>7, <1>8 DEF PaymentsFit

LEMMA PayKeeps ==
    ASSUME SurplusAssumption, SurplusInv, NEW k \in Actions, NEW e \in Refs, NEW amount \in Entered,
           Pay(k, e, amount)
    PROVE  SurplusInv'
<1>1. PICK q \in ActionRow : q = actions[k] /\ ActionFits(q) /\ q.amount \in Nat
  BY RowOf
<1>2. PICK linked \in BOOLEAN : linked = Links(k, amount)
  BY DEF Links
<1>3. PICK new : new = [NoPayment EXCEPT !.action = k, !.amount = amount, !.linked = linked]
  OBVIOUS
<1>4. amount \in Nat
  BY DEF SurplusAssumption
<1>5. new = [action |-> k, amount |-> amount, linked |-> linked, revised |-> FALSE]
  BY <1>3 DEF NoPayment
<1>6. new \in PaymentRow /\ new.action = k /\ new.amount = amount /\ new.linked = linked
  BY <1>4, <1>5 DEF PaymentRow
<1>7. payments' = [payments EXCEPT ![e] = new] /\ Payable(k, e, amount)
  BY <1>2, <1>3 DEF Pay
<1>8. q.status = "reserved" /\ q.kind # "application" /\ q.kind # "none"
  <2>1. q.status = "reserved" /\ q.kind # "application"
    BY <1>1, <1>7 DEF Payable
  <2> QED BY <1>1, <2>1 DEF ActionFits, NoAction
<1>9. CASE ~linked
  <2>1. UNCHANGED <<remitted, counts, exceptions, settlements, cases, credits, actions, anchors>>
    BY <1>2, <1>9 DEF Pay
  <2>2. actions' = [actions EXCEPT ![k] = q]
    BY <1>1, <2>1, RowOf
  <2>3. payments' \in [Refs -> PaymentRow] /\ PaymentsFit(payments', actions')
    BY <1>6, <1>7, <1>8, <1>9, <2>2, PaymentsAdd
  <2> QED BY <2>1, <2>3, OnlyPayments
<1>10. CASE linked
  <2>1. PICK r : r = [q EXCEPT !.status = "debited", !.payment = e]
    OBVIOUS
  <2>2. /\ r \in ActionRow /\ r.kind = q.kind /\ r.target = q.target /\ r.remittance = q.remittance
        /\ r.amount = q.amount /\ r.status = "debited" /\ r.payment = e /\ r.reversed = q.reversed
    BY <2>1 DEF ActionRow, Pending
  <2>3. actions' = [actions EXCEPT ![k] = r]
    BY <1>1, <1>2, <1>10, <2>1, RowOf DEF Pay
  <2>4. amount = q.amount
    BY <1>1, <1>2, <1>10 DEF Links
  <2>5. ActionFits(r)
    BY <1>1, <1>8, <2>2 DEF ActionFits, Paid
  <2>6. \A t : /\ Reserves(r, t) = Reserves(q, t) /\ Returns(r, t) = Returns(q, t)
               /\ Applies(r, t) = Applies(q, t) /\ Holds(r, t) = Holds(q, t)
               /\ GivesBack(r, t) = GivesBack(q, t) /\ GivesBack(q, t) = 0
    BY <1>8, <2>2 DEF Reserves, Returns, Applies, Holds, GivesBack, Pending, Paid
  <2>7. MovedTo(q, r)
    <3>1. UNCHANGED <<credits, exceptions>>
      BY DEF Pay
    <3> QED BY <1>1, <2>2, <2>5, <2>6, <3>1, RowOf, NothingMoves
  <2>8. payments' \in [Refs -> PaymentRow] /\ PaymentsFit(payments', actions')
    <3>1. /\ r.status \in {"reserved", "debited"}
          /\ new.linked => r.status = "debited" /\ r.payment = e /\ r.amount = amount
      BY <2>2, <2>4
    <3> QED BY <1>6, <1>7, <2>2, <2>3, <3>1, PaymentsAdd
  <2>9. /\ UNCHANGED <<remitted, counts, settlements, cases, anchors>>
        /\ r.status # "applied" /\ actions[k].status # "applied" /\ MovedTo(actions[k], r)
    BY <1>1, <1>8, <2>2, <2>7 DEF Pay
  <2>10. \A n : GivesBack(r, n) >= GivesBack(actions[k], n)
    BY <1>1, <2>6
  <2> QED BY <2>2, <2>3, <2>5, <2>8, <2>9, <2>10, RowKeeps
<1> QED BY <1>9, <1>10
-----------------------------------------------------------------------------
(* Counts and their acceptance.                                            *)

LEMMA CountKeeps ==
    ASSUME SurplusAssumption, SurplusInv, NEW n \in Counts, NEW m \in Remittances,
           NEW amount \in Entered \cup {0}, NEW k \in Actions \cup {0}, NEW early \in BOOLEAN,
           Count(n, m, amount, k, early)
    PROVE  SurplusInv'
<1>1. PICK row : row = [remittance |-> m, counted |-> amount, application |-> k, early |-> early]
  OBVIOUS
<1>2. row \in CountRow
  <2>1. amount \in Nat
    BY DEF SurplusAssumption
  <2> QED BY <1>1, <2>1 DEF CountRow
<1>3. counts \in [Counts -> CountRow] /\ SurplusTables
  BY DEF SurplusInv, SurplusTables
<1>4. /\ counts' \in [Counts -> CountRow] /\ counts'[n] = row
      /\ \A o \in Counts \ {n} : counts'[o] = counts[o]
  BY <1>1, <1>2, <1>3 DEF Count
<1>5. UNCHANGED <<remitted, exceptions, settlements, cases, credits, actions, payments, anchors>>
  BY DEF Count
<1>6. SurplusTables'
  <2>1. row.remittance # 0
    BY <1>1 DEF SurplusAssumption
  <2>2. \A o \in Counts : counts'[o] = NoCount \/ counts'[o].remittance # 0
    BY <1>3, <1>4, <2>1 DEF SurplusTables
  <2> QED BY <1>3, <1>4, <1>5, <2>2 DEF SurplusTables
<1>7. \A o \in Remittances : Covered(o)'
  <2> SUFFICES ASSUME NEW o \in Remittances PROVE Covered(o)'
    OBVIOUS
  <2>1. Covered(o) /\ counts[n] = NoCount
    BY DEF SurplusInv, Count
  <2>2. CASE settlements[o] = 0
    BY <1>5, <2>1, <2>2 DEF Covered
  <2>3. CASE settlements[o] # 0
    <3>1. settlements[o] \in Counts \ {n}
      BY <1>3, <2>1, <2>3 DEF SurplusTables, Covered
    <3>2. counts'[settlements[o]] = counts[settlements[o]]
      BY <1>4, <3>1
    <3> QED BY <1>5, <2>1, <2>3, <3>2 DEF Covered
  <2> QED BY <2>2, <2>3
<1>8. ClosedWithoutDispute'
  <2>1. remitted[m] = "submitted"
    BY DEF Count, CanCount
  <2>2. ClosedWithoutDispute
    BY DEF SurplusInv
  <2>3. \A o \in Counts : Held(o)' = Held(o)
    BY <1>5 DEF Held
  <2>4. ASSUME NEW o \in Remittances, remitted[o] # "submitted", Disputed(o)' PROVE Disputed(o)
    <3>1. PICK i \in Counts : counts'[i].remittance = o /\ Held(i)' > 0
      BY <2>4 DEF Disputed
    <3>2. i # n
      BY <1>1, <1>4, <2>1, <2>4, <3>1
    <3> QED BY <1>4, <2>3, <3>1, <3>2 DEF Disputed
  <2> QED BY <1>5, <2>2, <2>4 DEF ClosedWithoutDispute
<1>9. /\ \A j \in Actions : ActionFits(actions'[j])
      /\ Capacity(actions', credits', exceptions') /\ RoomIsLeft(credits', exceptions')
      /\ PaymentsFit(payments', actions')
  BY <1>5 DEF SurplusInv
<1>10. AnchorsFit'
  BY <1>5 DEF SurplusInv, AnchorsFit
<1> QED BY <1>6, <1>7, <1>8, <1>9, <1>10 DEF SurplusInv

LEMMA RetainKeeps ==
    ASSUME SurplusAssumption, SurplusInv, NEW n \in Counts, NEW amount \in Entered,
           Retain(n, amount)
    PROVE  SurplusInv'
<1>1. exceptions \in [Counts -> ExceptionRow] /\ SurplusTables
  BY DEF SurplusInv, SurplusTables
<1>2. PICK row : row = [NoException EXCEPT !.retained = amount]
  OBVIOUS
<1>3. amount \in Nat /\ amount > 0
  BY DEF SurplusAssumption
<1>4. /\ row = [retained |-> amount, returned |-> 0, reserved |-> 0] /\ row \in ExceptionRow
  BY <1>2, <1>3 DEF NoException, ExceptionRow
<1>5. exceptions' = [exceptions EXCEPT ![n] = row] /\ exceptions[n] = NoException
  BY <1>1, <1>2 DEF Retain
<1>6. /\ exceptions' \in [Counts -> ExceptionRow] /\ exceptions'[n] = row
      /\ \A o \in Counts \ {n} : exceptions'[o] = exceptions[o]
  BY <1>1, <1>4, <1>5
<1>7. UNCHANGED <<remitted, counts, settlements, cases, credits, actions, payments, anchors>>
  BY DEF Retain
<1>8. SurplusTables'
  BY <1>1, <1>6, <1>7 DEF SurplusTables
<1>9. \A o \in Counts : /\ exceptions'[o].reserved = exceptions[o].reserved
                        /\ exceptions'[o].returned = exceptions[o].returned
  BY <1>4, <1>5, <1>6 DEF NoException
<1>10. Capacity(actions', credits', exceptions')
  BY <1>7, <1>9 DEF SurplusInv, Capacity
<1>11. RoomIsLeft(credits', exceptions')
  <2>1. exceptions'[n].retained - exceptions'[n].returned >= exceptions'[n].reserved
    BY <1>3, <1>4, <1>6
  <2>2. RoomIsLeft(credits, exceptions)
    BY DEF SurplusInv
  <2> QED BY <1>6, <1>7, <2>1, <2>2 DEF RoomIsLeft
<1>12. ClosedWithoutDispute'
  <2>1. remitted[counts[n].remittance] = "submitted"
    BY DEF Retain, Current, CanCount
  <2>2. ClosedWithoutDispute
    BY DEF SurplusInv
  <2>3. \A o \in Counts \ {n} : Held(o)' = Held(o)
    BY <1>6 DEF Held
  <2>4. ASSUME NEW o \in Remittances, remitted[o] # "submitted", Disputed(o)' PROVE Disputed(o)
    <3>1. PICK i \in Counts : counts[i].remittance = o /\ Held(i)' > 0
      BY <1>7, <2>4 DEF Disputed
    <3>2. i # n
      BY <2>1, <2>4, <3>1
    <3> QED BY <2>3, <3>1, <3>2 DEF Disputed
  <2> QED BY <1>7, <2>2, <2>4 DEF ClosedWithoutDispute
<1>13. \A m \in Remittances : Covered(m)'
  BY <1>7 DEF SurplusInv, Covered
<1>14. /\ \A j \in Actions : ActionFits(actions'[j])
       /\ PaymentsFit(payments', actions') /\ AnchorsFit'
  BY <1>7 DEF SurplusInv, AnchorsFit
<1> QED BY <1>8, <1>10, <1>11, <1>12, <1>13, <1>14 DEF SurplusInv

LEMMA RejectRemittanceKeeps ==
    ASSUME SurplusAssumption, SurplusInv, NEW m \in Remittances, RejectRemittance(m)
    PROVE  SurplusInv'
<1>1. SurplusTables /\ remitted \in [Remittances -> {"submitted", "received", "rejected"}]
  BY DEF SurplusInv, SurplusTables
<1>2. /\ remitted' \in [Remittances -> {"submitted", "received", "rejected"}]
      /\ remitted'[m] = "rejected" /\ \A o \in Remittances \ {m} : remitted'[o] = remitted[o]
  BY <1>1 DEF RejectRemittance
<1>3. UNCHANGED <<counts, exceptions, settlements, cases, credits, actions, payments, anchors>>
  BY DEF RejectRemittance
<1>4. SurplusTables'
  BY <1>1, <1>2, <1>3 DEF SurplusTables
<1>5. \A o \in Remittances : Covered(o)'
  <2> SUFFICES ASSUME NEW o \in Remittances PROVE Covered(o)'
    OBVIOUS
  <2>1. Covered(o) /\ remitted[m] = "submitted"
    BY DEF SurplusInv, RejectRemittance
  <2>2. settlements[o] # 0 => remitted'[o] = "received"
    BY <1>2, <2>1 DEF Covered
  <2> QED BY <1>3, <2>1, <2>2 DEF Covered
<1>6. ClosedWithoutDispute'
  <2>1. ~Disputed(m) /\ ClosedWithoutDispute
    BY DEF SurplusInv, RejectRemittance
  <2>2. \A o : Disputed(o)' = Disputed(o)
    BY <1>3 DEF Disputed, Held
  <2> QED BY <1>2, <2>1, <2>2 DEF ClosedWithoutDispute
<1>7. /\ \A j \in Actions : ActionFits(actions'[j])
      /\ Capacity(actions', credits', exceptions') /\ RoomIsLeft(credits', exceptions')
      /\ PaymentsFit(payments', actions') /\ AnchorsFit'
  BY <1>3 DEF SurplusInv, AnchorsFit
<1> QED BY <1>4, <1>5, <1>6, <1>7 DEF SurplusInv

LEMMA FreezeKeeps ==
    ASSUME SurplusAssumption, SurplusInv, NEW c \in Credits, Freeze(c)
    PROVE  SurplusInv'
<1>1. SurplusTables /\ credits \in [Credits -> CreditRow]
  BY DEF SurplusInv, SurplusTables
<1>2. PICK old \in CreditRow : old = credits[c]
  BY <1>1
<1>3. PICK new : new = [old EXCEPT !.frozen = TRUE]
  OBVIOUS
<1>4. /\ new \in CreditRow /\ new.case = old.case /\ new.recognized = old.recognized
      /\ new.reserved = old.reserved /\ new.returned = old.returned /\ new.applied = old.applied
  BY <1>3 DEF CreditRow
<1>5. credits' = [credits EXCEPT ![c] = new]
  BY <1>1, <1>2, <1>3 DEF Freeze
<1>6. /\ credits' \in [Credits -> CreditRow]
      /\ \A d \in Credits :
           /\ credits'[d].case = credits[d].case /\ credits'[d].recognized = credits[d].recognized
           /\ credits'[d].reserved = credits[d].reserved /\ credits'[d].returned = credits[d].returned
           /\ credits'[d].applied = credits[d].applied
  BY <1>1, <1>2, <1>4, <1>5
<1>7. UNCHANGED <<remitted, counts, exceptions, settlements, cases, actions, payments, anchors>>
  BY DEF Freeze
<1>8. SurplusTables'
  BY <1>1, <1>6, <1>7 DEF SurplusTables
<1>9. \A s : AllRecognized(credits', s) = AllRecognized(credits, s)
  BY <1>6, SameRecognized
<1>10. \A m \in Remittances : Covered(m)'
  BY <1>7, <1>9 DEF SurplusInv, Covered
<1>11. ClosedWithoutDispute'
  BY <1>7 DEF SurplusInv, ClosedWithoutDispute, Disputed, Held
<1>12. Capacity(actions', credits', exceptions') /\ RoomIsLeft(credits', exceptions')
  BY <1>6, <1>7 DEF SurplusInv, Capacity, RoomIsLeft
<1>13. /\ \A j \in Actions : ActionFits(actions'[j])
       /\ PaymentsFit(payments', actions') /\ AnchorsFit'
  BY <1>7, <1>9 DEF SurplusInv, AnchorsFit
<1> QED BY <1>8, <1>10, <1>11, <1>12, <1>13 DEF SurplusInv

LEMMA AcceptKeeps ==
    ASSUME SurplusAssumption, SurplusInv, NEW n \in Counts, Accept(n)
    PROVE  SurplusInv'
<1>1. /\ SurplusTables /\ counts \in [Counts -> CountRow] /\ actions \in [Actions -> ActionRow]
      /\ \A j \in Actions : ActionFits(actions[j])
  BY DEF SurplusInv, SurplusTables
<1>2. PICK m, k : m = counts[n].remittance /\ k = counts[n].application
  OBVIOUS
<1>3. m \in Remittances /\ k \in Actions \cup {0} /\ counts[n] # NoCount /\ counts[n].counted \in Nat
  <2>1. counts[n] # NoCount
    BY DEF Accept, Current
  <2>2. counts[n] \in CountRow
    BY <1>1
  <2> QED BY <1>1, <1>2, <2>1, <2>2 DEF CountRow, SurplusTables
<1>4. /\ remitted[m] = "submitted" /\ ~Disputed(m) /\ (k # 0 => Selectable(k, m))
      /\ Difference(n) >= 0
      /\ settlements' = [settlements EXCEPT ![m] = n]
      /\ cases' = [cases EXCEPT ![m] = Difference(n)]
      /\ IF k = 0 THEN UNCHANGED <<credits, actions>> ELSE Consume(k)
      /\ remitted' = [remitted EXCEPT ![m] = "received"]
      /\ UNCHANGED <<counts, exceptions, payments, anchors>>
  BY <1>2 DEF Accept, Current, CanCount
<1>5. PICK g \in Nat : g = Gross[m] - Refund[m]
  BY <1>3 DEF SurplusAssumption
<1>6. PICK a \in Nat : a = Applied(k)
  <2>1. CASE k = 0
    BY <2>1 DEF Applied
  <2>2. CASE k \in Actions /\ k # 0
    BY <2>2, RowOf DEF Applied
  <2> QED BY <1>3, <2>1, <2>2
<1>7. Difference(n) = counts[n].counted - (g - a) /\ Difference(n) \in Nat
  <2>1. Difference(n) = counts[n].counted - (g - a)
    BY <1>2, <1>5, <1>6 DEF Difference, Required
  <2> QED BY <1>3, <1>4, <2>1
\* The action that the count used, if any.
<1>8. /\ credits' \in [Credits -> CreditRow] /\ actions' \in [Actions -> ActionRow]
      /\ \A j \in Actions : ActionFits(actions'[j])
      /\ Capacity(actions', credits', exceptions') /\ RoomIsLeft(credits', exceptions')
      /\ payments' \in [Refs -> PaymentRow] /\ PaymentsFit(payments', actions')
      /\ \A s : AllRecognized(credits', s) = AllRecognized(credits, s)
      /\ \A o : AllSettled(actions', o) = AllSettled(actions, o) + IF o = m THEN a ELSE 0
  <2>1. CASE k = 0
    <3>1. UNCHANGED <<credits, actions, exceptions, payments>> /\ a = 0
      BY <1>4, <1>6, <2>1 DEF Applied
    <3>2. \A o : AllSettled(actions, o) \in Nat
      BY <1>1, TotalsAreNat
    <3>3. \A o : AllSettled(actions', o) = AllSettled(actions, o) + IF o = m THEN a ELSE 0
      BY <3>1, <3>2
    <3> QED BY <3>1, <3>3 DEF SurplusInv, SurplusTables
  <2>2. CASE k # 0
    <3>1. k \in Actions /\ Selectable(k, m) /\ Consume(k) /\ UNCHANGED <<exceptions, payments>>
      BY <1>3, <1>4, <2>2
    <3>2. PICK q \in ActionRow : q = actions[k] /\ ActionFits(q) /\ q.amount \in Nat
      BY <3>1, RowOf
    <3>3. PICK r : r = [q EXCEPT !.status = "applied"]
      OBVIOUS
    <3>4. /\ r \in ActionRow /\ r.kind = q.kind /\ r.target = q.target /\ r.remittance = q.remittance
          /\ r.amount = q.amount /\ r.status = "applied" /\ r.payment = q.payment
          /\ r.reversed = q.reversed
      BY <3>3 DEF ActionRow
    <3>5. /\ q.kind = "application" /\ q.status = "reserved" /\ q.remittance = m /\ a = q.amount
          /\ q.target \in Credits
      <4>1. q.kind = "application" /\ q.status = "reserved" /\ q.remittance = m /\ a = q.amount
        BY <1>6, <2>2, <3>1, <3>2 DEF Selectable, Applied
      <4> QED BY <3>2, <4>1 DEF ActionFits
    <3>6. actions' = [actions EXCEPT ![k] = r]
      BY <1>1, <3>1, <3>2, <3>3 DEF Consume
    <3>7. ActionFits(r)
      BY <3>2, <3>4, <3>5 DEF ActionFits, Paid
    <3>8. Differ(actions, actions', k) /\ actions'[k] = r
      BY <3>1, <3>4, <3>6, <3>7, RowDiffers
    <3>9. PICK c \in Credits : c = q.target
      BY <3>5
    <3>10. /\ -a = Reserves(r, c) - Reserves(q, c) /\ 0 = Returns(r, c) - Returns(q, c)
           /\ a = Applies(r, c) - Applies(q, c)
      BY <3>2, <3>4, <3>5, <3>9 DEF Reserves, Returns, Applies, Pending, Paid
    <3>11. MovedTo(q, r)
      <4>1. ChangeCredit(c, -a, 0, a) /\ UNCHANGED exceptions
        BY <3>1, <3>2, <3>5, <3>9 DEF Consume
      <4>2. SurplusTables /\ RoomIsLeft(credits, exceptions) /\ -a \in Int
        BY <3>1, RowOf
      <4>3. q.target = c /\ r.target = c /\ q.kind = r.kind /\ q.kind \in {"return", "application"}
        BY <3>4, <3>5, <3>9
      <4> QED BY <3>4, <3>10, <4>1, <4>2, <4>3, CreditChanges
    <3>12. Capacity(actions', credits', exceptions')
      <4>1. Capacity(actions, credits, exceptions) /\ MovedTo(actions[k], r)
        BY <3>2, <3>11 DEF SurplusInv
      <4> QED BY <1>1, <3>1, <3>4, <3>8, <4>1, CapacityKept
    <3>13. payments' \in [Refs -> PaymentRow] /\ PaymentsFit(payments', actions')
      <4>1. /\ r.status \notin {"none", "requested", "cancelled"}
            /\ r.payment = actions[k].payment /\ r.amount = actions[k].amount
            /\ actions[k].status \notin {"debited"} \cup Paid
        BY <3>2, <3>4, <3>5 DEF Paid
      <4> QED BY <3>1, <3>4, <3>6, <4>1, PaymentsStay
    <3>14. \A s : AllRecognized(credits', s) = AllRecognized(credits, s)
      <4>1. \A d \in Credits : credits'[d].case = credits[d].case /\ credits'[d].recognized = credits[d].recognized
        BY <3>11 DEF MovedTo, Moves
      <4> QED BY <4>1, SameRecognized
    <3>15. \A o : AllSettled(actions', o) = AllSettled(actions, o) + IF o = m THEN a ELSE 0
      <4> SUFFICES ASSUME NEW o
                   PROVE  AllSettled(actions', o) = AllSettled(actions, o) + IF o = m THEN a ELSE 0
        OBVIOUS
      <4>1. TotalsMove(actions, actions', k, o)
        BY <3>1, <3>8, TotalsFollow
      <4>2. AllSettled(actions', o) = AllSettled(actions, o) + (Settles(r, o) - Settles(q, o))
        BY <3>2, <3>8, <4>1 DEF TotalsMove
      <4>3. Settles(q, o) = 0 /\ Settles(r, o) = IF o = m THEN a ELSE 0
        BY <3>4, <3>5 DEF Settles
      <4>4. AllSettled(actions, o) \in Nat
        BY <1>1, TotalsAreNat
      <4> QED BY <4>2, <4>3, <4>4
    <3> QED BY <3>8, <3>11, <3>12, <3>13, <3>14, <3>15 DEF Differ, MovedTo
  <2> QED BY <2>1, <2>2
<1>9. SurplusTables'
  <2>1. /\ settlements' \in [Remittances -> Counts \cup {0}] /\ cases' \in [Cases -> Nat]
        /\ remitted' \in [Remittances -> {"submitted", "received", "rejected"}]
    BY <1>1, <1>3, <1>4, <1>7 DEF SurplusTables
  <2> QED BY <1>1, <1>4, <1>8, <2>1 DEF SurplusTables
<1>10. /\ settlements'[m] = n /\ cases'[m] = Difference(n) /\ remitted'[m] = "received"
       /\ \A o \in Remittances \ {m} : settlements'[o] = settlements[o] /\ remitted'[o] = remitted[o]
       /\ \A s \in Cases \ {m} : cases'[s] = cases[s]
  BY <1>1, <1>3, <1>4 DEF SurplusTables, Cases
<1>11. \A o \in Remittances : Covered(o)'
  <2> SUFFICES ASSUME NEW o \in Remittances PROVE Covered(o)'
    OBVIOUS
  <2>1. Covered(o)
    BY DEF SurplusInv
  <2>2. CASE o # m
    <3>1. /\ settlements'[o] = settlements[o] /\ remitted'[o] = remitted[o] /\ cases'[o] = cases[o]
          /\ AllRecognized(credits', o) = AllRecognized(credits, o)
      BY <1>8, <1>10, <2>2 DEF Cases
    <3>2. AllSettled(actions', o) = AllSettled(actions, o)
      <4>1. AllSettled(actions, o) \in Nat
        BY <1>1, TotalsAreNat
      <4> QED BY <1>8, <2>2, <4>1
    <3> QED BY <1>4, <2>1, <3>1, <3>2 DEF Covered
  <2>3. CASE o = m
    <3>1. AllRecognized(credits, m) = 0 /\ AllSettled(actions, m) = 0
      BY <1>4, <2>1, <2>3 DEF Covered
    <3>2. AllRecognized(credits', m) = 0 /\ AllSettled(actions', m) = a
      BY <1>8, <3>1
    <3>3. counts[n].counted + a = g + Difference(n) + 0
      BY <1>3, <1>7
    <3>4. n # 0
      BY DEF SurplusAssumption
    <3> QED BY <1>3, <1>4, <1>5, <1>10, <2>3, <3>2, <3>3, <3>4 DEF Covered
  <2> QED BY <2>2, <2>3
<1>12. ClosedWithoutDispute'
  <2>1. ClosedWithoutDispute
    BY DEF SurplusInv
  <2>2. \A o : Disputed(o)' = Disputed(o)
    BY <1>4 DEF Disputed, Held
  <2> QED BY <1>4, <1>10, <2>1, <2>2 DEF ClosedWithoutDispute
<1>13. AnchorsFit'
  <2>1. AnchorsFit
    BY DEF SurplusInv
  <2>2. \A w \in Collectors : cases'[w] = cases[w]
    BY <1>3, <1>10 DEF Cases, SurplusAssumption
  <2> QED BY <1>4, <1>8, <2>1, <2>2 DEF AnchorsFit
<1> QED BY <1>8, <1>9, <1>11, <1>12, <1>13 DEF SurplusInv

-----------------------------------------------------------------------------
(* New credits, and anchors.                                               *)

\* A credit of a case that takes no capacity.
AddsCredit(s, amount) ==
    /\ credits' \in [Credits -> CreditRow]
    /\ \A d \in Credits : /\ credits'[d].reserved = credits[d].reserved
                          /\ credits'[d].returned = credits[d].returned
                          /\ credits'[d].applied = credits[d].applied
    /\ RoomIsLeft(credits', exceptions)
    /\ \A t \in Cases :
          /\ AllRecognized(credits, t) \in Nat
          /\ AllRecognized(credits', t) = AllRecognized(credits, t) + IF t = s THEN amount ELSE 0

LEMMA NewCreditFits ==
    ASSUME SurplusAssumption, SurplusInv, NEW c \in Credits, NEW s \in Cases, NEW amount \in Nat,
           NEW opening \in BOOLEAN, credits[c] = NoCredit,
           credits' = [credits EXCEPT ![c] = NewCredit(s, amount, opening)]
    PROVE  AddsCredit(s, amount)
<1>1. credits \in [Credits -> CreditRow] /\ RoomIsLeft(credits, exceptions)
  BY DEF SurplusInv, SurplusTables
<1>2. PICK new : new = NewCredit(s, amount, opening)
  OBVIOUS
<1>3. new = [case |-> s, recognized |-> amount, returned |-> 0, applied |-> 0, reserved |-> 0,
             frozen |-> FALSE, opening |-> opening]
  BY <1>2 DEF NewCredit, NoCredit
<1>4. new \in CreditRow
  BY <1>3 DEF CreditRow
<1>5. /\ credits' \in [Credits -> CreditRow] /\ credits'[c] = new
      /\ \A d \in Credits \ {c} : credits'[d] = credits[d]
  BY <1>1, <1>2, <1>4
<1>6. \A d \in Credits : /\ credits'[d].reserved = credits[d].reserved
                         /\ credits'[d].returned = credits[d].returned
                         /\ credits'[d].applied = credits[d].applied
  BY <1>3, <1>5 DEF NoCredit
<1>7. RoomIsLeft(credits', exceptions)
  <2>1. new.recognized - new.returned - new.applied - new.reserved >= 0
    BY <1>3
  <2> QED BY <1>1, <1>5, <2>1 DEF RoomIsLeft
<1>8. ASSUME NEW t \in Cases
      PROVE  /\ AllRecognized(credits, t) \in Nat
             /\ AllRecognized(credits', t) = AllRecognized(credits, t) + IF t = s THEN amount ELSE 0
  <2>1. /\ AllRecognized(credits, t) \in Nat
        /\ AllRecognized(credits', t) = AllRecognized(credits, t)
                                         + (Recognizes(credits'[c], t) - Recognizes(credits[c], t))
    <3>1. /\ credits \in [Credits -> CreditRow] /\ credits' \in [Credits -> CreditRow]
          /\ \A d \in Credits \ {c} : credits'[d] = credits[d]
      BY <1>1, <1>5
    <3>2. RecognizedMoves(credits, credits', c, t)
      BY <3>1, RecognizedFollows
    <3> QED BY <3>2 DEF RecognizedMoves
  <2>2. Recognizes(credits[c], t) = 0
    BY DEF Recognizes, NoCredit
  <2>3. Recognizes(credits'[c], t) = IF t = s THEN amount ELSE 0
    BY <1>3, <1>5 DEF Recognizes
  <2> QED BY <2>1, <2>2, <2>3
<1> QED BY <1>5, <1>6, <1>7, <1>8 DEF AddsCredit

LEMMA RecognizeKeeps ==
    ASSUME SurplusAssumption, SurplusInv, NEW c \in Credits, NEW s \in Cases,
           NEW amount \in Entered, Recognize(c, s, amount)
    PROVE  SurplusInv'
<1>1. amount \in Nat /\ amount > 0
  BY DEF SurplusAssumption
<1>2. /\ credits[c] = NoCredit /\ amount <= cases[s]
      /\ cases' = [cases EXCEPT ![s] = @ - amount]
      /\ credits' = [credits EXCEPT ![c] = NewCredit(s, amount, FALSE)]
      /\ UNCHANGED <<remitted, counts, exceptions, settlements, actions, payments, anchors>>
  BY DEF Recognize
<1>3. /\ credits' \in [Credits -> CreditRow]
      /\ \A d \in Credits : /\ credits'[d].reserved = credits[d].reserved
                            /\ credits'[d].returned = credits[d].returned
                            /\ credits'[d].applied = credits[d].applied
      /\ RoomIsLeft(credits', exceptions)
      /\ \A t \in Cases :
            /\ AllRecognized(credits, t) \in Nat
            /\ AllRecognized(credits', t) = AllRecognized(credits, t) + IF t = s THEN amount ELSE 0
  <2>1. AddsCredit(s, amount)
    BY <1>1, <1>2, NewCreditFits
  <2> QED BY <2>1 DEF AddsCredit
<1>4. SurplusTables /\ cases \in [Cases -> Nat] /\ cases[s] \in Nat
  BY DEF SurplusInv, SurplusTables
<1>5. /\ cases' \in [Cases -> Nat] /\ cases'[s] = cases[s] - amount
      /\ \A t \in Cases \ {s} : cases'[t] = cases[t]
  BY <1>1, <1>2, <1>4
<1>6. SurplusTables'
  BY <1>2, <1>3, <1>4, <1>5 DEF SurplusTables
\* What is identified and what is not stay together.
<1>7. \A t \in Cases : cases'[t] + AllRecognized(credits', t) = cases[t] + AllRecognized(credits, t)
  <2> SUFFICES ASSUME NEW t \in Cases
               PROVE  cases'[t] + AllRecognized(credits', t) = cases[t] + AllRecognized(credits, t)
    OBVIOUS
  <2>1. PICK v \in Nat : v = AllRecognized(credits, t)
    BY <1>3
  <2>2. AllRecognized(credits', t) = v + IF t = s THEN amount ELSE 0
    BY <1>3, <2>1
  <2>3. CASE t = s
    BY <1>1, <1>4, <1>5, <2>1, <2>2, <2>3
  <2>4. CASE t # s
    <3>1. cases[t] \in Nat
      BY <1>4
    <3> QED BY <1>5, <2>1, <2>2, <2>4, <3>1
  <2> QED BY <2>3, <2>4
<1>8. \A m \in Remittances : Covered(m)'
  <2> SUFFICES ASSUME NEW m \in Remittances PROVE Covered(m)'
    OBVIOUS
  <2>1. Covered(m) /\ m \in Cases
    BY DEF SurplusInv, Cases
  <2>2. CASE settlements[m] = 0
    <3>1. m # s
      BY <1>1, <1>2, <2>1, <2>2 DEF Covered
    <3>2. cases'[m] = cases[m] /\ AllRecognized(credits', m) = AllRecognized(credits, m)
      BY <1>3, <1>5, <2>1, <3>1
    <3> QED BY <1>2, <2>1, <2>2, <3>2 DEF Covered
  <2>3. CASE settlements[m] # 0
    <3>1. PICK g \in Nat : g = Gross[m] - Refund[m]
      BY DEF SurplusAssumption
    <3>2. /\ cases[m] \in Nat /\ cases'[m] \in Nat /\ AllRecognized(credits, m) \in Nat
          /\ AllRecognized(credits', m) \in Nat
          /\ cases'[m] + AllRecognized(credits', m) = cases[m] + AllRecognized(credits, m)
      BY <1>1, <1>3, <1>4, <1>5, <1>7, <2>1
    <3>3. g + cases'[m] + AllRecognized(credits', m) = g + cases[m] + AllRecognized(credits, m)
      BY <3>2
    <3>4. /\ remitted[m] = "received" /\ counts[settlements[m]] # NoCount
          /\ counts[settlements[m]].counted + AllSettled(actions, m)
              = g + cases[m] + AllRecognized(credits, m)
      BY <2>1, <2>3, <3>1 DEF Covered
    <3>5. counts'[settlements'[m]].counted + AllSettled(actions', m)
              = g + cases'[m] + AllRecognized(credits', m)
      BY <1>2, <3>3, <3>4
    <3> QED BY <1>2, <2>3, <3>1, <3>4, <3>5 DEF Covered
  <2> QED BY <2>2, <2>3
<1>9. ClosedWithoutDispute'
  BY <1>2 DEF SurplusInv, ClosedWithoutDispute, Disputed, Held
<1>10. AnchorsFit'
  <2>1. AnchorsFit /\ Collectors \subseteq Cases
    BY DEF SurplusInv, Cases
  <2> QED BY <1>2, <1>7, <2>1 DEF AnchorsFit
<1>11. Capacity(actions', credits', exceptions') /\ RoomIsLeft(credits', exceptions')
  BY <1>2, <1>3 DEF SurplusInv, Capacity, RoomIsLeft
<1>12. (\A j \in Actions : ActionFits(actions'[j])) /\ PaymentsFit(payments', actions')
  BY <1>2 DEF SurplusInv
<1> QED BY <1>6, <1>8, <1>9, <1>10, <1>11, <1>12 DEF SurplusInv
-----------------------------------------------------------------------------
(* The folds of the module.                                                *)

LEMMA ActionSum ==
    ASSUME NEW S \in SUBSET Actions
    PROVE  Sum(LAMBDA k : actions[k].amount, S) = SumOf([k \in Actions |-> actions[k].amount], S)
<1> DEFINE f == [k \in Actions |-> actions[k].amount]
<1>1. \A s \in SUBSET S : s # {} => f[Pick(s)] = actions[Pick(s)].amount
  BY PickIsMember
<1>2. ASSUME NEW g
      PROVE  [s \in SUBSET S |-> IF s = {} THEN 0 ELSE f[Pick(s)] + g[s \ {Pick(s)}]]
             = [s \in SUBSET S |-> IF s = {} THEN 0 ELSE actions[Pick(s)].amount + g[s \ {Pick(s)}]]
  BY <1>1
<1> DEFINE Eq(g) == g = [s \in SUBSET S |-> IF s = {} THEN 0
                                           ELSE actions[Pick(s)].amount + g[s \ {Pick(s)}]]
<1>3. \A g : IsSum(f, g, S) <=> Eq(g)
  BY <1>2 DEF IsSum
<1>4. (CHOOSE g : IsSum(f, g, S)) = (CHOOSE g : Eq(g))
  BY <1>3
<1>5. SumOf(f, S) = (CHOOSE g : IsSum(f, g, S))[S]
  BY DEF SumOf, MapThenSumSet, MapThenFoldSet, IsSum, Pick
<1>6. Sum(LAMBDA k : actions[k].amount, S) = (CHOOSE g : Eq(g))[S]
  BY DEF Sum, MapThenSumSet, MapThenFoldSet, Pick
<1> QED BY <1>4, <1>5, <1>6

LEMMA KeptSum ==
    ASSUME NEW S \in SUBSET Actions
    PROVE  Sum(LAMBDA k : actions[k].amount - actions[k].reversed, S) = SumOf([k \in Actions |-> actions[k].amount - actions[k].reversed], S)
<1> DEFINE f == [k \in Actions |-> actions[k].amount - actions[k].reversed]
<1>1. \A s \in SUBSET S : s # {} => f[Pick(s)] = (actions[Pick(s)].amount - actions[Pick(s)].reversed)
  BY PickIsMember
<1>2. ASSUME NEW g
      PROVE  [s \in SUBSET S |-> IF s = {} THEN 0 ELSE f[Pick(s)] + g[s \ {Pick(s)}]]
             = [s \in SUBSET S |-> IF s = {} THEN 0 ELSE (actions[Pick(s)].amount - actions[Pick(s)].reversed) + g[s \ {Pick(s)}]]
  BY <1>1
<1> DEFINE Eq(g) == g = [s \in SUBSET S |-> IF s = {} THEN 0
                                           ELSE (actions[Pick(s)].amount - actions[Pick(s)].reversed) + g[s \ {Pick(s)}]]
<1>3. \A g : IsSum(f, g, S) <=> Eq(g)
  BY <1>2 DEF IsSum
<1>4. (CHOOSE g : IsSum(f, g, S)) = (CHOOSE g : Eq(g))
  BY <1>3
<1>5. SumOf(f, S) = (CHOOSE g : IsSum(f, g, S))[S]
  BY DEF SumOf, MapThenSumSet, MapThenFoldSet, IsSum, Pick
<1>6. Sum(LAMBDA k : actions[k].amount - actions[k].reversed, S) = (CHOOSE g : Eq(g))[S]
  BY DEF Sum, MapThenSumSet, MapThenFoldSet, Pick
<1> QED BY <1>4, <1>5, <1>6

LEMMA CreditSum ==
    ASSUME NEW S \in SUBSET Credits
    PROVE  Sum(LAMBDA c : credits[c].recognized, S) = SumOf([c \in Credits |-> credits[c].recognized], S)
<1> DEFINE f == [c \in Credits |-> credits[c].recognized]
<1>1. \A s \in SUBSET S : s # {} => f[Pick(s)] = credits[Pick(s)].recognized
  BY PickIsMember
<1>2. ASSUME NEW g
      PROVE  [s \in SUBSET S |-> IF s = {} THEN 0 ELSE f[Pick(s)] + g[s \ {Pick(s)}]]
             = [s \in SUBSET S |-> IF s = {} THEN 0 ELSE credits[Pick(s)].recognized + g[s \ {Pick(s)}]]
  BY <1>1
<1> DEFINE Eq(g) == g = [s \in SUBSET S |-> IF s = {} THEN 0
                                           ELSE credits[Pick(s)].recognized + g[s \ {Pick(s)}]]
<1>3. \A g : IsSum(f, g, S) <=> Eq(g)
  BY <1>2 DEF IsSum
<1>4. (CHOOSE g : IsSum(f, g, S)) = (CHOOSE g : Eq(g))
  BY <1>3
<1>5. SumOf(f, S) = (CHOOSE g : IsSum(f, g, S))[S]
  BY DEF SumOf, MapThenSumSet, MapThenFoldSet, IsSum, Pick
<1>6. Sum(LAMBDA c : credits[c].recognized, S) = (CHOOSE g : Eq(g))[S]
  BY DEF Sum, MapThenSumSet, MapThenFoldSet, Pick
<1> QED BY <1>4, <1>5, <1>6

LEMMA AnchorSum ==
    ASSUME NEW S \in SUBSET Collectors
    PROVE  Sum(LAMBDA v : anchors[v].amount, S) = SumOf(AnchorAmounts(anchors), S)
<1> DEFINE f == AnchorAmounts(anchors)
<1>1. \A s \in SUBSET S : s # {} => f[Pick(s)] = anchors[Pick(s)].amount
  BY PickIsMember DEF AnchorAmounts
<1>2. ASSUME NEW g
      PROVE  [s \in SUBSET S |-> IF s = {} THEN 0 ELSE f[Pick(s)] + g[s \ {Pick(s)}]]
             = [s \in SUBSET S |-> IF s = {} THEN 0 ELSE anchors[Pick(s)].amount + g[s \ {Pick(s)}]]
  BY <1>1
<1> DEFINE Eq(g) == g = [s \in SUBSET S |-> IF s = {} THEN 0
                                           ELSE anchors[Pick(s)].amount + g[s \ {Pick(s)}]]
<1>3. \A g : IsSum(f, g, S) <=> Eq(g)
  BY <1>2 DEF IsSum
<1>4. (CHOOSE g : IsSum(f, g, S)) = (CHOOSE g : Eq(g))
  BY <1>3
<1>5. SumOf(f, S) = (CHOOSE g : IsSum(f, g, S))[S]
  BY DEF SumOf, MapThenSumSet, MapThenFoldSet, IsSum, Pick
<1>6. Sum(LAMBDA v : anchors[v].amount, S) = (CHOOSE g : Eq(g))[S]
  BY DEF Sum, MapThenSumSet, MapThenFoldSet, Pick
<1> QED BY <1>4, <1>5, <1>6

-----------------------------------------------------------------------------
LEMMA AnchorsAreNat ==
    ASSUME SurplusTables
    PROVE  /\ anchors \in [Collectors -> AnchorRow]
           /\ \A w \in Collectors : AnchorAmounts(anchors)[w] = anchors[w].amount /\ anchors[w].amount \in Nat
<1>1. anchors \in [Collectors -> AnchorRow]
  BY DEF SurplusTables
<1>2. \A w \in Collectors : anchors[w].amount \in Nat
  BY <1>1 DEF AnchorRow
<1> QED BY <1>1, <1>2 DEF AnchorAmounts

LEMMA PrepareAnchorKeeps ==
    ASSUME SurplusAssumption, SurplusInv, NEW w \in Collectors,
           NEW kind \in {"credit", "pending_excess"}, NEW amount \in Entered,
           PrepareAnchor(w, kind, amount)
    PROVE  SurplusInv'
<1>1. amount \in Nat
  BY DEF SurplusAssumption
<1>2. PICK row : row = [kind |-> kind, amount |-> amount, status |-> "draft"]
  OBVIOUS
<1>3. /\ anchors[w] = NoAnchor /\ OpeningRoom(w, amount)
      /\ anchors' = [anchors EXCEPT ![w] = row]
      /\ UNCHANGED <<remitted, counts, exceptions, settlements, cases, credits, actions, payments>>
  BY <1>2 DEF PrepareAnchor
<1>4. SurplusTables /\ anchors \in [Collectors -> AnchorRow]
  BY DEF SurplusInv, SurplusTables
<1>5. /\ anchors' \in [Collectors -> AnchorRow] /\ anchors'[w] = row
      /\ \A v \in Collectors \ {w} : anchors'[v] = anchors[v]
  <2>1. row \in AnchorRow
    BY <1>1, <1>2 DEF AnchorRow
  <2> QED BY <1>3, <1>4, <2>1
<1>6. SurplusTables'
  BY <1>3, <1>4, <1>5 DEF SurplusTables
<1>7. SumOf(AnchorAmounts(anchors'), Collectors) <= OpeningAmount
  <2>1. PICK f, g, O : /\ f = AnchorAmounts(anchors) /\ g = AnchorAmounts(anchors')
                       /\ O = Collectors \ {w}
    OBVIOUS
  <2>2. IsFiniteSet(Collectors) /\ IsFiniteSet(O)
    BY <2>1, FS_Subset DEF SurplusAssumption
  <2>3. \A v \in Collectors : f[v] \in Nat /\ g[v] \in Nat
    <3>1. \A v \in Collectors : anchors[v].amount \in Nat /\ anchors'[v].amount \in Nat
      BY <1>4, <1>5 DEF AnchorRow
    <3> QED BY <2>1, <3>1 DEF AnchorAmounts
  <2>4. g[w] = amount /\ \A v \in O : g[v] = f[v]
    BY <1>2, <1>5, <2>1 DEF AnchorAmounts
  <2>5. SumOf(g, Collectors) = g[w] + SumOf(g, O)
    BY <2>1, <2>2, <2>3, SumWithout
  <2>6. SumOf(g, O) = SumOf(f, O)
    BY <2>4, SumOfSame
  <2>7. Sum(LAMBDA v : anchors[v].amount, O) = SumOf(f, O)
    BY <2>1, AnchorSum
  <2>8. amount + SumOf(f, O) <= OpeningAmount
    BY <1>3, <2>1, <2>7 DEF OpeningRoom
  <2> QED BY <2>1, <2>4, <2>5, <2>6, <2>8
<1>8. AnchorsFit'
  <2>1. \A v \in Collectors :
          cases[v] + AllRecognized(credits, v)
             = IF anchors'[v].status = "active" THEN anchors'[v].amount ELSE 0
    <3> SUFFICES ASSUME NEW v \in Collectors
                 PROVE  cases[v] + AllRecognized(credits, v)
                          = IF anchors'[v].status = "active" THEN anchors'[v].amount ELSE 0
      OBVIOUS
    <3>1. cases[v] + AllRecognized(credits, v)
             = IF anchors[v].status = "active" THEN anchors[v].amount ELSE 0
      BY DEF SurplusInv, AnchorsFit
    <3>2. CASE v = w
      BY <1>2, <1>3, <1>5, <3>1, <3>2 DEF NoAnchor
    <3>3. CASE v # w
      BY <1>5, <3>1, <3>3
    <3> QED BY <3>2, <3>3
  <2> QED BY <1>3, <1>7, <2>1 DEF AnchorsFit
<1>9. ClosedWithoutDispute'
  BY <1>3 DEF SurplusInv, ClosedWithoutDispute, Disputed, Held
<1>10. \A m \in Remittances : Covered(m)'
  BY <1>3 DEF SurplusInv, Covered
<1>11. /\ \A j \in Actions : ActionFits(actions'[j])
       /\ Capacity(actions', credits', exceptions') /\ RoomIsLeft(credits', exceptions')
       /\ PaymentsFit(payments', actions')
  BY <1>3 DEF SurplusInv
<1> QED BY <1>6, <1>8, <1>9, <1>10, <1>11 DEF SurplusInv

LEMMA ActivateAnchorKeeps ==
    ASSUME SurplusAssumption, SurplusInv, NEW w \in Collectors, NEW c \in Credits,
           ActivateAnchor(w, c)
    PROVE  SurplusInv'
<1>1. SurplusTables /\ anchors \in [Collectors -> AnchorRow] /\ cases \in [Cases -> Nat]
      /\ credits \in [Credits -> CreditRow]
  BY DEF SurplusInv, SurplusTables
<1>2. PICK old \in AnchorRow : old = anchors[w]
  BY <1>1
<1>3. PICK new : new = [old EXCEPT !.status = "active"]
  OBVIOUS
<1>4. PICK amount \in Nat : amount = old.amount
  BY DEF AnchorRow
<1>5. new \in AnchorRow /\ new.amount = amount /\ new.status = "active"
  BY <1>4, <1>3 DEF AnchorRow
<1>6. /\ anchors[w].status = "draft" /\ anchors' = [anchors EXCEPT ![w] = new]
      /\ UNCHANGED <<remitted, counts, exceptions, settlements, actions, payments>>
      /\ \/ cases' = [cases EXCEPT ![w] = amount] /\ UNCHANGED credits
         \/ /\ credits[c] = NoCredit
            /\ credits' = [credits EXCEPT ![c] = NewCredit(w, amount, TRUE)]
            /\ UNCHANGED cases
  BY <1>1, <1>2, <1>4, <1>3 DEF ActivateAnchor
<1>7. /\ anchors' \in [Collectors -> AnchorRow] /\ anchors'[w] = new
      /\ \A v \in Collectors \ {w} : anchors'[v] = anchors[v]
  BY <1>1, <1>5, <1>6
<1>8. w \in Cases /\ w \notin Remittances
  BY DEF Cases, SurplusAssumption
<1>9. \A t \in Cases : AllRecognized(credits, t) \in Nat /\ cases[t] \in Nat
  <2> SUFFICES ASSUME NEW t \in Cases PROVE AllRecognized(credits, t) \in Nat /\ cases[t] \in Nat
    OBVIOUS
  <2>1. RecognizedMoves(credits, credits, c, t)
    BY <1>1, RecognizedFollows
  <2> QED BY <1>1, <2>1 DEF RecognizedMoves
\* Nothing was of the collector's anchor, and now all of it is.
<1>10. cases[w] = 0 /\ AllRecognized(credits, w) = 0
  <2>1. cases[w] + AllRecognized(credits, w) = 0
    BY <1>6 DEF SurplusInv, AnchorsFit
  <2> QED BY <1>8, <1>9, <2>1
<1>11. /\ cases' \in [Cases -> Nat] /\ credits' \in [Credits -> CreditRow]
       /\ \A d \in Credits : /\ credits'[d].reserved = credits[d].reserved
                             /\ credits'[d].returned = credits[d].returned
                             /\ credits'[d].applied = credits[d].applied
       /\ RoomIsLeft(credits', exceptions)
       /\ cases'[w] + AllRecognized(credits', w) = amount
       /\ \A t \in Cases \ {w} : /\ cases'[t] = cases[t]
                                 /\ AllRecognized(credits', t) = AllRecognized(credits, t)
  <2>1. CASE cases' = [cases EXCEPT ![w] = amount] /\ UNCHANGED credits
    <3>1. RoomIsLeft(credits, exceptions)
      BY DEF SurplusInv
    <3> QED BY <1>1, <1>8, <1>10, <2>1, <3>1
  <2>2. CASE /\ credits[c] = NoCredit
             /\ credits' = [credits EXCEPT ![c] = NewCredit(w, amount, TRUE)]
             /\ UNCHANGED cases
    <3>1. /\ credits' \in [Credits -> CreditRow]
          /\ \A d \in Credits : /\ credits'[d].reserved = credits[d].reserved
                                /\ credits'[d].returned = credits[d].returned
                                /\ credits'[d].applied = credits[d].applied
          /\ RoomIsLeft(credits', exceptions)
          /\ \A t \in Cases :
               /\ AllRecognized(credits, t) \in Nat
               /\ AllRecognized(credits', t) = AllRecognized(credits, t) + IF t = w THEN amount ELSE 0
      <4>1. AddsCredit(w, amount)
        BY <1>8, <2>2, NewCreditFits
      <4> QED BY <4>1 DEF AddsCredit
    <3>2. AllRecognized(credits', w) = amount
      BY <1>8, <1>10, <3>1
    <3>3. \A t \in Cases \ {w} : AllRecognized(credits', t) = AllRecognized(credits, t)
      BY <3>1
    <3>4. cases'[w] + AllRecognized(credits', w) = amount
      BY <1>10, <2>2, <3>2
    <3>5. \A t \in Cases \ {w} : /\ cases'[t] = cases[t]
                                /\ AllRecognized(credits', t) = AllRecognized(credits, t)
      BY <2>2, <3>3
    <3>6. cases' \in [Cases -> Nat]
      BY <1>1, <2>2
    <3> QED BY <3>1, <3>4, <3>5, <3>6
  <2> QED BY <1>6, <2>1, <2>2
<1>12. SurplusTables'
  BY <1>1, <1>6, <1>7, <1>11 DEF SurplusTables
<1>13. \A m \in Remittances : Covered(m)'
  <2>1. \A m \in Remittances : m \in Cases \ {w}
    BY <1>8 DEF Cases
  <2> QED BY <1>6, <1>11, <2>1 DEF SurplusInv, Covered
<1>14. AnchorsFit'
  <2>1. SumOf(AnchorAmounts(anchors'), Collectors) <= OpeningAmount
    <3>1. \A v \in Collectors : anchors'[v].amount = anchors[v].amount
      BY <1>2, <1>4, <1>5, <1>7
    <3>2. AnchorAmounts(anchors') = AnchorAmounts(anchors)
      BY <3>1 DEF AnchorAmounts
    <3> QED BY <3>2 DEF SurplusInv, AnchorsFit
  <2>2. ASSUME NEW v \in Collectors
        PROVE  cases'[v] + AllRecognized(credits', v)
                 = IF anchors'[v].status = "active" THEN anchors'[v].amount ELSE 0
    <3>1. CASE v = w
      BY <1>5, <1>7, <1>11, <3>1
    <3>2. CASE v # w
      <4>1. v \in Cases \ {w} /\ anchors'[v] = anchors[v]
        BY <1>7, <3>2 DEF Cases
      <4> QED BY <1>11, <4>1 DEF SurplusInv, AnchorsFit
    <3> QED BY <3>1, <3>2
  <2> QED BY <2>1, <2>2 DEF AnchorsFit
<1>15. ClosedWithoutDispute'
  BY <1>6 DEF SurplusInv, ClosedWithoutDispute, Disputed, Held
<1>16. Capacity(actions', credits', exceptions') /\ RoomIsLeft(credits', exceptions')
  BY <1>6, <1>11 DEF SurplusInv, Capacity
<1>17. (\A j \in Actions : ActionFits(actions'[j])) /\ PaymentsFit(payments', actions')
  BY <1>6 DEF SurplusInv
<1> QED BY <1>12, <1>13, <1>14, <1>15, <1>16, <1>17 DEF SurplusInv

-----------------------------------------------------------------------------
(* The invariant.                                                          *)

LEMMA NothingYet ==
    ASSUME SurplusAssumption, SurplusInit
    PROVE  /\ \A t : /\ AllReserved(actions, t) = 0 /\ AllReturned(actions, t) = 0
                     /\ AllApplied(actions, t) = 0 /\ AllHeld(actions, t) = 0
                     /\ AllGivenBack(actions, t) = 0 /\ AllSettled(actions, t) = 0
           /\ \A s : AllRecognized(credits, s) = 0
           /\ SumOf(AnchorAmounts(anchors), Collectors) = 0
<1>1. /\ \A k \in Actions : actions[k] = NoAction
      /\ \A c \in Credits : credits[c] = NoCredit
      /\ \A w \in Collectors : anchors[w] = NoAnchor
  BY DEF SurplusInit
<1>2. IsFiniteSet(Actions) /\ IsFiniteSet(Credits) /\ IsFiniteSet(Collectors)
  BY DEF SurplusAssumption
<1>3. \A t : AllReserved(actions, t) = 0
  <2> SUFFICES ASSUME NEW t PROVE AllReserved(actions, t) = 0
    OBVIOUS
  <2>1. PICK f : f = [k \in Actions |-> Reserves(actions[k], t)]
    OBVIOUS
  <2>2. \A k \in Actions : f[k] = 0
    BY <1>1, <2>1 DEF Reserves, NoAction, Pending, Paid
  <2>3. SumOf(f, Actions) = 0
    BY <1>2, <2>2, SumOfZeros
  <2> QED BY <2>1, <2>3 DEF AllReserved
<1>4. \A t : AllReturned(actions, t) = 0
  <2> SUFFICES ASSUME NEW t PROVE AllReturned(actions, t) = 0
    OBVIOUS
  <2>1. PICK f : f = [k \in Actions |-> Returns(actions[k], t)]
    OBVIOUS
  <2>2. \A k \in Actions : f[k] = 0
    BY <1>1, <2>1 DEF Returns, NoAction, Pending, Paid
  <2>3. SumOf(f, Actions) = 0
    BY <1>2, <2>2, SumOfZeros
  <2> QED BY <2>1, <2>3 DEF AllReturned
<1>5. \A t : AllApplied(actions, t) = 0
  <2> SUFFICES ASSUME NEW t PROVE AllApplied(actions, t) = 0
    OBVIOUS
  <2>1. PICK f : f = [k \in Actions |-> Applies(actions[k], t)]
    OBVIOUS
  <2>2. \A k \in Actions : f[k] = 0
    BY <1>1, <2>1 DEF Applies, NoAction, Pending, Paid
  <2>3. SumOf(f, Actions) = 0
    BY <1>2, <2>2, SumOfZeros
  <2> QED BY <2>1, <2>3 DEF AllApplied
<1>6. \A t : AllHeld(actions, t) = 0
  <2> SUFFICES ASSUME NEW t PROVE AllHeld(actions, t) = 0
    OBVIOUS
  <2>1. PICK f : f = [k \in Actions |-> Holds(actions[k], t)]
    OBVIOUS
  <2>2. \A k \in Actions : f[k] = 0
    BY <1>1, <2>1 DEF Holds, NoAction, Pending, Paid
  <2>3. SumOf(f, Actions) = 0
    BY <1>2, <2>2, SumOfZeros
  <2> QED BY <2>1, <2>3 DEF AllHeld
<1>7. \A t : AllGivenBack(actions, t) = 0
  <2> SUFFICES ASSUME NEW t PROVE AllGivenBack(actions, t) = 0
    OBVIOUS
  <2>1. PICK f : f = [k \in Actions |-> GivesBack(actions[k], t)]
    OBVIOUS
  <2>2. \A k \in Actions : f[k] = 0
    BY <1>1, <2>1 DEF GivesBack, NoAction, Pending, Paid
  <2>3. SumOf(f, Actions) = 0
    BY <1>2, <2>2, SumOfZeros
  <2> QED BY <2>1, <2>3 DEF AllGivenBack
<1>8. \A t : AllSettled(actions, t) = 0
  <2> SUFFICES ASSUME NEW t PROVE AllSettled(actions, t) = 0
    OBVIOUS
  <2>1. PICK f : f = [k \in Actions |-> Settles(actions[k], t)]
    OBVIOUS
  <2>2. \A k \in Actions : f[k] = 0
    BY <1>1, <2>1 DEF Settles, NoAction, Pending, Paid
  <2>3. SumOf(f, Actions) = 0
    BY <1>2, <2>2, SumOfZeros
  <2> QED BY <2>1, <2>3 DEF AllSettled
<1>9. \A s : AllRecognized(credits, s) = 0
  <2> SUFFICES ASSUME NEW s PROVE AllRecognized(credits, s) = 0
    OBVIOUS
  <2>1. PICK f : f = [c \in Credits |-> Recognizes(credits[c], s)]
    OBVIOUS
  <2>2. \A c \in Credits : f[c] = 0
    BY <1>1, <2>1 DEF Recognizes, NoCredit
  <2>3. SumOf(f, Credits) = 0
    BY <1>2, <2>2, SumOfZeros
  <2> QED BY <2>1, <2>3 DEF AllRecognized
<1>10. SumOf(AnchorAmounts(anchors), Collectors) = 0
  <2>1. \A w \in Collectors : AnchorAmounts(anchors)[w] = 0
    BY <1>1 DEF AnchorAmounts, NoAnchor
  <2> QED BY <1>2, <2>1, SumOfZeros
<1> QED BY <1>3, <1>4, <1>5, <1>6, <1>7, <1>8, <1>9, <1>10

LEMMA SurplusStart ==
    ASSUME SurplusAssumption, SurplusInit
    PROVE  SurplusInv
<1>1. /\ NoCount \in CountRow /\ NoException \in ExceptionRow /\ NoCredit \in CreditRow
      /\ NoAction \in ActionRow /\ NoPayment \in PaymentRow /\ NoAnchor \in AnchorRow
  BY DEF NoCount, NoException, NoCredit, NoAction, NoPayment, NoAnchor, CountRow, ExceptionRow,
         CreditRow, ActionRow, PaymentRow, AnchorRow
<1>2. SurplusTables
  BY <1>1 DEF SurplusInit, SurplusTables
<1>3. \A k \in Actions : actions[k] = NoAction /\ ActionFits(actions[k])
  <2>1. ActionFits(NoAction)
    BY DEF ActionFits, NoAction
  <2> QED BY <2>1 DEF SurplusInit
<1>4. /\ \A t : /\ AllReserved(actions, t) = 0 /\ AllReturned(actions, t) = 0
                /\ AllApplied(actions, t) = 0 /\ AllHeld(actions, t) = 0
                /\ AllGivenBack(actions, t) = 0 /\ AllSettled(actions, t) = 0
      /\ \A s : AllRecognized(credits, s) = 0
      /\ SumOf(AnchorAmounts(anchors), Collectors) = 0
  BY NothingYet
<1>5. /\ \A c \in Credits : credits[c] = NoCredit
      /\ \A n \in Counts : exceptions[n] = NoException
      /\ \A w \in Collectors : anchors[w] = NoAnchor
      /\ \A e \in Refs : payments[e] = NoPayment
      /\ \A s \in Cases : cases[s] = 0
      /\ \A m \in Remittances : settlements[m] = 0
  BY DEF SurplusInit
<1>6. Capacity(actions, credits, exceptions) /\ RoomIsLeft(credits, exceptions)
  BY <1>4, <1>5 DEF Capacity, RoomIsLeft, NoCredit, NoException
<1>7. \A m \in Remittances : Covered(m)
  BY <1>4, <1>5 DEF Covered, Cases
<1>8. ClosedWithoutDispute
  <2>1. \A m \in Remittances : remitted[m] = "submitted"
    BY DEF SurplusInit
  <2> QED BY <2>1 DEF ClosedWithoutDispute
<1>9. PaymentsFit(payments, actions)
  BY <1>5 DEF PaymentsFit, NoPayment
<1>10. AnchorsFit
  <2>1. OpeningAmount >= 0
    BY DEF SurplusAssumption
  <2>2. \A w \in Collectors : cases[w] = 0 /\ AllRecognized(credits, w) = 0 /\ anchors[w].status = "none"
    BY <1>4, <1>5 DEF Cases, NoAnchor
  <2> QED BY <1>4, <2>1, <2>2 DEF AnchorsFit
<1> QED BY <1>2, <1>3, <1>6, <1>7, <1>8, <1>9, <1>10 DEF SurplusInv

LEMMA SurplusKept ==
    ASSUME SurplusAssumption, SurplusInv, [SurplusNext]_surplusVars
    PROVE  SurplusInv'
<1>1. CASE UNCHANGED surplusVars
  <2>1. UNCHANGED <<remitted, counts, exceptions, settlements, cases, credits, actions, payments, anchors>>
    BY <1>1 DEF surplusVars
  <2> QED BY <2>1 DEF SurplusInv, SurplusTables, Covered, ClosedWithoutDispute, Disputed, Held,
                      AnchorsFit
<1>2. CASE \E n \in Counts, m \in Remittances, amount \in Entered \cup {0},
              k \in Actions \cup {0}, early \in BOOLEAN : Count(n, m, amount, k, early)
  BY <1>2, CountKeeps
<1>3. CASE \E n \in Counts, amount \in Entered : Retain(n, amount)
  BY <1>3, RetainKeeps
<1>4. CASE \E n \in Counts : Accept(n)
  BY <1>4, AcceptKeeps
<1>5. CASE \E m \in Remittances : RejectRemittance(m)
  BY <1>5, RejectRemittanceKeeps
<1>6. CASE \E c \in Credits, s \in Cases, amount \in Entered : Recognize(c, s, amount)
  BY <1>6, RecognizeKeeps
<1>7. CASE \E c \in Credits : Freeze(c)
  BY <1>7, FreezeKeeps
<1>8. CASE \E w \in Collectors, kind \in {"credit", "pending_excess"}, amount \in Entered :
              PrepareAnchor(w, kind, amount)
  BY <1>8, PrepareAnchorKeeps
<1>9. CASE \E w \in Collectors, c \in Credits : ActivateAnchor(w, c)
  BY <1>9, ActivateAnchorKeeps
<1>10. CASE \E k \in Actions, kind \in {"return", "application"}, c \in Credits,
               m \in Remittances \cup {0}, amount \in Entered : Request(k, kind, c, m, amount)
  BY <1>10, RequestKeeps
<1>11. CASE \E k \in Actions : PrepareReturn(k)
  BY <1>11, PrepareReturnKeeps
<1>12. CASE \E k \in Actions : PrepareApplication(k)
  BY <1>12, PrepareApplicationKeeps
<1>13. CASE \E k \in Actions, n \in Counts, amount \in Entered : PrepareExceptionReturn(k, n, amount)
  BY <1>13, PrepareExceptionReturnKeeps
<1>14. CASE \E k \in Actions : Cancel(k)
  BY <1>14, CancelKeeps
<1>15. CASE \E k \in Actions, e \in Refs, amount \in Entered : Pay(k, e, amount)
  BY <1>15, PayKeeps
<1>16. CASE \E e \in Refs : Correct(e)
  BY <1>16, CorrectKeeps
<1>17. CASE \E k \in Actions, answer \in {"received", "not_received"} : Acknowledge(k, answer)
  BY <1>17, AcknowledgeKeeps
<1>18. CASE \E k \in Actions : Settle(k)
  BY <1>18, SettleKeeps
<1>19. CASE \E k \in Actions, amount \in Entered : ReverseReturn(k, amount)
  BY <1>19, ReverseReturnKeeps
<1> QED BY <1>1, <1>2, <1>3, <1>4, <1>5, <1>6, <1>7, <1>8, <1>9, <1>10, <1>11, <1>12, <1>13,
           <1>14, <1>15, <1>16, <1>17, <1>18, <1>19 DEF SurplusNext

-----------------------------------------------------------------------------
(* What the invariant says.                                                *)

LEMMA InvIsTyped ==
    ASSUME SurplusAssumption, SurplusInv
    PROVE  SurplusTypeOK
<1>1. SurplusTables /\ RoomIsLeft(credits, exceptions) /\ Capacity(actions, credits, exceptions)
  BY DEF SurplusInv
<1>2. ASSUME NEW c \in Credits
      PROVE  /\ Available(c) >= 0
             /\ {credits[c].reserved, credits[c].returned, credits[c].applied} \subseteq Nat
  <2>1. credits[c].reserved \in Nat /\ credits[c].returned \in Nat /\ credits[c].applied \in Nat
    <3>1. /\ AllReserved(actions, c) \in Nat /\ AllReturned(actions, c) \in Nat
          /\ AllApplied(actions, c) \in Nat
      BY TotalsAreNat DEF SurplusInv, SurplusTables
    <3> QED BY <1>1, <3>1 DEF Capacity
  <2>2. Available(c) >= 0
    BY <1>1 DEF RoomIsLeft, Available, Outstanding
  <2> QED BY <2>1, <2>2
<1>3. ASSUME NEW n \in Counts
      PROVE  Held(n) >= exceptions[n].reserved /\ exceptions[n].reserved >= 0
  <2>1. exceptions[n].reserved \in Nat
    <3>1. AllHeld(actions, n) \in Nat
      BY TotalsAreNat DEF SurplusInv, SurplusTables
    <3> QED BY <1>1, <3>1 DEF Capacity
  <2> QED BY <1>1, <2>1 DEF RoomIsLeft, Held
<1>4. ASSUME NEW k \in Actions PROVE actions[k].reversed \in 0 .. actions[k].amount
  <2>1. actions[k] \in ActionRow /\ ActionFits(actions[k])
    BY <1>1 DEF SurplusInv, SurplusTables
  <2> QED BY <2>1 DEF ActionRow, ActionFits
<1>5. (\A s \in Cases : cases[s] \in Nat) /\ remitted \in [Remittances -> {"submitted", "received", "rejected"}]
  BY <1>1 DEF SurplusTables
<1> QED BY <1>2, <1>3, <1>4, <1>5 DEF SurplusTypeOK

LEMMA ColumnsAreSums ==
    ASSUME SurplusAssumption, SurplusInv
    PROVE  CapacityFollowsActions
<1>1. /\ IsFiniteSet(Actions)
      /\ \A k \in Actions : /\ actions[k].amount \in Nat /\ actions[k].reversed \in Nat
                            /\ actions[k].amount - actions[k].reversed \in Int
  <2>1. \A k \in Actions : actions[k] \in ActionRow
    BY DEF SurplusInv, SurplusTables
  <2> QED BY <2>1 DEF ActionRow, SurplusAssumption
<1>2. ASSUME NEW t
      PROVE  /\ AllReserved(actions, t) =
                  Sum(LAMBDA k : actions[k].amount, On(t, {"return", "application"}, Pending))
             /\ AllReturned(actions, t) =
                  Sum(LAMBDA k : actions[k].amount - actions[k].reversed, On(t, {"return"}, Paid))
             /\ AllApplied(actions, t) =
                  Sum(LAMBDA k : actions[k].amount, On(t, {"application"}, {"applied"}))
             /\ AllHeld(actions, t) =
                  Sum(LAMBDA k : actions[k].amount, On(t, {"exception_return"}, Pending))
             /\ AllGivenBack(actions, t) =
                  Sum(LAMBDA k : actions[k].amount, On(t, {"exception_return"}, {"paid"}))
  <2>1. AllReserved(actions, t) = Sum(LAMBDA k : actions[k].amount, On(t, {"return", "application"}, Pending))
    <3>1. PICK f, g, S : /\ f = [k \in Actions |-> actions[k].amount]
                         /\ g = [k \in Actions |-> Reserves(actions[k], t)]
                         /\ S = On(t, {"return", "application"}, Pending)
      OBVIOUS
    <3>2. S \in SUBSET Actions
      BY <3>1 DEF On
    <3>3. \A k \in S : f[k] \in Int /\ g[k] = f[k]
      BY <1>1, <3>1 DEF On, Reserves
    <3>4. \A k \in Actions \ S : g[k] = 0
      BY <3>1 DEF On, Reserves
    <3>5. SumOf(f, S) = SumOf(g, Actions)
      BY <1>1, <3>2, <3>3, <3>4, SumOfChosen
    <3>6. Sum(LAMBDA k : actions[k].amount, S) = SumOf(f, S)
      BY <3>1, <3>2, ActionSum
    <3> QED BY <3>1, <3>5, <3>6 DEF AllReserved
  <2>2. AllReturned(actions, t) = Sum(LAMBDA k : actions[k].amount - actions[k].reversed, On(t, {"return"}, Paid))
    <3>1. PICK f, g, S : /\ f = [k \in Actions |-> actions[k].amount - actions[k].reversed]
                         /\ g = [k \in Actions |-> Returns(actions[k], t)]
                         /\ S = On(t, {"return"}, Paid)
      OBVIOUS
    <3>2. S \in SUBSET Actions
      BY <3>1 DEF On
    <3>3. \A k \in S : f[k] \in Int /\ g[k] = f[k]
      BY <1>1, <3>1 DEF On, Returns
    <3>4. \A k \in Actions \ S : g[k] = 0
      BY <3>1 DEF On, Returns
    <3>5. SumOf(f, S) = SumOf(g, Actions)
      BY <1>1, <3>2, <3>3, <3>4, SumOfChosen
    <3>6. Sum(LAMBDA k : actions[k].amount - actions[k].reversed, S) = SumOf(f, S)
      BY <3>1, <3>2, KeptSum
    <3> QED BY <3>1, <3>5, <3>6 DEF AllReturned
  <2>3. AllApplied(actions, t) = Sum(LAMBDA k : actions[k].amount, On(t, {"application"}, {"applied"}))
    <3>1. PICK f, g, S : /\ f = [k \in Actions |-> actions[k].amount]
                         /\ g = [k \in Actions |-> Applies(actions[k], t)]
                         /\ S = On(t, {"application"}, {"applied"})
      OBVIOUS
    <3>2. S \in SUBSET Actions
      BY <3>1 DEF On
    <3>3. \A k \in S : f[k] \in Int /\ g[k] = f[k]
      BY <1>1, <3>1 DEF On, Applies
    <3>4. \A k \in Actions \ S : g[k] = 0
      BY <3>1 DEF On, Applies
    <3>5. SumOf(f, S) = SumOf(g, Actions)
      BY <1>1, <3>2, <3>3, <3>4, SumOfChosen
    <3>6. Sum(LAMBDA k : actions[k].amount, S) = SumOf(f, S)
      BY <3>1, <3>2, ActionSum
    <3> QED BY <3>1, <3>5, <3>6 DEF AllApplied
  <2>4. AllHeld(actions, t) = Sum(LAMBDA k : actions[k].amount, On(t, {"exception_return"}, Pending))
    <3>1. PICK f, g, S : /\ f = [k \in Actions |-> actions[k].amount]
                         /\ g = [k \in Actions |-> Holds(actions[k], t)]
                         /\ S = On(t, {"exception_return"}, Pending)
      OBVIOUS
    <3>2. S \in SUBSET Actions
      BY <3>1 DEF On
    <3>3. \A k \in S : f[k] \in Int /\ g[k] = f[k]
      BY <1>1, <3>1 DEF On, Holds
    <3>4. \A k \in Actions \ S : g[k] = 0
      BY <3>1 DEF On, Holds
    <3>5. SumOf(f, S) = SumOf(g, Actions)
      BY <1>1, <3>2, <3>3, <3>4, SumOfChosen
    <3>6. Sum(LAMBDA k : actions[k].amount, S) = SumOf(f, S)
      BY <3>1, <3>2, ActionSum
    <3> QED BY <3>1, <3>5, <3>6 DEF AllHeld
  <2>5. AllGivenBack(actions, t) = Sum(LAMBDA k : actions[k].amount, On(t, {"exception_return"}, {"paid"}))
    <3>1. PICK f, g, S : /\ f = [k \in Actions |-> actions[k].amount]
                         /\ g = [k \in Actions |-> GivesBack(actions[k], t)]
                         /\ S = On(t, {"exception_return"}, {"paid"})
      OBVIOUS
    <3>2. S \in SUBSET Actions
      BY <3>1 DEF On
    <3>3. \A k \in S : f[k] \in Int /\ g[k] = f[k]
      BY <1>1, <3>1 DEF On, GivesBack
    <3>4. \A k \in Actions \ S : g[k] = 0
      BY <3>1 DEF On, GivesBack
    <3>5. SumOf(f, S) = SumOf(g, Actions)
      BY <1>1, <3>2, <3>3, <3>4, SumOfChosen
    <3>6. Sum(LAMBDA k : actions[k].amount, S) = SumOf(f, S)
      BY <3>1, <3>2, ActionSum
    <3> QED BY <3>1, <3>5, <3>6 DEF AllGivenBack
  <2> QED BY <2>1, <2>2, <2>3, <2>4, <2>5
<1>3. Capacity(actions, credits, exceptions)
  BY DEF SurplusInv
<1> QED BY <1>2, <1>3 DEF Capacity, CapacityFollowsActions

LEMMA RecognizedSum ==
    ASSUME SurplusAssumption, SurplusTables, NEW s
    PROVE  AllRecognized(credits, s)
             = Sum(LAMBDA c : credits[c].recognized, {c \in Credits : credits[c].case = s})
<1>1. PICK f, g, S : /\ f = [c \in Credits |-> credits[c].recognized]
                     /\ g = [c \in Credits |-> Recognizes(credits[c], s)]
                     /\ S = {c \in Credits : credits[c].case = s}
  OBVIOUS
<1>2. S \in SUBSET Credits /\ IsFiniteSet(Credits)
  BY <1>1 DEF SurplusAssumption
<1>3. \A c \in Credits : credits[c].recognized \in Nat
  BY DEF SurplusTables, CreditRow
<1>4. (\A c \in S : f[c] \in Int /\ g[c] = f[c]) /\ \A c \in Credits \ S : g[c] = 0
  BY <1>1, <1>3 DEF Recognizes
<1>5. SumOf(f, S) = SumOf(g, Credits)
  BY <1>2, <1>4, SumOfChosen
<1>6. Sum(LAMBDA c : credits[c].recognized, S) = SumOf(f, S)
  BY <1>1, <1>2, CreditSum
<1> QED BY <1>1, <1>5, <1>6 DEF AllRecognized

LEMMA SettledSum ==
    ASSUME SurplusAssumption, SurplusTables, NEW m
    PROVE  AllSettled(actions, m)
             = Sum(LAMBDA k : actions[k].amount,
                   {k \in Actions : actions[k].status = "applied" /\ actions[k].remittance = m})
<1>1. PICK f, g, S :
        /\ f = [k \in Actions |-> actions[k].amount]
        /\ g = [k \in Actions |-> Settles(actions[k], m)]
        /\ S = {k \in Actions : actions[k].status = "applied" /\ actions[k].remittance = m}
  OBVIOUS
<1>2. S \in SUBSET Actions /\ IsFiniteSet(Actions)
  BY <1>1 DEF SurplusAssumption
<1>3. \A k \in Actions : actions[k].amount \in Nat
  BY DEF SurplusTables, ActionRow
<1>4. (\A k \in S : f[k] \in Int /\ g[k] = f[k]) /\ \A k \in Actions \ S : g[k] = 0
  BY <1>1, <1>3 DEF Settles
<1>5. SumOf(f, S) = SumOf(g, Actions)
  BY <1>2, <1>4, SumOfChosen
<1>6. Sum(LAMBDA k : actions[k].amount, S) = SumOf(f, S)
  BY <1>1, <1>2, ActionSum
<1> QED BY <1>1, <1>5, <1>6 DEF AllSettled

LEMMA InvBalances ==
    ASSUME SurplusAssumption, SurplusInv
    PROVE  SurplusBalances
<1>1. SurplusTables /\ CapacityFollowsActions /\ ClosedWithoutDispute
  BY ColumnsAreSums DEF SurplusInv
<1>2. SettlementBalances
  <2> SUFFICES ASSUME NEW m \in Remittances, settlements[m] # 0
               PROVE  counts[settlements[m]].counted
                        + Sum(LAMBDA k : actions[k].amount,
                              {k \in Actions : actions[k].status = "applied" /\ actions[k].remittance = m})
                      = Gross[m] - Refund[m] + cases[m]
                        + Sum(LAMBDA c : credits[c].recognized, {c \in Credits : credits[c].case = m})
    BY DEF SettlementBalances
  <2>1. counts[settlements[m]].counted + AllSettled(actions, m)
          = Gross[m] - Refund[m] + cases[m] + AllRecognized(credits, m)
    BY DEF SurplusInv, Covered
  <2>2. AllSettled(actions, m) = Sum(LAMBDA k : actions[k].amount,
              {k \in Actions : actions[k].status = "applied" /\ actions[k].remittance = m})
    BY <1>1, SettledSum
  <2>3. AllRecognized(credits, m)
          = Sum(LAMBDA c : credits[c].recognized, {c \in Credits : credits[c].case = m})
    BY <1>1, RecognizedSum
  <2> QED BY <2>1, <2>2, <2>3
<1>3. PaidOnce
  <2> SUFFICES ASSUME NEW k \in Actions
               PROVE  /\ Cardinality(PaidFor(k)) <= 1
                      /\ actions[k].status \in {"requested", "cancelled"} => PaidFor(k) = {}
                      /\ \A e \in PaidFor(k) : payments[e].linked =>
                            /\ actions[k].payment = e /\ payments[e].amount = actions[k].amount
                            /\ actions[k].status \in {"debited"} \cup Paid
    BY DEF PaidOnce
  <2>1. k # 0 /\ PaymentsFit(payments, actions)
    BY DEF SurplusInv, SurplusAssumption
  <2>2. Cardinality(PaidFor(k)) <= 1
    <3>1. \A d, e \in PaidFor(k) : d = e
      BY <2>1 DEF PaidFor, PaymentsFit
    <3>2. CASE PaidFor(k) = {}
      BY <3>2, FS_EmptySet
    <3>3. ASSUME NEW e \in PaidFor(k) PROVE Cardinality(PaidFor(k)) <= 1
      <4>1. PaidFor(k) = {e}
        BY <3>1
      <4>2. Cardinality({e}) = 1
        BY FS_Singleton
      <4> QED BY <4>1, <4>2
    <3> QED BY <3>2, <3>3
  <2>3. ASSUME NEW e \in PaidFor(k)
        PROVE  /\ actions[k].status \notin {"none", "requested", "cancelled"}
               /\ payments[e].linked =>
                     /\ actions[k].payment = e /\ payments[e].amount = actions[k].amount
                     /\ actions[k].status \in {"debited"} \cup Paid
    BY <2>1 DEF PaidFor, PaymentsFit
  <2> QED BY <2>2, <2>3
<1>4. OpeningHoldsAnchors
  <2>1. AnchorsFit
    BY DEF SurplusInv
  <2>2. Sum(LAMBDA w : anchors[w].amount, Collectors) = SumOf(AnchorAmounts(anchors), Collectors)
    BY AnchorSum
  <2>3. ASSUME NEW w \in Collectors, anchors[w].status = "active"
        PROVE  cases[w] + Sum(LAMBDA c : credits[c].recognized, {c \in Credits : credits[c].case = w})
                 = anchors[w].amount
    <3>1. cases[w] + AllRecognized(credits, w) = anchors[w].amount
      BY <2>1, <2>3 DEF AnchorsFit
    <3> QED BY <1>1, <3>1, RecognizedSum
  <2> QED BY <2>1, <2>2, <2>3 DEF OpeningHoldsAnchors, AnchorsFit
<1> QED BY <1>1, <1>2, <1>3, <1>4 DEF SurplusBalances

\* However counts, disputed cash, returns, applications, refused payments,
\* corrections, partial reversals and opening anchors interleave, the columns of
\* every credit and of every disputed count are what their actions add up to and
\* never exceed what there is, an accepted remittance is covered by the cash
\* counted and the credit applied to it, none is closed over disputed cash, an
\* action is paid at most once and never after it was cancelled, and obligations
\* of an opening fit in its cash (collector_surplus.credit_change,
\* collector_settlement, collector_surplus_resolution.opening_capacity).
THEOREM SurplusStaysBalanced ==
    ASSUME SurplusAssumption
    PROVE  SurplusSpec => [](SurplusTypeOK /\ SurplusBalances)
<1>1. SurplusInit => SurplusInv
  BY SurplusStart
<1>2. SurplusInv /\ [SurplusNext]_surplusVars => SurplusInv'
  BY SurplusKept
<1>3. SurplusInv => SurplusTypeOK /\ SurplusBalances
  BY InvIsTyped, InvBalances
<1> QED BY <1>1, <1>2, <1>3, PTL DEF SurplusSpec
=============================================================================

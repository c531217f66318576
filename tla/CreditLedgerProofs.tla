------------------------ MODULE CreditLedgerProofs ------------------------
(***************************************************************************)
(* Proofs about CreditLedger, for any users, amounts, keys and bounds.  The *)
(* inductive invariant is TypeOK with each property: balances are natural  *)
(* numbers because deduct_credits carries its own balance condition.       *)
(* At the end, what the proofs of other modules need too: sums over finite  *)
(* sets of any size.                                                        *)
(***************************************************************************)
EXTENDS CreditLedger, Functions, TLAPS, SequenceTheorems, FiniteSetTheorems, NaturalsInduction,
        WellFoundedInduction

---------------------------------------------------------------------------
(* Posting: what sign-up, add_credits and deduct_credits have in common *)

\* What a row of user_credits holds that was not purchased: the welcome bonus
Surplus(row) == row.balance - row.lifetime_purchased + row.lifetime_used

\* u's balance moves to new by one ledger row r that says so, under a fresh key
Post(u, new, r) ==
    /\ accounts' = accounts \cup {u}
    /\ new \in CreditRow
    /\ r \in LedgerRow
    /\ r.user = u
    /\ r.balance_after = new.balance
    /\ new.balance = BalanceOf(u) + r.amount
    /\ Surplus(new) = IF u \in accounts THEN Surplus(CreditsOf(u)) ELSE WelcomeBonus
    /\ ~KeyTaken(r.key)
    /\ credits' = WriteCredits(u, new)
    /\ ledger' = Append(ledger, r)

LEMMA AppendedRows ==
    ASSUME TypeOK, NEW r \in LedgerRow, ledger' = Append(ledger, r)
    PROVE  /\ Len(ledger) \in Nat
           /\ DOMAIN ledger = 1 .. Len(ledger)
           /\ DOMAIN ledger' = 1 .. Len(ledger) + 1
           /\ \A i \in DOMAIN ledger : ledger'[i] = ledger[i]
           /\ ledger'[Len(ledger) + 1] = r
           /\ \A i \in DOMAIN ledger : ledger[i] \in LedgerRow
  BY DEF TypeOK

LEMMA WrittenCredits ==
    ASSUME TypeOK, NEW u \in accounts', NEW new \in CreditRow, accounts \subseteq accounts',
           credits' = WriteCredits(u, new)
    PROVE  /\ DOMAIN credits' = DOMAIN credits \cup {u}
           /\ credits'[u] = new
           /\ \A v \in DOMAIN credits : v # u => credits'[v] = credits[v]
           /\ DOMAIN credits' \subseteq accounts'
           /\ credits' \in [DOMAIN credits' -> CreditRow]
  BY DEF TypeOK, WriteCredits

\* What add_credits and deduct_credits compute stays a row of user_credits
LEMMA RowTypes ==
    ASSUME TypeOK, NEW u \in Users, NEW a \in Nat
    PROVE  /\ BalanceOf(u) \in Nat
           /\ RowAfterAdd(u, a) \in CreditRow
           /\ RowAfterAdd(u, a).balance = BalanceOf(u) + a
           /\ CanDeduct(u, a) => /\ RowAfterDeduct(u, a) \in CreditRow
                                 /\ RowAfterDeduct(u, a).balance = BalanceOf(u) - a
           /\ Surplus(RowAfterAdd(u, a)) = Surplus(CreditsOf(u))
           /\ Surplus(RowAfterDeduct(u, a)) = Surplus(CreditsOf(u))
<1>1. CreditsOf(u) \in CreditRow
  BY DEF TypeOK, CreditsOf, CreditsRow, CreditRow
<1>2. CanDeduct(u, a) => BalanceOf(u) >= a
  BY DEF CanDeduct, BalanceOf, CreditsOf
<1> QED  BY <1>1, <1>2 DEF RowAfterAdd, RowAfterDeduct, CreditsRow, CreditRow, BalanceOf,
            Surplus

---------------------------------------------------------------------------
(* Every step posts, gives a user a row of zeros, or changes nothing *)

LEMMA SignUpPosts ==
    ASSUME TypeOK, LedgerAssumption, NEW u \in Users, SignUp(u)
    PROVE  Post(u, CreditsRow(WelcomeBonus, 0, 0),
                Row(u, "bonus", WelcomeBonus, WelcomeBonus, NoKey, NoRef))
<1>1. u \notin DOMAIN credits
  BY DEF TypeOK, SignUp
<1>2. BalanceOf(u) = 0
  BY <1>1 DEF BalanceOf, CreditsOf, CreditsRow
<1>3. CreditsRow(WelcomeBonus, 0, 0) \in CreditRow
  BY DEF LedgerAssumption, CreditsRow, CreditRow
<1>4. Row(u, "bonus", WelcomeBonus, WelcomeBonus, NoKey, NoRef) \in LedgerRow
  BY DEF LedgerAssumption, Row, LedgerRow, TransactionTypes
<1>5. CreditsRow(WelcomeBonus, 0, 0).balance = WelcomeBonus
  BY DEF CreditsRow
<1>6. WelcomeBonus \in Nat
  BY DEF LedgerAssumption
<1>7. Surplus(CreditsRow(WelcomeBonus, 0, 0)) = WelcomeBonus
  BY <1>6 DEF Surplus, CreditsRow
<1> QED  BY <1>2, <1>3, <1>4, <1>5, <1>6, <1>7 DEF Post, SignUp, Row, KeyTaken

LEMMA AddPosts ==
    ASSUME TypeOK, NEW u \in Users, NEW a \in Nat,
           NEW t \in TransactionTypes, NEW k \in Keys \cup {NoKey},
           NEW ref \in Refs \cup {NoRef}, AddCredits(u, a, t, k, ref), ~KeyTaken(k)
    PROVE  Post(u, RowAfterAdd(u, a), Row(u, t, a, RowAfterAdd(u, a).balance, k, ref))
<1> DEFINE new == RowAfterAdd(u, a)
<1>1. new \in CreditRow /\ new.balance = BalanceOf(u) + a
  BY RowTypes
<1>2. new.balance \in Nat /\ a \in Int
  BY <1>1 DEF CreditRow
<1> HIDE DEF new
<1>3. Row(u, t, a, new.balance, k, ref) \in LedgerRow
  BY <1>2 DEF Row, LedgerRow
<1>4. u \in accounts /\ accounts \cup {u} = accounts
  BY DEF AddCredits
<1>5. Surplus(new) = Surplus(CreditsOf(u))
  BY RowTypes DEF new
<1> QED  BY <1>1, <1>3, <1>4, <1>5 DEF Post, AddCredits, Row, new

LEMMA DeductPosts ==
    ASSUME TypeOK, NEW u \in Users, NEW a \in Nat,
           NEW ref \in Refs \cup {NoRef}, DeductCredits(u, a, ref)
    PROVE  Post(u, RowAfterDeduct(u, a),
                Row(u, "usage", 0 - a, RowAfterDeduct(u, a).balance, NoKey, ref))
<1> DEFINE new == RowAfterDeduct(u, a)
<1>1. new \in CreditRow /\ new.balance = BalanceOf(u) - a
  BY RowTypes DEF DeductCredits
<1>2. new.balance \in Nat /\ a \in Int /\ BalanceOf(u) \in Nat
  BY <1>1, RowTypes DEF CreditRow
<1> HIDE DEF new
<1>3. Row(u, "usage", 0 - a, new.balance, NoKey, ref) \in LedgerRow
  BY <1>2 DEF Row, LedgerRow, TransactionTypes
<1>4. u \in accounts /\ accounts \cup {u} = accounts
  BY DEF DeductCredits, CanDeduct, TypeOK
<1>5. new.balance = BalanceOf(u) + (0 - a)
  BY <1>1, <1>2
<1>6. Surplus(new) = Surplus(CreditsOf(u))
  BY RowTypes DEF new
<1> QED  BY <1>1, <1>3, <1>4, <1>5, <1>6 DEF Post, DeductCredits, Row, KeyTaken, new

\* One call of the ledger's functions by anyone, for any amount, or none.
Called ==
    \/ UNCHANGED ledgerVars
    \/ \E u \in Users : SignUp(u) \/ EnsureRow(u)
    \/ \E u \in Users, a \in Nat, t \in TransactionTypes, k \in Keys \cup {NoKey},
          ref \in Refs \cup {NoRef} : AddCredits(u, a, t, k, ref)
    \/ \E u \in Users, a \in Nat, ref \in Refs \cup {NoRef} : DeductCredits(u, a, ref)

LEMMA CallKinds ==
    ASSUME TypeOK, Called
    PROVE  \/ UNCHANGED ledgerVars
           \/ \E u \in Users : EnsureRow(u)
           \/ \E u \in Users : \E new, r : Post(u, new, r)
<1>1. ASSUME NEW u \in Users, SignUp(u)
      PROVE  \E new, r : Post(u, new, r)
  BY <1>1, SignUpPosts, LedgerAssumption
<1>2. ASSUME NEW u \in Users, NEW a \in Nat, NEW t \in TransactionTypes,
             NEW k \in Keys \cup {NoKey}, NEW ref \in Refs \cup {NoRef},
             AddCredits(u, a, t, k, ref)
      PROVE  UNCHANGED ledgerVars \/ \E new, r : Post(u, new, r)
  <2>1. CASE KeyTaken(k)
    BY <1>2, <2>1 DEF AddCredits
  <2>2. CASE ~KeyTaken(k)
    BY <1>2, <2>2, AddPosts
  <2> QED  BY <2>1, <2>2
<1>3. ASSUME NEW u \in Users, NEW a \in Nat, NEW ref \in Refs \cup {NoRef},
             DeductCredits(u, a, ref)
      PROVE  \E new, r : Post(u, new, r)
  BY <1>3, DeductPosts
<1> QED  BY <1>1, <1>2, <1>3 DEF Called

LEMMA StepKinds ==
    ASSUME TypeOK, LedgerAssumption, [LedgerNext]_ledgerVars
    PROVE  \/ UNCHANGED ledgerVars
           \/ \E u \in Users : EnsureRow(u)
           \/ \E u \in Users : \E new, r : Post(u, new, r)
<1>1. Amounts \subseteq Nat /\ "purchase" \in TransactionTypes
  BY DEF LedgerAssumption, TransactionTypes
<1>2. Called
  BY <1>1 DEF LedgerNext, Called
<1> QED  BY <1>2, CallKinds

---------------------------------------------------------------------------
LEMMA PostKeepsType ==
    ASSUME TypeOK, NEW u \in Users, NEW new, NEW r, Post(u, new, r)
    PROVE  TypeOK'
<1>1. accounts' \subseteq Users /\ u \in accounts' /\ accounts \subseteq accounts'
  BY DEF TypeOK, Post
<1>2. DOMAIN credits' \subseteq accounts' /\ credits' \in [DOMAIN credits' -> CreditRow]
  BY <1>1, WrittenCredits DEF Post
<1>3. ledger' \in Seq(LedgerRow)
  BY DEF TypeOK, Post
<1> QED  BY <1>1, <1>2, <1>3 DEF TypeOK

LEMMA EnsureKeepsType ==
    ASSUME TypeOK, NEW u \in Users, EnsureRow(u)
    PROVE  TypeOK'
<1>1. CreditsRow(0, 0, 0) \in CreditRow
  BY DEF CreditsRow, CreditRow
<1>2. DOMAIN credits' \subseteq accounts' /\ credits' \in [DOMAIN credits' -> CreditRow]
  BY <1>1, WrittenCredits DEF EnsureRow
<1> QED  BY <1>2 DEF TypeOK, EnsureRow

\* TypeOK holds in every reachable state; in particular a balance is a natural
\* number, so deduct_credits never overdraws.
THEOREM LedgerTypeCorrect == LedgerSpec => []TypeOK
<1>1. LedgerInit => TypeOK
  BY LedgerAssumption DEF LedgerInit, TypeOK
<1>2. TypeOK /\ [LedgerNext]_ledgerVars => TypeOK'
  <2> SUFFICES ASSUME TypeOK, [LedgerNext]_ledgerVars PROVE TypeOK'
    OBVIOUS
  <2>1. CASE UNCHANGED ledgerVars
    BY <2>1 DEF ledgerVars, TypeOK
  <2>2. CASE \E u \in Users : EnsureRow(u)
    BY <2>2, EnsureKeepsType
  <2>3. CASE \E u \in Users : \E new, r : Post(u, new, r)
    BY <2>3, PostKeepsType
  <2> QED  BY <2>1, <2>2, <2>3, StepKinds, LedgerAssumption
<1> QED  BY <1>1, <1>2, PTL DEF LedgerSpec

---------------------------------------------------------------------------
\* A key given to add_credits is spent on at most one ledger row, for any
\* number of repeats.
THEOREM LedgerKeysCreditedOnce == LedgerSpec => []KeyCreditedOnce
<1>1. LedgerInit => KeyCreditedOnce
  BY DEF LedgerInit, KeyCreditedOnce
<1>2. TypeOK /\ KeyCreditedOnce /\ [LedgerNext]_ledgerVars => KeyCreditedOnce'
  <2> SUFFICES ASSUME TypeOK, KeyCreditedOnce, [LedgerNext]_ledgerVars
               PROVE KeyCreditedOnce'
    OBVIOUS
  <2>1. CASE ledger' = ledger
    BY <2>1 DEF KeyCreditedOnce
  <2>2. ASSUME NEW u \in Users, NEW new, NEW r, Post(u, new, r)
        PROVE  KeyCreditedOnce'
    <3>1. ledger' = Append(ledger, r) /\ r \in LedgerRow
      BY <2>2 DEF Post
    <3>2. r.key = NoKey \/ \A i \in DOMAIN ledger : ledger[i].key # r.key
      BY <2>2 DEF Post, KeyTaken
    <3> QED  BY <3>1, <3>2, AppendedRows DEF KeyCreditedOnce
  <2> QED  BY <2>1, <2>2, StepKinds, LedgerAssumption DEF EnsureRow, ledgerVars
<1> QED  BY <1>1, <1>2, LedgerTypeCorrect, PTL DEF LedgerSpec

---------------------------------------------------------------------------
(* The audit trail *)

LEMMA PostKeepsTrail ==
    ASSUME TypeOK, AuditTrail, NEW u \in Users, NEW new, NEW r, Post(u, new, r)
    PROVE  AuditTrail'
<1> DEFINE n == Len(ledger) + 1
<1>1. /\ Len(ledger) \in Nat
      /\ DOMAIN ledger = 1 .. Len(ledger)
      /\ DOMAIN ledger' = 1 .. n
      /\ \A i \in DOMAIN ledger : ledger'[i] = ledger[i]
      /\ ledger'[n] = r
  BY AppendedRows DEF Post
<1>2. /\ DOMAIN credits' = DOMAIN credits \cup {u}
      /\ credits'[u] = new
      /\ \A v \in DOMAIN credits : v # u => credits'[v] = credits[v]
  <2>1. u \in accounts' /\ accounts \subseteq accounts'
    BY DEF Post
  <2> QED  BY <2>1, WrittenCredits DEF Post
<1>3. r.user = u /\ r.balance_after = new.balance /\ new.balance = BalanceOf(u) + r.amount
      /\ r.amount \in Int
  BY DEF Post, LedgerRow
<1>4. ASSUME NEW j \in DOMAIN ledger', IsFirst(j)'
      PROVE  ledger'[j].balance_after = ledger'[j].amount
  <2>1. CASE j = n
    <3>1. \A i \in DOMAIN ledger : ledger[i].user # u
      BY <1>1, <1>3, <1>4, <2>1 DEF IsFirst
    <3>2. BalanceOf(u) = 0
      BY <3>1 DEF AuditTrail, BalanceOf, CreditsOf, CreditsRow
    <3> QED  BY <1>1, <1>3, <2>1, <3>2
  <2>2. CASE j # n
    <3>1. j \in DOMAIN ledger
      BY <1>1, <2>2
    <3>2. IsFirst(j)
      BY <1>1, <1>4, <3>1 DEF IsFirst
    <3> QED  BY <1>1, <3>1, <3>2 DEF AuditTrail
  <2> QED  BY <2>1, <2>2
<1>5. ASSUME NEW i \in DOMAIN ledger', NEW j \in DOMAIN ledger', Consecutive(i, j)'
      PROVE  ledger'[j].balance_after = ledger'[i].balance_after + ledger'[j].amount
  <2>1. i \in DOMAIN ledger
    BY <1>1, <1>5 DEF Consecutive
  <2>2. CASE j = n
    <3>1. ledger[i].user = u /\ IsLast(i)
      BY <1>1, <1>3, <1>5, <2>1, <2>2 DEF Consecutive, IsLast
    <3>2. u \in DOMAIN credits /\ BalanceOf(u) = ledger[i].balance_after
      BY <2>1, <3>1 DEF AuditTrail, BalanceOf, CreditsOf
    <3> QED  BY <1>1, <1>3, <2>1, <2>2, <3>2
  <2>3. CASE j # n
    <3>1. j \in DOMAIN ledger
      BY <1>1, <2>3
    <3>2. Consecutive(i, j)
      BY <1>1, <1>5, <2>1, <3>1 DEF Consecutive
    <3> QED  BY <1>1, <2>1, <3>1, <3>2 DEF AuditTrail
  <2> QED  BY <2>2, <2>3
<1>6. ASSUME NEW i \in DOMAIN ledger', IsLast(i)'
      PROVE  /\ ledger'[i].user \in DOMAIN credits'
             /\ credits'[ledger'[i].user].balance = ledger'[i].balance_after
  <2>1. CASE i = n
    BY <1>1, <1>2, <1>3, <2>1
  <2>2. CASE i # n
    <3>1. i \in DOMAIN ledger
      BY <1>1, <2>2
    <3>2. IsLast(i) /\ ledger[i].user # u
      BY <1>1, <1>3, <1>6, <3>1 DEF IsLast
    <3> QED  BY <1>1, <1>2, <3>1, <3>2 DEF AuditTrail
  <2> QED  BY <2>1, <2>2
<1>7. ASSUME NEW v \in DOMAIN credits', \A i \in DOMAIN ledger' : ledger'[i].user # v
      PROVE  credits'[v].balance = 0
  <2>1. v # u
    BY <1>1, <1>3, <1>7
  <2>2. v \in DOMAIN credits /\ \A i \in DOMAIN ledger : ledger[i].user # v
    BY <1>1, <1>2, <1>7, <2>1
  <2> QED  BY <1>2, <2>1, <2>2 DEF AuditTrail
<1> HIDE DEF n
<1> QED  BY <1>4, <1>5, <1>6, <1>7 DEF AuditTrail

LEMMA EnsureKeepsTrail ==
    ASSUME TypeOK, AuditTrail, NEW u \in Users, EnsureRow(u)
    PROVE  AuditTrail'
<1>1. CreditsRow(0, 0, 0) \in CreditRow /\ CreditsRow(0, 0, 0).balance = 0
  BY DEF CreditsRow, CreditRow
<1>2. /\ DOMAIN credits' = DOMAIN credits \cup {u}
      /\ credits'[u] = CreditsRow(0, 0, 0)
      /\ \A v \in DOMAIN credits : v # u => credits'[v] = credits[v]
      /\ ledger' = ledger
      /\ u \notin DOMAIN credits
  BY <1>1, WrittenCredits DEF EnsureRow
<1> QED  BY <1>1, <1>2 DEF AuditTrail, IsFirst, IsLast, Consecutive

\* The ledger explains every balance, whatever the interleaving of the callers.
THEOREM LedgerAuditTrail == LedgerSpec => []AuditTrail
<1>1. LedgerInit => AuditTrail
  BY DEF LedgerInit, AuditTrail
<1>2. TypeOK /\ AuditTrail /\ [LedgerNext]_ledgerVars => AuditTrail'
  <2> SUFFICES ASSUME TypeOK, AuditTrail, [LedgerNext]_ledgerVars PROVE AuditTrail'
    OBVIOUS
  <2>1. CASE UNCHANGED ledgerVars
    BY <2>1 DEF ledgerVars, AuditTrail, IsFirst, IsLast, Consecutive
  <2>2. CASE \E u \in Users : EnsureRow(u)
    BY <2>2, EnsureKeepsTrail
  <2>3. CASE \E u \in Users : \E new, r : Post(u, new, r)
    BY <2>3, PostKeepsTrail
  <2> QED  BY <2>1, <2>2, <2>3, StepKinds, LedgerAssumption
<1> QED  BY <1>1, <1>2, LedgerTypeCorrect, PTL DEF LedgerSpec

---------------------------------------------------------------------------
(* Conservation.  It is not inductive by itself: a user without a row could *)
(* be one the bonus is owed to.  The strengthening says that only accounts  *)
(* older than the trigger lack a row, and that they never sign up again.    *)

ConservationInv ==
    /\ LegacyUsers \subseteq accounts
    /\ accounts \ DOMAIN credits \subseteq LegacyUsers
    /\ Conservation

LEMMA ConservationBySurplus ==
    ASSUME TypeOK, LedgerAssumption
    PROVE  Conservation <=>
             \A u \in DOMAIN credits :
                Surplus(credits[u]) = IF HasBonus(u) THEN WelcomeBonus ELSE 0
<1>1. \A u \in DOMAIN credits : credits[u] \in CreditRow
  BY DEF TypeOK
<1>2. WelcomeBonus \in Nat
  BY DEF LedgerAssumption
<1>3. ASSUME NEW u \in DOMAIN credits, NEW w \in Nat
      PROVE  (credits[u].balance = w + credits[u].lifetime_purchased
                                     - credits[u].lifetime_used)
             <=> Surplus(credits[u]) = w
  BY <1>1 DEF CreditRow, Surplus
<1> QED  BY <1>2, <1>3 DEF Conservation

LEMMA PostKeepsConservation ==
    ASSUME TypeOK, LedgerAssumption, ConservationInv,
           NEW u \in Users, NEW new, NEW r, Post(u, new, r)
    PROVE  ConservationInv'
<1>1. /\ DOMAIN credits' = DOMAIN credits \cup {u}
      /\ credits'[u] = new
      /\ \A v \in DOMAIN credits : v # u => credits'[v] = credits[v]
      /\ accounts' = accounts \cup {u}
  <2>1. u \in accounts' /\ accounts \subseteq accounts'
    BY DEF Post
  <2> QED  BY <2>1, WrittenCredits DEF Post
<1>2. Surplus(new) = IF HasBonus(u)' THEN WelcomeBonus ELSE 0
  <2>1. CASE u \notin accounts
    BY <1>1, <2>1 DEF Post, ConservationInv, HasBonus
  <2>2. CASE u \in DOMAIN credits
    BY <1>1, <2>2, ConservationBySurplus
    DEF Post, ConservationInv, HasBonus, CreditsOf, TypeOK
  <2>3. CASE u \in accounts \ DOMAIN credits
    <3>1. Surplus(CreditsOf(u)) = 0
      BY <2>3 DEF CreditsOf, CreditsRow, Surplus
    <3> QED  BY <1>1, <2>3, <3>1 DEF Post, ConservationInv, HasBonus
  <2> QED  BY <2>1, <2>2, <2>3
<1>3. ASSUME NEW v \in DOMAIN credits, v # u
      PROVE  Surplus(credits'[v]) = IF HasBonus(v)' THEN WelcomeBonus ELSE 0
  <2>1. v \in accounts
    BY DEF TypeOK
  <2> QED  BY <1>1, <1>3, <2>1, ConservationBySurplus DEF ConservationInv, HasBonus
<1>4. TypeOK'
  BY PostKeepsType
<1>5. Conservation' <=>
         \A v \in DOMAIN credits' :
            Surplus(credits'[v]) = IF HasBonus(v)' THEN WelcomeBonus ELSE 0
  <2>1. \A v \in DOMAIN credits' : credits'[v] \in CreditRow
    BY <1>4 DEF TypeOK
  <2>2. WelcomeBonus \in Nat
    BY DEF LedgerAssumption
  <2>3. ASSUME NEW v \in DOMAIN credits', NEW w \in Nat
        PROVE  (credits'[v].balance = w + credits'[v].lifetime_purchased
                                        - credits'[v].lifetime_used)
               <=> Surplus(credits'[v]) = w
    BY <2>1 DEF CreditRow, Surplus
  <2> QED  BY <2>2, <2>3 DEF Conservation
<1>6. Conservation'
  BY <1>1, <1>2, <1>3, <1>5
<1> QED  BY <1>1, <1>6 DEF ConservationInv

LEMMA EnsureKeepsConservation ==
    ASSUME TypeOK, LedgerAssumption, ConservationInv, NEW u \in Users, EnsureRow(u)
    PROVE  ConservationInv'
<1>1. CreditsRow(0, 0, 0) \in CreditRow
  BY DEF CreditsRow, CreditRow
<1>2. /\ DOMAIN credits' = DOMAIN credits \cup {u}
      /\ credits'[u] = CreditsRow(0, 0, 0)
      /\ \A v \in DOMAIN credits : v # u => credits'[v] = credits[v]
      /\ accounts' = accounts
      /\ u \notin DOMAIN credits /\ u \in accounts
  BY <1>1, WrittenCredits DEF EnsureRow
<1>3. ~HasBonus(u)
  BY <1>2 DEF ConservationInv, HasBonus
<1>4. Conservation'
  BY <1>2, <1>3 DEF ConservationInv, Conservation, HasBonus, CreditsRow
<1> QED  BY <1>2, <1>4 DEF ConservationInv

\* A balance is what was given and bought less what was used, for any number of
\* users and calls.
THEOREM LedgerConservation == LedgerSpec => []Conservation
<1>1. LedgerInit => ConservationInv
  BY DEF LedgerInit, ConservationInv, Conservation
<1>2. TypeOK /\ ConservationInv /\ [LedgerNext]_ledgerVars => ConservationInv'
  <2> SUFFICES ASSUME TypeOK, ConservationInv, [LedgerNext]_ledgerVars
               PROVE ConservationInv'
    OBVIOUS
  <2>1. CASE UNCHANGED ledgerVars
    BY <2>1 DEF ledgerVars, ConservationInv, Conservation, HasBonus
  <2>2. CASE \E u \in Users : EnsureRow(u)
    BY <2>2, LedgerAssumption, EnsureKeepsConservation
  <2>3. CASE \E u \in Users : \E new, r : Post(u, new, r)
    BY <2>3, LedgerAssumption, PostKeepsConservation
  <2> QED  BY <2>1, <2>2, <2>3, StepKinds, LedgerAssumption
<1>3. ConservationInv => Conservation
  BY DEF ConservationInv
<1> QED  BY <1>1, <1>2, <1>3, LedgerTypeCorrect, PTL DEF LedgerSpec

---------------------------------------------------------------------------
(* The books, for the modules whose handlers call the ledger's functions *)

BooksInv == TypeOK /\ AuditTrail /\ ConservationInv

LEMMA BooksOpen == LedgerInit => BooksInv
  BY LedgerAssumption DEF LedgerInit, BooksInv, TypeOK, AuditTrail, ConservationInv, Conservation

LEMMA CallsKeepBooks ==
    ASSUME BooksInv, Called
    PROVE  BooksInv'
<1>1. TypeOK /\ AuditTrail /\ ConservationInv
  BY DEF BooksInv
<1>2. CASE UNCHANGED ledgerVars
  BY <1>1, <1>2 DEF ledgerVars, BooksInv, TypeOK, AuditTrail, IsFirst, IsLast, Consecutive,
                    ConservationInv, Conservation, HasBonus
<1>3. CASE \E u \in Users : EnsureRow(u)
  BY <1>1, <1>3, LedgerAssumption, EnsureKeepsType, EnsureKeepsTrail, EnsureKeepsConservation
     DEF BooksInv
<1>4. CASE \E u \in Users : \E new, r : Post(u, new, r)
  BY <1>1, <1>4, LedgerAssumption, PostKeepsType, PostKeepsTrail, PostKeepsConservation
     DEF BooksInv
<1> QED  BY <1>1, <1>2, <1>3, <1>4, CallKinds

---------------------------------------------------------------------------
(* What moves the ledger keeps it well typed, and appends one row; for the   *)
(* modules whose amounts are their own                                       *)

\* The ledger grows by the row r, and is well typed.
Grows(r) == TypeOK' /\ ledger' = Append(ledger, r)

LEMMA DebitGrows ==
    ASSUME TypeOK, NEW u \in Users, NEW a \in Nat, NEW ref \in Refs \cup {NoRef},
           DeductCredits(u, a, ref)
    PROVE  \E b : Grows(Row(u, "usage", 0 - a, b, NoKey, ref))
<1> DEFINE new == RowAfterDeduct(u, a)
           row == Row(u, "usage", 0 - a, new.balance, NoKey, ref)
<1>1. u \in DOMAIN credits /\ credits[u] \in CreditRow /\ credits[u].balance >= a
  BY DEF TypeOK, DeductCredits, CanDeduct
<1>2. new \in CreditRow /\ new.balance \in Nat
  BY <1>1 DEF RowAfterDeduct, CreditsOf, CreditsRow, CreditRow
<1>3. accounts' = accounts /\ credits' = WriteCredits(u, new) /\ ledger' = Append(ledger, row)
  BY DEF DeductCredits
<1> HIDE DEF new
<1>4. row \in LedgerRow
  BY <1>2 DEF Row, LedgerRow, TransactionTypes
<1>5. u \in accounts'
  BY <1>1, <1>3 DEF TypeOK
<1>6. DOMAIN credits' \subseteq accounts' /\ credits' \in [DOMAIN credits' -> CreditRow]
  BY <1>2, <1>3, <1>5, WrittenCredits
<1>7. ledger' \in Seq(LedgerRow)
  BY <1>3, <1>4 DEF TypeOK
<1> QED  BY <1>3, <1>6, <1>7 DEF Grows, TypeOK

LEMMA PurchaseGrows ==
    ASSUME TypeOK, NEW u \in Users, NEW a \in Nat \ {0}, NEW k \in Keys \cup {NoKey},
           NEW ref \in Refs,
           AddCredits(u, a, "purchase", k, ref), ~KeyTaken(k)
    PROVE  \E b : Grows(Row(u, "purchase", a, b, k, ref))
<1> DEFINE new == RowAfterAdd(u, a)
           row == Row(u, "purchase", a, new.balance, k, ref)
<1>1. CreditsOf(u) \in CreditRow
  BY DEF TypeOK, CreditsOf, CreditsRow, CreditRow
<1>2. new \in CreditRow /\ new.balance \in Nat
  BY <1>1 DEF RowAfterAdd, CreditsRow, CreditRow
<1>3. /\ accounts' = accounts /\ credits' = WriteCredits(u, new) /\ ledger' = Append(ledger, row)
      /\ u \in accounts'
  BY DEF AddCredits
<1> HIDE DEF new
<1>4. row \in LedgerRow
  BY <1>2 DEF Row, LedgerRow, TransactionTypes
<1>5. DOMAIN credits' \subseteq accounts' /\ credits' \in [DOMAIN credits' -> CreditRow]
  BY <1>2, <1>3, WrittenCredits
<1>6. ledger' \in Seq(LedgerRow)
  BY <1>3, <1>4 DEF TypeOK
<1> QED  BY <1>3, <1>5, <1>6 DEF Grows, TypeOK

LEMMA SignUpGrows ==
    ASSUME TypeOK, NEW u \in Users, SignUp(u)
    PROVE  Grows(Row(u, "bonus", WelcomeBonus, WelcomeBonus, NoKey, NoRef))
<1> DEFINE new == CreditsRow(WelcomeBonus, 0, 0)
           row == Row(u, "bonus", WelcomeBonus, WelcomeBonus, NoKey, NoRef)
<1>1. new \in CreditRow /\ row \in LedgerRow
  BY LedgerAssumption DEF LedgerAssumption, CreditsRow, CreditRow, Row, LedgerRow, TransactionTypes
<1>2. accounts' = accounts \cup {u} /\ credits' = WriteCredits(u, new) /\ ledger' = Append(ledger, row)
  BY DEF SignUp
<1> HIDE DEF new, row
<1>3. DOMAIN credits' \subseteq accounts' /\ credits' \in [DOMAIN credits' -> CreditRow]
  BY <1>1, <1>2, WrittenCredits
<1>4. ledger' \in Seq(LedgerRow) /\ accounts' \subseteq Users
  BY <1>1, <1>2 DEF TypeOK
<1> QED  BY <1>2, <1>3, <1>4 DEF Grows, TypeOK, row

LEMMA GrownRows ==
    ASSUME TypeOK, NEW r, Grows(r)
    PROVE  /\ Len(ledger) \in Nat /\ DOMAIN ledger = 1 .. Len(ledger)
           /\ DOMAIN ledger' = 1 .. Len(ledger) + 1
           /\ \A i \in DOMAIN ledger : ledger'[i] = ledger[i]
           /\ ledger'[Len(ledger) + 1] = r
           /\ \A i \in DOMAIN ledger' : i \in DOMAIN ledger \/ i = Len(ledger) + 1
<1>1. ledger \in Seq(LedgerRow \cup {r}) /\ ledger' = Append(ledger, r)
  <2>1. ledger \in Seq(LedgerRow) /\ \A i \in 1 .. Len(ledger) : ledger[i] \in LedgerRow \cup {r}
    BY DEF TypeOK
  <2> QED  BY <2>1 DEF Grows
<1> QED  BY <1>1
---------------------------------------------------------------------------
(* Sums over finite sets, of any size.  What an induction on the size of a set would show is
   shown of a smallest set for which it fails. *)

\* Of some numbers, one is the least.
LEMMA LeastNumber ==
    ASSUME NEW S \in SUBSET Nat, S # {}
    PROVE  \E n \in S : \A m \in S : n <= m
<1> DEFINE R == OpToRel(<, Nat)
<1>1. IsWellFoundedOn(R, Nat)
  BY NatLessThanWellFounded
<1>2. \E n \in S : \A m \in S : ~(<<m, n>> \in R)
  BY <1>1, WFMin
<1>3. PICK n \in S : \A m \in S : ~(<<m, n>> \in R)
  BY <1>2
<1>4. \A m \in S : ~(m < n)
  BY <1>3 DEF OpToRel
<1> QED  BY <1>4

\* Of some finite sets, one has the fewest members
LEMMA LeastSet ==
    ASSUME NEW P, P # {}, \A T \in P : IsFiniteSet(T)
    PROVE  \E T \in P : \A U \in P : Cardinality(T) <= Cardinality(U)
<1> DEFINE N == {Cardinality(T) : T \in P}
<1>1. N \in SUBSET Nat /\ N # {}
  BY FS_CardinalityType
<1>2. PICK n \in N : \A m \in N : n <= m
  BY <1>1, LeastNumber
<1> QED  BY <1>2

\* Removing a member
LEMMA OneLess ==
    ASSUME NEW T, IsFiniteSet(T), NEW x \in T
    PROVE  /\ IsFiniteSet(T \ {x}) /\ Cardinality(T \ {x}) < Cardinality(T)
           /\ Cardinality(T) \in Nat /\ Cardinality(T \ {x}) \in Nat
           /\ ~(Cardinality(T) <= Cardinality(T \ {x}))
BY FS_RemoveElement, FS_CardinalityType

\* The functions SumFunctionOnSet chooses from: the sum of f over every subset of S.
IsSums(s, f, S) ==
    s = [T \in SUBSET S |-> IF T = {} THEN 0
                            ELSE LET x == CHOOSE x \in T : TRUE IN f[x] + s[T \ {x}]]

One(T) == CHOOSE x \in T : TRUE

LEMMA OneIsIn == \A T : T # {} => One(T) \in T
BY DEF One

LEMMA SumsAre ==
    ASSUME NEW s, NEW f, NEW S
    PROVE  IsSums(s, f, S) <=>
              s = [T \in SUBSET S |-> IF T = {} THEN 0 ELSE f[One(T)] + s[T \ {One(T)}]]
BY DEF IsSums, One

LEMMA SumIsChosen ==
    ASSUME NEW f, NEW S
    PROVE  SumFunctionOnSet(f, S) = (CHOOSE s : IsSums(s, f, S))[S]
BY DEF SumFunctionOnSet, FoldFunctionOnSet, MapThenFoldSet, IsSums

\* There is one such function at most, ...
LEMMA SumsAreUnique ==
    ASSUME NEW f, NEW S, IsFiniteSet(S), NEW s, NEW t, IsSums(s, f, S), IsSums(t, f, S)
    PROVE  s = t
<1>1. /\ s = [T \in SUBSET S |-> IF T = {} THEN 0 ELSE f[One(T)] + s[T \ {One(T)}]]
      /\ t = [T \in SUBSET S |-> IF T = {} THEN 0 ELSE f[One(T)] + t[T \ {One(T)}]]
  BY SumsAre
<1> DEFINE P == {T \in SUBSET S : s[T] # t[T]}
<1>2. SUFFICES ASSUME P # {} PROVE FALSE
  BY <1>1
<1>3. \A T \in P : IsFiniteSet(T)
  BY FS_Subset
<1>4. PICK T \in P : \A U \in P : Cardinality(T) <= Cardinality(U)
  BY <1>2, <1>3, LeastSet
<1>5. T # {} /\ One(T) \in T
  <2>1. T # {}
    BY <1>1
  <2> QED  BY <2>1, OneIsIn
<1>6. T \ {One(T)} \in SUBSET S /\ T \ {One(T)} \notin P
  BY <1>3, <1>4, <1>5, OneLess
<1>7. s[T \ {One(T)}] = t[T \ {One(T)}]
  BY <1>6
<1>8. s[T] = f[One(T)] + s[T \ {One(T)}] /\ t[T] = f[One(T)] + t[T \ {One(T)}]
  BY <1>1, <1>5
<1> QED  BY <1>7, <1>8

\* Cut down to a part, it is the function of the part.
LEMMA SumsOfPart ==
    ASSUME NEW f, NEW S, NEW s, IsSums(s, f, S), NEW T \in SUBSET S
    PROVE  IsSums([U \in SUBSET T |-> s[U]], f, T)
<1> DEFINE t == [U \in SUBSET T |-> s[U]]
<1>1. s = [U \in SUBSET S |-> IF U = {} THEN 0 ELSE f[One(U)] + s[U \ {One(U)}]]
  BY SumsAre
<1>2. \A U \in SUBSET T : s[U] = IF U = {} THEN 0 ELSE f[One(U)] + s[U \ {One(U)}]
  BY <1>1
<1>3. \A U \in SUBSET T : t[U] = s[U]
  OBVIOUS
<1>4. \A U \in SUBSET T : U \ {One(U)} \in SUBSET T
  OBVIOUS
<1>5. \A U \in SUBSET T : t[U \ {One(U)}] = s[U \ {One(U)}]
  BY <1>3, <1>4
<1>6. t = [U \in SUBSET T |-> IF U = {} THEN 0 ELSE f[One(U)] + t[U \ {One(U)}]]
  BY <1>2, <1>3, <1>5
<1> QED  BY <1>6, SumsAre

\* Where the sums of S exist, they are those of its subsets
LEMMA SumsThatExist ==
    ASSUME NEW f, NEW S, IsFiniteSet(S), NEW s, IsSums(s, f, S), NEW T \in SUBSET S
    PROVE  SumFunctionOnSet(f, T) = s[T]
<1> DEFINE t == [U \in SUBSET T |-> s[U]]
           c == CHOOSE x : IsSums(x, f, T)
<1>1. IsSums(t, f, T)
  BY SumsOfPart
<1>2. IsSums(c, f, T)
  BY <1>1
<1>3. c = t
  BY <1>1, <1>2, SumsAreUnique, FS_Subset
<1>4. t[T] = s[T]
  OBVIOUS
<1> QED  BY <1>3, <1>4, SumIsChosen

\* ... and one there is.
LEMMA SumsExist ==
    ASSUME NEW f, NEW S, IsFiniteSet(S)
    PROVE  \E s : IsSums(s, f, S)
<1> DEFINE P == {T \in SUBSET S : ~ \E s : IsSums(s, f, T)}
<1>2. SUFFICES ASSUME P # {} PROVE FALSE
  OBVIOUS
<1>3. \A T \in P : IsFiniteSet(T)
  BY FS_Subset
<1>4. PICK T \in P : \A U \in P : Cardinality(T) <= Cardinality(U)
  BY <1>2, <1>3, LeastSet
<1> DEFINE Sm(U) == SumFunctionOnSet(f, U)
           s == [U \in SUBSET T |-> IF U = {} THEN 0 ELSE f[One(U)] + Sm(U \ {One(U)})]
<1>5. \A x \in T : T \ {x} \in SUBSET S /\ IsFiniteSet(T \ {x}) /\ \E t : IsSums(t, f, T \ {x})
  <2> TAKE x \in T
  <2>1. IsFiniteSet(T \ {x}) /\ ~(Cardinality(T) <= Cardinality(T \ {x}))
    BY <1>3, OneLess
  <2>2. T \ {x} \notin P /\ T \ {x} \in SUBSET S
    BY <2>1, <1>4
  <2> QED  BY <2>1, <2>2
<1>6. \A U \in SUBSET T : U # {} => s[U \ {One(U)}] = Sm(U \ {One(U)})
  <2> TAKE U \in SUBSET T
  <2> HAVE U # {}
  <2>1. One(U) \in U /\ One(U) \in T
    BY OneIsIn
  <2> DEFINE V == U \ {One(U)}
  <2>2. PICK t : IsSums(t, f, T \ {One(U)})
    BY <1>5, <2>1
  <2>3. t = [W \in SUBSET (T \ {One(U)}) |-> IF W = {} THEN 0 ELSE f[One(W)] + t[W \ {One(W)}]]
    BY <2>2, SumsAre
  <2>4. V \in SUBSET (T \ {One(U)}) /\ V \in SUBSET T
    BY <2>1
  <2>5. \A W \in SUBSET (T \ {One(U)}) : Sm(W) = t[W]
    <3> DEFINE Y == T \ {One(U)}
    <3>1. IsFiniteSet(Y) /\ IsSums(t, f, Y)
      BY <1>5, <2>1, <2>2
    <3> HIDE DEF Y
    <3>2. \A W \in SUBSET Y : SumFunctionOnSet(f, W) = t[W]
      BY <3>1, SumsThatExist
    <3> QED  BY <3>2 DEF Y
  <2>6. V \ {One(V)} \in SUBSET (T \ {One(U)})
    BY <2>4
  <2>7. t[V] = IF V = {} THEN 0 ELSE f[One(V)] + t[V \ {One(V)}]
    BY <2>3, <2>4
  <2>10. Sm(V) = t[V] /\ Sm(V \ {One(V)}) = t[V \ {One(V)}]
    BY <2>4, <2>5, <2>6
  <2>8. Sm(V) = IF V = {} THEN 0 ELSE f[One(V)] + Sm(V \ {One(V)})
    BY <2>7, <2>10
  <2>9. s[V] = IF V = {} THEN 0 ELSE f[One(V)] + Sm(V \ {One(V)})
    BY <2>4
  <2> QED  BY <2>8, <2>9
<1>7. s = [U \in SUBSET T |-> IF U = {} THEN 0 ELSE f[One(U)] + s[U \ {One(U)}]]
  BY <1>6
<1>8. IsSums(s, f, T)
  BY <1>7, SumsAre
<1> QED  BY <1>8, <1>4

\* What the sum of nothing is, and of a set by one of its members.
LEMMA SumOfNone == ASSUME NEW f PROVE SumFunctionOnSet(f, {}) = 0
<1>1. IsFiniteSet({})
  BY FS_EmptySet
<1>2. PICK s : IsSums(s, f, {})
  BY <1>1, SumsExist
<1>3. SumFunctionOnSet(f, {}) = s[{}]
  BY <1>1, <1>2, SumsThatExist
<1>4. s = [T \in SUBSET {} |-> IF T = {} THEN 0 ELSE f[One(T)] + s[T \ {One(T)}]]
  BY <1>2, SumsAre
<1> QED  BY <1>3, <1>4

LEMMA SumTakesOne ==
    ASSUME NEW f, NEW S, IsFiniteSet(S), S # {}
    PROVE  /\ One(S) \in S
           /\ SumFunctionOnSet(f, S) = f[One(S)] + SumFunctionOnSet(f, S \ {One(S)})
<1>2. PICK s : IsSums(s, f, S)
  BY SumsExist
<1>3. SumFunctionOnSet(f, S) = s[S] /\ SumFunctionOnSet(f, S \ {One(S)}) = s[S \ {One(S)}]
  BY <1>2, SumsThatExist
<1>4. s = [T \in SUBSET S |-> IF T = {} THEN 0 ELSE f[One(T)] + s[T \ {One(T)}]]
  BY <1>2, SumsAre
<1> QED  BY <1>3, <1>4, OneIsIn

LEMMA SumIsInteger ==
    ASSUME NEW f, NEW S, IsFiniteSet(S), \A x \in S : f[x] \in Int
    PROVE  SumFunctionOnSet(f, S) \in Int
<1> DEFINE P == {T \in SUBSET S : SumFunctionOnSet(f, T) \notin Int}
<1>2. SUFFICES ASSUME P # {} PROVE FALSE
  OBVIOUS
<1>3. \A T \in P : IsFiniteSet(T)
  BY FS_Subset
<1>4. PICK T \in P : \A U \in P : Cardinality(T) <= Cardinality(U)
  BY <1>2, <1>3, LeastSet
<1>5. T # {}
  BY <1>4, SumOfNone
<1>6. /\ One(T) \in T
      /\ SumFunctionOnSet(f, T) = f[One(T)] + SumFunctionOnSet(f, T \ {One(T)})
  BY <1>3, <1>5, SumTakesOne
<1>7. T \ {One(T)} \notin P
  BY <1>3, <1>4, <1>6, OneLess
<1> QED  BY <1>4, <1>6, <1>7

\* A sum is any of its terms and the sum of the rest
LEMMA SumTakesAny ==
    ASSUME NEW f, NEW S, IsFiniteSet(S), \A x \in S : f[x] \in Int, NEW a \in S
    PROVE  SumFunctionOnSet(f, S) = f[a] + SumFunctionOnSet(f, S \ {a})
<1> DEFINE Sm(T) == SumFunctionOnSet(f, T)
           P == {T \in SUBSET S : \E x \in T : Sm(T) # f[x] + Sm(T \ {x})}
<1>2. SUFFICES ASSUME P # {} PROVE FALSE
  OBVIOUS
<1>3. \A T \in SUBSET S : IsFiniteSet(T) /\ Sm(T) \in Int
  BY FS_Subset, SumIsInteger
<1>4. PICK T \in P : \A U \in P : Cardinality(T) <= Cardinality(U)
  BY <1>2, <1>3, LeastSet
<1>5. PICK x \in T : Sm(T) # f[x] + Sm(T \ {x})
  BY <1>4
<1> DEFINE c == One(T)
<1>6. c \in T /\ Sm(T) = f[c] + Sm(T \ {c})
  BY <1>3, <1>5, SumTakesOne
<1>7. x # c
  BY <1>5, <1>6
<1>8. \A y \in T : T \ {y} \in SUBSET S /\ T \ {y} \notin P
  BY <1>3, <1>4, OneLess
<1> HIDE DEF c, Sm
<1>9. Sm(T \ {c}) = f[x] + Sm((T \ {c}) \ {x})
  BY <1>6, <1>7, <1>8
<1>10. Sm(T \ {x}) = f[c] + Sm((T \ {x}) \ {c})
  BY <1>6, <1>7, <1>8
<1>11. (T \ {c}) \ {x} = (T \ {x}) \ {c}
  OBVIOUS
<1>12. f[x] \in Int /\ f[c] \in Int /\ Sm((T \ {x}) \ {c}) \in Int
  BY <1>3, <1>6, <1>8
<1>13. Sm((T \ {c}) \ {x}) = Sm((T \ {x}) \ {c})
  BY <1>11
<1>14. Sm(T) # f[x] + (f[c] + Sm((T \ {x}) \ {c}))
  BY <1>5, <1>10
<1>15. Sm(T) = f[c] + (f[x] + Sm((T \ {x}) \ {c}))
  BY <1>6, <1>9, <1>13
<1> QED  BY <1>12, <1>14, <1>15

\* The parts of a disjoint union are summed apart
LEMMA SumAddsOne ==
    ASSUME NEW f, NEW S, IsFiniteSet(S), NEW a, a \notin S, \A x \in S \cup {a} : f[x] \in Int
    PROVE  SumFunctionOnSet(f, S \cup {a}) = SumFunctionOnSet(f, S) + f[a]
<1>1. IsFiniteSet(S \cup {a}) /\ (S \cup {a}) \ {a} = S
  BY FS_AddElement
<1>2. SumFunctionOnSet(f, S \cup {a}) = f[a] + SumFunctionOnSet(f, (S \cup {a}) \ {a})
  BY <1>1, SumTakesAny
<1>3. SumFunctionOnSet(f, S) \in Int
  BY SumIsInteger
<1>4. SumFunctionOnSet(f, S \cup {a}) = f[a] + SumFunctionOnSet(f, S)
  BY <1>1, <1>2
<1>5. f[a] \in Int
  OBVIOUS
<1> QED  BY <1>3, <1>4, <1>5

\* Two functions that are one on S have one sum there
LEMMA SumsAgree ==
    ASSUME NEW f, NEW g, NEW S, IsFiniteSet(S), \A x \in S : f[x] = g[x]
    PROVE  SumFunctionOnSet(f, S) = SumFunctionOnSet(g, S)
<1> DEFINE P == {T \in SUBSET S : SumFunctionOnSet(f, T) # SumFunctionOnSet(g, T)}
<1>2. SUFFICES ASSUME P # {} PROVE FALSE
  OBVIOUS
<1>3. \A T \in P : IsFiniteSet(T)
  BY FS_Subset
<1>4. PICK T \in P : \A U \in P : Cardinality(T) <= Cardinality(U)
  BY <1>2, <1>3, LeastSet
<1>5. T # {}
  BY <1>4, SumOfNone
<1>6. /\ One(T) \in T
      /\ SumFunctionOnSet(f, T) = f[One(T)] + SumFunctionOnSet(f, T \ {One(T)})
      /\ SumFunctionOnSet(g, T) = g[One(T)] + SumFunctionOnSet(g, T \ {One(T)})
  BY <1>3, <1>5, SumTakesOne
<1>7. T \ {One(T)} \notin P /\ T \ {One(T)} \in SUBSET S
  BY <1>3, <1>4, <1>6, OneLess
<1>8. SumFunctionOnSet(f, T \ {One(T)}) = SumFunctionOnSet(g, T \ {One(T)})
  BY <1>7
<1>9. f[One(T)] = g[One(T)]
  BY <1>6
<1>10. SumFunctionOnSet(f, T) = SumFunctionOnSet(g, T)
  BY <1>6, <1>8, <1>9
<1> QED  BY <1>4, <1>10

\* A sum of terms that are at most others is at most the others' sum
LEMMA SumsCompare ==
    ASSUME NEW f, NEW g, NEW S, IsFiniteSet(S),
           \A x \in S : f[x] \in Int /\ g[x] \in Int /\ f[x] <= g[x]
    PROVE  SumFunctionOnSet(f, S) <= SumFunctionOnSet(g, S)
<1> DEFINE P == {T \in SUBSET S : ~(SumFunctionOnSet(f, T) <= SumFunctionOnSet(g, T))}
<1>2. SUFFICES ASSUME P # {} PROVE FALSE
  OBVIOUS
<1>3. \A T \in P : IsFiniteSet(T)
  BY FS_Subset
<1>4. PICK T \in P : \A U \in P : Cardinality(T) <= Cardinality(U)
  BY <1>2, <1>3, LeastSet
<1>5. T # {}
  BY <1>4, SumOfNone
<1>6. /\ One(T) \in T
      /\ SumFunctionOnSet(f, T) = f[One(T)] + SumFunctionOnSet(f, T \ {One(T)})
      /\ SumFunctionOnSet(g, T) = g[One(T)] + SumFunctionOnSet(g, T \ {One(T)})
  BY <1>3, <1>5, SumTakesOne
<1>7. /\ T \ {One(T)} \notin P /\ T \ {One(T)} \in SUBSET S
      /\ IsFiniteSet(T \ {One(T)})
  BY <1>3, <1>4, <1>6, OneLess
<1>8. SumFunctionOnSet(f, T \ {One(T)}) <= SumFunctionOnSet(g, T \ {One(T)})
  BY <1>7
<1>9. f[One(T)] <= g[One(T)] /\ f[One(T)] \in Int /\ g[One(T)] \in Int
  BY <1>6
<1>10. /\ SumFunctionOnSet(f, T \ {One(T)}) \in Int
       /\ SumFunctionOnSet(g, T \ {One(T)}) \in Int
  BY <1>7, SumIsInteger
<1>11. SumFunctionOnSet(f, T) <= SumFunctionOnSet(g, T)
  BY <1>6, <1>8, <1>9, <1>10
<1> QED  BY <1>4, <1>11

LEMMA SumIsNatural ==
    ASSUME NEW f, NEW S, IsFiniteSet(S), \A x \in S : f[x] \in Nat
    PROVE  SumFunctionOnSet(f, S) \in Nat
<1>1. SumFunctionOnSet(f, S) \in Int
  BY SumIsInteger
<1> DEFINE g == [x \in S |-> 0]
<1>2. \A T \in SUBSET S : SumFunctionOnSet(g, T) = 0
  <2> DEFINE P == {T \in SUBSET S : SumFunctionOnSet(g, T) # 0}
  <2>1. SUFFICES ASSUME P # {} PROVE FALSE
    OBVIOUS
  <2>2. \A T \in P : IsFiniteSet(T)
    BY FS_Subset
  <2>3. PICK T \in P : \A U \in P : Cardinality(T) <= Cardinality(U)
    BY <2>1, <2>2, LeastSet
  <2>4. T # {}
    BY <2>3, SumOfNone
  <2>5. One(T) \in T /\ SumFunctionOnSet(g, T) = g[One(T)] + SumFunctionOnSet(g, T \ {One(T)})
    BY <2>2, <2>4, SumTakesOne
  <2>6. T \ {One(T)} \in SUBSET S /\ T \ {One(T)} \notin P
    BY <2>2, <2>3, <2>5, OneLess
  <2> QED  BY <2>3, <2>5, <2>6
<1>3. \A x \in S : g[x] \in Int /\ f[x] \in Int /\ g[x] <= f[x]
  OBVIOUS
<1> HIDE DEF g
<1>4. SumFunctionOnSet(g, S) <= SumFunctionOnSet(f, S)
  BY <1>3, SumsCompare
<1>5. SumFunctionOnSet(g, S) = 0
  BY <1>2
<1> QED  BY <1>1, <1>4, <1>5
===========================================================================

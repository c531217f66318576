---------------------- MODULE LedgerTransactionsProofs ----------------------
(* Proof that the database functions, run statement by statement under the    *)
(* locks, implement CreditLedger, for any users, amounts, keys, bounds and    *)
(* finitely many sessions.  The inductive invariant says what an open         *)
(* transaction has computed: while it holds a row or a key, what it computed   *)
(* from the committed tables is what it would compute now.                    *)
EXTENDS LedgerTransactions, TLAPS, FiniteSetTheorems, SequenceTheorems

---------------------------------------------------------------------------
(* The inductive invariant *)

Transaction == [
    pc : {"idle", "claim", "upsert", "update", "bonus", "ensure", "entry", "commit"},
    user : Users \cup {None}, amount : Amounts \cup {0, WelcomeBonus},
    key : Keys \cup {NoKey},
    row : Ledger!CreditRow \cup {None},
    entry : Ledger!LedgerRow \cup {None}]

HoldsNothing(me) == me.row = None /\ me.entry = None

\* add_credits: the key it claimed is not in the committed ledger
HasClaimed(me) ==
    \/ me.key = NoKey /\ me.entry = None
    \/ /\ me.key \in Keys /\ ~Ledger!KeyTaken(me.key)
       /\ me.entry = Ledger!Row(me.user, "purchase", me.amount, 0, me.key, NoRef)

IsAdd(me) == me.user \in accounts /\ me.amount \in Amounts

\* The call of CreditLedger that a transaction about to commit stands for
Adds(me) ==
    /\ IsAdd(me) /\ me.row = Ledger!RowAfterAdd(me.user, me.amount)
    /\ me.key \in Keys \cup {NoKey} /\ ~Ledger!KeyTaken(me.key)
    /\ me.entry = Ledger!Row(me.user, "purchase", me.amount, me.row.balance, me.key, NoRef)
Deducts(me) ==
    /\ me.amount \in Amounts /\ Ledger!CanDeduct(me.user, me.amount) /\ me.key = NoKey
    /\ me.row = Ledger!RowAfterDeduct(me.user, me.amount)
    /\ me.entry = Ledger!Row(me.user, "usage", 0 - me.amount, me.row.balance, NoKey, NoRef)
SignsUp(me) ==
    /\ me.user \notin accounts /\ me.row = Ledger!CreditsRow(WelcomeBonus, 0, 0)
    /\ me.entry = Ledger!Row(me.user, "bonus", WelcomeBonus, WelcomeBonus, NoKey, NoRef)
Ensures(me) ==
    /\ me.user \in accounts \ DOMAIN credits /\ me.row = Ledger!CreditsRow(0, 0, 0)
    /\ me.entry = None

Sound(me) ==
    /\ me.pc = "idle" => me = Idle
    /\ me.pc # "idle" => me.user \in Users
    /\ me.pc = "claim" => IsAdd(me) /\ me.key \in Keys /\ HoldsNothing(me)
    /\ me.pc = "upsert" => IsAdd(me) /\ me.row = None /\ HasClaimed(me)
    /\ me.pc = "entry" => /\ IsAdd(me) /\ HasClaimed(me)
                          /\ me.row = Ledger!RowAfterAdd(me.user, me.amount)
    /\ me.pc = "update" => me.amount \in Amounts /\ me.key = NoKey /\ HoldsNothing(me)
    /\ me.pc = "bonus" => me.amount = WelcomeBonus /\ HoldsNothing(me)
    /\ me.pc = "ensure" => me.user \in accounts /\ HoldsNothing(me)
    /\ me.pc = "commit" => Adds(me) \/ Deducts(me) \/ SignsUp(me) \/ Ensures(me)

\* No two transactions hold the same user's row, or the same key.
HeldByOne ==
    \A s, t \in Txns : s # t =>
        /\ txn[s].row # None /\ txn[t].row # None => txn[s].user # txn[t].user
        /\ txn[s].entry # None /\ txn[t].entry # None /\ txn[s].entry.key # NoKey
             => txn[s].entry.key # txn[t].entry.key

TxnsInv ==
    /\ Ledger!TypeOK /\ txn \in [Txns -> Transaction]
    /\ \A t \in Txns : Sound(txn[t])
    /\ HeldByOne
    /\ Len(ledger) + Cardinality(Open) <= MaxRows

---------------------------------------------------------------------------
(* Lemmas *)

LEMMA AmountsArePositive == \A a \in Amounts : a \in Nat /\ a \in Int /\ a > 0
<1>1. Amounts \subseteq Nat \ {0}
  BY TransactionsAssumption
<1> QED  BY <1>1

\* What the functions compute is a row of user_credits.
LEMMA ComputedRows ==
    ASSUME Ledger!TypeOK, NEW u \in Users, NEW a \in Nat
    PROVE  /\ Ledger!CreditsOf(u) \in Ledger!CreditRow
           /\ Ledger!RowAfterAdd(u, a) \in Ledger!CreditRow
           /\ Ledger!CanDeduct(u, a) => Ledger!RowAfterDeduct(u, a) \in Ledger!CreditRow
           /\ Ledger!CreditsRow(a, 0, 0) \in Ledger!CreditRow
           /\ Ledger!CreditsRow(a, 0, 0).balance = a
<1>1. Ledger!CreditsOf(u) \in Ledger!CreditRow
  BY DEF Ledger!TypeOK, Ledger!CreditsOf, Ledger!CreditsRow, Ledger!CreditRow
<1>2. Ledger!CanDeduct(u, a) => Ledger!CreditsOf(u).balance >= a
  BY DEF Ledger!CanDeduct, Ledger!CreditsOf
<1> QED  BY <1>1, <1>2 DEF Ledger!RowAfterAdd, Ledger!RowAfterDeduct, Ledger!CreditsRow, Ledger!CreditRow

\* A transaction stays what it was while the committed tables stay.
LEMMA StaysSound ==
    ASSUME UNCHANGED <<accounts, credits, ledger>>, NEW t \in Txns, NEW s \in Txns,
           txn'[t] = txn[s], Sound(txn[s])
    PROVE  Sound(txn[t])'
<1>1. HasClaimed(txn[s]) => HasClaimed(txn[t])'
  BY DEF HasClaimed, Ledger!KeyTaken
<1>2. Adds(txn[s]) => Adds(txn[t])'
  BY DEF Adds, IsAdd, Ledger!KeyTaken, Ledger!RowAfterAdd, Ledger!CreditsOf
<1>3. Deducts(txn[s]) => Deducts(txn[t])'
  BY DEF Deducts, Ledger!CanDeduct, Ledger!RowAfterDeduct, Ledger!CreditsOf
<1>4. SignsUp(txn[s]) => SignsUp(txn[t])'
  BY DEF SignsUp
<1>5. Ensures(txn[s]) => Ensures(txn[t])'
  BY DEF Ensures
<1>6. txn[s].pc = "entry" => (txn[t].row = Ledger!RowAfterAdd(txn[t].user, txn[t].amount))'
  BY DEF Sound, Ledger!RowAfterAdd, Ledger!CreditsOf
<1> QED  BY <1>1, <1>2, <1>3, <1>4, <1>5, <1>6 DEF Sound, IsAdd, HoldsNothing

LEMMA IdleIsSound ==
    /\ Idle \in Transaction /\ Idle.pc = "idle" /\ Idle.row = None /\ Idle.entry = None
    /\ Sound(Idle)
<1>1. Idle.pc = "idle"
  BY DEF Idle
<1> QED  BY <1>1 DEF Idle, Transaction, Sound

\* One transaction moves on and no table changes: left to show are its own soundness
\* and that what it takes is free.
LEMMA OneMoves ==
    ASSUME TxnsInv, UNCHANGED <<accounts, credits, ledger>>, NEW t \in Txns,
           NEW next \in Transaction, txn' = [txn EXCEPT ![t] = next], Sound(txn[t])',
           next.row # None => \/ txn[t].row # None /\ next.user = txn[t].user
                              \/ ~RowLocked(t, next.user),
           next.entry # None => \/ txn[t].entry # None /\ next.entry.key = txn[t].entry.key
                                \/ next.entry.key = NoKey \/ ~KeyLocked(t, next.entry.key),
           next.pc # "idle" => txn[t].pc # "idle" \/ Len(ledger) + Cardinality(Open) < MaxRows
    PROVE  TxnsInv'
<1>1. txn'[t] = next /\ \A s \in Txns : s # t => txn'[s] = txn[s]
  BY DEF TxnsInv
<1>2. Ledger!TypeOK' /\ txn' \in [Txns -> Transaction]
  BY DEF TxnsInv, Ledger!TypeOK
<1>3. ASSUME NEW s \in Txns PROVE Sound(txn[s])'
  <2>1. CASE s = t
    BY <2>1
  <2>2. CASE s # t
    BY <1>1, <2>2, StaysSound DEF TxnsInv
  <2> QED  BY <2>1, <2>2
<1>4. HeldByOne'
  <2> SUFFICES ASSUME NEW s \in Txns, s # t
               PROVE  /\ next.row # None /\ txn[s].row # None => next.user # txn[s].user
                      /\ next.entry # None /\ txn[s].entry # None /\ next.entry.key # NoKey
                           => next.entry.key # txn[s].entry.key
    BY <1>1 DEF TxnsInv, HeldByOne
  <2>1. next.row # None /\ txn[s].row # None => next.user # txn[s].user
    BY DEF TxnsInv, HeldByOne, RowLocked
  <2>2. next.entry # None /\ txn[s].entry # None /\ next.entry.key # NoKey
          => next.entry.key # txn[s].entry.key
    BY DEF TxnsInv, HeldByOne, KeyLocked
  <2> QED  BY <2>1, <2>2
<1>5. (Len(ledger) + Cardinality(Open) <= MaxRows)'
  <2>1. IsFiniteSet(Open) /\ Open \subseteq Txns
    BY TransactionsAssumption, FS_Subset DEF Open
  <2>2. Cardinality(Open) \in Nat /\ Len(ledger) \in Nat /\ MaxRows \in Nat
    BY <2>1, FS_CardinalityType, TransactionsAssumption DEF TxnsInv, Ledger!TypeOK
  <2>3. CASE next.pc = "idle"
    <3>1. Open' = Open \ {t}
      BY <1>1, <2>3 DEF Open
    <3> HIDE DEF Open
    <3>2. Cardinality(Open \ {t}) \in Nat /\ Cardinality(Open \ {t}) <= Cardinality(Open)
      <4>1. Open \ {t} \subseteq Open
        OBVIOUS
      <4> QED  BY <2>1, <4>1, FS_Subset, FS_CardinalityType
    <3> QED  BY <2>2, <3>1, <3>2 DEF TxnsInv
  <2>4. CASE next.pc # "idle" /\ txn[t].pc # "idle"
    <3>1. Open' = Open
      BY <1>1, <2>4 DEF Open
    <3> QED  BY <3>1 DEF TxnsInv
  <2>5. CASE next.pc # "idle" /\ txn[t].pc = "idle"
    <3>1. Open' = Open \cup {t} /\ t \notin Open
      BY <1>1, <2>5 DEF Open
    <3>2. Cardinality(Open \cup {t}) = Cardinality(Open) + 1
      BY <2>1, <3>1, FS_AddElement
    <3> QED  BY <2>2, <2>5, <3>1, <3>2
  <2> QED  BY <2>3, <2>4, <2>5
<1> QED  BY <1>2, <1>3, <1>4, <1>5 DEF TxnsInv

---------------------------------------------------------------------------
(* The statements *)

\* A transaction begins, holding nothing.
LEMMA BeginInv ==
    ASSUME TxnsInv, NEW t \in Txns, NEW pc \in {"claim", "upsert", "update", "bonus", "ensure"},
           NEW u \in Users, NEW a \in Amounts \cup {0, WelcomeBonus}, NEW k \in Keys \cup {NoKey},
           Begin(t, pc, u, a, k),
           pc \in {"claim", "upsert"} => u \in accounts /\ a \in Amounts,
           pc = "claim" => k \in Keys, pc \in {"upsert", "update"} => k = NoKey,
           pc = "update" => a \in Amounts, pc = "bonus" => a = WelcomeBonus,
           pc = "ensure" => u \in accounts
    PROVE  TxnsInv'
<1> DEFINE next == [Idle EXCEPT !.pc = pc, !.user = u, !.amount = a, !.key = k]
<1>1. /\ next \in Transaction /\ next.pc = pc /\ next.user = u /\ next.amount = a /\ next.key = k
      /\ next.row = None /\ next.entry = None
  BY DEF Idle, Transaction
<1>2. /\ txn' = [txn EXCEPT ![t] = next] /\ UNCHANGED <<accounts, credits, ledger>>
      /\ Len(ledger) + Cardinality(Open) < MaxRows
  BY DEF Begin
<1> HIDE DEF next
<1>3. txn'[t] = next
  BY <1>2 DEF TxnsInv
<1>4. Sound(txn[t])'
  BY <1>1, <1>2, <1>3 DEF Sound, IsAdd, HasClaimed, HoldsNothing
<1> QED  BY <1>1, <1>2, <1>4, OneMoves

\* A statement that ends its transaction: it returns early, or raises.
LEMMA EndInv ==
    ASSUME TxnsInv, NEW t \in Txns, UNCHANGED <<accounts, credits, ledger>>,
           txn' = [txn EXCEPT ![t] = Idle]
    PROVE  TxnsInv'
<1>1. txn'[t] = Idle
  BY DEF TxnsInv
<1>2. Sound(txn[t])'
  BY <1>1, IdleIsSound DEF Sound
<1> QED  BY <1>2, IdleIsSound, OneMoves

LEMMA ClaimKeyInv == ASSUME TxnsInv, NEW t \in Txns, ClaimKey(t) PROVE TxnsInv'
<1> DEFINE me == txn[t]
           entry == Ledger!Row(me.user, "purchase", me.amount, 0, me.key, NoRef)
           next == [me EXCEPT !.pc = "upsert", !.entry = entry]
<1>1. CASE Ledger!KeyTaken(me.key)
  BY <1>1, EndInv DEF ClaimKey, Statement
<1>2. CASE ~Ledger!KeyTaken(me.key)
  <2>1. /\ me \in Transaction /\ me.pc = "claim" /\ me.user \in accounts /\ me.amount \in Amounts
        /\ me.key \in Keys /\ me.row = None /\ me.user \in Users
    BY DEF ClaimKey, Statement, TxnsInv, Sound, IsAdd, HoldsNothing
  <2>2. entry \in Ledger!LedgerRow /\ entry.key = me.key
    <3>1. me.amount \in Int
      BY <2>1, AmountsArePositive
    <3> QED  BY <2>1, <3>1 DEF Ledger!Row, Ledger!LedgerRow, Ledger!TransactionTypes, NoRef
  <2>3. /\ UNCHANGED <<accounts, credits, ledger>> /\ ~KeyLocked(t, me.key)
        /\ txn' = [txn EXCEPT ![t] = next]
    BY <1>2 DEF ClaimKey, Statement
  <2>4. /\ next \in Transaction /\ next.pc = "upsert" /\ next.user = me.user /\ next.amount = me.amount
        /\ next.key = me.key /\ next.row = None /\ next.entry = entry
    BY <2>1, <2>2 DEF Transaction
  <2> HIDE DEF next
  <2>5. txn'[t] = next
    BY <2>3 DEF TxnsInv
  <2>6. (~Ledger!KeyTaken(txn[t].key))'
    BY <1>2, <2>3, <2>4, <2>5 DEF Ledger!KeyTaken
  <2>7. HasClaimed(txn[t])'
    BY <2>1, <2>4, <2>5, <2>6 DEF HasClaimed
  <2>8. Sound(txn[t])'
    BY <2>1, <2>3, <2>4, <2>5, <2>7 DEF Sound, IsAdd
  <2> QED  BY <2>1, <2>2, <2>3, <2>4, <2>8, OneMoves
<1> QED  BY <1>1, <1>2

LEMMA UpsertBalanceInv == ASSUME TxnsInv, NEW t \in Txns, UpsertBalance(t) PROVE TxnsInv'
<1> DEFINE me == txn[t]
           new == Ledger!RowAfterAdd(me.user, me.amount)
           next == [me EXCEPT !.pc = "entry", !.row = new]
<1>1. /\ me \in Transaction /\ me.pc = "upsert" /\ me.user \in accounts /\ me.amount \in Amounts
      /\ me.user \in Users /\ HasClaimed(me)
  BY DEF UpsertBalance, Statement, TxnsInv, Sound, IsAdd
<1>2. new \in Ledger!CreditRow
  BY <1>1, ComputedRows, TransactionsAssumption DEF TxnsInv
<1>3. /\ UNCHANGED <<accounts, credits, ledger>> /\ ~RowLocked(t, me.user)
      /\ txn' = [txn EXCEPT ![t] = next]
  BY DEF UpsertBalance, Statement
<1> HIDE DEF new
<1>4. /\ next \in Transaction /\ next.pc = "entry" /\ next.user = me.user /\ next.amount = me.amount
      /\ next.key = me.key /\ next.row = new /\ next.entry = me.entry
  BY <1>1, <1>2 DEF Transaction
<1> HIDE DEF next
<1>5. txn'[t] = next
  BY <1>3 DEF TxnsInv
<1>6. (txn[t].row = Ledger!RowAfterAdd(txn[t].user, txn[t].amount))'
  BY <1>3, <1>4, <1>5 DEF new, Ledger!RowAfterAdd, Ledger!CreditsOf
<1>7. HasClaimed(txn[t])'
  BY <1>1, <1>3, <1>4, <1>5 DEF HasClaimed, Ledger!KeyTaken
<1>8. Sound(txn[t])'
  BY <1>1, <1>3, <1>4, <1>5, <1>6, <1>7 DEF Sound, IsAdd
<1> QED  BY <1>1, <1>3, <1>4, <1>8, OneMoves

LEMMA WriteEntryInv == ASSUME TxnsInv, NEW t \in Txns, WriteEntry(t) PROVE TxnsInv'
<1> DEFINE me == txn[t]
           entry == Ledger!Row(me.user, "purchase", me.amount, me.row.balance, me.key, NoRef)
           next == [me EXCEPT !.pc = "commit", !.entry = entry]
<1>1. /\ me \in Transaction /\ me.pc = "entry" /\ me.user \in accounts /\ me.amount \in Amounts
      /\ me.user \in Users /\ HasClaimed(me)
      /\ me.row = Ledger!RowAfterAdd(me.user, me.amount)
  BY DEF WriteEntry, Statement, TxnsInv, Sound, IsAdd
<1>2. me.row \in Ledger!CreditRow
  BY <1>1, ComputedRows, TransactionsAssumption DEF TxnsInv
<1>3. entry \in Ledger!LedgerRow /\ entry.key = me.key
  <2>1. me.amount \in Int /\ me.row.balance \in Nat /\ me.key \in Keys \cup {NoKey}
    BY <1>1, <1>2, AmountsArePositive DEF Ledger!CreditRow, Transaction
  <2> QED  BY <1>1, <2>1 DEF Ledger!Row, Ledger!LedgerRow, Ledger!TransactionTypes, NoRef
<1>4. EntryOfAdd(me) = entry
  <2>1. CASE me.key = NoKey /\ me.entry = None
    BY <2>1 DEF EntryOfAdd
  <2>2. CASE me.entry = Ledger!Row(me.user, "purchase", me.amount, 0, me.key, NoRef)
    <3>1. me.entry \in Ledger!LedgerRow
      <4>1. me.amount \in Int /\ me.key \in Keys \cup {NoKey}
        BY <1>1, AmountsArePositive DEF Transaction
      <4> QED  BY <1>1, <2>2, <4>1 DEF Ledger!Row, Ledger!LedgerRow, Ledger!TransactionTypes, NoRef
    <3>2. me.entry # None
      BY <3>1, TransactionsAssumption
    <3> QED  BY <2>2, <3>2 DEF EntryOfAdd, Ledger!Row
  <2> QED  BY <1>1, <2>1, <2>2 DEF HasClaimed
<1>5. /\ UNCHANGED <<accounts, credits, ledger>> /\ txn' = [txn EXCEPT ![t] = next]
  BY <1>4 DEF WriteEntry, Statement
<1>6. /\ next \in Transaction /\ next.pc = "commit" /\ next.user = me.user /\ next.amount = me.amount
      /\ next.key = me.key /\ next.row = me.row /\ next.entry = entry
  BY <1>1, <1>3 DEF Transaction
<1> HIDE DEF next
<1>7. txn'[t] = next
  BY <1>5 DEF TxnsInv
<1>8. Adds(txn[t])'
  <2>1. (~Ledger!KeyTaken(txn[t].key))' /\ txn'[t].key \in Keys \cup {NoKey}
    BY <1>1, <1>5, <1>6, <1>7 DEF HasClaimed, Ledger!KeyTaken
  <2>2. (txn[t].row = Ledger!RowAfterAdd(txn[t].user, txn[t].amount))'
    BY <1>1, <1>5, <1>6, <1>7 DEF Ledger!RowAfterAdd, Ledger!CreditsOf
  <2> QED  BY <1>1, <1>5, <1>6, <1>7, <2>1, <2>2 DEF Adds, IsAdd
<1>9. Sound(txn[t])'
  BY <1>1, <1>6, <1>7, <1>8 DEF Sound
<1>10. me.entry # None => me.entry.key = me.key
  BY <1>1 DEF HasClaimed, Ledger!Row
<1>11. me.row # None
  BY <1>2, TransactionsAssumption
<1>12. me.entry = None => me.key = NoKey
  <2>1. me.entry = None /\ me.key \in Keys => FALSE
    <3> SUFFICES ASSUME me.entry = None, me.key \in Keys PROVE FALSE
      OBVIOUS
    <3>1. me.entry = Ledger!Row(me.user, "purchase", me.amount, 0, me.key, NoRef)
      BY <1>1, TransactionsAssumption DEF HasClaimed
    <3>2. me.entry \in Ledger!LedgerRow
      <4>1. me.amount \in Int
        BY <1>1, AmountsArePositive
      <4> QED  BY <1>1, <3>1, <4>1 DEF Ledger!Row, Ledger!LedgerRow, Ledger!TransactionTypes, NoRef
    <3> QED  BY <3>2, TransactionsAssumption
  <2> QED  BY <1>1, <2>1 DEF Transaction
<1> QED  BY <1>1, <1>3, <1>5, <1>6, <1>9, <1>10, <1>11, <1>12, OneMoves

LEMMA UpdateBalanceInv == ASSUME TxnsInv, NEW t \in Txns, UpdateBalance(t) PROVE TxnsInv'
<1> DEFINE me == txn[t]
           new == Ledger!RowAfterDeduct(me.user, me.amount)
           entry == Ledger!Row(me.user, "usage", 0 - me.amount, new.balance, NoKey, NoRef)
           next == [me EXCEPT !.pc = "commit", !.row = new, !.entry = entry]
<1>1. /\ me \in Transaction /\ me.pc = "update" /\ me.amount \in Amounts /\ me.user \in Users
      /\ me.key = NoKey /\ me.entry = None
  BY DEF UpdateBalance, Statement, TxnsInv, Sound, HoldsNothing
<1>2. CASE ~Ledger!CanDeduct(me.user, me.amount)
  BY <1>2, EndInv DEF UpdateBalance, Statement
<1>3. CASE Ledger!CanDeduct(me.user, me.amount)
  <2>1. new \in Ledger!CreditRow /\ new.balance \in Nat
    BY <1>1, <1>3, ComputedRows, AmountsArePositive DEF TxnsInv, Ledger!CreditRow
  <2>2. UNCHANGED <<accounts, credits, ledger>> /\ ~RowLocked(t, me.user) /\ txn' = [txn EXCEPT ![t] = next]
    BY <1>3 DEF UpdateBalance, Statement
  <2>3. new.balance \in Nat /\ 0 - me.amount \in Int
    BY <1>1, <2>1, AmountsArePositive
  <2>4. (new = Ledger!RowAfterDeduct(me.user, me.amount))
    OBVIOUS
  <2> HIDE DEF new
  <2>5. entry \in Ledger!LedgerRow /\ entry.key = NoKey
    BY <1>1, <2>3 DEF Ledger!Row, Ledger!LedgerRow, Ledger!TransactionTypes, NoRef
  <2>6. /\ next \in Transaction /\ next.pc = "commit" /\ next.user = me.user /\ next.amount = me.amount
        /\ next.key = me.key /\ next.row = new /\ next.entry = entry
    BY <1>1, <2>1, <2>5 DEF Transaction
  <2> HIDE DEF next
  <2>7. txn'[t] = next
    BY <2>2 DEF TxnsInv
  <2>8. /\ (txn[t].row = Ledger!RowAfterDeduct(txn[t].user, txn[t].amount))'
        /\ Ledger!CanDeduct(txn[t].user, txn[t].amount)'
    BY <1>3, <2>2, <2>4, <2>6, <2>7 DEF Ledger!RowAfterDeduct, Ledger!CreditsOf, Ledger!CanDeduct
  <2>9. Deducts(txn[t])'
    BY <1>1, <2>6, <2>7, <2>8 DEF Deducts
  <2>10. Sound(txn[t])'
    BY <1>1, <2>6, <2>7, <2>9 DEF Sound
  <2> QED  BY <1>1, <2>2, <2>5, <2>6, <2>10, OneMoves
<1> QED  BY <1>2, <1>3

LEMMA InsertBonusInv == ASSUME TxnsInv, NEW t \in Txns, InsertBonus(t) PROVE TxnsInv'
<1> DEFINE me == txn[t]
           new == Ledger!CreditsRow(me.amount, 0, 0)
           entry == Ledger!Row(me.user, "bonus", me.amount, me.amount, NoKey, NoRef)
           next == [me EXCEPT !.pc = "commit", !.row = new, !.entry = entry]
<1>1. /\ me \in Transaction /\ me.pc = "bonus" /\ me.amount = WelcomeBonus /\ me.user \in Users
      /\ me.entry = None /\ WelcomeBonus \in Nat
  BY TransactionsAssumption DEF InsertBonus, Statement, TxnsInv, Sound, HoldsNothing
<1>2. CASE me.user \in accounts
  BY <1>2, EndInv DEF InsertBonus, Statement
<1>3. CASE me.user \notin accounts
  <2>1. new \in Ledger!CreditRow
    BY <1>1, ComputedRows DEF TxnsInv
  <2>2. UNCHANGED <<accounts, credits, ledger>> /\ ~RowLocked(t, me.user) /\ txn' = [txn EXCEPT ![t] = next]
    BY <1>3 DEF InsertBonus, Statement
  <2>3. new = Ledger!CreditsRow(WelcomeBonus, 0, 0)
    BY <1>1
  <2> HIDE DEF new
  <2>4. entry \in Ledger!LedgerRow /\ entry.key = NoKey
    BY <1>1 DEF Ledger!Row, Ledger!LedgerRow, Ledger!TransactionTypes, NoRef
  <2>5. /\ next \in Transaction /\ next.pc = "commit" /\ next.user = me.user /\ next.amount = me.amount
        /\ next.key = me.key /\ next.row = new /\ next.entry = entry
    BY <1>1, <2>1, <2>4 DEF Transaction
  <2> HIDE DEF next
  <2>6. txn'[t] = next
    BY <2>2 DEF TxnsInv
  <2>7. SignsUp(txn[t])'
    BY <1>1, <1>3, <2>2, <2>3, <2>5, <2>6 DEF SignsUp, Ledger!CreditsRow, Ledger!Row
  <2>8. Sound(txn[t])'
    BY <1>1, <2>5, <2>6, <2>7 DEF Sound
  <2> QED  BY <1>1, <2>2, <2>4, <2>5, <2>8, OneMoves
<1> QED  BY <1>2, <1>3

LEMMA InsertZeroRowInv == ASSUME TxnsInv, NEW t \in Txns, InsertZeroRow(t) PROVE TxnsInv'
<1> DEFINE me == txn[t]
           new == Ledger!CreditsRow(0, 0, 0)
           next == [me EXCEPT !.pc = "commit", !.row = new]
<1>1. /\ me \in Transaction /\ me.pc = "ensure" /\ me.user \in accounts /\ me.user \in Users
      /\ me.entry = None
  BY DEF InsertZeroRow, Statement, TxnsInv, Sound, HoldsNothing
<1>2. CASE me.user \in DOMAIN credits
  BY <1>2, EndInv DEF InsertZeroRow, Statement
<1>3. CASE me.user \notin DOMAIN credits
  <2>1. new \in Ledger!CreditRow
    BY <1>1, ComputedRows DEF TxnsInv
  <2>2. UNCHANGED <<accounts, credits, ledger>> /\ ~RowLocked(t, me.user) /\ txn' = [txn EXCEPT ![t] = next]
    BY <1>3 DEF InsertZeroRow, Statement
  <2>3. /\ next \in Transaction /\ next.pc = "commit" /\ next.user = me.user /\ next.amount = me.amount
        /\ next.key = me.key /\ next.row = new /\ next.entry = None
    BY <1>1, <2>1 DEF Transaction
  <2> HIDE DEF next
  <2>4. txn'[t] = next
    BY <2>2 DEF TxnsInv
  <2>5. Ensures(txn[t])'
    BY <1>1, <1>3, <2>2, <2>3, <2>4 DEF Ensures, Ledger!CreditsRow
  <2>6. Sound(txn[t])'
    BY <1>1, <2>3, <2>4, <2>5 DEF Sound
  <2> QED  BY <1>1, <2>2, <2>3, <2>6, OneMoves
<1> QED  BY <1>2, <1>3

---------------------------------------------------------------------------
(* Commit: what becomes visible is one call of CreditLedger *)

\* What a transaction about to commit holds.
LEMMA Committing ==
    ASSUME TxnsInv, NEW t \in Txns, txn[t].pc = "commit"
    PROVE  /\ txn[t].user \in Users /\ txn[t].row \in Ledger!CreditRow /\ txn[t].row # None
           /\ txn[t].entry \in Ledger!LedgerRow \cup {None}
           /\ Adds(txn[t]) \/ Deducts(txn[t]) \/ SignsUp(txn[t]) \/ Ensures(txn[t])
           /\ Len(ledger) < MaxRows /\ Len(ledger) \in Nat
<1>1. /\ txn[t] \in Transaction /\ txn[t].user \in Users
      /\ Adds(txn[t]) \/ Deducts(txn[t]) \/ SignsUp(txn[t]) \/ Ensures(txn[t])
  BY DEF TxnsInv, Sound
<1>2. txn[t].row \in Ledger!CreditRow
  BY <1>1, ComputedRows, AmountsArePositive, TransactionsAssumption
     DEF TxnsInv, Adds, IsAdd, Deducts, SignsUp, Ensures
<1>3. Len(ledger) < MaxRows /\ Len(ledger) \in Nat
  <2>1. IsFiniteSet(Open) /\ t \in Open
    BY TransactionsAssumption, FS_Subset DEF Open
  <2>2. Cardinality(Open) \in Nat /\ Cardinality(Open) # 0
    BY <2>1, FS_CardinalityType, FS_EmptySet
  <2>3. Len(ledger) \in Nat /\ MaxRows \in Nat
    BY TransactionsAssumption DEF TxnsInv, Ledger!TypeOK
  <2> QED  BY <2>2, <2>3 DEF TxnsInv
<1> QED  BY <1>1, <1>2, <1>3, TransactionsAssumption DEF Transaction

\* An add_credits that has claimed its key, or is about to commit, has a row under it.
LEMMA AddHasEntry ==
    ASSUME TxnsInv, NEW t \in Txns, txn[t].pc \in {"upsert", "entry"} \/ Adds(txn[t])
    PROVE  \/ txn[t].key = NoKey /\ txn[t].entry = None
           \/ txn[t].entry # None /\ txn[t].entry.key = txn[t].key
<1> DEFINE me == txn[t]
<1>1. IsAdd(me) /\ me \in Transaction
  BY DEF TxnsInv, Sound, Adds
<1>2. me.amount \in Int /\ me.user \in Users
  BY <1>1, AmountsArePositive DEF IsAdd, TxnsInv, Ledger!TypeOK
<1>3. ASSUME NEW after \in Nat, me.entry = Ledger!Row(me.user, "purchase", me.amount, after, me.key, NoRef)
      PROVE  me.entry # None /\ me.entry.key = me.key
  <2>1. me.entry \in Ledger!LedgerRow
    BY <1>1, <1>2, <1>3 DEF Transaction, Ledger!Row, Ledger!LedgerRow, Ledger!TransactionTypes, NoRef
  <2> QED  BY <1>3, <2>1, TransactionsAssumption DEF Ledger!Row
<1>4. CASE HasClaimed(me)
  BY <1>3, <1>4 DEF HasClaimed
<1>5. CASE Adds(me)
  <2>1. Ledger!RowAfterAdd(me.user, me.amount) \in Ledger!CreditRow
    BY <1>1, <1>2, ComputedRows, AmountsArePositive DEF TxnsInv, IsAdd
  <2>2. me.row.balance \in Nat
    BY <1>5, <2>1 DEF Adds, Ledger!CreditRow
  <2> QED  BY <1>3, <1>5, <2>2 DEF Adds
<1> QED  BY <1>4, <1>5 DEF TxnsInv, Sound

\* Every commit is a step of CreditLedger.
LEMMA CommitIsCall ==
    ASSUME TxnsInv, NEW t \in Txns, Commit(t)
    PROVE  Ledger!LedgerNext
<1> DEFINE me == txn[t]
<1>1. /\ me.pc = "commit" /\ accounts' = accounts \cup {me.user}
      /\ credits' = Ledger!WriteCredits(me.user, me.row)
      /\ ledger' = IF me.entry = None THEN ledger ELSE Append(ledger, me.entry)
  BY DEF Commit
<1>2. me.user \in Users /\ Len(ledger) < MaxRows
  BY <1>1, Committing
<1>3. CASE Adds(me)
  <2>1. me.user \in accounts /\ me.amount \in Amounts /\ me.key \in Keys \cup {NoKey}
    BY <1>3 DEF Adds, IsAdd
  <2>2. me.entry # None
    <3>1. me.entry \in Ledger!LedgerRow
      <4>1. me.row \in Ledger!CreditRow
        BY <1>1, Committing
      <4>2. me.amount \in Int /\ me.row.balance \in Nat
        BY <2>1, <4>1, AmountsArePositive DEF Ledger!CreditRow
      <4> QED  BY <1>2, <1>3, <2>1, <4>2 DEF Adds, Ledger!Row, Ledger!LedgerRow, Ledger!TransactionTypes, NoRef
    <3> QED  BY <3>1, TransactionsAssumption
  <2>3. Ledger!AddCredits(me.user, me.amount, "purchase", me.key, NoRef)
    BY <1>1, <1>3, <2>1, <2>2, AmountsArePositive DEF Adds, Ledger!AddCredits
  <2> QED  BY <1>2, <2>1, <2>3 DEF Ledger!LedgerNext
<1>4. CASE Deducts(me)
  <2>1. me.user \in accounts /\ me.amount \in Amounts
    BY <1>4 DEF Deducts, Ledger!CanDeduct, TxnsInv, Ledger!TypeOK
  <2>2. me.entry # None
    <3>1. me.entry \in Ledger!LedgerRow
      <4>1. me.row \in Ledger!CreditRow
        BY <1>1, Committing
      <4>2. 0 - me.amount \in Int /\ me.row.balance \in Nat
        BY <2>1, <4>1, AmountsArePositive DEF Ledger!CreditRow
      <4> QED  BY <1>2, <1>4, <4>2 DEF Deducts, Ledger!Row, Ledger!LedgerRow, Ledger!TransactionTypes, NoRef
    <3> QED  BY <3>1, TransactionsAssumption
  <2>3. Ledger!DeductCredits(me.user, me.amount, NoRef)
    BY <1>1, <1>4, <2>1, <2>2 DEF Deducts, Ledger!DeductCredits
  <2> QED  BY <1>2, <2>1, <2>3 DEF Ledger!LedgerNext
<1>5. CASE SignsUp(me)
  <2>1. me.entry # None
    <3>1. me.entry \in Ledger!LedgerRow
      <4>1. WelcomeBonus \in Nat /\ WelcomeBonus \in Int
        BY TransactionsAssumption
      <4> QED  BY <1>2, <1>5, <4>1 DEF SignsUp, Ledger!Row, Ledger!LedgerRow, Ledger!TransactionTypes, NoRef
    <3> QED  BY <3>1, TransactionsAssumption
  <2>2. Ledger!SignUp(me.user)
    BY <1>1, <1>5, <2>1 DEF SignsUp, Ledger!SignUp
  <2> QED  BY <1>2, <2>2 DEF Ledger!LedgerNext
<1>6. CASE Ensures(me)
  <2>1. Ledger!EnsureRow(me.user)
    BY <1>1, <1>6 DEF Ensures, Ledger!EnsureRow
  <2> QED  BY <1>2, <2>1 DEF Ledger!LedgerNext
<1> QED  BY <1>1, <1>3, <1>4, <1>5, <1>6, Committing

\* A commit changes one user's row and adds at most one key, and both were locked: what
\* the other open transactions have computed still holds.
LEMMA CommitInv == ASSUME TxnsInv, NEW t \in Txns, Commit(t) PROVE TxnsInv'
<1> DEFINE me == txn[t]
<1>1. /\ me.pc = "commit" /\ accounts' = accounts \cup {me.user}
      /\ credits' = Ledger!WriteCredits(me.user, me.row)
      /\ ledger' = IF me.entry = None THEN ledger ELSE Append(ledger, me.entry)
      /\ txn' = [txn EXCEPT ![t] = Idle]
  BY DEF Commit
<1>2. /\ me.user \in Users /\ me.row \in Ledger!CreditRow /\ me.row # None
      /\ me.entry \in Ledger!LedgerRow \cup {None} /\ Len(ledger) \in Nat
  BY <1>1, Committing
<1>3. txn'[t] = Idle /\ \A s \in Txns : s # t => txn'[s] = txn[s]
  BY <1>1 DEF TxnsInv
<1>4. Ledger!TypeOK'
  <2>1. ledger' \in Seq(Ledger!LedgerRow)
    BY <1>1, <1>2 DEF TxnsInv, Ledger!TypeOK
  <2>2. /\ DOMAIN credits' = DOMAIN credits \cup {me.user}
        /\ \A u \in DOMAIN credits' : credits'[u] \in Ledger!CreditRow
        /\ credits' = [u \in DOMAIN credits' |-> credits'[u]]
    BY <1>1, <1>2 DEF Ledger!WriteCredits, TxnsInv, Ledger!TypeOK
  <2> QED  BY <1>1, <1>2, <2>1, <2>2 DEF TxnsInv, Ledger!TypeOK
<1>5. txn' \in [Txns -> Transaction]
  BY <1>1, IdleIsSound DEF TxnsInv
<1>6. HeldByOne'
  BY <1>3, IdleIsSound DEF TxnsInv, HeldByOne
<1>7. (Len(ledger) + Cardinality(Open) <= MaxRows)'
  <2>1. IsFiniteSet(Open) /\ t \in Open
    BY <1>1, TransactionsAssumption, FS_Subset DEF Open
  <2>2. Open' = Open \ {t}
    BY <1>1, <1>3, IdleIsSound DEF Open
  <2> HIDE DEF Open
  <2>3. /\ Cardinality(Open) \in Nat /\ Cardinality(Open \ {t}) = Cardinality(Open) - 1
    BY <2>1, FS_RemoveElement, FS_CardinalityType
  <2>4. Len(ledger') <= Len(ledger) + 1 /\ Len(ledger') \in Nat
    BY <1>1, <1>2 DEF TxnsInv, Ledger!TypeOK
  <2>5. MaxRows \in Nat
    BY TransactionsAssumption
  <2> QED  BY <1>2, <2>2, <2>3, <2>4, <2>5 DEF TxnsInv
<1>8. ASSUME NEW s \in Txns PROVE Sound(txn[s])'
  <2> DEFINE you == txn[s]
  <2>1. CASE s = t
    BY <1>3, <2>1, IdleIsSound DEF Sound
  <2>2. CASE s # t
    <3>1. txn'[s] = you /\ Sound(you) /\ you \in Transaction
      BY <1>3, <2>2 DEF TxnsInv
    <3>2. you.row # None => you.user # me.user
      BY <1>2, <2>2 DEF TxnsInv, HeldByOne
    <3>3. ASSUME you.user # me.user
          PROVE  /\ Ledger!CreditsOf(you.user)' = Ledger!CreditsOf(you.user)
                 /\ you.user \in DOMAIN credits' <=> you.user \in DOMAIN credits
                 /\ you.user \in DOMAIN credits => credits'[you.user] = credits[you.user]
                 /\ you.user \in accounts' <=> you.user \in accounts
      BY <1>1, <3>3, <3>1 DEF Ledger!WriteCredits, Ledger!CreditsOf, Ledger!CreditsRow
    <3>4. ASSUME you.entry # None \/ you.key = NoKey, you.entry # None => you.entry.key = you.key,
                 ~Ledger!KeyTaken(you.key)
          PROVE  (~Ledger!KeyTaken(you.key))'
      <4>1. CASE you.key = NoKey
        BY <3>1, <4>1 DEF Ledger!KeyTaken
      <4>2. CASE you.key # NoKey
        <5>1. me.entry # None => me.entry.key # you.key
          BY <2>2, <3>4, <4>2 DEF TxnsInv, HeldByOne
        <5>2. \A i \in DOMAIN ledger : ledger[i].key # you.key
          BY <3>4, <4>2 DEF Ledger!KeyTaken
        <5>3. ASSUME NEW i \in DOMAIN ledger' PROVE ledger'[i].key # you.key
          <6>1. CASE me.entry = None
            BY <1>1, <5>2, <6>1
          <6>2. CASE me.entry # None
            <7>1. ledger' = Append(ledger, me.entry) /\ ledger \in Seq(Ledger!LedgerRow)
              BY <1>1, <6>2 DEF TxnsInv, Ledger!TypeOK
            <7>2. (i \in DOMAIN ledger /\ ledger'[i] = ledger[i]) \/ ledger'[i] = me.entry
              BY <1>2, <7>1
            <7> QED  BY <5>1, <5>2, <6>2, <7>2
          <6> QED  BY <6>1, <6>2
        <5> QED  BY <3>1, <5>3 DEF Ledger!KeyTaken
      <4> QED  BY <4>1, <4>2
    <3>5. you.pc \in {"upsert", "entry"} => HasClaimed(txn[s])'
      BY <3>1, <3>4, AddHasEntry DEF HasClaimed, Sound
    <3>6. you.pc = "entry" => (txn[s].row = Ledger!RowAfterAdd(txn[s].user, txn[s].amount))'
      <4> SUFFICES ASSUME you.pc = "entry" PROVE (txn[s].row = Ledger!RowAfterAdd(txn[s].user, txn[s].amount))'
        OBVIOUS
      <4>1. you.user \in Users /\ you.amount \in Nat /\ you.row = Ledger!RowAfterAdd(you.user, you.amount)
        BY <3>1, AmountsArePositive DEF Sound, IsAdd
      <4>2. you.row # None
        BY <4>1, ComputedRows, TransactionsAssumption DEF TxnsInv
      <4> QED  BY <3>1, <3>2, <3>3, <4>1, <4>2 DEF Ledger!RowAfterAdd
    <3>7. CASE you.pc # "commit"
      BY <1>1, <3>1, <3>5, <3>6, <3>7 DEF Sound, IsAdd, HoldsNothing
    <3>8. CASE you.pc = "commit"
      <4>1. you.user # me.user
        BY <3>2, <3>8, Committing
      <4>2. Adds(you) => Adds(txn[s])'
        BY <3>1, <3>3, <3>4, <4>1, AddHasEntry DEF Adds, IsAdd, Ledger!RowAfterAdd
      <4>3. Deducts(you) => Deducts(txn[s])'
        BY <3>1, <3>3, <4>1 DEF Deducts, Ledger!CanDeduct, Ledger!RowAfterDeduct
      <4>4. SignsUp(you) => SignsUp(txn[s])'
        BY <3>1, <3>3, <4>1 DEF SignsUp
      <4>5. Ensures(you) => Ensures(txn[s])'
        BY <3>1, <3>3, <4>1 DEF Ensures
      <4> QED  BY <3>1, <3>8, <4>2, <4>3, <4>4, <4>5 DEF Sound
    <3> QED  BY <3>7, <3>8
  <2> QED  BY <2>1, <2>2
<1> QED  BY <1>4, <1>5, <1>6, <1>7, <1>8 DEF TxnsInv

LEMMA TxnsInitInv == Init => TxnsInv
<1> SUFFICES ASSUME Init PROVE TxnsInv
  OBVIOUS
<1>1. txn \in [Txns -> Transaction] /\ \A t \in Txns : txn[t] = Idle
  BY IdleIsSound DEF Init
<1>2. Ledger!TypeOK /\ Len(ledger) = 0
  BY TransactionsAssumption DEF Init, Ledger!LedgerInit, Ledger!TypeOK
<1>3. \A t \in Txns : Sound(txn[t])
  BY <1>1, IdleIsSound
<1>4. HeldByOne
  BY <1>1, IdleIsSound DEF HeldByOne
<1>5. Len(ledger) + Cardinality(Open) <= MaxRows
  <2>1. Open = {}
    BY <1>1, IdleIsSound DEF Open
  <2> QED  BY <1>2, <2>1, FS_EmptySet, TransactionsAssumption
<1> QED  BY <1>1, <1>2, <1>3, <1>4, <1>5 DEF TxnsInv

LEMMA BeginsInv ==
    ASSUME TxnsInv, NEW t \in Txns, NEW u \in Users
    PROVE  /\ \A a \in Amounts, k \in Keys \cup {NoKey} : BeginAdd(t, u, a, k) => TxnsInv'
           /\ \A a \in Amounts : BeginDeduct(t, u, a) => TxnsInv'
           /\ BeginSignUp(t, u) => TxnsInv'
           /\ BeginEnsure(t, u) => TxnsInv'
<1>1. ASSUME NEW a \in Amounts, NEW k \in Keys \cup {NoKey}, BeginAdd(t, u, a, k) PROVE TxnsInv'
  <2>1. CASE k = NoKey
    BY <1>1, <2>1, BeginInv DEF BeginAdd
  <2>2. CASE k # NoKey
    BY <1>1, <2>2, BeginInv DEF BeginAdd
  <2> QED  BY <2>1, <2>2
<1>2. ASSUME NEW a \in Amounts, BeginDeduct(t, u, a) PROVE TxnsInv'
  BY <1>2, BeginInv DEF BeginDeduct
<1>3. BeginSignUp(t, u) => TxnsInv'
  BY BeginInv DEF BeginSignUp
<1>4. BeginEnsure(t, u) => TxnsInv'
  BY BeginInv DEF BeginEnsure
<1> QED  BY <1>1, <1>2, <1>3, <1>4

LEMMA TxnsNextInv == TxnsInv /\ [Next]_vars => TxnsInv'
<1> SUFFICES ASSUME TxnsInv, [Next]_vars PROVE TxnsInv'
  OBVIOUS
<1>1. ASSUME NEW t \in Txns, Run(t) PROVE TxnsInv'
  BY <1>1, ClaimKeyInv, UpsertBalanceInv, WriteEntryInv, UpdateBalanceInv, InsertBonusInv,
     InsertZeroRowInv, CommitInv DEF Run
<1>2. ASSUME NEW t \in Txns, Rollback(t) PROVE TxnsInv'
  BY <1>2, EndInv DEF Rollback
<1>3. CASE UNCHANGED vars
  <2>1. Ledger!TypeOK' /\ txn' \in [Txns -> Transaction] /\ HeldByOne'
        /\ (Len(ledger) + Cardinality(Open) <= MaxRows)'
    BY <1>3 DEF vars, TxnsInv, Ledger!TypeOK, HeldByOne, Open
  <2>2. \A t \in Txns : Sound(txn[t])'
    BY <1>3, StaysSound DEF vars, TxnsInv
  <2> QED  BY <2>1, <2>2 DEF TxnsInv
<1> QED  BY <1>1, <1>2, <1>3, BeginsInv DEF Next

---------------------------------------------------------------------------
(* The theorems *)

\* Seen from the committed tables, every interleaving of the statements, with every loss
\* of a connection, is a behaviour of CreditLedger, where a call is one step
\* (migrations 001 and 017).
THEOREM TransactionsImplementLedger == Spec => ImplementsLedger
<1>1. Init => Ledger!LedgerInit
  BY DEF Init
<1>2. TxnsInv /\ [Next]_vars => [Ledger!LedgerNext]_(Ledger!ledgerVars)
  <2> SUFFICES ASSUME TxnsInv, [Next]_vars PROVE [Ledger!LedgerNext]_(Ledger!ledgerVars)
    OBVIOUS
  <2>1. ASSUME NEW t \in Txns, Commit(t) PROVE Ledger!LedgerNext
    BY <2>1, CommitIsCall
  <2>2. (\A t \in Txns : ~Commit(t)) => UNCHANGED <<accounts, credits, ledger>>
    <3>1. \A t \in Txns : Run(t) => Commit(t) \/ UNCHANGED <<accounts, credits, ledger>>
      BY DEF Run, Statement, ClaimKey, UpsertBalance, WriteEntry, UpdateBalance, InsertBonus,
             InsertZeroRow
    <3>2. \A t \in Txns : \A u \in Users : \A a \in Amounts : \A k \in Keys \cup {NoKey} :
             BeginAdd(t, u, a, k) \/ BeginDeduct(t, u, a) => UNCHANGED <<accounts, credits, ledger>>
      BY DEF BeginAdd, BeginDeduct, Begin
    <3>3. \A t \in Txns : \A u \in Users :
             BeginSignUp(t, u) \/ BeginEnsure(t, u) => UNCHANGED <<accounts, credits, ledger>>
      BY DEF BeginSignUp, BeginEnsure, Begin
    <3>4. \A t \in Txns : Rollback(t) => UNCHANGED <<accounts, credits, ledger>>
      BY DEF Rollback
    <3> QED  BY <3>1, <3>2, <3>3, <3>4 DEF Next, vars
  <2> QED  BY <2>1, <2>2 DEF Ledger!ledgerVars
<1> QED  BY <1>1, <1>2, TxnsInitInv, TxnsNextInv, PTL DEF Spec, ImplementsLedger, Ledger!LedgerSpec

\* Two calls never wait for each other: the rows are taken last, and whoever has one waits
\* for nothing; while nobody has one, none of those past the keys waits.
THEOREM NoLockCycleEver == Spec => []NoLockCycle
<1>1. ASSUME TxnsInv PROVE NoLockCycle
  <2>1. TypeOK
    BY <1>1 DEF TxnsInv, TypeOK, Transaction
  <2>2. ASSUME Open # {}
        PROVE  \E t \in Open :
                 /\ txn[t].pc = "claim" => ~KeyLocked(t, txn[t].key)
                 /\ txn[t].pc \in {"upsert", "update", "bonus", "ensure"} => ~RowLocked(t, txn[t].user)
    <3>1. CASE \E t \in Open : txn[t].pc \in {"entry", "commit"}
      BY <3>1
    <3>2. CASE \A t \in Open : txn[t].pc \notin {"entry", "commit"}
      <4>1. \A t \in Txns : txn[t].row = None
        <5> SUFFICES ASSUME NEW t \in Txns PROVE txn[t].row = None
          OBVIOUS
        <5>1. txn[t] \in Transaction /\ Sound(txn[t])
          BY <1>1 DEF TxnsInv
        <5>2. CASE txn[t].pc = "idle"
          BY <5>1, <5>2, IdleIsSound DEF Sound
        <5>3. CASE txn[t].pc # "idle"
          BY <3>2, <5>1, <5>3 DEF Sound, HoldsNothing, Open, Transaction
        <5> QED  BY <5>2, <5>3
      <4>2. CASE \E t \in Open : txn[t].pc # "claim"
        BY <4>1, <4>2 DEF RowLocked
      <4>3. CASE \A t \in Open : txn[t].pc = "claim"
        <5>1. \A t \in Txns : txn[t].entry = None
          BY <1>1, <4>3, IdleIsSound DEF TxnsInv, Sound, HoldsNothing, Open
        <5> QED  BY <2>2, <4>3, <5>1 DEF KeyLocked
      <4> QED  BY <4>2, <4>3
    <3> QED  BY <3>1, <3>2
  <2> QED  BY <2>1, <2>2 DEF NoLockCycle
<1> QED  BY <1>1, TxnsInitInv, TxnsNextInv, PTL DEF Spec
=============================================================================

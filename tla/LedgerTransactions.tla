------------------------ MODULE LedgerTransactions ------------------------
(***************************************************************************)
(* The database functions of CreditLedger, statement by statement.  A      *)
(* transaction's writes are its own until it commits; what other           *)
(* transactions feel before that is the lock each write takes:             *)
(*   - a row inserted under an idempotency key, or under a user_credits    *)
(*     primary key, makes a second insert under that key wait;             *)
(*   - an updated user_credits row makes a second update of it wait, and   *)
(*     the update then sees the newest committed row (READ COMMITTED).     *)
(* A connection can be lost between any two statements: the transaction    *)
(* rolls back.  The module implements CreditLedger: a commit is one of its *)
(* steps, every other statement is invisible.                              *)
(***************************************************************************)
EXTENDS Integers, Sequences, FiniteSets

CONSTANTS Users, LegacyUsers, Amounts, Keys, NoKey, WelcomeBonus, MaxRows,
          Txns,         \* database sessions
          None          \* no row of its own yet

VARIABLES
    accounts, credits, ledger,  \* committed tables
    txn                         \* Txns -> the transaction that session is running

vars == <<accounts, credits, ledger, txn>>

NoRef == None

Ledger == INSTANCE CreditLedger WITH Refs <- {}

ASSUME TransactionsAssumption ==
    /\ LegacyUsers \subseteq Users /\ Amounts \subseteq Nat \ {0} /\ NoKey \notin Keys
    /\ WelcomeBonus \in Nat \ {0} /\ MaxRows \in Nat /\ IsFiniteSet(Txns)
    /\ None \notin Ledger!CreditRow /\ None \notin Ledger!LedgerRow

Idle == [pc |-> "idle", user |-> None, amount |-> 0, key |-> NoKey,
         row |-> None, entry |-> None]

TypeOK ==
    /\ Ledger!TypeOK
    /\ txn \in [Txns -> [
          pc : {"idle", "claim", "upsert", "update", "bonus", "ensure", "entry", "commit"},
          user : Users \cup {None}, amount : Amounts \cup {0, WelcomeBonus},
          key : Keys \cup {NoKey},
          row : Ledger!CreditRow \cup {None},
          entry : Ledger!LedgerRow \cup {None}]]

---------------------------------------------------------------------------
(* Locks *)

KeyWanted(t, k) ==    \* mutant: two calls under one key wait for each other
    \E s \in Txns \ {t} : txn[s].pc # "idle" /\ txn[s].key = k

\* Another open transaction has inserted a ledger row under this key
KeyLocked(t, k) ==
    \E s \in Txns \ {t} : txn[s].entry # None /\ txn[s].entry.key = k

RowNeverLocked(t, u) == FALSE    \* mutant: the balance is read without a row lock

\* Another open transaction has inserted or updated this user's row
RowLocked(t, u) == \E s \in Txns \ {t} : txn[s].row # None /\ txn[s].user = u

Open == {t \in Txns : txn[t].pc # "idle"}

Begin(t, pc, u, a, k) ==
    /\ txn[t].pc = "idle"
    /\ Len(ledger) + Cardinality(Open) < MaxRows
    /\ txn' = [txn EXCEPT ![t] = [Idle EXCEPT !.pc = pc, !.user = u, !.amount = a, !.key = k]]
    /\ UNCHANGED <<accounts, credits, ledger>>

\* Every statement but COMMIT writes only what its own transaction sees
Statement(t, from, next) ==
    /\ txn[t].pc = from
    /\ txn' = [txn EXCEPT ![t] = next]
    /\ UNCHANGED <<accounts, credits, ledger>>

---------------------------------------------------------------------------
(* add_credits *)

BeginAdd(t, u, a, k) ==
    /\ u \in accounts
    /\ Begin(t, IF k = NoKey THEN "upsert" ELSE "claim", u, a, k)

\* INSERT ... ON CONFLICT DO NOTHING RETURNING id, balance_after still 0
ClaimKey(t) ==
    LET me == txn[t] IN
    /\ ~KeyLocked(t, me.key)
    /\ Statement(t, "claim",
          IF Ledger!KeyTaken(me.key)
          THEN Idle                             \* returns the current balance
          ELSE [me EXCEPT !.pc = "upsert",
                          !.entry = Ledger!Row(me.user, "purchase", me.amount, 0,
                                               me.key, NoRef)])

\* INSERT INTO user_credits ... ON CONFLICT DO UPDATE RETURNING balance
UpsertBalance(t) ==
    LET me == txn[t] IN
    /\ ~RowLocked(t, me.user)
    /\ Statement(t, "upsert",
          [me EXCEPT !.pc = "entry", !.row = Ledger!RowAfterAdd(me.user, me.amount)])

EntryOfAdd(me) ==
    IF me.entry = None
    THEN Ledger!Row(me.user, "purchase", me.amount, me.row.balance, NoKey, NoRef)
    ELSE [me.entry EXCEPT !.balance_after = me.row.balance]

\* INSERT the ledger row, or UPDATE balance_after of the claimed one
WriteEntry(t) ==
    Statement(t, "entry", [txn[t] EXCEPT !.pc = "commit", !.entry = EntryOfAdd(txn[t])])

---------------------------------------------------------------------------
(* deduct_credits *)

BeginDeduct(t, u, a) == Begin(t, "update", u, a, NoKey)

\* UPDATE ... WHERE balance >= p_amount, and the ledger row it is followed by
UpdateBalance(t) ==
    LET me  == txn[t]
        new == Ledger!RowAfterDeduct(me.user, me.amount)
    IN
    /\ ~RowLocked(t, me.user)
    /\ Statement(t, "update",
          IF Ledger!CanDeduct(me.user, me.amount)
          THEN [me EXCEPT !.pc = "commit", !.row = new,
                  !.entry = Ledger!Row(me.user, "usage", 0 - me.amount, new.balance,
                                       NoKey, NoRef)]
          ELSE Idle)                            \* RAISE 'Insufficient credits'

---------------------------------------------------------------------------
(* The sign-up trigger, and the row get_balance inserts *)

BeginSignUp(t, u) ==
    /\ u \notin accounts
    /\ Begin(t, "bonus", u, WelcomeBonus, NoKey)

InsertBonus(t) ==
    LET me == txn[t] IN
    /\ ~RowLocked(t, me.user)
    /\ Statement(t, "bonus",
          IF me.user \in accounts
          THEN Idle                             \* unique violation on auth.users
          ELSE [me EXCEPT !.pc = "commit",
                  !.row = Ledger!CreditsRow(me.amount, 0, 0),
                  !.entry = Ledger!Row(me.user, "bonus", me.amount, me.amount,
                                       NoKey, NoRef)])

\* get_balance inserts a row it found missing; the SELECT is long over
BeginEnsure(t, u) ==
    /\ u \in accounts \ DOMAIN credits
    /\ Begin(t, "ensure", u, 0, NoKey)

InsertZeroRow(t) ==
    LET me == txn[t] IN
    /\ ~RowLocked(t, me.user)
    /\ Statement(t, "ensure",
          IF me.user \in DOMAIN credits
          THEN Idle                             \* unique violation: the request fails
          ELSE [me EXCEPT !.pc = "commit", !.row = Ledger!CreditsRow(0, 0, 0)])

---------------------------------------------------------------------------
Commit(t) ==
    LET me == txn[t] IN
    /\ me.pc = "commit"
    /\ accounts' = accounts \cup {me.user}
    /\ credits' = Ledger!WriteCredits(me.user, me.row)
    /\ ledger' = IF me.entry = None THEN ledger ELSE Append(ledger, me.entry)
    /\ txn' = [txn EXCEPT ![t] = Idle]

\* The session's connection is lost: Postgres rolls back
Rollback(t) ==
    /\ txn[t].pc # "idle"
    /\ txn' = [txn EXCEPT ![t] = Idle]
    /\ UNCHANGED <<accounts, credits, ledger>>

Init ==
    /\ Ledger!LedgerInit
    /\ txn = [t \in Txns |-> Idle]

Run(t) ==
    \/ ClaimKey(t) \/ UpsertBalance(t) \/ WriteEntry(t) \/ UpdateBalance(t)
    \/ InsertBonus(t) \/ InsertZeroRow(t) \/ Commit(t)

Next == \E t \in Txns :
    \/ \E u \in Users, a \in Amounts :
          \/ \E k \in Keys \cup {NoKey} : BeginAdd(t, u, a, k)
          \/ BeginDeduct(t, u, a)
    \/ \E u \in Users : BeginSignUp(t, u) \/ BeginEnsure(t, u)
    \/ Run(t)
    \/ Rollback(t)

Spec == Init /\ [][Next]_vars

\* Postgres runs a transaction it has started and grants a lock in the order it
\* was waited for, so a statement that can run again and again does run
FairSpec == Spec /\ \A t \in Txns : SF_vars(Run(t))

---------------------------------------------------------------------------
(* Properties *)

\* The functions are atomic: seen from the committed tables, every behaviour of
\* the interleaved statements is one of CreditLedger, where each call is a step.
ImplementsLedger == Ledger!LedgerSpec

\* Two transactions never wait for each other: add_credits takes the key before
\* the row and the others take the row only, so some open transaction can move.
NoLockCycle ==
    /\ TypeOK
    /\ Open # {} =>
        \E t \in Open :
            /\ txn[t].pc = "claim" => ~KeyLocked(t, txn[t].key)
            /\ txn[t].pc \in {"upsert", "update", "bonus", "ensure"}
                  => ~RowLocked(t, txn[t].user)

\* Every call ends: it commits, raises or rolls back, whatever the others hold.
EveryCallEnds == \A t \in Txns : txn[t].pc # "idle" ~> txn[t].pc = "idle"
===========================================================================

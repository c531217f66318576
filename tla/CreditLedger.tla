--------------------------- MODULE CreditLedger ---------------------------
(***************************************************************************)
(* The credit ledger: the tables user_credits and credit_transactions and  *)
(* the database functions that are the only writers of a balance.  Every   *)
(* SQL function is one atomic step here; LedgerTransactions runs the same   *)
(* functions statement by statement, under Postgres' locks, and implements *)
(* this module.                                                            *)
(*                                                                         *)
(* A balance is a number of micro-credits.  bigint overflow is not         *)
(* modelled: Postgres raises and rolls back instead of wrapping.           *)
(***************************************************************************)
EXTENDS Integers, Sequences

CONSTANTS
    Users,          \* ids of auth.users
    LegacyUsers,    \* accounts older than the welcome-bonus trigger: no row yet
    Amounts,        \* the amounts add_credits and deduct_credits are called with
    Keys,           \* idempotency keys
    NoKey,          \* p_idempotency_key IS NULL
    Refs,           \* what a row's metadata may point at: a session, an intent
    NoRef,
    WelcomeBonus,
    MaxRows         \* bound: rows of credit_transactions

ASSUME LedgerAssumption ==
    /\ LegacyUsers \subseteq Users
    /\ Amounts \subseteq Nat \ {0}
    /\ NoKey \notin Keys
    /\ NoRef \notin Refs
    /\ WelcomeBonus \in Nat \ {0}
    /\ MaxRows \in Nat

VARIABLES
    accounts,       \* auth.users
    credits,        \* user_credits: one row per user that has one
    ledger          \* credit_transactions, in the order the balance moved

ledgerVars == <<accounts, credits, ledger>>

TransactionTypes == {"purchase", "usage", "bonus", "refund"}

CreditRow == [balance : Nat, lifetime_purchased : Nat, lifetime_used : Nat]

LedgerRow == [user : Users, type : TransactionTypes, amount : Int,
              balance_after : Nat, key : Keys \cup {NoKey}, ref : Refs \cup {NoRef}]

TypeOK ==
    /\ accounts \subseteq Users
    /\ DOMAIN credits \subseteq accounts
    /\ credits \in [DOMAIN credits -> CreditRow]
    /\ ledger \in Seq(LedgerRow)

---------------------------------------------------------------------------
Row(u, t, a, after, k, ref) ==
    [user |-> u, type |-> t, amount |-> a, balance_after |-> after, key |-> k, ref |-> ref]

WriteCredits(u, row) ==
    [v \in DOMAIN credits \cup {u} |-> IF v = u THEN row ELSE credits[v]]

CreditsRow(b, p, q) == [balance |-> b, lifetime_purchased |-> p, lifetime_used |-> q]

\* get_balance answers zeros for a user without a row
CreditsOf(u) == IF u \in DOMAIN credits THEN credits[u] ELSE CreditsRow(0, 0, 0)

BalanceOf(u) == CreditsOf(u).balance

\* idx_credit_transactions_idempotency: a partial unique index, NULL never conflicts
KeyTaken(k) == k # NoKey /\ \E i \in DOMAIN ledger : ledger[i].key = k

\* What the upsert of add_credits leaves in user_credits
RowAfterAddUncounted(u, a) ==    \* mutant: the upsert forgets lifetime_purchased
    LET r == CreditsOf(u) IN CreditsRow(r.balance + a, r.lifetime_purchased, r.lifetime_used)

RowAfterAdd(u, a) ==
    LET r == CreditsOf(u) IN
    CreditsRow(r.balance + a, r.lifetime_purchased + a, r.lifetime_used)

\* What the UPDATE of deduct_credits leaves in user_credits
RowAfterDeduct(u, a) ==
    LET r == CreditsOf(u) IN
    CreditsRow(r.balance - a, r.lifetime_purchased, r.lifetime_used + a)

---------------------------------------------------------------------------
LedgerInit ==
    /\ accounts = LegacyUsers
    /\ credits = [u \in {} |-> 0]
    /\ ledger = << >>

\* Trigger handle_new_user_credits on INSERT INTO auth.users
SignUp(u) ==
    /\ u \notin accounts
    /\ accounts' = accounts \cup {u}
    /\ credits' = WriteCredits(u, CreditsRow(WelcomeBonus, 0, 0))
    /\ ledger' = Append(ledger, Row(u, "bonus", WelcomeBonus, WelcomeBonus, NoKey, NoRef))

\* get_balance for a user the trigger never saw
EnsureRow(u) ==
    /\ u \in accounts \ DOMAIN credits
    /\ credits' = WriteCredits(u, CreditsRow(0, 0, 0))
    /\ UNCHANGED <<accounts, ledger>>

AddCreditsStale(u, a, t, k, ref) ==    \* mutant: a claimed row keeps its balance_after of 0
    /\ u \in accounts
    /\ a > 0
    /\ IF KeyTaken(k)
       THEN UNCHANGED ledgerVars
       ELSE /\ credits' = WriteCredits(u, RowAfterAdd(u, a))
            /\ ledger' = Append(ledger,
                   Row(u, t, a, IF k = NoKey THEN RowAfterAdd(u, a).balance ELSE 0, k, ref))
            /\ UNCHANGED accounts

AddCreditsUnclaimed(u, a, t, k, ref) ==    \* mutant: the key is stored but not claimed
    /\ u \in accounts
    /\ a > 0
    /\ credits' = WriteCredits(u, RowAfterAdd(u, a))
    /\ ledger' = Append(ledger, Row(u, t, a, RowAfterAdd(u, a).balance, k, ref))
    /\ UNCHANGED accounts

\* add_credits: a repeat under a key already in the ledger changes nothing
AddCredits(u, a, t, k, ref) ==
    /\ u \in accounts
    /\ a > 0
    /\ IF KeyTaken(k)
       THEN UNCHANGED ledgerVars
       ELSE /\ credits' = WriteCredits(u, RowAfterAdd(u, a))
            /\ ledger' = Append(ledger, Row(u, t, a, RowAfterAdd(u, a).balance, k, ref))
            /\ UNCHANGED accounts

CanDeductAnything(u, a) == u \in DOMAIN credits    \* mutant: no balance condition

CanDeduct(u, a) == u \in DOMAIN credits /\ credits[u].balance >= a

\* deduct_credits when it finds the row; otherwise it raises and changes nothing
DeductCredits(u, a, ref) ==
    /\ CanDeduct(u, a)
    /\ credits' = WriteCredits(u, RowAfterDeduct(u, a))
    /\ ledger' = Append(ledger,
                        Row(u, "usage", 0 - a, RowAfterDeduct(u, a).balance, NoKey, ref))
    /\ UNCHANGED accounts

LedgerNext ==
    \/ \E u \in Users : EnsureRow(u)
    \/ /\ Len(ledger) < MaxRows
       /\ \E u \in Users :
            \/ SignUp(u)
            \/ \E a \in Amounts, k \in Keys \cup {NoKey}, ref \in Refs \cup {NoRef} :
                  AddCredits(u, a, "purchase", k, ref)
            \/ \E a \in Amounts, ref \in Refs \cup {NoRef} : DeductCredits(u, a, ref)

LedgerSpec == LedgerInit /\ [][LedgerNext]_ledgerVars

---------------------------------------------------------------------------
(* Properties *)

HasBonus(u) == u \in accounts \ LegacyUsers

\* The three columns of user_credits stay consistent over any sequence of
\* sign-ups, credits, repeats and debits: a balance is what was given and bought
\* less what was used.  The bonus is not counted as purchased, a credit of any
\* other type is.
Conservation ==
    \A u \in DOMAIN credits :
        credits[u].balance = (IF HasBonus(u) THEN WelcomeBonus ELSE 0)
                             + credits[u].lifetime_purchased - credits[u].lifetime_used

\* Rows i and j are consecutive rows of one user
Consecutive(i, j) ==
    /\ i < j
    /\ ledger[i].user = ledger[j].user
    /\ \A m \in DOMAIN ledger : i < m /\ m < j => ledger[m].user # ledger[j].user

IsFirst(j) == \A m \in DOMAIN ledger : m < j => ledger[m].user # ledger[j].user
IsLast(i)  == \A m \in DOMAIN ledger : i < m => ledger[m].user # ledger[i].user

\* The ledger explains every balance: each row's balance_after is the user's
\* previous one moved by the row's amount, the first starts from nothing, and
\* the last one is the balance in user_credits.
AuditTrail ==
    /\ \A j \in DOMAIN ledger : IsFirst(j) => ledger[j].balance_after = ledger[j].amount
    /\ \A i, j \in DOMAIN ledger :
          Consecutive(i, j) =>
             ledger[j].balance_after = ledger[i].balance_after + ledger[j].amount
    /\ \A i \in DOMAIN ledger :
          IsLast(i) => /\ ledger[i].user \in DOMAIN credits
                       /\ credits[ledger[i].user].balance = ledger[i].balance_after
    /\ \A u \in DOMAIN credits :
          (\A i \in DOMAIN ledger : ledger[i].user # u) => credits[u].balance = 0

\* A payment credited under an idempotency key is in the ledger once, however
\* often and by whomever add_credits is called with that key.
KeyCreditedOnce ==
    \A i, j \in DOMAIN ledger :
        ledger[i].key # NoKey /\ ledger[i].key = ledger[j].key => i = j
===========================================================================

--------------------------- MODULE WalletFunding ---------------------------
(***************************************************************************)
(* Funding a kwami's custody wallet: the intent a user creates, and the    *)
(* provider's webhook that records the deposit and credits the ledger      *)
(* (create_funding_intent, settle_funding_intent).  Every database call is *)
(* one step; the intent row is immutable but for its status, so reading it *)
(* is part of the step after it.                                           *)
(*                                                                         *)
(* The provider is external: it announces a deposit by the notices the     *)
(* instance lists, each delivered until it is answered 2xx.  A notice may  *)
(* lack the event id, the transaction signature, the amount or the USD     *)
(* quote (0), all of which the handler treats as optional.  Amounts are in *)
(* the smallest unit told apart, a thousandth of a dollar or of a token.   *)
(***************************************************************************)
EXTENDS CreditLedger, FiniteSetsExt

CONSTANTS
    Workers,        \* requests being handled at once
    Intents,        \* uuids of funding intents
    IntentKeys,     \* idempotency keys of POST /wallet/.../fund
    Owner,          \* IntentKeys -> the user funding
    Mint,           \* IntentKeys -> the asset the intent names
    Expected,       \* IntentKeys -> the amount it expects
    Stablecoins,    \* the keys whose asset is a dollar
    MICRO_CREDITS_PER_CREDIT,
    Announcements,  \* sets of notices [key, event, sig, amount, usd] the provider may send
    NoEvent, NoSig, \* the notice carries none
    MaxFaults,      \* bound: database calls that fail, or workers that die
    MaxRequests,    \* bound: requests to create an intent
    None

ASSUME WalletAssumption ==
    /\ Intents \subseteq Refs
    /\ \A k \in IntentKeys : Owner[k] \in Users
    /\ \A k \in IntentKeys : Expected[k] \in Nat
    /\ MICRO_CREDITS_PER_CREDIT \in Nat \ {0}
    /\ \A N \in Announcements : \A n \in N :
          n.key \in IntentKeys /\ n.amount \in Nat /\ n.usd \in Nat
    /\ None \notin IntentKeys

VARIABLES
    intents,        \* wallet_funding_intents: Intents -> [status, key]
    events,         \* wallet_funding_events: the provider's ids recorded
    cache,          \* wallet_balances_cache: keys whose balance was written
    transfers,      \* wallet_transactions: [sig, mint, amount] recorded, all "in"
    handler,        \* Workers -> the request being handled
    notices,        \* at the provider: what it has to announce
    delivered,      \* at the provider: notices sent
    acked,          \* at the provider: notices answered 2xx
    requests, faults    \* counters, bounded

tables == <<intents, events, cache, transfers>>
provider == <<notices, delivered>>
bounds == <<requests, faults>>
vars   == <<ledgerVars, tables, provider, handler, acked, bounds>>

Idle == [pc |-> "idle", key |-> None, notice |-> None, intent |-> None]

NoIntent == [status |-> "none", key |-> None]
Existing(k) == {i \in Intents : intents[i].key = k}
CreditsOfIntent(i) == {r \in DOMAIN ledger : ledger[r].ref = i}

Goto(w, h) == handler' = [handler EXCEPT ![w] = h]
Reply2xx(w) == Goto(w, Idle) /\ acked' = acked \cup {handler[w].notice}
ReplyError(w) == Goto(w, Idle) /\ UNCHANGED acked

---------------------------------------------------------------------------
(* create_funding_intent *)

RequestIntent(w, k) ==
    /\ handler[w].pc = "idle"
    /\ requests < MaxRequests
    /\ Owner[k] \in accounts
    /\ requests' = requests + 1
    /\ Goto(w, [Idle EXCEPT !.pc = "find", !.key = k])
    /\ UNCHANGED <<ledgerVars, tables, provider, acked, faults>>

\* A repeat under the same idempotency key returns the first intent
FindIntent(w) ==
    /\ handler[w].pc = "find"
    /\ Goto(w, IF Existing(handler[w].key) # {} THEN Idle
               ELSE [handler[w] EXCEPT !.pc = "insert"])
    /\ UNCHANGED <<ledgerVars, tables, provider, acked, bounds>>

InsertIntentUnguarded(w) ==    \* mutant: idempotency_key is not unique
    /\ handler[w].pc = "insert"
    /\ \E i \in Intents :
          /\ intents[i] = NoIntent
          /\ intents' = [intents EXCEPT ![i] = [status |-> "pending",
                                                key |-> handler[w].key]]
    /\ Goto(w, Idle)
    /\ UNCHANGED <<ledgerVars, events, cache, transfers, provider, acked, bounds>>

\* The insert, refused by UNIQUE (idempotency_key) if another came first.  The
\* intent_created event that follows carries no provider id and is read by nobody.
InsertIntent(w) ==
    /\ handler[w].pc = "insert"
    /\ IF Existing(handler[w].key) # {}
       THEN UNCHANGED intents
       ELSE \E i \in Intents :
              /\ intents[i] = NoIntent
              /\ intents' = [intents EXCEPT ![i] = [status |-> "pending",
                                                    key |-> handler[w].key]]
    /\ Goto(w, Idle)
    /\ UNCHANGED <<ledgerVars, events, cache, transfers, provider, acked, bounds>>

---------------------------------------------------------------------------
(* settle_funding_intent *)

\* POST /wallet/webhooks/{provider} with a valid signature, for a known intent
Deliver(w, n) ==
    /\ handler[w].pc = "idle"
    /\ n \in notices \ acked
    /\ delivered' = delivered \cup {n}
    /\ \E i \in Existing(n.key) :
          Goto(w, [pc |-> "credited", key |-> n.key, notice |-> n, intent |-> i])
    /\ UNCHANGED <<ledgerVars, tables, notices, acked, bounds>>

\* _already_credited: the ledger decides, not the intent's status
CheckCredited(w) ==
    LET h == handler[w] IN
    /\ h.pc = "credited"
    /\ IF CreditsOfIntent(h.intent) # {}
       THEN Reply2xx(w)                                        \* already_confirmed
       ELSE Goto(w, [h EXCEPT !.pc = "duplicate"]) /\ UNCHANGED acked
    /\ UNCHANGED <<ledgerVars, tables, provider, bounds>>

CheckDuplicateClaiming(w) ==    \* mutant: the check records the event it looks for
    LET h == handler[w] IN
    /\ h.pc = "duplicate"
    /\ events' = events \cup {h.notice.event}
    /\ IF h.notice.event # NoEvent /\ h.notice.event \in events
       THEN Reply2xx(w)
       ELSE Goto(w, [h EXCEPT !.pc = "event"]) /\ UNCHANGED acked
    /\ UNCHANGED <<ledgerVars, intents, cache, transfers, provider, bounds>>

CheckDuplicate(w) ==
    LET h == handler[w] IN
    /\ h.pc = "duplicate"
    /\ IF h.notice.event # NoEvent /\ h.notice.event \in events
       THEN Reply2xx(w)                                        \* duplicate
       ELSE Goto(w, [h EXCEPT !.pc = "event"]) /\ UNCHANGED acked
    /\ UNCHANGED <<ledgerVars, tables, provider, bounds>>

\* UNIQUE (provider, provider_event_id); NULLs do not conflict
InsertEvent(w) ==
    LET h == handler[w] IN
    /\ h.pc = "event"
    /\ IF h.notice.event # NoEvent /\ h.notice.event \in events
       THEN ReplyError(w) /\ UNCHANGED events
       ELSE /\ events' = events \cup {h.notice.event}
            /\ Goto(w, [h EXCEPT !.pc = "cache"]) /\ UNCHANGED acked
    /\ UNCHANGED <<ledgerVars, intents, cache, transfers, provider, bounds>>

UpsertCache(w) ==
    /\ handler[w].pc = "cache"
    /\ cache' = cache \cup {handler[w].key}
    /\ Goto(w, [handler[w] EXCEPT !.pc = "transfer"])
    /\ UNCHANGED <<ledgerVars, intents, events, transfers, provider, acked, bounds>>

\* amount_received: what the notice says, else what the intent expected
Received(n) == IF n.amount # 0 THEN n.amount ELSE Expected[n.key]

\* The columns of wallet_transactions that are unique together; every row is "in".  The
\* amount is one of them, and each notice brings its own.
TransferOf(n) == [sig |-> n.sig, mint |-> Mint[n.key], amount |-> Received(n)]

\* _compute_credit_amount: a deposit that is neither quoted in USD nor a stablecoin is
\* refused, any other is worth at least a micro-credit
Creditable(n) == n.usd > 0 \/ n.key \in Stablecoins

CreditAmount(n) ==
    LET usd == IF n.usd > 0 THEN n.usd ELSE Received(n)
    IN  IF usd = 0 THEN 1 ELSE usd * MICRO_CREDITS_PER_CREDIT

InsertTransferUnguarded(w) ==    \* mutant: a transfer is not unique
    LET h == handler[w] IN
    /\ h.pc = "transfer"
    /\ transfers' = transfers \cup {TransferOf(h.notice)}
    /\ IF Creditable(h.notice)
       THEN Goto(w, [h EXCEPT !.pc = "credit"]) /\ UNCHANGED acked
       ELSE ReplyError(w)
    /\ UNCHANGED <<ledgerVars, intents, events, cache, provider, bounds>>

\* The wallet_transactions insert: UNIQUE (transaction_signature, mint_address, amount,
\* direction), so one signature is taken again with another amount; a signature the
\* handler makes up never conflicts.  Then the amount to credit, which may be refused.
InsertTransfer(w) ==
    LET h == handler[w] IN
    /\ h.pc = "transfer"
    /\ IF h.notice.sig # NoSig /\ TransferOf(h.notice) \in transfers
       THEN ReplyError(w) /\ UNCHANGED transfers
       ELSE /\ transfers' = transfers \cup {TransferOf(h.notice)}
            /\ IF Creditable(h.notice)
               THEN Goto(w, [h EXCEPT !.pc = "credit"]) /\ UNCHANGED acked
               ELSE ReplyError(w)
    /\ UNCHANGED <<ledgerVars, intents, events, cache, provider, bounds>>

\* add_credits without an idempotency key
Credit(w) ==
    LET h == handler[w] IN
    /\ h.pc = "credit"
    /\ AddCredits(Owner[h.key], CreditAmount(h.notice), "purchase", NoKey, h.intent)
    /\ Goto(w, [h EXCEPT !.pc = "confirm"])
    /\ UNCHANGED <<tables, provider, acked, bounds>>

\* The intent is confirmed last
Confirm(w) ==
    LET h == handler[w] IN
    /\ h.pc = "confirm"
    /\ intents' = [intents EXCEPT ![h.intent].status = "confirmed"]
    /\ Reply2xx(w)
    /\ UNCHANGED <<ledgerVars, events, cache, transfers, provider, bounds>>

\* A call raises, or the worker dies; a call may raise after it took effect,
\* which is this step coming after the call's own
Fail(w) ==
    /\ handler[w].pc # "idle"
    /\ faults < MaxFaults
    /\ faults' = faults + 1
    /\ ReplyError(w)
    /\ UNCHANGED <<ledgerVars, tables, provider, requests>>

Handle(w) ==
    \/ FindIntent(w) \/ InsertIntent(w)
    \/ CheckCredited(w) \/ CheckDuplicate(w) \/ InsertEvent(w) \/ UpsertCache(w)
    \/ InsertTransfer(w) \/ Credit(w) \/ Confirm(w)

NewUser(u) == SignUp(u) /\ UNCHANGED <<tables, provider, handler, acked, bounds>>

Init ==
    /\ LedgerInit
    /\ intents = [i \in Intents |-> NoIntent]
    /\ events = {} /\ cache = {} /\ transfers = {}
    /\ handler = [w \in Workers |-> Idle]
    /\ notices \in Announcements /\ delivered = {} /\ acked = {}
    /\ requests = 0 /\ faults = 0

Next ==
    \/ \E u \in Users : NewUser(u)
    \/ \E w \in Workers, k \in IntentKeys : RequestIntent(w, k)
    \/ \E w \in Workers, n \in UNION Announcements : Deliver(w, n)
    \/ \E w \in Workers : Handle(w) \/ Fail(w)

Spec == Init /\ [][Next]_vars

\* The event loop runs every coroutine whose call has returned, and the provider
\* goes on delivering what nobody has answered 2xx
FairSpec ==
    /\ Spec
    /\ \A w \in Workers : WF_vars(Handle(w))
    /\ SF_vars(\E w \in Workers, n \in UNION Announcements : Deliver(w, n))

---------------------------------------------------------------------------
(* Properties *)

WalletTypeOK ==
    /\ TypeOK
    /\ intents \in [Intents -> [status : {"none", "pending", "confirmed"},
                                key : IntentKeys \cup {None}]]
    /\ acked \subseteq delivered /\ delivered \subseteq notices
    /\ \A w \in Workers : handler[w].intent \in Intents \cup {None}

\* An idempotency key names one intent, so a user who retries funds once.
OneIntentPerKey ==
    /\ WalletTypeOK
    /\ \A i, j \in Intents :
        intents[i].key # None /\ intents[i].key = intents[j].key => i = j

\* The provider lets the deposit under a key be recognised: all its notices are of one
\* signed transfer, with one amount, or all of them of one event id.
Identified(k) ==
    \E m \in notices :
        \/ m.sig # NoSig /\ \A n \in notices : n.key = k => TransferOf(n) = TransferOf(m)
        \/ m.event # NoEvent /\ \A n \in notices : n.key = k => n.event = m.event

\* A deposit is credited at most once.  add_credits is given no key here, so this
\* rests on the provider: wallet_transactions takes a signature once with one amount and
\* wallet_funding_events an event id.  A deposit that is announced without either, or
\* each time with another, may be credited each time: also one whose notices share the
\* signature but not the amount.  And a confirmed intent has been credited, whatever
\* failed: wallet_funding_intents_unpaid is empty.
DepositCreditedOnce ==
    \A i \in Intents :
        /\ Identified(intents[i].key) => Cardinality(CreditsOfIntent(i)) <= 1
        /\ intents[i].status = "confirmed" => CreditsOfIntent(i) # {}

\* A deposit the provider announces is credited as long as no call fails and every
\* notice has the quote it needs: deliveries of several notices to several workers never make
\* each other duplicates before one of them has credited ("if anything above fails
\* the intent stays pending and the provider's retry runs the whole flow again").
AnnouncedIsCredited ==
    \A n \in UNION Announcements :
        n \in delivered /\ (\A m \in notices : Creditable(m)) ~>
            faults > 0 \/ \A i \in Existing(n.key) : CreditsOfIntent(i) # {}
============================================================================

-------------------------- MODULE StripePayments --------------------------
(***************************************************************************)
(* Credit purchases through Stripe: the webhook handler, the payment_events *)
(* claim it makes before it acts, and the ledger it credits and debits.     *)
(* Every database call of the handler is one step.                         *)
(*                                                                         *)
(* Stripe is external, modelled from what the handler relies on: an event  *)
(* is delivered until it is answered 2xx, may be delivered again after     *)
(* that, to several workers at once, and in any order; a payment that      *)
(* settles later completes unpaid and succeeds or fails in a second event; *)
(* a refund is announced by two events, of the two types the handler takes. *)
(***************************************************************************)
EXTENDS CreditLedger, FiniteSetsExt

CONSTANTS
    Workers,            \* requests being handled at once
    Payments,           \* checkout sessions, each with its payment intent
    PaidBy,             \* Payments -> user in the session's metadata
    Price,              \* Payments -> micro-credits in the session's metadata
    MaxRedeliveries,    \* bound: deliveries of an event already answered 2xx
    MaxFaults,          \* bound: database calls that fail
    MaxSpends,          \* bound: debits by usage settlement
    None

Events == [type : {"completed", "async_succeeded", "async_failed",
                   "charge.refunded", "refund.created"},
           pay : Payments]

ASSUME StripeAssumption ==
    /\ Payments \subseteq Keys
    /\ Payments \cup Events \subseteq Refs /\ Payments \cap Events = {}
    /\ \A p \in Payments : PaidBy[p] \in Users /\ Price[p] \in Nat \ {0}

VARIABLES
    kind,       \* at Stripe: Payments -> settled at checkout ("prompt"), so and told
                \* by both events ("twice"), later ("delayed"), or not made by
                \* create_checkout_session ("foreign")
    stage,      \* at Stripe: Payments -> how far the payment is
    emitted,    \* at Stripe: events that have happened
    acked,      \* at Stripe: events answered 2xx
    events,     \* payment_events: Events -> status, "none" without a row
    handler,    \* Workers -> the delivery being handled
    redeliveries, faults, spends    \* counters, bounded

stripe == <<kind, stage, emitted>>
bounds == <<redeliveries, faults, spends>>
vars   == <<ledgerVars, stripe, acked, events, handler, bounds>>

Kinds == {"prompt", "twice", "delayed", "foreign"}

Idle == [pc |-> "idle", event |-> None, granted |-> 0, clawback |-> 0]

---------------------------------------------------------------------------
(* Stripe *)

Emit(new) == emitted' = emitted \cup new

Event(type, p) == [type |-> type, pay |-> p]

\* Checkout is finished: paid at once, or to be settled later
CompleteCheckout(p) ==
    /\ stage[p] = "open"
    /\ PaidBy[p] \in accounts
    /\ stage' = [stage EXCEPT ![p] = IF kind[p] = "delayed" THEN "processing" ELSE "paid"]
    /\ Emit({Event("completed", p)}
              \cup (IF kind[p] = "twice" THEN {Event("async_succeeded", p)} ELSE {}))
    /\ UNCHANGED kind

SettleLater(p) ==
    /\ stage[p] = "processing"
    /\ \/ stage' = [stage EXCEPT ![p] = "paid"] /\ Emit({Event("async_succeeded", p)})
       \/ stage' = [stage EXCEPT ![p] = "failed"] /\ Emit({Event("async_failed", p)})
    /\ UNCHANGED kind

Refund(p) ==
    /\ stage[p] = "paid"
    /\ stage' = [stage EXCEPT ![p] = "refunded"]
    /\ Emit({Event("charge.refunded", p), Event("refund.created", p)})
    /\ UNCHANGED kind

\* obj["payment_status"] of the event
SaysPaid(e) ==
    \/ e.type = "completed" /\ kind[e.pay] # "delayed"
    \/ e.type = "async_succeeded"

---------------------------------------------------------------------------
(* The handler *)

Goto(w, h) == handler' = [handler EXCEPT ![w] = h]
Reply2xx(w) == Goto(w, Idle) /\ acked' = acked \cup {handler[w].event}
ReplyError(w) == Goto(w, Idle) /\ UNCHANGED acked

Fault ==
    /\ faults < MaxFaults
    /\ faults' = faults + 1
    /\ UNCHANGED <<redeliveries, spends>>

\* POST /credits/webhook with a valid signature
Deliver(w, e) ==
    /\ handler[w].pc = "idle"
    /\ e \in emitted
    /\ IF e \in acked THEN redeliveries < MaxRedeliveries
                      ELSE \A x \in Workers : handler[x].event # e
    /\ redeliveries' = IF e \in acked THEN redeliveries + 1 ELSE redeliveries
    /\ Goto(w, [Idle EXCEPT !.pc = "claim", !.event = e])
    /\ UNCHANGED <<ledgerVars, stripe, acked, events, faults, spends>>

\* Stripe gives up waiting for an answer and sends the event to another worker
DeliverAgain(w, e) ==
    /\ handler[w].pc = "idle"
    /\ e \in emitted \ acked
    /\ \E x \in Workers : handler[x].event = e
    /\ redeliveries < MaxRedeliveries
    /\ redeliveries' = redeliveries + 1
    /\ Goto(w, [Idle EXCEPT !.pc = "claim", !.event = e])
    /\ UNCHANGED <<ledgerVars, stripe, acked, events, faults, spends>>

ClaimFailedAgain(w) ==    \* mutant: a failed event may be claimed again
    LET e == handler[w].event IN
    /\ handler[w].pc = "claim"
    /\ IF events[e] \notin {"none", "failed"}
       THEN Reply2xx(w) /\ UNCHANGED events
       ELSE /\ events' = [events EXCEPT ![e] = "received"]
            /\ Goto(w, [handler[w] EXCEPT !.pc = "dispatch"])
            /\ UNCHANGED acked
    /\ UNCHANGED <<ledgerVars, stripe, bounds>>

\* claim_event: the insert that UNIQUE (provider, event_id) lets one delivery win
Claim(w) ==
    LET e == handler[w].event IN
    /\ handler[w].pc = "claim"
    /\ IF events[e] # "none"
       THEN Reply2xx(w) /\ UNCHANGED events
       ELSE /\ events' = [events EXCEPT ![e] = "received"]
            /\ Goto(w, [handler[w] EXCEPT !.pc = "dispatch"])
            /\ UNCHANGED acked
    /\ UNCHANGED <<ledgerVars, stripe, bounds>>

\* _dispatch_event and the early returns of _handle_checkout_completed
NextStepAtCheckout(e) ==    \* mutant: async_payment_succeeded is not dispatched
    CASE e.type = "completed" ->
            IF kind[e.pay] = "foreign" \/ ~SaysPaid(e) THEN "complete" ELSE "credit"
      [] e.type \in {"charge.refunded", "refund.created"} -> "lookup"
      [] OTHER -> "complete"

NextStep(e) ==
    CASE e.type \in {"completed", "async_succeeded"} ->
            IF kind[e.pay] = "foreign" THEN "complete"      \* error: missing metadata
            ELSE IF ~SaysPaid(e) THEN "complete"              \* skipped
            ELSE "credit"
      [] e.type \in {"charge.refunded", "refund.created"} -> "lookup"
      [] OTHER -> "complete"                                  \* noted

Dispatch(w) ==
    /\ handler[w].pc = "dispatch"
    /\ Goto(w, [handler[w] EXCEPT !.pc = NextStep(handler[w].event)])
    /\ UNCHANGED <<ledgerVars, stripe, acked, events, bounds>>

CreditByEvent(w) ==    \* mutant: the ledger row carries no session key
    LET p == handler[w].event.pay IN
    /\ handler[w].pc = "credit"
    /\ AddCredits(PaidBy[p], Price[p], "purchase", NoKey, p)
    /\ \/ Goto(w, [handler[w] EXCEPT !.pc = "complete"]) /\ UNCHANGED bounds
       \/ Goto(w, [handler[w] EXCEPT !.pc = "failed"]) /\ Fault
    /\ UNCHANGED <<stripe, acked, events>>

\* add_credits under stripe:session:<id>; its answer may be lost on the way back
Credit(w) ==
    LET p == handler[w].event.pay IN
    /\ handler[w].pc = "credit"
    /\ AddCredits(PaidBy[p], Price[p], "purchase", p, p)
    /\ \/ Goto(w, [handler[w] EXCEPT !.pc = "complete"]) /\ UNCHANGED bounds
       \/ Goto(w, [handler[w] EXCEPT !.pc = "failed"]) /\ Fault
    /\ UNCHANGED <<stripe, acked, events>>

PurchaseRows(p) == {i \in DOMAIN ledger : ledger[i].type = "purchase" /\ ledger[i].ref = p}

\* _handle_refund looks for the credit it reverses
LookupPurchase(w) ==
    LET rows == PurchaseRows(handler[w].event.pay) IN
    /\ handler[w].pc = "lookup"
    /\ Goto(w, IF rows = {}
               THEN [handler[w] EXCEPT !.pc = "complete"]          \* unmatched
               ELSE [handler[w] EXCEPT !.pc = "balance",
                                       !.granted = ledger[Min(rows)].amount])
    /\ UNCHANGED <<ledgerVars, stripe, acked, events, bounds>>

\* get_balance, and the clamp at it
ReadBalance(w) ==
    LET h        == handler[w]
        clawback == Min({h.granted, BalanceOf(PaidBy[h.event.pay])})
    IN
    /\ h.pc = "balance"
    /\ Goto(w, [h EXCEPT !.clawback = clawback,
                         !.pc = IF clawback > 0 THEN "claw" ELSE "complete"])
    /\ UNCHANGED <<ledgerVars, stripe, acked, events, bounds>>

\* deduct_credits without a key; its answer, too, may be lost
ClawBack(w) ==
    LET h == handler[w] IN
    /\ h.pc = "claw"
    /\ DeductCredits(PaidBy[h.event.pay], h.clawback, h.event)
    /\ \/ Goto(w, [h EXCEPT !.pc = "complete"]) /\ UNCHANGED bounds
       \/ Goto(w, [h EXCEPT !.pc = "failed"]) /\ Fault
    /\ UNCHANGED <<stripe, acked, events>>

\* The balance moved since it was read: ValueError
ClawBackRefused(w) ==
    LET h == handler[w] IN
    /\ h.pc = "claw"
    /\ ~CanDeduct(PaidBy[h.event.pay], h.clawback)
    /\ Goto(w, [h EXCEPT !.pc = "failed"])
    /\ UNCHANGED <<ledgerVars, stripe, acked, events, bounds>>

\* complete_event "processed", and 200
Complete(w) ==
    /\ handler[w].pc = "complete"
    /\ events' = [events EXCEPT ![handler[w].event] = "processed"]
    /\ Reply2xx(w)
    /\ UNCHANGED <<ledgerVars, stripe, bounds>>

\* complete_event "failed", and the exception goes on to the route
MarkFailed(w) ==
    /\ handler[w].pc = "failed"
    /\ events' = [events EXCEPT ![handler[w].event] = "failed"]
    /\ ReplyError(w)
    /\ UNCHANGED <<ledgerVars, stripe, bounds>>

\* A call made between claim and completion raises without having had an effect
CallFails(w) ==
    /\ handler[w].pc \in {"credit", "lookup", "balance", "claw"}
    /\ Fault
    /\ Goto(w, [handler[w] EXCEPT !.pc = "failed"])
    /\ UNCHANGED <<ledgerVars, stripe, acked, events>>

\* complete_event is best effort: its failure is logged, the answer stays
OutcomeUnrecorded(w) ==
    /\ handler[w].pc \in {"complete", "failed"}
    /\ Fault
    /\ IF handler[w].pc = "complete" THEN Reply2xx(w) ELSE ReplyError(w)
    /\ UNCHANGED <<ledgerVars, stripe, events>>

\* The worker dies
Crash(w) ==
    /\ handler[w].pc # "idle"
    /\ Fault
    /\ ReplyError(w)
    /\ UNCHANGED <<ledgerVars, stripe, events>>

Handle(w) ==
    \/ Claim(w) \/ Dispatch(w) \/ Credit(w) \/ LookupPurchase(w) \/ ReadBalance(w)
    \/ ClawBack(w) \/ ClawBackRefused(w) \/ Complete(w) \/ MarkFailed(w)

---------------------------------------------------------------------------
NewUser(u) == SignUp(u) /\ UNCHANGED <<stripe, acked, events, handler, bounds>>

\* A debit by usage settlement
Spend(u, a) ==
    /\ spends < MaxSpends
    /\ spends' = spends + 1
    /\ DeductCredits(u, a, NoRef)
    /\ UNCHANGED <<stripe, acked, events, handler, redeliveries, faults>>

AtStripe ==
    /\ \E p \in Payments : CompleteCheckout(p) \/ SettleLater(p) \/ Refund(p)
    /\ UNCHANGED <<ledgerVars, acked, events, handler, bounds>>

Init ==
    /\ LedgerInit
    /\ stage = [p \in Payments |-> "open"]
    /\ emitted = {} /\ acked = {}
    /\ events = [e \in Events |-> "none"]
    /\ handler = [w \in Workers |-> Idle]
    /\ kind \in [Payments -> Kinds]
    /\ redeliveries = 0 /\ faults = 0 /\ spends = 0

Next ==
    \/ \E u \in Users : NewUser(u) \/ \E a \in Amounts : Spend(u, a)
    \/ AtStripe
    \/ \E w \in Workers, e \in Events : Deliver(w, e) \/ DeliverAgain(w, e)
    \/ \E w \in Workers :
          Handle(w) \/ CallFails(w) \/ OutcomeUnrecorded(w) \/ Crash(w)

Spec == Init /\ [][Next]_vars

\* The event loop runs every coroutine whose call has returned, and Stripe goes
\* on delivering events nobody has answered 2xx
FairSpec ==
    /\ Spec
    /\ \A w \in Workers : WF_vars(Handle(w))
    /\ SF_vars(\E w \in Workers, e \in Events : e \notin acked /\ Deliver(w, e))

---------------------------------------------------------------------------
(* Properties *)

Credited(p) == PurchaseRows(p) # {}
DebitsOf(e) == {i \in DOMAIN ledger : ledger[i].ref = e}

StripeTypeOK ==
    /\ TypeOK
    /\ kind \in [Payments -> Kinds]
    /\ stage \in [Payments -> {"open", "processing", "paid", "failed", "refunded"}]
    /\ acked \subseteq emitted /\ emitted \subseteq Events
    /\ events \in [Events -> {"none", "received", "processed", "failed"}]
    /\ \A w \in Workers :
          /\ handler[w].event \in emitted \cup {None}
          /\ handler[w].clawback <= handler[w].granted

\* A payment is credited at most once, although two events announce it, each may
\* arrive many times and at several workers, and any of them may fail half way;
\* nothing is credited that was not paid, and what is credited is the price of the
\* payment, to the user who made it.
PaymentCreditedOnce == \A p \in Payments :
    /\ Cardinality(PurchaseRows(p)) <= 1
    /\ \A i \in PurchaseRows(p) :
        /\ stage[p] \in {"paid", "refunded"}
        /\ kind[p] # "foreign"
        /\ ledger[i].user = PaidBy[p] /\ ledger[i].amount = Price[p]

\* One event debits at most once, although deduct_credits takes no key and its
\* answer may be lost after it has committed.
EventDebitsOnce == StripeTypeOK /\ \A e \in Events : Cardinality(DebitsOf(e)) <= 1

\* Whoever pays is credited, the delayed payment included, as long as no call
\* fails and no worker dies: the events of one payment, delivered in any order and
\* to two workers at once, never take each other for the one that did the work.  And
\* every ledger row a handler writes is for an event claimed and not yet completed: one
\* recorded as processed or answered as a duplicate never moves the balance again.
PaidIsCreditedUnlessFaulty ==
    /\ \A p \in Payments :
          stage[p] = "paid" /\ kind[p] # "foreign" ~> Credited(p) \/ faults > 0
    /\ [][\A i \in DOMAIN ledger' \ DOMAIN ledger :
             ledger'[i].ref \in Events => events[ledger'[i].ref] = "received"]_vars

---------------------------------------------------------------------------
(* What the documentation promises and the code does not keep, refuted by a *)
(* run of its own.                                                          *)

\* "Stripe retries on any non-2xx", so whoever pays is credited in the end.  One
\* fault is enough to lose the payment: the retry is taken for a duplicate.
PaidIsCredited ==
    \A p \in Payments : stage[p] = "paid" /\ kind[p] # "foreign" ~> Credited(p)
===========================================================================

----------------------- MODULE StripePaymentsProofs -----------------------
(***************************************************************************)
(* Proofs about StripePayments, for any payments, workers, prices and      *)
(* bounds: a payment is credited once, and an event debits once.           *)
(***************************************************************************)
EXTENDS StripePayments, CreditLedgerProofs, FiniteSetTheorems

Fields == DOMAIN Idle

---------------------------------------------------------------------------
(* The invariant *)

\* A delivery that has claimed its event, and one that may still debit for it.
Claimed == {"dispatch", "credit", "lookup", "balance", "claw", "complete", "failed"}
MayDebit == {"dispatch", "lookup", "balance", "claw"}
Pcs == {"idle", "claim"} \cup Claimed

Holds(w) == handler[w].pc \in Claimed
Undebited(e) == \A i \in DOMAIN ledger : ledger[i].ref # e
DebitedOnce(e) == \A i, j \in DOMAIN ledger : ledger[i].ref = e /\ ledger[j].ref = e => i = j

Delivery(h) ==
    /\ DOMAIN h = Fields /\ h.pc \in Pcs
    /\ h.pc # "idle" => h.event \in emitted
    /\ h.granted \in Int /\ h.clawback \in Int /\ h.clawback <= h.granted
    /\ h.pc = "claw" => h.clawback > 0
    /\ h.pc \in {"claim", "dispatch", "lookup"} => h.clawback = 0
    /\ h.pc = "credit" => SaysPaid(h.event) /\ kind[h.event.pay] # "foreign"

\* Stripe tells no payment paid that is not.
StripeIsTrue ==
    /\ \A e \in emitted : SaysPaid(e) => stage[e.pay] \in {"paid", "refunded"}
    /\ \A p \in Payments : stage[p] = "processing" => kind[p] = "delayed"

\* Who has claimed an event is alone with it, and has debited nothing when it asks to.
EventsAreHeld ==
    /\ \A w \in Workers : Holds(w) => events[handler[w].event] = "received"
    /\ \A v, w \in Workers : Holds(v) /\ Holds(w) /\ handler[v].event = handler[w].event => v = w
    /\ \A w \in Workers : handler[w].pc \in MayDebit => Undebited(handler[w].event)
    /\ \A e \in Events : /\ events[e] = "none" => Undebited(e)
                         /\ DebitedOnce(e)

\* A row that credits a payment carries its key, price and user, and the payment is paid.
PurchasesAreTrue ==
    \A i \in DOMAIN ledger : \A p \in Payments :
        ledger[i].type = "purchase" /\ ledger[i].ref = p =>
            /\ ledger[i].key = p /\ ledger[i].user = PaidBy[p] /\ ledger[i].amount = Price[p]
            /\ stage[p] \in {"paid", "refunded"} /\ kind[p] # "foreign"

StripeInv ==
    /\ StripeTypeOK /\ DOMAIN handler = Workers /\ \A w \in Workers : Delivery(handler[w])
    /\ StripeIsTrue /\ EventsAreHeld /\ PurchasesAreTrue /\ KeyCreditedOnce

---------------------------------------------------------------------------
(* Steps of a delivery that leave the tables alone *)

LEMMA Facts ==
    ASSUME StripeInv, NEW w \in Workers, handler[w].pc # "idle"
    PROVE  /\ handler[w].event \in Events /\ handler[w].event \in emitted
           /\ handler[w].event.pay \in Payments /\ DOMAIN handler[w] = Fields
           /\ handler[w].granted \in Int /\ handler[w].clawback \in Int
           /\ handler[w].clawback <= handler[w].granted
<1>1. Delivery(handler[w]) /\ emitted \subseteq Events
  BY DEF StripeInv, StripeTypeOK
<1> QED  BY <1>1 DEF Delivery, Events

LEMMA DeliveryMoves ==
    ASSUME StripeInv, UNCHANGED <<ledgerVars, stripe, events>>, NEW w \in Workers, NEW h, Goto(w, h),
           Delivery(h), h.event \in emitted \cup {None},
           acked' \subseteq emitted,
           h.pc \in Claimed => Holds(w) /\ h.event = handler[w].event,
           h.pc \in MayDebit => handler[w].pc \in MayDebit
    PROVE  StripeInv'
<1>1. /\ DOMAIN handler' = Workers /\ handler'[w] = h
      /\ \A v \in Workers : v # w => handler'[v] = handler[v]
  BY DEF Goto, StripeInv
<1>2. /\ UNCHANGED <<kind, stage, emitted, accounts, credits, ledger>>
      /\ \A e : SaysPaid(e)' <=> SaysPaid(e)
  BY DEF stripe, ledgerVars, SaysPaid
<1>3. \A v \in Workers : Delivery(handler[v])'
  <2>1. \A x : Delivery(x) => (DOMAIN x = Fields /\ x.pc \in Pcs)
    BY DEF Delivery
  <2>2. \A v \in Workers : Delivery(handler'[v])
    BY <1>1 DEF StripeInv
  <2> QED  BY <1>2, <2>2 DEF Delivery
<1>4. StripeTypeOK'
  <2>1. TypeOK'
    BY <1>2 DEF StripeInv, StripeTypeOK, TypeOK
  <2>2. \A v \in Workers : handler'[v].event \in emitted \cup {None}
                           /\ handler'[v].clawback <= handler'[v].granted
    BY <1>1 DEF StripeInv, StripeTypeOK, Delivery
  <2> QED  BY <1>2, <2>1, <2>2 DEF StripeInv, StripeTypeOK
<1>5. StripeIsTrue'
  BY <1>2 DEF StripeInv, StripeIsTrue
<1>6. EventsAreHeld'
  <2>1. \A v \in Workers :
          /\ handler'[v].pc \in Claimed => Holds(v) /\ handler'[v].event = handler[v].event
          /\ handler'[v].pc \in MayDebit => handler[v].pc \in MayDebit /\ handler'[v].pc \in Claimed
    BY <1>1 DEF Holds, Claimed, MayDebit
  <2>2. \A v \in Workers : handler'[v].pc \in MayDebit => Undebited(handler'[v].event)
    BY <2>1 DEF StripeInv, EventsAreHeld
  <2> QED  BY <1>2, <2>1, <2>2 DEF StripeInv, EventsAreHeld, Holds, Undebited, DebitedOnce
<1>7. PurchasesAreTrue' /\ KeyCreditedOnce'
  BY <1>2 DEF StripeInv, PurchasesAreTrue, KeyCreditedOnce
<1> QED  BY <1>1, <1>3, <1>4, <1>5, <1>6, <1>7 DEF StripeInv

\* What a handler goes on to, with the same event.
LEMMA GoesOn ==
    ASSUME StripeInv, UNCHANGED <<ledgerVars, stripe, acked, events>>, NEW w \in Workers,
           NEW h, Goto(w, h), DOMAIN h = Fields, Holds(w), h.event = handler[w].event,
           h.pc \in Claimed, h.pc \in MayDebit => handler[w].pc \in MayDebit,
           h.granted \in Int, h.clawback \in Int, h.clawback <= h.granted,
           h.pc = "claw" => h.clawback > 0, h.pc \in {"dispatch", "lookup"} => h.clawback = 0,
           h.pc = "credit" => SaysPaid(h.event) /\ kind[h.event.pay] # "foreign"
    PROVE  StripeInv'
<1>1. handler[w].event \in emitted
  BY Facts DEF Holds, Claimed
<1>2. Delivery(h) /\ acked' \subseteq emitted
  BY <1>1 DEF Delivery, Pcs, Claimed, StripeInv, StripeTypeOK
<1> QED  BY <1>1, <1>2, DeliveryMoves

LEMMA Ends ==
    ASSUME StripeInv, UNCHANGED <<ledgerVars, stripe, events>>, NEW w \in Workers,
           handler[w].pc # "idle", Goto(w, Idle),
           acked' = acked \/ acked' = acked \cup {handler[w].event}
    PROVE  StripeInv'
<1>1. Delivery(Idle) /\ Idle.event = None /\ Idle.pc = "idle"
  BY DEF Delivery, Idle, Fields, Pcs
<1>2. acked' \subseteq emitted
  BY Facts DEF StripeInv, StripeTypeOK
<1> QED  BY <1>1, <1>2, DeliveryMoves DEF Claimed, MayDebit

LEMMA Begins ==
    ASSUME StripeInv, UNCHANGED <<ledgerVars, stripe, acked, events>>, NEW w \in Workers,
           NEW e \in emitted, Goto(w, [Idle EXCEPT !.pc = "claim", !.event = e])
    PROVE  StripeInv'
<1> DEFINE x == [Idle EXCEPT !.pc = "claim", !.event = e]
<1>1. /\ DOMAIN x = Fields /\ x.pc = "claim" /\ x.event = e /\ x.granted = 0 /\ x.clawback = 0
  BY DEF Idle, Fields
<1>2. Goto(w, x)
  OBVIOUS
<1> HIDE DEF x
<1>3. Delivery(x) /\ acked' \subseteq emitted
  BY <1>1 DEF Delivery, Pcs, StripeInv, StripeTypeOK
<1> QED  BY <1>1, <1>2, <1>3, DeliveryMoves DEF Claimed, MayDebit

LEMMA BeginKeeps ==
    ASSUME StripeInv, NEW w \in Workers, NEW e \in Events, Deliver(w, e) \/ DeliverAgain(w, e)
    PROVE  StripeInv'
<1>1. /\ UNCHANGED <<ledgerVars, stripe, acked, events>> /\ e \in emitted
      /\ Goto(w, [Idle EXCEPT !.pc = "claim", !.event = e])
  BY DEF Deliver, DeliverAgain
<1> QED  BY <1>1, Begins

LEMMA EndKeeps ==
    ASSUME StripeInv, NEW w \in Workers, OutcomeUnrecorded(w) \/ Crash(w)
    PROVE  StripeInv'
<1>1. /\ UNCHANGED <<ledgerVars, stripe, events>> /\ handler[w].pc # "idle" /\ Goto(w, Idle)
      /\ acked' = acked \/ acked' = acked \cup {handler[w].event}
  BY DEF OutcomeUnrecorded, Crash, Reply2xx, ReplyError
<1> QED  BY <1>1, Ends

LEMMA FailingKeeps ==
    ASSUME StripeInv, NEW w \in Workers, CallFails(w) \/ ClawBackRefused(w)
    PROVE  StripeInv'
<1> DEFINE h == handler[w]
           x == [h EXCEPT !.pc = "failed"]
<1>1. /\ UNCHANGED <<ledgerVars, stripe, acked, events>> /\ Goto(w, x)
      /\ h.pc \in {"credit", "lookup", "balance", "claw"}
  BY DEF CallFails, ClawBackRefused
<1>2. DOMAIN h = Fields /\ h.granted \in Int /\ h.clawback \in Int /\ h.clawback <= h.granted
      /\ Holds(w)
  BY <1>1, Facts DEF Holds, Claimed
<1>3. DOMAIN x = Fields /\ x.pc = "failed" /\ x.event = h.event /\ x.granted = h.granted
      /\ x.clawback = h.clawback
  BY <1>2 DEF Fields, Idle
<1> HIDE DEF x
<1> QED  BY <1>1, <1>2, <1>3, GoesOn DEF Claimed, MayDebit

LEMMA DispatchKeeps ==
    ASSUME StripeInv, NEW w \in Workers, Dispatch(w)
    PROVE  StripeInv'
<1> DEFINE h == handler[w]
           x == [h EXCEPT !.pc = NextStep(h.event)]
<1>1. UNCHANGED <<ledgerVars, stripe, acked, events>> /\ Goto(w, x) /\ h.pc = "dispatch"
  BY DEF Dispatch
<1>2. DOMAIN h = Fields /\ h.granted \in Int /\ h.clawback \in Int /\ h.clawback <= h.granted
      /\ Holds(w) /\ h.clawback = 0
  BY <1>1, Facts DEF Holds, Claimed, StripeInv, Delivery
<1>3. /\ NextStep(h.event) \in {"complete", "credit", "lookup"}
      /\ NextStep(h.event) = "credit" => SaysPaid(h.event) /\ kind[h.event.pay] # "foreign"
  BY DEF NextStep
<1>4. DOMAIN x = Fields /\ x.pc = NextStep(h.event) /\ x.event = h.event /\ x.granted = h.granted
      /\ x.clawback = h.clawback
  BY <1>2 DEF Fields, Idle
<1> HIDE DEF x
<1> QED  BY <1>1, <1>2, <1>3, <1>4, GoesOn DEF Claimed, MayDebit

LEMMA MinOfTwo ==
    ASSUME NEW a \in Int, NEW b \in Int
    PROVE  Min({a, b}) \in Int /\ Min({a, b}) <= a
<1>1. \E x \in {a, b} : \A y \in {a, b} : x =< y
  <2>1. CASE a <= b
    BY <2>1
  <2>2. CASE ~(a <= b)
    BY <2>2
  <2> QED  BY <2>1, <2>2
<1> QED  BY <1>1 DEF Min

LEMMA LookupKeeps ==
    ASSUME StripeInv, NEW w \in Workers, LookupPurchase(w)
    PROVE  StripeInv'
<1> DEFINE h == handler[w]
           p == h.event.pay
           rows == PurchaseRows(p)
           x == [h EXCEPT !.pc = "complete"]
           y == [h EXCEPT !.pc = "balance", !.granted = ledger[Min(rows)].amount]
<1>1. UNCHANGED <<ledgerVars, stripe, acked, events>> /\ h.pc = "lookup"
      /\ Goto(w, IF rows = {} THEN x ELSE y)
  BY DEF LookupPurchase
<1>2. DOMAIN h = Fields /\ h.granted \in Int /\ h.clawback = 0 /\ h.clawback <= h.granted
      /\ Holds(w) /\ p \in Payments
  BY <1>1, Facts DEF Holds, Claimed, StripeInv, Delivery
<1>3. CASE rows = {}
  <2>1. DOMAIN x = Fields /\ x.pc = "complete" /\ x.event = h.event /\ x.granted = h.granted
        /\ x.clawback = h.clawback
    BY <1>2 DEF Fields, Idle
  <2>2. Goto(w, x)
    BY <1>1, <1>3
  <2> HIDE DEF x
  <2> QED  BY <1>1, <1>2, <2>1, <2>2, GoesOn DEF Claimed, MayDebit
<1>4. CASE rows # {}
  <2>1. p # NoKey
    BY <1>2, LedgerAssumption, StripeAssumption DEF LedgerAssumption, StripeAssumption
  <2>2. \A i \in rows : i \in DOMAIN ledger /\ ledger[i].key = p /\ ledger[i].amount = Price[p]
    BY <1>2 DEF PurchaseRows, StripeInv, PurchasesAreTrue
  <2>3. \A i, j \in rows : i = j
    BY <2>1, <2>2 DEF StripeInv, KeyCreditedOnce
  <2>4. PICK i : rows = {i} /\ i \in DOMAIN ledger
    BY <1>4, <2>2, <2>3
  <2>5. i \in Int
    BY <2>4 DEF StripeInv, StripeTypeOK, TypeOK
  <2>6. Min(rows) = i
    BY <2>4, <2>5 DEF Min
  <2>7. ledger[Min(rows)].amount \in Nat
    BY <1>2, <2>2, <2>4, <2>6, StripeAssumption DEF StripeAssumption
  <2> HIDE DEF rows
  <2>8. /\ DOMAIN y = Fields /\ y.pc = "balance" /\ y.event = h.event
        /\ y.granted = ledger[Min(rows)].amount /\ y.clawback = h.clawback
    BY <1>2 DEF Fields, Idle
  <2>9. Goto(w, y)
    BY <1>1, <1>4
  <2> HIDE DEF y
  <2>10. y.clawback \in Int /\ y.granted \in Int /\ y.clawback <= y.granted
    BY <1>2, <2>7, <2>8
  <2> QED  BY <1>1, <1>2, <2>8, <2>9, <2>10, GoesOn DEF Claimed, MayDebit
<1> QED  BY <1>3, <1>4

LEMMA ReadBalanceKeeps ==
    ASSUME StripeInv, NEW w \in Workers, ReadBalance(w)
    PROVE  StripeInv'
<1> DEFINE h == handler[w]
           c == Min({h.granted, BalanceOf(PaidBy[h.event.pay])})
           x == [h EXCEPT !.clawback = c, !.pc = IF c > 0 THEN "claw" ELSE "complete"]
<1>1. UNCHANGED <<ledgerVars, stripe, acked, events>> /\ h.pc = "balance" /\ Goto(w, x)
  BY DEF ReadBalance
<1>2. DOMAIN h = Fields /\ h.granted \in Int /\ Holds(w)
  BY <1>1, Facts DEF Holds, Claimed
<1>3. BalanceOf(PaidBy[h.event.pay]) \in Int
  <2>1. TypeOK
    BY DEF StripeInv, StripeTypeOK
  <2> QED  BY <2>1 DEF TypeOK, BalanceOf, CreditsOf, CreditsRow, CreditRow
<1>4. c \in Int /\ c <= h.granted
  BY <1>2, <1>3, MinOfTwo
<1> HIDE DEF c
<1>5. /\ DOMAIN x = Fields /\ x.pc = (IF c > 0 THEN "claw" ELSE "complete") /\ x.event = h.event
      /\ x.granted = h.granted /\ x.clawback = c
  BY <1>2 DEF Fields, Idle
<1> HIDE DEF x
<1> QED  BY <1>1, <1>2, <1>4, <1>5, GoesOn DEF Claimed, MayDebit

---------------------------------------------------------------------------
(* Claims and outcomes *)

LEMMA EventMoves ==
    ASSUME StripeInv, NEW w \in Workers, NEW h, NEW s \in {"received", "processed", "failed"},
           UNCHANGED <<ledgerVars, stripe>>, Goto(w, h), Delivery(h),
           h.event \in emitted \cup {None}, handler[w].pc # "idle",
           acked' = acked \/ acked' = acked \cup {handler[w].event},
           events' = [events EXCEPT ![handler[w].event] = s],
           \/ Holds(w) /\ h.pc = "idle"
           \/ /\ events[handler[w].event] = "none" /\ h.pc = "dispatch"
              /\ s = "received" /\ h.event = handler[w].event
    PROVE  StripeInv'
<1>1. PICK e \in Events : e = handler[w].event /\ e \in emitted
  BY Facts
<1>2. /\ DOMAIN handler' = Workers /\ handler'[w] = h
      /\ \A v \in Workers : v # w => handler'[v] = handler[v]
  BY DEF Goto, StripeInv
<1>3. /\ UNCHANGED <<kind, stage, emitted, accounts, credits, ledger>>
      /\ \A x : SaysPaid(x)' <=> SaysPaid(x)
  BY DEF stripe, ledgerVars, SaysPaid
<1>4. /\ events' \in [Events -> {"none", "received", "processed", "failed"}] /\ events'[e] = s
      /\ \A x \in Events : x # e => events'[x] = events[x]
  BY <1>1 DEF StripeInv, StripeTypeOK
<1>5. \A v \in Workers : Delivery(handler[v])'
  <2>1. \A v \in Workers : Delivery(handler'[v])
    BY <1>2 DEF StripeInv
  <2> QED  BY <1>3, <2>1 DEF Delivery
<1>6. StripeTypeOK'
  <2>1. TypeOK'
    BY <1>3 DEF StripeInv, StripeTypeOK, TypeOK
  <2>2. \A v \in Workers : handler'[v].event \in emitted \cup {None}
                           /\ handler'[v].clawback <= handler'[v].granted
    BY <1>2 DEF StripeInv, StripeTypeOK, Delivery
  <2>3. acked' \subseteq emitted
    BY <1>1 DEF StripeInv, StripeTypeOK
  <2> QED  BY <1>3, <1>4, <2>1, <2>2, <2>3 DEF StripeInv, StripeTypeOK
<1>7. StripeIsTrue' /\ PurchasesAreTrue' /\ KeyCreditedOnce'
  BY <1>3 DEF StripeInv, StripeIsTrue, PurchasesAreTrue, KeyCreditedOnce
<1>8. EventsAreHeld'
  <2>1. \A v \in Workers : Holds(v) => handler[v].event \in Events
    BY Facts DEF Holds, Claimed
  <2>2. \A v \in Workers : v # w /\ Holds(v) => handler[v].event # e
    BY <1>1, <2>1 DEF StripeInv, EventsAreHeld
  <2>3. \A v \in Workers : v # w => (handler'[v].pc \in Claimed <=> Holds(v))
    BY <1>2 DEF Holds
  <2>4. \A v \in Workers : handler'[v].pc \in MayDebit => Undebited(handler'[v].event)
    <3>1. CASE h.pc = "idle"
      BY <1>2, <3>1 DEF StripeInv, EventsAreHeld, MayDebit
    <3>2. CASE h.pc = "dispatch"
      BY <1>1, <1>2, <3>2 DEF StripeInv, EventsAreHeld, MayDebit
    <3> QED  BY <3>1, <3>2
  <2>5. ASSUME NEW v \in Workers, handler'[v].pc \in Claimed
        PROVE  /\ events'[handler'[v].event] = "received"
               /\ \A u \in Workers : handler'[u].pc \in Claimed /\ handler'[u].event = handler'[v].event
                                     => u = v
    <3>1. CASE h.pc = "idle"
      BY <1>2, <1>4, <2>1, <2>2, <2>3, <2>5, <3>1 DEF StripeInv, EventsAreHeld, Claimed, Holds
    <3>2. CASE h.pc = "dispatch"
      BY <1>1, <1>2, <1>4, <2>1, <2>2, <2>3, <2>5, <3>2 DEF StripeInv, EventsAreHeld, Claimed, Holds
    <3> QED  BY <3>1, <3>2
  <2>6. \A x \in Events : events'[x] = "none" => Undebited(x)
    BY <1>4 DEF StripeInv, EventsAreHeld
  <2> QED  BY <1>3, <2>4, <2>5, <2>6 DEF StripeInv, EventsAreHeld, Holds, Undebited, DebitedOnce
<1> QED  BY <1>2, <1>5, <1>6, <1>7, <1>8 DEF StripeInv

LEMMA ClaimKeeps ==
    ASSUME StripeInv, NEW w \in Workers, Claim(w)
    PROVE  StripeInv'
<1> DEFINE h == handler[w]
           x == [h EXCEPT !.pc = "dispatch"]
<1>1. h.pc = "claim" /\ UNCHANGED <<ledgerVars, stripe>>
  BY DEF Claim
<1>2. CASE events[h.event] # "none"
  BY <1>1, <1>2, Ends DEF Claim, Reply2xx
<1>3. CASE events[h.event] = "none"
  <2>1. /\ events' = [events EXCEPT ![h.event] = "received"] /\ Goto(w, x) /\ acked' = acked
    BY <1>3 DEF Claim
  <2>2. /\ DOMAIN h = Fields /\ h.event \in emitted /\ h.granted \in Int /\ h.clawback = 0
        /\ h.clawback <= h.granted
    BY <1>1, Facts DEF StripeInv, Delivery
  <2>3. DOMAIN x = Fields /\ x.pc = "dispatch" /\ x.event = h.event /\ x.granted = h.granted
        /\ x.clawback = h.clawback
    BY <2>2 DEF Fields, Idle
  <2> HIDE DEF x
  <2>4. Delivery(x)
    BY <2>2, <2>3 DEF Delivery, Pcs, Claimed
  <2> QED  BY <1>1, <1>3, <2>1, <2>2, <2>3, <2>4, EventMoves
<1> QED  BY <1>2, <1>3

LEMMA OutcomeKeeps ==
    ASSUME StripeInv, NEW w \in Workers, Complete(w) \/ MarkFailed(w)
    PROVE  StripeInv'
<1>1. Delivery(Idle) /\ Idle.event = None /\ Idle.pc = "idle"
  BY DEF Delivery, Idle, Fields, Pcs
<1>2. /\ UNCHANGED <<ledgerVars, stripe>> /\ Goto(w, Idle) /\ Holds(w) /\ handler[w].pc # "idle"
      /\ acked' = acked \/ acked' = acked \cup {handler[w].event}
  BY DEF Complete, MarkFailed, Reply2xx, ReplyError, Holds, Claimed
<1>3. \E s \in {"received", "processed", "failed"} :
          events' = [events EXCEPT ![handler[w].event] = s]
  BY DEF Complete, MarkFailed
<1> QED  BY <1>1, <1>2, <1>3, EventMoves

---------------------------------------------------------------------------
(* Steps that move the ledger *)

LEMMA GrowthKeeps ==
    ASSUME StripeInv, NEW r, Grows(r), UNCHANGED <<kind, stage>>,
           r.key = NoKey \/ ~KeyTaken(r.key),
           \A p \in Payments : r.type = "purchase" /\ r.ref = p =>
              /\ r.key = p /\ r.user = PaidBy[p] /\ r.amount = Price[p]
              /\ stage[p] \in {"paid", "refunded"} /\ kind[p] # "foreign"
    PROVE  /\ TypeOK' /\ PurchasesAreTrue' /\ KeyCreditedOnce'
           /\ \A e : r.ref # e /\ Undebited(e) => Undebited(e)'
           /\ \A e : r.ref # e /\ DebitedOnce(e) => DebitedOnce(e)'
           /\ \A e : Undebited(e) => DebitedOnce(e)'
<1>1. TypeOK
  BY DEF StripeInv, StripeTypeOK
<1>2. /\ Len(ledger) \in Nat /\ DOMAIN ledger = 1 .. Len(ledger)
      /\ DOMAIN ledger' = 1 .. Len(ledger) + 1
      /\ \A i \in DOMAIN ledger : ledger'[i] = ledger[i]
      /\ ledger'[Len(ledger) + 1] = r
      /\ \A i \in DOMAIN ledger' : i \in DOMAIN ledger \/ i = Len(ledger) + 1
  BY <1>1, GrownRows
<1>3. PurchasesAreTrue'
  BY <1>2 DEF StripeInv, PurchasesAreTrue
<1>4. KeyCreditedOnce'
  <2>1. \A i \in DOMAIN ledger : r.key # NoKey => ledger[i].key # r.key
    BY DEF KeyTaken
  <2> QED  BY <1>2, <2>1 DEF StripeInv, KeyCreditedOnce
<1> QED  BY <1>2, <1>3, <1>4 DEF Undebited, DebitedOnce, Grows

\* The balance is moved for no event: by a sign-up, or by usage.
LEMMA OtherGrowth ==
    ASSUME StripeInv, NEW r, Grows(r), UNCHANGED <<stripe, acked, events, handler>>,
           r.key = NoKey, r.ref = NoRef, r.type # "purchase"
    PROVE  StripeInv'
<1>1. UNCHANGED <<kind, stage, emitted>>
  BY DEF stripe
<1>2. NoRef \notin Events
  BY LedgerAssumption, StripeAssumption DEF LedgerAssumption, StripeAssumption
<1>3. /\ TypeOK' /\ PurchasesAreTrue' /\ KeyCreditedOnce'
      /\ \A e \in Events : Undebited(e) => Undebited(e)'
      /\ \A e \in Events : DebitedOnce(e) => DebitedOnce(e)'
  BY <1>1, <1>2, GrowthKeeps
<1>4. \A w \in Workers : Delivery(handler[w])'
  BY <1>1 DEF StripeInv, Delivery, SaysPaid
<1>5. StripeTypeOK'
  BY <1>1, <1>3 DEF StripeInv, StripeTypeOK
<1>6. StripeIsTrue'
  BY <1>1 DEF StripeInv, StripeIsTrue, SaysPaid
<1>7. EventsAreHeld'
  <2>1. \A w \in Workers : handler[w].pc \in MayDebit => Undebited(handler[w].event)'
    <3> SUFFICES ASSUME NEW w \in Workers, handler[w].pc \in MayDebit
                 PROVE  Undebited(handler[w].event)'
      OBVIOUS
    <3>1. handler[w].event \in Events /\ Undebited(handler[w].event)
      BY Facts DEF MayDebit, StripeInv, EventsAreHeld
    <3> QED  BY <1>3, <3>1 DEF Undebited
  <2> QED  BY <1>3, <2>1 DEF StripeInv, EventsAreHeld, Holds
<1> QED  BY <1>3, <1>4, <1>5, <1>6, <1>7 DEF StripeInv

\* A delivery moves the balance: for a payment, or, once, for its event.
LEMMA OwnGrowth ==
    ASSUME StripeInv, NEW w \in Workers, NEW r, Grows(r), UNCHANGED <<stripe, acked, events>>,
           NEW p \in {"complete", "failed"}, Goto(w, [handler[w] EXCEPT !.pc = p]), Holds(w),
           r.key = NoKey \/ ~KeyTaken(r.key),
           \A q \in Payments : r.type = "purchase" /\ r.ref = q =>
              /\ r.key = q /\ r.user = PaidBy[q] /\ r.amount = Price[q]
              /\ stage[q] \in {"paid", "refunded"} /\ kind[q] # "foreign",
           r.ref \in Events => r.ref = handler[w].event /\ handler[w].pc \in MayDebit
    PROVE  StripeInv'
<1> DEFINE h == handler[w]
           x == [h EXCEPT !.pc = p]
<1>1. PICK e \in Events : e = h.event /\ e \in emitted
  BY Facts DEF Holds, Claimed
<1>2. DOMAIN h = Fields /\ h.granted \in Int /\ h.clawback \in Int /\ h.clawback <= h.granted
  BY Facts DEF Holds, Claimed
<1>3. DOMAIN x = Fields /\ x.pc = p /\ x.event = e /\ x.granted = h.granted
      /\ x.clawback = h.clawback
  BY <1>1, <1>2 DEF Fields, Idle
<1>4. /\ DOMAIN handler' = Workers /\ handler'[w] = x
      /\ \A v \in Workers : v # w => handler'[v] = handler[v]
  BY DEF Goto, StripeInv
<1> HIDE DEF x
<1>5. UNCHANGED <<kind, stage, emitted, acked, events>>
  BY DEF stripe
<1>6. /\ TypeOK' /\ PurchasesAreTrue' /\ KeyCreditedOnce'
      /\ \A d \in Events : r.ref # d /\ Undebited(d) => Undebited(d)'
      /\ \A d \in Events : r.ref # d /\ DebitedOnce(d) => DebitedOnce(d)'
      /\ \A d \in Events : Undebited(d) => DebitedOnce(d)'
  BY <1>5, GrowthKeeps
<1>7. \A v \in Workers : Delivery(handler[v])'
  <2>1. Delivery(x)
    BY <1>1, <1>2, <1>3 DEF Delivery, Pcs, Claimed
  <2>2. \A v \in Workers : Delivery(handler'[v])
    BY <1>4, <2>1 DEF StripeInv
  <2> QED  BY <1>5, <2>2 DEF Delivery, SaysPaid
<1>8. StripeTypeOK'
  <2>1. \A v \in Workers : handler'[v].event \in emitted \cup {None}
                           /\ handler'[v].clawback <= handler'[v].granted
    BY <1>1, <1>2, <1>3, <1>4 DEF StripeInv, StripeTypeOK
  <2> QED  BY <1>5, <1>6, <2>1 DEF StripeInv, StripeTypeOK
<1>9. StripeIsTrue'
  BY <1>5 DEF StripeInv, StripeIsTrue, SaysPaid
<1>10. EventsAreHeld'
  <2>1. \A v \in Workers : /\ handler'[v].event = handler[v].event
                           /\ handler'[v].pc \in Claimed <=> Holds(v)
                           /\ handler'[v].pc \in MayDebit => v # w /\ handler[v].pc \in MayDebit
    BY <1>1, <1>3, <1>4 DEF Holds, Claimed, MayDebit
  <2>2. \A v \in Workers : Holds(v) => handler[v].event \in Events
    BY Facts DEF Holds, Claimed
  <2>3. ASSUME NEW v \in Workers, handler'[v].pc \in MayDebit PROVE Undebited(handler[v].event)'
    <3>1. Holds(v) /\ v # w /\ Undebited(handler[v].event) /\ handler[v].event \in Events
      BY <2>1, <2>2, <2>3 DEF Holds, MayDebit, Claimed, StripeInv, EventsAreHeld
    <3>2. r.ref # handler[v].event
      BY <3>1 DEF StripeInv, EventsAreHeld
    <3>3. PICK d \in Events : d = handler[v].event
      BY <3>1
    <3>4. Undebited(d)'
      BY <1>6, <3>1, <3>2, <3>3
    <3> QED  BY <2>1, <3>3, <3>4 DEF Undebited
  <2>4. \A d \in Events : (events[d] = "none" => Undebited(d)') /\ DebitedOnce(d)'
    <3> SUFFICES ASSUME NEW d \in Events PROVE (events[d] = "none" => Undebited(d)') /\ DebitedOnce(d)'
      OBVIOUS
    <3>1. CASE r.ref # d
      BY <1>6, <3>1 DEF StripeInv, EventsAreHeld
    <3>2. CASE r.ref = d
      <4>1. d = e /\ h.pc \in MayDebit
        BY <1>1, <3>2
      <4>2. events[d] = "received" /\ Undebited(d)
        BY <1>1, <4>1 DEF StripeInv, EventsAreHeld
      <4> QED  BY <1>6, <4>2
    <3> QED  BY <3>1, <3>2
  <2> QED  BY <1>5, <2>1, <2>3, <2>4 DEF StripeInv, EventsAreHeld, Holds
<1> QED  BY <1>4, <1>6, <1>7, <1>8, <1>9, <1>10 DEF StripeInv

LEMMA CreditKeeps ==
    ASSUME StripeInv, NEW w \in Workers, Credit(w)
    PROVE  StripeInv'
<1> DEFINE h == handler[w]
           p == h.event.pay
<1>1. /\ h.pc = "credit" /\ UNCHANGED <<stripe, acked, events>>
      /\ AddCredits(PaidBy[p], Price[p], "purchase", p, p)
  BY DEF Credit
<1>2. PICK q \in {"complete", "failed"} : Goto(w, [h EXCEPT !.pc = q])
  BY DEF Credit
<1>3. /\ DOMAIN h = Fields /\ h.granted \in Int /\ h.clawback \in Int /\ h.clawback <= h.granted
      /\ Holds(w) /\ p \in Payments /\ h.event \in emitted
  BY <1>1, Facts DEF Holds, Claimed
<1>4. kind[p] # "foreign" /\ stage[p] \in {"paid", "refunded"}
  BY <1>1, <1>3 DEF StripeInv, Delivery, StripeIsTrue
<1>5. CASE KeyTaken(p)
  <2> DEFINE x == [h EXCEPT !.pc = q]
  <2>1. UNCHANGED ledgerVars
    BY <1>1, <1>5 DEF AddCredits
  <2>2. DOMAIN x = Fields /\ x.pc = q /\ x.event = h.event /\ x.granted = h.granted
        /\ x.clawback = h.clawback
    BY <1>3 DEF Fields, Idle
  <2>3. Goto(w, x)
    BY <1>2
  <2> HIDE DEF x
  <2> QED  BY <1>1, <1>3, <2>1, <2>2, <2>3, GoesOn DEF Claimed, MayDebit
<1>6. CASE ~KeyTaken(p)
  <2>1. TypeOK /\ p \in Keys /\ p \in Refs /\ p \notin Events /\ PaidBy[p] \in Users
        /\ Price[p] \in Nat \ {0}
    BY <1>3, StripeAssumption DEF StripeAssumption, StripeInv, StripeTypeOK
  <2>2. PICK b : Grows(Row(PaidBy[p], "purchase", Price[p], b, p, p))
    BY <1>1, <1>6, <2>1, PurchaseGrows
  <2> DEFINE r == Row(PaidBy[p], "purchase", Price[p], b, p, p)
  <2>3. r.key = p /\ r.ref = p /\ r.user = PaidBy[p] /\ r.amount = Price[p]
    BY DEF Row
  <2>4. Grows(r)
    BY <2>2
  <2> HIDE DEF r
  <2>5. r.key = NoKey \/ ~KeyTaken(r.key)
    BY <1>6, <2>3
  <2>6. \A z \in Payments : r.type = "purchase" /\ r.ref = z =>
           /\ r.key = z /\ r.user = PaidBy[z] /\ r.amount = Price[z]
           /\ stage[z] \in {"paid", "refunded"} /\ kind[z] # "foreign"
    BY <1>4, <2>3
  <2>7. r.ref \in Events => r.ref = handler[w].event /\ handler[w].pc \in MayDebit
    BY <2>1, <2>3
  <2>8. UNCHANGED <<stripe, acked, events>> /\ Holds(w) /\ Goto(w, [handler[w] EXCEPT !.pc = q])
    BY <1>1, <1>2, <1>3
  <2> HIDE DEF h, p
  <2> QED  BY <2>4, <2>5, <2>6, <2>7, <2>8, OwnGrowth
<1> QED  BY <1>5, <1>6

LEMMA ClawBackKeeps ==
    ASSUME StripeInv, NEW w \in Workers, ClawBack(w)
    PROVE  StripeInv'
<1> DEFINE h == handler[w]
           u == PaidBy[h.event.pay]
<1>1. /\ h.pc = "claw" /\ UNCHANGED <<stripe, acked, events>>
      /\ DeductCredits(u, h.clawback, h.event)
  BY DEF ClawBack
<1>2. PICK q \in {"complete", "failed"} : Goto(w, [h EXCEPT !.pc = q])
  BY DEF ClawBack
<1>3. h.clawback \in Nat /\ Holds(w) /\ h.event \in Refs /\ u \in Users
  BY <1>1, Facts, StripeAssumption DEF StripeAssumption, Holds, Claimed, StripeInv, Delivery
<1>4. PICK b : Grows(Row(u, "usage", 0 - h.clawback, b, NoKey, h.event))
  BY <1>1, <1>3, DebitGrows DEF StripeInv, StripeTypeOK
<1> DEFINE r == Row(u, "usage", 0 - h.clawback, b, NoKey, h.event)
<1>5. r.key = NoKey /\ r.ref = h.event /\ r.type = "usage"
  BY DEF Row
<1>6. Grows(r) /\ h.pc \in MayDebit
  BY <1>1, <1>4 DEF MayDebit
<1> HIDE DEF r
<1> QED  BY <1>1, <1>2, <1>3, <1>5, <1>6, OwnGrowth

LEMMA NewUserKeeps ==
    ASSUME StripeInv, NEW u \in Users, NewUser(u)
    PROVE  StripeInv'
<1> DEFINE r == Row(u, "bonus", WelcomeBonus, WelcomeBonus, NoKey, NoRef)
<1>1. UNCHANGED <<stripe, acked, events, handler>> /\ Grows(r)
  BY SignUpGrows DEF NewUser, StripeInv, StripeTypeOK
<1>2. r.key = NoKey /\ r.ref = NoRef /\ r.type # "purchase"
  BY DEF Row
<1> HIDE DEF r
<1> QED  BY <1>1, <1>2, OtherGrowth

LEMMA SpendKeeps ==
    ASSUME StripeInv, NEW u \in Users, NEW a \in Amounts, Spend(u, a)
    PROVE  StripeInv'
<1>1. UNCHANGED <<stripe, acked, events, handler>> /\ DeductCredits(u, a, NoRef)
  BY DEF Spend
<1>2. a \in Nat
  BY LedgerAssumption DEF LedgerAssumption
<1>3. PICK b : Grows(Row(u, "usage", 0 - a, b, NoKey, NoRef))
  BY <1>1, <1>2, DebitGrows DEF StripeInv, StripeTypeOK
<1> DEFINE r == Row(u, "usage", 0 - a, b, NoKey, NoRef)
<1>4. r.key = NoKey /\ r.ref = NoRef /\ r.type # "purchase"
  BY DEF Row
<1>5. Grows(r)
  BY <1>3
<1> HIDE DEF r
<1> QED  BY <1>1, <1>4, <1>5, OtherGrowth

---------------------------------------------------------------------------
(* Steps of Stripe *)

LEMMA StripeMoves ==
    ASSUME StripeInv, NEW p \in Payments, NEW s \in {"processing", "paid", "failed", "refunded"},
           NEW new \in SUBSET Events, stage' = [stage EXCEPT ![p] = s],
           emitted' = emitted \cup new, kind' = kind,
           UNCHANGED <<ledgerVars, acked, events, handler>>,
           stage[p] \in {"paid", "refunded"} => s \in {"paid", "refunded"},
           s = "processing" => kind[p] = "delayed",
           \A e \in new : SaysPaid(e) => e.pay = p /\ s \in {"paid", "refunded"}
    PROVE  StripeInv'
<1>1. UNCHANGED <<accounts, credits, ledger, kind, acked, events, handler>>
  BY DEF ledgerVars
<1>2. /\ stage' \in [Payments -> {"open", "processing", "paid", "failed", "refunded"}]
      /\ stage'[p] = s /\ \A q \in Payments : q # p => stage'[q] = stage[q]
      /\ \A q \in Payments : stage[q] \in {"paid", "refunded"} => stage'[q] \in {"paid", "refunded"}
  BY DEF StripeInv, StripeTypeOK
<1>3. StripeTypeOK'
  <2>1. TypeOK'
    BY <1>1 DEF StripeInv, StripeTypeOK, TypeOK
  <2> QED  BY <1>1, <1>2, <2>1 DEF StripeInv, StripeTypeOK
<1>4. \A w \in Workers : Delivery(handler[w])'
  BY <1>1 DEF StripeInv, Delivery, SaysPaid
<1>5. StripeIsTrue'
  <2>1. ASSUME NEW e \in emitted', SaysPaid(e)' PROVE stage'[e.pay] \in {"paid", "refunded"}
    <3>1. SaysPaid(e) /\ e \in Events /\ e.pay \in Payments
      BY <1>1, <2>1 DEF SaysPaid, StripeInv, StripeTypeOK, Events
    <3>2. CASE e \in emitted
      BY <1>2, <3>1, <3>2 DEF StripeInv, StripeIsTrue
    <3>3. CASE e \in new
      BY <1>2, <3>1, <3>3
    <3> QED  BY <3>2, <3>3
  <2>2. \A q \in Payments : stage'[q] = "processing" => kind'[q] = "delayed"
    BY <1>1, <1>2 DEF StripeInv, StripeIsTrue
  <2> QED  BY <2>1, <2>2 DEF StripeIsTrue
<1>6. EventsAreHeld'
  BY <1>1 DEF StripeInv, EventsAreHeld, Holds, Undebited, DebitedOnce
<1>7. PurchasesAreTrue' /\ KeyCreditedOnce'
  BY <1>1, <1>2 DEF StripeInv, PurchasesAreTrue, KeyCreditedOnce
<1> QED  BY <1>1, <1>3, <1>4, <1>5, <1>6, <1>7 DEF StripeInv

LEMMA AtStripeKeeps ==
    ASSUME StripeInv, AtStripe
    PROVE  StripeInv'
<1>1. UNCHANGED <<ledgerVars, acked, events, handler>>
  BY DEF AtStripe
<1>2. ASSUME NEW p \in Payments, CompleteCheckout(p) PROVE StripeInv'
  <2> DEFINE new == {Event("completed", p)}
                      \cup (IF kind[p] = "twice" THEN {Event("async_succeeded", p)} ELSE {})
             s == IF kind[p] = "delayed" THEN "processing" ELSE "paid"
  <2>1. /\ stage[p] = "open" /\ stage' = [stage EXCEPT ![p] = s] /\ emitted' = emitted \cup new
        /\ kind' = kind
    BY <1>2 DEF CompleteCheckout, Emit
  <2>2. new \in SUBSET Events
    BY DEF Event, Events
  <2>3. \A e \in new : SaysPaid(e) => e.pay = p /\ s = "paid"
    BY DEF Event, SaysPaid
  <2>4. s \in {"processing", "paid"} /\ (s = "processing" => kind[p] = "delayed")
    OBVIOUS
  <2> HIDE DEF new, s
  <2> QED  BY <1>1, <2>1, <2>2, <2>3, <2>4, StripeMoves
<1>3. ASSUME NEW p \in Payments, SettleLater(p) PROVE StripeInv'
  <2>1. stage[p] = "processing" /\ kind' = kind
    BY <1>3 DEF SettleLater
  <2>2. CASE stage' = [stage EXCEPT ![p] = "paid"] /\ Emit({Event("async_succeeded", p)})
    <3>1. {Event("async_succeeded", p)} \in SUBSET Events /\ Event("async_succeeded", p).pay = p
      BY DEF Event, Events
    <3> QED  BY <1>1, <2>1, <2>2, <3>1, StripeMoves DEF Emit
  <2>3. CASE stage' = [stage EXCEPT ![p] = "failed"] /\ Emit({Event("async_failed", p)})
    <3>1. {Event("async_failed", p)} \in SUBSET Events /\ ~SaysPaid(Event("async_failed", p))
      BY DEF Event, Events, SaysPaid
    <3> QED  BY <1>1, <2>1, <2>3, <3>1, StripeMoves DEF Emit
  <2> QED  BY <1>3, <2>2, <2>3 DEF SettleLater
<1>4. ASSUME NEW p \in Payments, Refund(p) PROVE StripeInv'
  <2> DEFINE new == {Event("charge.refunded", p), Event("refund.created", p)}
  <2>1. /\ stage' = [stage EXCEPT ![p] = "refunded"] /\ emitted' = emitted \cup new
        /\ kind' = kind
    BY <1>4 DEF Refund, Emit
  <2>2. new \in SUBSET Events /\ \A e \in new : ~SaysPaid(e)
    BY DEF Event, Events, SaysPaid
  <2> HIDE DEF new
  <2> QED  BY <1>1, <2>1, <2>2, StripeMoves
<1> QED  BY <1>2, <1>3, <1>4 DEF AtStripe

---------------------------------------------------------------------------
(* The invariant holds *)

LEMMA InitInv == Init => StripeInv
<1> SUFFICES ASSUME Init PROVE StripeInv
  OBVIOUS
<1>1. ledger = << >> /\ emitted = {} /\ acked = {} /\ handler = [w \in Workers |-> Idle]
      /\ events = [e \in Events |-> "none"] /\ stage = [p \in Payments |-> "open"]
  BY DEF Init, LedgerInit
<1>2. DOMAIN ledger = {} /\ Idle.pc = "idle" /\ Idle.event = None /\ Idle.granted = 0
      /\ Idle.clawback = 0
  BY <1>1 DEF Idle
<1>3. StripeTypeOK
  <2>1. TypeOK
    BY LedgerAssumption DEF LedgerAssumption, Init, LedgerInit, TypeOK
  <2>2. \A w \in Workers : handler[w] = Idle
    BY <1>1
  <2> QED  BY <1>1, <1>2, <2>1, <2>2 DEF StripeTypeOK, Init, Kinds
<1>4. DOMAIN handler = Workers /\ \A w \in Workers : Delivery(handler[w]) /\ handler[w].pc = "idle"
  <2>1. Delivery(Idle)
    BY <1>2 DEF Delivery, Fields, Pcs
  <2> QED  BY <1>1, <1>2, <2>1
<1>5. EventsAreHeld /\ PurchasesAreTrue /\ KeyCreditedOnce /\ StripeIsTrue
  BY <1>1, <1>2, <1>4 DEF EventsAreHeld, PurchasesAreTrue, KeyCreditedOnce, StripeIsTrue,
     Holds, Claimed, MayDebit, Undebited, DebitedOnce
<1> QED  BY <1>3, <1>4, <1>5 DEF StripeInv

LEMMA StutterKeeps ==
    ASSUME StripeInv, UNCHANGED vars
    PROVE  StripeInv'
<1>1. UNCHANGED <<accounts, credits, ledger, kind, stage, emitted, acked, events, handler>>
  BY DEF vars, ledgerVars, stripe
<1>2. \A w \in Workers : Delivery(handler[w])'
  BY <1>1 DEF StripeInv, Delivery, SaysPaid
<1>3. StripeTypeOK'
  BY <1>1 DEF StripeInv, StripeTypeOK, TypeOK
<1>4. StripeIsTrue' /\ PurchasesAreTrue' /\ KeyCreditedOnce'
  BY <1>1 DEF StripeInv, StripeIsTrue, SaysPaid, PurchasesAreTrue, KeyCreditedOnce
<1>5. EventsAreHeld'
  BY <1>1 DEF StripeInv, EventsAreHeld, Holds, Undebited, DebitedOnce
<1> QED  BY <1>1, <1>2, <1>3, <1>4, <1>5 DEF StripeInv

LEMMA NextInv == StripeInv /\ [Next]_vars => StripeInv'
<1> SUFFICES ASSUME StripeInv, [Next]_vars PROVE StripeInv'
  OBVIOUS
<1>1. CASE UNCHANGED vars
  BY <1>1, StutterKeeps
<1>2. CASE \E u \in Users : NewUser(u) \/ \E a \in Amounts : Spend(u, a)
  BY <1>2, NewUserKeeps, SpendKeeps
<1>3. CASE AtStripe
  BY <1>3, AtStripeKeeps
<1>4. CASE \E w \in Workers, e \in Events : Deliver(w, e) \/ DeliverAgain(w, e)
  BY <1>4, BeginKeeps
<1>5. ASSUME NEW w \in Workers, Handle(w) PROVE StripeInv'
  BY <1>5, ClaimKeeps, DispatchKeeps, CreditKeeps, LookupKeeps, ReadBalanceKeeps,
     ClawBackKeeps, FailingKeeps, OutcomeKeeps DEF Handle
<1>6. ASSUME NEW w \in Workers, CallFails(w) \/ OutcomeUnrecorded(w) \/ Crash(w)
      PROVE  StripeInv'
  BY <1>6, FailingKeeps, EndKeeps
<1> QED  BY <1>1, <1>2, <1>3, <1>4, <1>5, <1>6 DEF Next

LEMMA AtMostOne ==
    ASSUME NEW S, \A i, j \in S : i = j
    PROVE  Cardinality(S) <= 1
<1>1. CASE S = {}
  BY <1>1, FS_EmptySet
<1>2. CASE S # {}
  <2>1. PICK i : S = {i}
    BY <1>2
  <2>2. Cardinality(S) = 1
    BY <2>1, FS_Singleton
  <2> QED  BY <2>2
<1> QED  BY <1>1, <1>2

\* A payment is credited once, at its price and to who made it, and only when it is
\* paid: for any number of payments, events, deliveries, workers and failures.  The
\* key of the session is what makes it so, not the claim of an event.
THEOREM PaymentsCreditedOnce == Spec => []PaymentCreditedOnce
<1>1. StripeInv => PaymentCreditedOnce
  <2> SUFFICES ASSUME StripeInv, NEW p \in Payments
               PROVE  /\ Cardinality(PurchaseRows(p)) <= 1
                      /\ \A i \in PurchaseRows(p) :
                          /\ stage[p] \in {"paid", "refunded"}
                          /\ kind[p] # "foreign"
                          /\ ledger[i].user = PaidBy[p] /\ ledger[i].amount = Price[p]
    BY DEF PaymentCreditedOnce
  <2>1. p # NoKey
    BY LedgerAssumption, StripeAssumption DEF LedgerAssumption, StripeAssumption
  <2>2. \A i \in PurchaseRows(p) :
            /\ i \in DOMAIN ledger /\ ledger[i].key = p
            /\ stage[p] \in {"paid", "refunded"} /\ kind[p] # "foreign"
            /\ ledger[i].user = PaidBy[p] /\ ledger[i].amount = Price[p]
    BY DEF PurchaseRows, StripeInv, PurchasesAreTrue
  <2>3. \A i, j \in PurchaseRows(p) : i = j
    BY <2>1, <2>2 DEF StripeInv, KeyCreditedOnce
  <2>4. Cardinality(PurchaseRows(p)) <= 1
    BY <2>3, AtMostOne
  <2> QED  BY <2>2, <2>4
<1> QED  BY <1>1, InitInv, NextInv, PTL DEF Spec

\* An event debits once, however often it is delivered and whatever fails: who may
\* debit for it has claimed it, alone, and no debit of it is in the ledger yet.
THEOREM EventsDebitOnce == Spec => []EventDebitsOnce
<1>1. StripeInv => EventDebitsOnce
  <2> SUFFICES ASSUME StripeInv, NEW e \in Events PROVE Cardinality(DebitsOf(e)) <= 1
    BY DEF EventDebitsOnce, StripeInv
  <2>1. \A i, j \in DebitsOf(e) : i = j
    BY DEF DebitsOf, StripeInv, EventsAreHeld, DebitedOnce
  <2> QED  BY <2>1, AtMostOne
<1> QED  BY <1>1, InitInv, NextInv, PTL DEF Spec

---------------------------------------------------------------------------
(* The books *)

LEMMA StripeCalls ==
    ASSUME StripeInv, [Next]_vars
    PROVE  Called
<1>1. "purchase" \in TransactionTypes /\ NoKey \in Keys \cup {NoKey} /\ NoRef \in Refs \cup {NoRef}
  BY DEF TransactionTypes
<1>2. ASSUME NEW u \in Users, NewUser(u) PROVE Called
  BY <1>2 DEF NewUser, Called
<1>3. ASSUME NEW u \in Users, NEW a \in Amounts, Spend(u, a) PROVE Called
  <2>1. a \in Nat
    BY LedgerAssumption DEF LedgerAssumption
  <2> QED  BY <1>1, <1>3, <2>1 DEF Spend, Called
<1>4. ASSUME NEW w \in Workers, Credit(w) PROVE Called
  <2> DEFINE p == handler[w].event.pay
  <2>1. p \in Payments
    BY <1>4, Facts DEF Credit
  <2>2. /\ PaidBy[p] \in Users /\ Price[p] \in Nat
        /\ p \in Keys \cup {NoKey} /\ p \in Refs \cup {NoRef}
    BY <2>1, StripeAssumption DEF StripeAssumption
  <2>3. AddCredits(PaidBy[p], Price[p], "purchase", p, p)
    BY <1>4 DEF Credit
  <2> HIDE DEF p
  <2> QED  BY <1>1, <2>2, <2>3 DEF Called
<1>5. ASSUME NEW w \in Workers, ClawBack(w) PROVE Called
  <2> DEFINE h == handler[w]
  <2>1. /\ h.event \in Events /\ h.event.pay \in Payments /\ h.clawback \in Nat
    BY <1>5, Facts DEF ClawBack, StripeInv, Delivery
  <2>2. PaidBy[h.event.pay] \in Users /\ h.event \in Refs \cup {NoRef}
    BY <2>1, StripeAssumption DEF StripeAssumption
  <2>3. DeductCredits(PaidBy[h.event.pay], h.clawback, h.event)
    BY <1>5 DEF ClawBack
  <2> QED  BY <2>1, <2>2, <2>3 DEF Called
<1>6. ASSUME NEW w \in Workers, Handle(w), ~Credit(w), ~ClawBack(w) PROVE UNCHANGED ledgerVars
  BY <1>6 DEF Handle, Claim, Dispatch, LookupPurchase, ReadBalance, ClawBackRefused, Complete,
              MarkFailed
<1>7. ASSUME NEW w \in Workers, CallFails(w) \/ OutcomeUnrecorded(w) \/ Crash(w)
      PROVE  UNCHANGED ledgerVars
  BY <1>7 DEF CallFails, OutcomeUnrecorded, Crash
<1>8. ASSUME NEW w \in Workers, NEW e \in Events, Deliver(w, e) \/ DeliverAgain(w, e)
      PROVE  UNCHANGED ledgerVars
  BY <1>8 DEF Deliver, DeliverAgain
<1>9. AtStripe \/ UNCHANGED vars => UNCHANGED ledgerVars
  BY DEF AtStripe, vars
<1> QED  BY <1>2, <1>3, <1>4, <1>5, <1>6, <1>7, <1>8, <1>9 DEF Next, Called

\* The payments keep the books: the ledger explains every balance, and a balance is what
\* was given and bought less what was used, for any prices, refunds, deliveries and
\* failures.  A claw-back is an amount of its own, clamped at a balance that is stale.
THEOREM PaymentsKeepBooks == Spec => [](AuditTrail /\ Conservation)
<1>1. Init => BooksInv
  BY BooksOpen DEF Init
<1>2. StripeInv /\ BooksInv /\ [Next]_vars => BooksInv'
  BY StripeCalls, CallsKeepBooks
<1>3. BooksInv => AuditTrail /\ Conservation
  BY DEF BooksInv, ConservationInv
<1> QED  BY <1>1, <1>2, <1>3, InitInv, NextInv, PTL DEF Spec
===========================================================================

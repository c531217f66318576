------------------------ MODULE WalletFundingProofs ------------------------
(***************************************************************************)
(* Proofs about WalletFunding, for any workers, intents, notices and       *)
(* bounds: an idempotency key names one intent, and a deposit that can be  *)
(* recognised is credited once, whatever fails and is delivered again.     *)
(***************************************************************************)
EXTENDS WalletFunding, CreditLedgerProofs, FiniteSetTheorems

---------------------------------------------------------------------------
(* The invariant *)

Fields == DOMAIN Idle

\* A request that has recorded its event, and one that has recorded its transfer too.
PastEvent == {"cache", "transfer", "credit", "confirm"}
PastTransfer == {"credit", "confirm"}
Settling == {"credited", "duplicate", "event"} \cup PastEvent
Pcs == {"idle", "find", "insert"} \cup Settling

\* What a request knows is true: the notice was sent, and is about its intent's deposit.
Request(h) ==
    /\ DOMAIN h = Fields /\ h.pc \in Pcs
    /\ h.pc # "idle" => h.key \in IntentKeys
    /\ h.intent \in Intents \cup {None}
    /\ h.pc \in Settling =>
          /\ h.notice \in delivered /\ h.notice.key = h.key
          /\ h.intent \in Intents /\ intents[h.intent].key = h.key
    /\ h.pc = "confirm" => CreditsOfIntent(h.intent) # {}

\* Who is past the insert of an event, or of a transfer, is there alone with it.
EventsAreHeld ==
    \A w \in Workers : handler[w].pc \in PastEvent /\ handler[w].notice.event # NoEvent =>
        /\ handler[w].notice.event \in events
        /\ \A v \in Workers : handler[v].pc \in PastEvent /\ handler[v].notice.event = handler[w].notice.event
                              => v = w

TransfersAreHeld ==
    \A w \in Workers : handler[w].pc \in PastTransfer /\ handler[w].notice.sig # NoSig =>
        /\ TransferOf(handler[w].notice) \in transfers
        /\ \A v \in Workers : /\ handler[v].pc \in PastTransfer
                              /\ TransferOf(handler[v].notice) = TransferOf(handler[w].notice)
                              => v = w

\* All notices of the deposit under a key are of this signed transfer, or this event.
SameTransfer(k, t) == t.sig # NoSig /\ \A n \in notices : n.key = k => TransferOf(n) = t
SameEvent(k, event) == event # NoEvent /\ \A n \in notices : n.key = k => n.event = event

\* The transfer, or the event, of a deposit that was credited is spent: it is recorded,
\* and no request that has recorded it is still to credit.
CreditsAreSpent ==
    \A i \in Intents : CreditsOfIntent(i) # {} =>
        /\ intents[i].key # None
        /\ \A s : SameTransfer(intents[i].key, s) =>
              /\ s \in transfers
              /\ \A w \in Workers : handler[w].pc = "credit" => handler[w].intent # i
        /\ \A e : SameEvent(intents[i].key, e) =>
              /\ e \in events
              /\ \A w \in Workers : handler[w].pc \in PastEvent \ {"confirm"} => handler[w].intent # i

CreditedOnce ==
    \A i \in Intents : Identified(intents[i].key) =>
        \A r, q \in CreditsOfIntent(i) : r = q

WalletInv ==
    /\ WalletTypeOK /\ OneIntentPerKey /\ notices \in Announcements
    /\ DOMAIN handler = Workers /\ \A w \in Workers : Request(handler[w])
    /\ \A i \in Intents : intents[i].status = "confirmed" => CreditsOfIntent(i) # {}
    /\ EventsAreHeld /\ TransfersAreHeld /\ CreditsAreSpent /\ CreditedOnce

---------------------------------------------------------------------------
(* Steps of a request that leave the ledger alone *)

LEMMA RequestFacts ==
    ASSUME WalletInv, NEW w \in Workers
    PROVE  /\ DOMAIN handler[w] = Fields /\ handler[w].pc \in Pcs
           /\ handler[w].pc # "idle" => handler[w].key \in IntentKeys
           /\ handler[w].intent \in Intents \cup {None}
           /\ handler[w].pc \in Settling =>
                 /\ handler[w].notice \in delivered /\ handler[w].notice \in notices
                 /\ handler[w].notice.key = handler[w].key
                 /\ handler[w].intent \in Intents
                 /\ intents[handler[w].intent].key = handler[w].key
           /\ handler[w].pc = "confirm" => CreditsOfIntent(handler[w].intent) # {}
BY DEF WalletInv, Request, WalletTypeOK

\* Request w goes on as h.  Tables only grow, and who passes an insert has made it.
Advances(w, h) ==
    /\ Goto(w, h) /\ UNCHANGED <<ledgerVars, notices>>
    /\ events \subseteq events' /\ transfers \subseteq transfers'
    /\ acked' \subseteq delivered' /\ delivered \subseteq delivered' /\ delivered' \subseteq notices
    /\ h.pc \in PastEvent =>
          \/ /\ handler[w].pc \in PastEvent /\ h.notice = handler[w].notice
             /\ h.intent = handler[w].intent /\ handler[w].pc # "confirm"
          \/ h.notice.event # NoEvent => h.notice.event \notin events /\ h.notice.event \in events'
    /\ h.pc \in PastTransfer /\ h.notice.sig # NoSig =>
          TransferOf(h.notice) \notin transfers /\ TransferOf(h.notice) \in transfers'

\* An intent that has its key keeps it, and one that is confirmed has been credited.
IntentsStayTrue ==
    /\ intents' \in [Intents -> [status : {"none", "pending", "confirmed"},
                                 key : IntentKeys \cup {None}]]
    /\ \A i \in Intents : intents[i].key # None => intents'[i].key = intents[i].key
    /\ \A i, j \in Intents :
          intents'[i].key # None /\ intents'[i].key = intents'[j].key => i = j
    /\ \A i \in Intents : intents'[i].status = "confirmed" => CreditsOfIntent(i) # {}

LEMMA AdvanceKeeps ==
    ASSUME WalletInv, IntentsStayTrue, NEW w \in Workers, NEW h, Advances(w, h), Request(h)'
    PROVE  WalletInv'
<1>1. /\ DOMAIN handler' = Workers /\ handler'[w] = h
      /\ \A v \in Workers : v # w => handler'[v] = handler[v]
  BY DEF Advances, Goto, WalletInv
<1>2. /\ UNCHANGED <<accounts, credits, ledger, notices>>
      /\ \A i \in Intents : CreditsOfIntent(i)' = CreditsOfIntent(i)
      /\ \A k : Identified(k)' <=> Identified(k)
      /\ \A k, x : /\ SameTransfer(k, x)' <=> SameTransfer(k, x)
                   /\ SameEvent(k, x)' <=> SameEvent(k, x)
      /\ \A x \in transfers : x \in transfers'
  BY DEF Advances, ledgerVars, CreditsOfIntent, Identified, SameTransfer, SameEvent
<1>3. h.pc \in Settling => /\ h.notice \in notices /\ h.intent \in Intents
                           /\ intents'[h.intent].key = h.notice.key
  BY DEF Request, Advances
<1>4. \A v \in Workers : Request(handler[v])'
  <2> SUFFICES ASSUME NEW v \in Workers, handler'[v] = handler[v] PROVE Request(handler[v])'
    BY <1>1 DEF Request
  <2>1. handler[v].key \in IntentKeys => handler[v].key # None
    BY WalletAssumption DEF WalletAssumption
  <2>2. handler[v].pc \in Settling =>
          /\ handler[v].key \in IntentKeys
          /\ intents'[handler[v].intent].key = intents[handler[v].intent].key
    BY <2>1, RequestFacts DEF IntentsStayTrue, Settling, PastEvent
  <2> QED  BY <1>2, <2>2, RequestFacts DEF Request, Advances, Settling, PastEvent
<1>5. WalletTypeOK' /\ OneIntentPerKey' /\ (notices \in Announcements)'
  <2>1. TypeOK'
    BY <1>2 DEF WalletInv, WalletTypeOK, TypeOK
  <2>2. \A v \in Workers : handler'[v].intent \in Intents \cup {None}
    BY <1>4 DEF Request
  <2> QED  BY <1>2, <2>1, <2>2 DEF Advances, IntentsStayTrue, WalletInv, WalletTypeOK, OneIntentPerKey
<1>6. \A i \in Intents : (intents[i].status = "confirmed" => CreditsOfIntent(i) # {})'
  BY <1>2 DEF IntentsStayTrue
<1>7. EventsAreHeld'
  <2>1. CASE h.pc \notin PastEvent \/ h.notice.event = NoEvent
    BY <1>1, <2>1 DEF WalletInv, EventsAreHeld, Advances
  <2>2. CASE handler[w].pc \in PastEvent /\ h.notice = handler[w].notice
    BY <1>1, <2>2 DEF WalletInv, EventsAreHeld, Advances
  <2>3. CASE h.notice.event \notin events /\ h.notice.event \in events'
    BY <1>1, <2>3 DEF WalletInv, EventsAreHeld, Advances
  <2> QED  BY <2>1, <2>2, <2>3 DEF Advances
<1>8. TransfersAreHeld'
  <2>1. ASSUME NEW v \in Workers, v # w, handler[v].pc \in PastTransfer, handler[v].notice.sig # NoSig
        PROVE  /\ TransferOf(handler[v].notice) \in transfers /\ TransferOf(handler[v].notice) \in transfers'
               /\ ~(h.pc \in PastTransfer /\ TransferOf(h.notice) = TransferOf(handler[v].notice))
    <3>1. TransferOf(handler[v].notice) \in transfers
      BY <2>1 DEF WalletInv, TransfersAreHeld
    <3>2. h.pc \in PastTransfer /\ TransferOf(h.notice) = TransferOf(handler[v].notice)
          => h.notice.sig # NoSig
      BY <2>1 DEF TransferOf
    <3> QED  BY <1>2, <3>1, <3>2 DEF Advances
  <2>2. ASSUME NEW v \in Workers, v # w, h.pc \in PastTransfer, h.notice.sig # NoSig,
               handler[v].pc \in PastTransfer
        PROVE  TransferOf(handler[v].notice) # TransferOf(h.notice)
    <3>1. TransferOf(handler[v].notice) = TransferOf(h.notice) => handler[v].notice.sig # NoSig
      BY <2>2 DEF TransferOf
    <3> QED  BY <2>1, <2>2, <3>1
  <2>3. h.pc \in PastTransfer /\ h.notice.sig # NoSig => TransferOf(h.notice) \in transfers'
    BY DEF Advances
  <2>4. ASSUME NEW v \in Workers, v # w, handler[v].pc \in PastTransfer, handler[v].notice.sig # NoSig,
               NEW x \in Workers, x # w, handler[x].pc \in PastTransfer,
               TransferOf(handler[x].notice) = TransferOf(handler[v].notice)
        PROVE  x = v
    BY <2>4 DEF WalletInv, TransfersAreHeld
  <2> QED  BY <1>1, <2>1, <2>2, <2>3, <2>4 DEF TransfersAreHeld
<1>9. CreditsAreSpent' /\ CreditedOnce'
  <2> SUFFICES ASSUME NEW i \in Intents, CreditsOfIntent(i) # {}
               PROVE  /\ intents'[i].key = intents[i].key /\ intents[i].key # None
                      /\ \A s : SameTransfer(intents[i].key, s) =>
                            s \in transfers /\ ~(h.pc = "credit" /\ h.intent = i)
                      /\ \A e : SameEvent(intents[i].key, e) =>
                            e \in events /\ ~(h.pc \in PastEvent \ {"confirm"} /\ h.intent = i)
    <3>1. CreditsAreSpent'
      BY <1>1, <1>2 DEF WalletInv, CreditsAreSpent, Advances
    <3>2. CreditedOnce'
      BY <1>2 DEF WalletInv, CreditedOnce
    <3> QED  BY <3>1, <3>2
  <2>1. intents'[i].key = intents[i].key /\ intents[i].key # None
    BY DEF WalletInv, CreditsAreSpent, IntentsStayTrue
  <2>2. ASSUME NEW s, SameTransfer(intents[i].key, s)
        PROVE  s \in transfers /\ ~(h.pc = "credit" /\ h.intent = i)
    <3>1. s \in transfers
      BY <2>2 DEF WalletInv, CreditsAreSpent
    <3>2. h.pc = "credit" /\ h.intent = i => TransferOf(h.notice) = s /\ h.notice.sig # NoSig
      BY <1>3, <2>1, <2>2 DEF SameTransfer, TransferOf, Settling, PastEvent
    <3> QED  BY <3>1, <3>2 DEF Advances, PastTransfer
  <2>3. ASSUME NEW e, SameEvent(intents[i].key, e)
        PROVE  e \in events /\ ~(h.pc \in PastEvent \ {"confirm"} /\ h.intent = i)
    <3>1. /\ e \in events
          /\ ~(handler[w].pc \in PastEvent \ {"confirm"} /\ handler[w].intent = i)
      BY <2>3 DEF WalletInv, CreditsAreSpent
    <3>2. h.pc \in PastEvent /\ h.intent = i => h.notice.event = e /\ e # NoEvent
      BY <1>3, <2>1, <2>3 DEF SameEvent, Settling
    <3> QED  BY <3>1, <3>2 DEF Advances
  <2> QED  BY <2>1, <2>2, <2>3
<1> QED  BY <1>1, <1>4, <1>5, <1>6, <1>7, <1>8, <1>9 DEF WalletInv

\* Most steps leave the intents as they are.
LEMMA IntentsStay ==
    ASSUME WalletInv, UNCHANGED intents
    PROVE  IntentsStayTrue
BY DEF WalletInv, WalletTypeOK, OneIntentPerKey, IntentsStayTrue

LEMMA EndKeeps ==
    ASSUME WalletInv, IntentsStayTrue, NEW w \in Workers, Goto(w, Idle),
           UNCHANGED <<ledgerVars, notices, delivered>>, events \subseteq events', transfers \subseteq transfers',
           acked' = acked \/ (acked' = acked \cup {handler[w].notice} /\ handler[w].pc \in Settling)
    PROVE  WalletInv'
<1>1. Request(Idle)' /\ Idle.pc = "idle"
  BY DEF Request, Idle, Fields, Pcs, Settling, PastEvent
<1>2. acked' \subseteq delivered /\ delivered \subseteq notices
  BY RequestFacts DEF WalletInv, WalletTypeOK
<1>3. Advances(w, Idle)
  BY <1>1, <1>2 DEF Advances, PastEvent, PastTransfer
<1> QED  BY <1>1, <1>3, AdvanceKeeps

\* A request goes on to pc, of which less is asked than of where it stands.
LEMMA GoOnKeeps ==
    ASSUME WalletInv, NEW w \in Workers, NEW pc \in Pcs \ {"idle", "confirm"},
           Goto(w, [handler[w] EXCEPT !.pc = pc]),
           UNCHANGED <<ledgerVars, notices, delivered, acked, intents>>,
           events \subseteq events', transfers \subseteq transfers',
           handler[w].pc # "idle", pc \in Settling => handler[w].pc \in Settling,
           pc \in PastEvent =>
              \/ handler[w].pc \in PastEvent /\ handler[w].pc # "confirm"
              \/ handler[w].notice.event # NoEvent =>
                    handler[w].notice.event \notin events /\ handler[w].notice.event \in events',
           pc \in PastTransfer /\ handler[w].notice.sig # NoSig =>
              /\ TransferOf(handler[w].notice) \notin transfers
              /\ TransferOf(handler[w].notice) \in transfers'
    PROVE  WalletInv'
<1> SUFFICES ASSUME NEW h, h = [handler[w] EXCEPT !.pc = pc] PROVE WalletInv'
  OBVIOUS
<1>1. /\ DOMAIN h = Fields /\ h.pc = pc /\ h.key = handler[w].key
      /\ h.notice = handler[w].notice /\ h.intent = handler[w].intent
  BY RequestFacts DEF Fields, Idle
<1>2. Request(h)'
  BY <1>1, RequestFacts DEF Request
<1>3. Advances(w, h)
  <2>1. Goto(w, h) /\ acked' \subseteq delivered' /\ delivered' \subseteq notices
    BY DEF WalletInv, WalletTypeOK
  <2> QED  BY <1>1, <2>1 DEF Advances
<1> QED  BY <1>2, <1>3, IntentsStay, AdvanceKeeps

LEMMA RequestIntentKeeps ==
    ASSUME WalletInv, NEW w \in Workers, NEW k \in IntentKeys, RequestIntent(w, k)
    PROVE  WalletInv'
<1> DEFINE x == [Idle EXCEPT !.pc = "find", !.key = k]
<1>1. /\ DOMAIN x = Fields /\ x.pc = "find" /\ x.key = k /\ x.intent = None
  BY DEF Idle, Fields
<1>2. Goto(w, x) /\ UNCHANGED <<ledgerVars, notices, delivered, acked, intents, events, transfers>>
  BY DEF RequestIntent, tables, provider
<1> HIDE DEF x
<1>3. Request(x)'
  BY <1>1 DEF Request, Pcs, Settling, PastEvent
<1>4. Advances(w, x)
  BY <1>1, <1>2 DEF Advances, PastEvent, PastTransfer, WalletInv, WalletTypeOK
<1> QED  BY <1>2, <1>3, <1>4, IntentsStay, AdvanceKeeps

LEMMA DeliverKeeps ==
    ASSUME WalletInv, NEW w \in Workers, NEW n, Deliver(w, n)
    PROVE  WalletInv'
<1>1. PICK i \in Existing(n.key) :
          Goto(w, [pc |-> "credited", key |-> n.key, notice |-> n, intent |-> i])
  BY DEF Deliver
<1> DEFINE x == [pc |-> "credited", key |-> n.key, notice |-> n, intent |-> i]
<1>2. DOMAIN x = Fields /\ x.pc = "credited" /\ x.key = n.key /\ x.notice = n /\ x.intent = i
  BY DEF Idle, Fields
<1>3. /\ Goto(w, x) /\ delivered' = delivered \cup {n} /\ n \in notices
      /\ UNCHANGED <<ledgerVars, notices, acked, intents, events, transfers>>
  BY <1>1 DEF Deliver, tables
<1> HIDE DEF x
<1>4. n.key \in IntentKeys /\ i \in Intents /\ intents[i].key = n.key
  BY <1>3, WalletAssumption DEF WalletAssumption, Existing, WalletInv
<1>5. Request(x)'
  BY <1>2, <1>3, <1>4 DEF Request, Pcs, Settling
<1>6. Advances(w, x)
  BY <1>2, <1>3 DEF Advances, PastEvent, PastTransfer, WalletInv, WalletTypeOK
<1> QED  BY <1>3, <1>5, <1>6, IntentsStay, AdvanceKeeps

LEMMA InsertIntentKeeps ==
    ASSUME WalletInv, NEW w \in Workers, InsertIntent(w)
    PROVE  WalletInv'
<1> DEFINE k == handler[w].key
<1>1. /\ Goto(w, Idle) /\ UNCHANGED <<ledgerVars, notices, delivered, acked, events, transfers>>
      /\ k \in IntentKeys
  BY RequestFacts DEF InsertIntent, provider
<1>2. CASE UNCHANGED intents
  BY <1>1, <1>2, IntentsStay, EndKeeps
<1>3. CASE /\ Existing(k) = {}
           /\ \E i \in Intents : /\ intents[i] = NoIntent
                                 /\ intents' = [intents EXCEPT ![i] = [status |-> "pending", key |-> k]]
  <2>1. PICK i \in Intents : /\ intents[i] = NoIntent
                             /\ intents' = [intents EXCEPT ![i] = [status |-> "pending", key |-> k]]
    BY <1>3
  <2>2. /\ intents'[i].key = k /\ intents'[i].status = "pending" /\ intents[i].key = None
        /\ \A j \in Intents : j # i => intents'[j] = intents[j] /\ intents[j].key # k
    BY <1>3, <2>1 DEF WalletInv, WalletTypeOK, NoIntent, Existing
  <2>3. IntentsStayTrue
    BY <1>1, <2>1, <2>2 DEF WalletInv, WalletTypeOK, OneIntentPerKey, IntentsStayTrue
  <2> QED  BY <1>1, <2>3, EndKeeps
<1> QED  BY <1>2, <1>3 DEF InsertIntent

LEMMA ConfirmKeeps ==
    ASSUME WalletInv, NEW w \in Workers, Confirm(w)
    PROVE  WalletInv'
<1> DEFINE i == handler[w].intent
<1>1. /\ Goto(w, Idle) /\ UNCHANGED <<ledgerVars, notices, delivered, events, transfers>>
      /\ handler[w].pc = "confirm" /\ acked' = acked \cup {handler[w].notice}
      /\ intents' = [intents EXCEPT ![i].status = "confirmed"]
  BY DEF Confirm, provider, Reply2xx
<1>2. i \in Intents /\ CreditsOfIntent(i) # {} /\ handler[w].pc \in Settling
  BY <1>1, RequestFacts DEF Settling, PastEvent
<1>3. IntentsStayTrue
  BY <1>1, <1>2 DEF WalletInv, WalletTypeOK, OneIntentPerKey, IntentsStayTrue
<1> QED  BY <1>1, <1>2, <1>3, EndKeeps

LEMMA FailKeeps ==
    ASSUME WalletInv, NEW w \in Workers, Fail(w)
    PROVE  WalletInv'
BY IntentsStay, EndKeeps DEF Fail, ReplyError, tables, provider

\* The steps of a request but those above and the credit.
LEMMA LookupsKeep ==
    ASSUME WalletInv, NEW w \in Workers,
           FindIntent(w) \/ CheckCredited(w) \/ CheckDuplicate(w)
    PROVE  WalletInv'
<1>1. /\ UNCHANGED <<ledgerVars, notices, delivered, intents, events, transfers>>
      /\ handler[w].pc \in {"find", "credited", "duplicate"}
  BY DEF FindIntent, CheckCredited, CheckDuplicate, tables, provider
<1>2. CASE Goto(w, Idle) /\ (acked' = acked \/ (Reply2xx(w) /\ handler[w].pc \in Settling))
  BY <1>1, <1>2, IntentsStay, EndKeeps DEF Reply2xx
<1>3. CASE /\ acked' = acked
           /\ \E pc \in {"insert", "duplicate", "event"} :
                 /\ Goto(w, [handler[w] EXCEPT !.pc = pc])
                 /\ pc # "insert" => handler[w].pc \in Settling
  BY <1>1, <1>3, GoOnKeeps DEF Pcs, Settling, PastEvent, PastTransfer
<1> QED  BY <1>2, <1>3 DEF FindIntent, CheckCredited, CheckDuplicate, Reply2xx, Settling

LEMMA InsertsKeep ==
    ASSUME WalletInv, NEW w \in Workers,
           InsertEvent(w) \/ UpsertCache(w) \/ InsertTransfer(w)
    PROVE  WalletInv'
<1>1. /\ UNCHANGED <<ledgerVars, notices, delivered, intents, acked>>
      /\ handler[w].pc \in {"event", "cache", "transfer"}
      /\ events \subseteq events' /\ transfers \subseteq transfers'
  BY DEF InsertEvent, UpsertCache, InsertTransfer, provider, ReplyError
<1>2. CASE Goto(w, Idle)
  BY <1>1, <1>2, IntentsStay, EndKeeps
<1>3. CASE InsertEvent(w) /\ ~Goto(w, Idle)
  <2>1. handler[w].notice.event # NoEvent =>
           handler[w].notice.event \notin events /\ handler[w].notice.event \in events'
    BY <1>3 DEF InsertEvent, ReplyError
  <2>2. Goto(w, [handler[w] EXCEPT !.pc = "cache"])
    BY <1>3 DEF InsertEvent, ReplyError
  <2> QED  BY <1>1, <2>1, <2>2, GoOnKeeps DEF Pcs, Settling, PastEvent, PastTransfer
<1>4. CASE UpsertCache(w)
  BY <1>1, <1>4, GoOnKeeps DEF UpsertCache, Pcs, Settling, PastEvent, PastTransfer
<1>5. CASE InsertTransfer(w) /\ ~Goto(w, Idle)
  <2>1. handler[w].notice.sig # NoSig =>
           /\ TransferOf(handler[w].notice) \notin transfers
           /\ TransferOf(handler[w].notice) \in transfers'
    BY <1>5 DEF InsertTransfer, ReplyError
  <2>2. Goto(w, [handler[w] EXCEPT !.pc = "credit"]) /\ handler[w].pc = "transfer"
    BY <1>5 DEF InsertTransfer, ReplyError
  <2> QED  BY <1>1, <2>1, <2>2, GoOnKeeps DEF Pcs, Settling, PastEvent, PastTransfer
<1> QED  BY <1>2, <1>3, <1>4, <1>5 DEF InsertEvent, UpsertCache, InsertTransfer, ReplyError

---------------------------------------------------------------------------
(* Steps that move the ledger *)

LEMMA AmountsArePositive ==
    ASSUME notices \in Announcements, NEW n \in notices
    PROVE  CreditAmount(n) \in Nat \ {0}
<1>1. n.usd \in Nat /\ Received(n) \in Nat /\ MICRO_CREDITS_PER_CREDIT \in Nat \ {0}
  BY WalletAssumption DEF WalletAssumption, Received
<1>2. ASSUME NEW x \in Nat \ {0}, NEW y \in Nat \ {0} PROVE x * y \in Nat \ {0}
  OBVIOUS
<1> QED  BY <1>1, <1>2 DEF CreditAmount

\* A row without an intent, or about one that no request is to credit and that has not
\* been credited.
LEMMA CreditKeeps ==
    ASSUME WalletInv, NEW w \in Workers, Credit(w)
    PROVE  WalletInv'
<1> SUFFICES ASSUME NEW h, NEW i, NEW k, h = handler[w], i = h.intent, k = h.key PROVE WalletInv'
  OBVIOUS
<1>1. /\ h.pc = "credit" /\ i \in Intents /\ k \in IntentKeys /\ intents[i].key = k
      /\ h.notice \in notices /\ h.notice.key = k /\ DOMAIN h = Fields
  BY RequestFacts DEF Credit, Settling, PastEvent
<1>2. PICK b : Grows(Row(Owner[k], "purchase", CreditAmount(h.notice), b, NoKey, i))
  <2>1. AddCredits(Owner[k], CreditAmount(h.notice), "purchase", NoKey, i) /\ ~KeyTaken(NoKey)
    BY DEF Credit, KeyTaken
  <2>2. CreditAmount(h.notice) \in Nat \ {0}
    BY <1>1, AmountsArePositive DEF WalletInv
  <2> QED  BY <1>1, <2>1, <2>2, PurchaseGrows, WalletAssumption DEF WalletAssumption, WalletInv, WalletTypeOK
<1>3. /\ UNCHANGED <<intents, events, cache, transfers, notices, delivered, acked>>
      /\ DOMAIN handler' = Workers /\ handler'[w] = [h EXCEPT !.pc = "confirm"]
      /\ \A v \in Workers : v # w => handler'[v] = handler[v]
  BY DEF Credit, tables, provider, Goto, WalletInv
<1>4. /\ DOMAIN handler'[w] = Fields /\ handler'[w].pc = "confirm"
      /\ handler'[w].key = k /\ handler'[w].notice = h.notice /\ handler'[w].intent = i
  BY <1>1, <1>3 DEF Fields, Idle
<1> DEFINE n == Len(ledger) + 1
<1>5. /\ TypeOK' /\ DOMAIN ledger' = DOMAIN ledger \cup {n} /\ n \notin DOMAIN ledger
      /\ \A r \in DOMAIN ledger : ledger'[r].ref = ledger[r].ref
      /\ ledger'[n].ref = i
  BY <1>2, GrownRows DEF Grows, WalletInv, WalletTypeOK, Row
<1>6. /\ CreditsOfIntent(i)' = CreditsOfIntent(i) \cup {n}
      /\ \A j \in Intents : j # i => CreditsOfIntent(j)' = CreditsOfIntent(j)
      /\ \A j \in Intents : CreditsOfIntent(j) # {} => CreditsOfIntent(j)' # {}
  <2>1. ASSUME NEW j \in Intents
        PROVE  CreditsOfIntent(j)' = CreditsOfIntent(j) \cup (IF j = i THEN {n} ELSE {})
    BY <1>5 DEF CreditsOfIntent
  <2>2. CreditsOfIntent(i)' = CreditsOfIntent(i) \cup {n}
    BY <1>1, <2>1
  <2>3. ASSUME NEW j \in Intents, j # i PROVE CreditsOfIntent(j)' = CreditsOfIntent(j)
    BY <2>1, <2>3
  <2> QED  BY <2>2, <2>3
<1>7. \A x : /\ Identified(x)' <=> Identified(x)
             /\ \A y : /\ SameTransfer(x, y)' <=> SameTransfer(x, y)
                       /\ SameEvent(x, y)' <=> SameEvent(x, y)
  BY <1>3 DEF Identified, SameTransfer, SameEvent
\* The deposit was not credited before, if it can be recognised.
<1>8. Identified(k) => CreditsOfIntent(i) = {}
  <2>1. Identified(k) => \/ SameTransfer(k, TransferOf(h.notice))
                         \/ SameEvent(k, h.notice.event)
    BY <1>1 DEF Identified, SameTransfer, SameEvent, TransferOf
  <2> QED  BY <1>1, <2>1 DEF WalletInv, CreditsAreSpent, PastEvent
\* Nobody else is to credit it then.
<1>9. \A v \in Workers : handler[v].pc \in Settling /\ handler[v].intent = i =>
          handler[v].notice \in notices /\ handler[v].notice.key = k
  BY <1>1, RequestFacts
<1>10. /\ \A s : SameTransfer(k, s) =>
             /\ s \in transfers
             /\ \A v \in Workers : v # w /\ handler[v].pc = "credit" => handler[v].intent # i
       /\ \A e : SameEvent(k, e) =>
             /\ e \in events
             /\ \A v \in Workers : v # w /\ handler[v].pc \in PastEvent \ {"confirm"} => handler[v].intent # i
  <2>1. ASSUME NEW s, SameTransfer(k, s)
        PROVE  /\ s \in transfers
               /\ \A v \in Workers : v # w /\ handler[v].pc = "credit" => handler[v].intent # i
    <3>1. TransferOf(h.notice) = s /\ h.notice.sig # NoSig
      BY <1>1, <2>1 DEF SameTransfer, TransferOf
    <3>2. \A v \in Workers : handler[v].pc = "credit" /\ handler[v].intent = i => TransferOf(handler[v].notice) = s
      BY <1>9, <2>1 DEF SameTransfer, Settling, PastEvent
    <3> QED  BY <1>1, <3>1, <3>2 DEF WalletInv, TransfersAreHeld, PastTransfer
  <2>2. ASSUME NEW e, SameEvent(k, e)
        PROVE  /\ e \in events
               /\ \A v \in Workers : v # w /\ handler[v].pc \in PastEvent \ {"confirm"} => handler[v].intent # i
    <3>1. h.notice.event = e /\ e # NoEvent
      BY <1>1, <2>2 DEF SameEvent
    <3>2. \A v \in Workers : handler[v].pc \in PastEvent /\ handler[v].intent = i => handler[v].notice.event = e
      BY <1>9, <2>2 DEF SameEvent, Settling
    <3> QED  BY <1>1, <3>1, <3>2 DEF WalletInv, EventsAreHeld, PastEvent
  <2> QED  BY <2>1, <2>2
<1>11. \A v \in Workers : Request(handler[v])'
  <2>1. Request(handler[w])'
    BY <1>1, <1>3, <1>4, <1>6, RequestFacts DEF Request, Pcs, Settling, PastEvent
  <2>2. ASSUME NEW v \in Workers, v # w PROVE Request(handler[v])'
    BY <1>3, <1>6, <2>2, RequestFacts DEF Request, Settling, PastEvent
  <2> QED  BY <2>1, <2>2
<1>12. WalletTypeOK' /\ OneIntentPerKey'
  <2>1. \A v \in Workers : handler'[v].intent \in Intents \cup {None}
    BY <1>11 DEF Request
  <2> QED  BY <1>3, <1>5, <2>1 DEF WalletInv, WalletTypeOK, OneIntentPerKey
<1>13. EventsAreHeld' /\ TransfersAreHeld'
  <2>1. /\ \A v \in Workers : handler'[v].notice = handler[v].notice
        /\ \A v \in Workers : handler'[v].pc \in PastEvent <=> handler[v].pc \in PastEvent
        /\ \A v \in Workers : handler'[v].pc \in PastTransfer <=> handler[v].pc \in PastTransfer
    BY <1>1, <1>3, <1>4 DEF PastEvent, PastTransfer
  <2> QED  BY <1>3, <2>1 DEF WalletInv, EventsAreHeld, TransfersAreHeld
<1>14. CreditsAreSpent'
  <2>0. k # None
    BY <1>1, WalletAssumption DEF WalletAssumption
  <2> SUFFICES ASSUME NEW j \in Intents, CreditsOfIntent(j)' # {}
               PROVE  /\ intents[j].key # None
                      /\ \A s : SameTransfer(intents[j].key, s) =>
                            /\ s \in transfers
                            /\ \A v \in Workers : handler'[v].pc = "credit" => handler'[v].intent # j
                      /\ \A e : SameEvent(intents[j].key, e) =>
                            /\ e \in events
                            /\ \A v \in Workers : handler'[v].pc \in PastEvent \ {"confirm"} => handler'[v].intent # j
    BY <1>3, <1>7 DEF CreditsAreSpent
  <2>1. \A v \in Workers : /\ handler'[v].pc = "credit" => v # w /\ handler[v].pc = "credit"
                           /\ handler'[v].pc \in PastEvent \ {"confirm"} =>
                                 v # w /\ handler[v].pc \in PastEvent \ {"confirm"}
                           /\ handler'[v].intent = handler[v].intent
    BY <1>1, <1>3, <1>4
  <2>2. CASE j = i
    <3>1. intents[j].key = k
      BY <1>1, <2>2
    <3> HIDE <2>2
    <3>2. \A s : SameTransfer(k, s) =>
             /\ s \in transfers
             /\ \A v \in Workers : handler'[v].pc = "credit" => handler'[v].intent # i
      BY <1>10, <2>1
    <3>3. \A e : SameEvent(k, e) =>
             /\ e \in events
             /\ \A v \in Workers : handler'[v].pc \in PastEvent \ {"confirm"} => handler'[v].intent # i
      BY <1>10, <2>1
    <3> QED  BY <2>0, <2>2, <3>1, <3>2, <3>3
  <2>3. CASE j # i
    <3>1. CreditsOfIntent(j) # {}
      BY <1>6, <2>3
    <3>2. /\ intents[j].key # None
          /\ \A s : SameTransfer(intents[j].key, s) =>
                /\ s \in transfers
                /\ \A v \in Workers : handler[v].pc = "credit" => handler[v].intent # j
          /\ \A e : SameEvent(intents[j].key, e) =>
                /\ e \in events
                /\ \A v \in Workers : handler[v].pc \in PastEvent \ {"confirm"} => handler[v].intent # j
      BY <3>1 DEF WalletInv, CreditsAreSpent
    <3> QED  BY <2>1, <3>2
  <2> QED  BY <2>2, <2>3
<1>15. CreditedOnce'
  BY <1>1, <1>3, <1>6, <1>7, <1>8 DEF WalletInv, CreditedOnce
<1>16. (\A j \in Intents : intents[j].status = "confirmed" => CreditsOfIntent(j) # {})'
  BY <1>3, <1>6 DEF WalletInv
<1> QED  BY <1>3, <1>11, <1>12, <1>13, <1>14, <1>15, <1>16 DEF WalletInv

LEMMA NewUserKeeps ==
    ASSUME WalletInv, NEW u \in Users, NewUser(u)
    PROVE  WalletInv'
<1>1. UNCHANGED <<intents, events, transfers, notices, delivered, acked, handler>> /\ SignUp(u)
  BY DEF NewUser, tables, provider
<1> DEFINE n == Len(ledger) + 1
<1>2. /\ TypeOK' /\ DOMAIN ledger' = DOMAIN ledger \cup {n} /\ n \notin DOMAIN ledger
      /\ \A r \in DOMAIN ledger : ledger'[r].ref = ledger[r].ref
      /\ ledger'[n].ref = NoRef
  <2> DEFINE r == Row(u, "bonus", WelcomeBonus, WelcomeBonus, NoKey, NoRef)
  <2>1. TypeOK /\ Grows(r) /\ r.ref = NoRef
    BY <1>1, SignUpGrows DEF WalletInv, WalletTypeOK, Row
  <2> HIDE DEF r
  <2> QED  BY <2>1, GrownRows DEF Grows
<1>3. \A j \in Intents : CreditsOfIntent(j)' = CreditsOfIntent(j)
  BY <1>2, WalletAssumption, LedgerAssumption DEF WalletAssumption, LedgerAssumption, CreditsOfIntent
<1>4. \A v \in Workers : Request(handler[v])'
  BY <1>1, <1>3, RequestFacts DEF Request, Settling, PastEvent
<1>5. WalletTypeOK' /\ OneIntentPerKey' /\ EventsAreHeld' /\ TransfersAreHeld'
  BY <1>1, <1>2 DEF WalletInv, WalletTypeOK, OneIntentPerKey, EventsAreHeld, TransfersAreHeld
<1>6. CreditsAreSpent' /\ CreditedOnce'
  BY <1>1, <1>3 DEF WalletInv, CreditsAreSpent, CreditedOnce, SameTransfer, SameEvent, Identified
<1> QED  BY <1>1, <1>3, <1>4, <1>5, <1>6 DEF WalletInv

---------------------------------------------------------------------------
(* The theorems *)

LEMMA WalletInit == Init => WalletInv
<1> SUFFICES ASSUME Init PROVE WalletInv
  OBVIOUS
<1>1. /\ accounts = LegacyUsers /\ credits = [u \in {} |-> 0] /\ ledger = << >>
      /\ intents = [i \in Intents |-> NoIntent] /\ transfers = {} /\ events = {}
      /\ handler = [w \in Workers |-> Idle] /\ notices \in Announcements
      /\ delivered = {} /\ acked = {}
  BY DEF Init, LedgerInit
<1>2. TypeOK
  BY <1>1, LedgerAssumption DEF LedgerAssumption, TypeOK
<1>3. \A i \in Intents : /\ CreditsOfIntent(i) = {} /\ intents[i].key = None
                         /\ intents[i].status = "none"
  BY <1>1 DEF CreditsOfIntent, NoIntent
<1>4. \A w \in Workers : handler[w].pc = "idle" /\ handler[w].intent = None /\ DOMAIN handler[w] = Fields
  BY <1>1 DEF Idle, Fields
<1>5. \A w \in Workers : Request(handler[w])
  BY <1>4 DEF Request, Pcs, Settling, PastEvent
<1>6. WalletTypeOK /\ OneIntentPerKey
  BY <1>1, <1>2, <1>3, <1>4 DEF WalletTypeOK, OneIntentPerKey, NoIntent
<1>7. EventsAreHeld /\ TransfersAreHeld
  BY <1>4 DEF EventsAreHeld, TransfersAreHeld, PastEvent, PastTransfer
<1>8. CreditsAreSpent /\ CreditedOnce
  BY <1>3 DEF CreditsAreSpent, CreditedOnce
<1> QED  BY <1>1, <1>3, <1>5, <1>6, <1>7, <1>8 DEF WalletInv

LEMMA WalletNext ==
    ASSUME WalletInv, [Next]_vars
    PROVE  WalletInv'
<1>1. CASE UNCHANGED vars
  <2>1. UNCHANGED <<accounts, credits, ledger, intents, events, transfers, handler, notices,
                    delivered, acked>>
    BY <1>1 DEF vars, ledgerVars, tables, provider
  <2>2. \A i : CreditsOfIntent(i)' = CreditsOfIntent(i)
    BY <2>1 DEF CreditsOfIntent
  <2>3. WalletTypeOK' /\ OneIntentPerKey' /\ (\A w \in Workers : Request(handler[w]))'
    BY <2>1, <2>2 DEF WalletInv, WalletTypeOK, TypeOK, OneIntentPerKey, Request
  <2>4. EventsAreHeld' /\ TransfersAreHeld'
    BY <2>1 DEF WalletInv, EventsAreHeld, TransfersAreHeld
  <2>5. CreditsAreSpent'
    BY <2>1, <2>2 DEF WalletInv, CreditsAreSpent, SameTransfer, SameEvent
  <2>6. CreditedOnce'
    BY <2>1, <2>2 DEF WalletInv, CreditedOnce, Identified
  <2> QED  BY <2>1, <2>2, <2>3, <2>4, <2>5, <2>6 DEF WalletInv
<1>2. CASE \E u \in Users : NewUser(u)
  BY <1>2, NewUserKeeps
<1>3. CASE \E w \in Workers, k \in IntentKeys : RequestIntent(w, k)
  BY <1>3, RequestIntentKeeps
<1>4. CASE \E w \in Workers, n \in UNION Announcements : Deliver(w, n)
  BY <1>4, DeliverKeeps
<1>5. CASE \E w \in Workers : Handle(w) \/ Fail(w)
  BY <1>5, LookupsKeep, InsertsKeep, InsertIntentKeeps, CreditKeeps, ConfirmKeeps, FailKeeps DEF Handle
<1> QED  BY <1>1, <1>2, <1>3, <1>4, <1>5 DEF Next

\* Whatever is retried, fails or arrives at once, an idempotency key names one funding
\* intent, and the tables keep their types (create_funding_intent).
THEOREM IntentsAreUnique == Spec => []OneIntentPerKey
<1>1. WalletInv => OneIntentPerKey
  BY DEF WalletInv
<1> QED  BY <1>1, WalletInit, WalletNext, PTL DEF Spec

\* A deposit whose notices share a signature and its amount, or an event id, is credited at
\* most once, and an intent is confirmed only once its deposit is in the ledger, whatever fails
\* between the calls and however often the provider delivers (settle_funding_intent).
THEOREM DepositsCreditedOnce == Spec => []DepositCreditedOnce
<1>1. WalletInv => DepositCreditedOnce
  <2> SUFFICES ASSUME WalletInv, NEW i \in Intents, Identified(intents[i].key)
               PROVE  Cardinality(CreditsOfIntent(i)) <= 1
    BY DEF WalletInv, DepositCreditedOnce
  <2>1. CASE CreditsOfIntent(i) = {}
    BY <2>1, FS_EmptySet
  <2>2. CASE CreditsOfIntent(i) # {}
    <3>1. PICK r : CreditsOfIntent(i) = {r}
      BY <2>2 DEF WalletInv, CreditedOnce
    <3>2. Cardinality({r}) = 1
      BY FS_Singleton
    <3> QED  BY <3>1, <3>2
  <2> QED  BY <2>1, <2>2
<1> QED  BY <1>1, WalletInit, WalletNext, PTL DEF Spec

---------------------------------------------------------------------------
(* The books *)

LEMMA WalletCalls ==
    ASSUME WalletInv, [Next]_vars
    PROVE  Called
<1>1. ASSUME NEW u \in Users, NewUser(u) PROVE Called
  BY <1>1 DEF NewUser, Called
<1>2. ASSUME NEW w \in Workers, Credit(w) PROVE Called
  <2> DEFINE h == handler[w]
  <2>1. h.key \in IntentKeys /\ h.intent \in Intents /\ h.notice \in notices
    BY <1>2, RequestFacts DEF Credit, Settling, PastEvent
  <2>2. /\ Owner[h.key] \in Users /\ h.intent \in Refs \cup {NoRef}
        /\ CreditAmount(h.notice) \in Nat
        /\ NoKey \in Keys \cup {NoKey} /\ "purchase" \in TransactionTypes
    BY <2>1, AmountsArePositive, WalletAssumption DEF WalletInv, WalletAssumption, TransactionTypes
  <2>3. AddCredits(Owner[h.key], CreditAmount(h.notice), "purchase", NoKey, h.intent)
    BY <1>2 DEF Credit
  <2> HIDE DEF h
  <2> QED  BY <2>2, <2>3 DEF Called
<1>3. ASSUME NEW w \in Workers, Handle(w), ~Credit(w) PROVE UNCHANGED ledgerVars
  BY <1>3 DEF Handle, FindIntent, InsertIntent, CheckCredited, CheckDuplicate, InsertEvent,
              UpsertCache, InsertTransfer, Confirm
<1>4. ASSUME NEW w \in Workers, Fail(w) PROVE UNCHANGED ledgerVars
  BY <1>4 DEF Fail
<1>5. ASSUME NEW w \in Workers, NEW k \in IntentKeys, RequestIntent(w, k)
      PROVE  UNCHANGED ledgerVars
  BY <1>5 DEF RequestIntent
<1>6. ASSUME NEW w \in Workers, NEW n \in UNION Announcements, Deliver(w, n)
      PROVE  UNCHANGED ledgerVars
  BY <1>6 DEF Deliver
<1>7. UNCHANGED vars => UNCHANGED ledgerVars
  BY DEF vars
<1> QED  BY <1>1, <1>2, <1>3, <1>4, <1>5, <1>6, <1>7 DEF Next, Called

\* Deposits keep the books: the ledger explains every balance, and a balance is what was
\* given and bought less what was used, also of deposits that are credited twice because
\* the provider does not let them be recognised.
THEOREM DepositsKeepBooks == Spec => [](AuditTrail /\ Conservation)
<1>1. Init => BooksInv
  BY BooksOpen DEF Init
<1>2. WalletInv /\ BooksInv /\ [Next]_vars => BooksInv'
  BY WalletCalls, CallsKeepBooks
<1>3. BooksInv => AuditTrail /\ Conservation
  BY DEF BooksInv, ConservationInv
<1> QED  BY <1>1, <1>2, <1>3, WalletInit, WalletNext, PTL DEF Spec
=============================================================================

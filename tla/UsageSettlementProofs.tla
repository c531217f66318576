----------------------- MODULE UsageSettlementProofs -----------------------
(***************************************************************************)
(* Proofs about UsageSettlement, for any workers, reports, contents and    *)
(* bounds: a report is debited once, a day's fee is charged once, the      *)
(* ledger's books are kept, and the rows of a report add up.  Then proofs  *)
(* about Reconciliation, which reads those rows beside the invoices: what  *)
(* is completed is whole, paging misses no row, and an undisturbed report  *)
(* is true.                                                                *)
(***************************************************************************)
EXTENDS UsageSettlement, Reconciliation, CreditLedgerProofs, TLAPS, SequenceTheorems, FiniteSetTheorems,
        WellFoundedInduction

Fields == DOMAIN Idle

\* A handler is past the claim, and has not asked for a debit yet.
Unclaimed == {"idle", "find", "claim", "refind"}
Undebited == {"keys", "today", "fee", "log", "balance", "ensure", "deduct"}
Past(w) == handler[w].pc \notin Unclaimed
Early(w) == handler[w].pc \in Undebited

Unpaid(r) == \A i \in DOMAIN ledger : ledger[i].ref # r
PaidOnce(r) == \A i, j \in DOMAIN ledger : ledger[i].ref = r /\ ledger[j].ref = r => i = j
Says(r, result) == result # Empty /\ [report |-> r, result |-> result] \in answers

IsSeq(s) == \E S : s \in Seq(S)

Shapes ==
    /\ DOMAIN handler = Workers /\ DOMAIN reports = Reports
    /\ \A w \in Workers : /\ DOMAIN handler[w] = Fields
                          /\ handler[w].pc # "idle" => handler[w].report \in Reports
    /\ IsSeq(ledger)
    /\ \A a \in answers : a = [report |-> a.report, result |-> a.result] /\ a.report \in Reports

\* One handler at most is past the claim of a report, while its row is pending and holds
\* no result; it has debited nothing until deduct_credits answers, and answered nothing.
ClaimIsHeld ==
    /\ \A w \in Workers : Past(w) => reports[handler[w].report].status = "pending"
    /\ \A v, w \in Workers :
          Past(v) /\ Past(w) /\ handler[v].report = handler[w].report => v = w
    /\ \A w \in Workers : Past(w) => \A x : ~Says(handler[w].report, x)
    /\ \A w \in Workers : Early(w) => Unpaid(handler[w].report)

\* What a report's row says of its debits and of the answers about it.
RowIsTrue ==
    \A r \in Reports :
        /\ reports[r].status = "none" => Unpaid(r) /\ \A x : ~Says(r, x)
        /\ reports[r].status \in {"none", "pending"} => reports[r].result = Empty
        /\ reports[r].status \notin {"none", "pending"} =>
              \A x : Says(r, x) => x = reports[r].result
        /\ PaidOnce(r)
        /\ \A x, y : Says(r, x) /\ Says(r, y) => x = y

ChargeInv == Shapes /\ ClaimIsHeld /\ RowIsTrue

---------------------------------------------------------------------------
(* Steps that leave the claims as they are *)

\* The ledger is moved for something else than a report, or not at all.
Elsewhere ==
    \/ ledger' = ledger
    \/ \E x : x.ref \notin Reports /\ ledger' = Append(ledger, x)

LEMMA Appended ==
    ASSUME NEW S, ledger \in Seq(S), NEW x, ledger' = Append(ledger, x)
    PROVE  /\ IsSeq(ledger)'
           /\ \A r : x.ref # r /\ Unpaid(r) => Unpaid(r)'
           /\ \A r : x.ref # r /\ PaidOnce(r) => PaidOnce(r)'
           /\ \A r : Unpaid(r) => PaidOnce(r)'
<1>1. ledger \in Seq(S \cup {x})
  <2>1. \A i \in 1 .. Len(ledger) : ledger[i] \in S \cup {x}
    OBVIOUS
  <2> QED  BY <2>1
<1>2. /\ Len(ledger) \in Nat /\ DOMAIN ledger = 1 .. Len(ledger)
      /\ DOMAIN ledger' = 1 .. Len(ledger) + 1
      /\ \A i \in DOMAIN ledger : ledger'[i] = ledger[i]
      /\ ledger'[Len(ledger) + 1] = x
      /\ ledger' \in Seq(S \cup {x})
  BY <1>1
<1>3. IsSeq(ledger)'
  BY <1>2 DEF IsSeq
<1>4. \A i \in DOMAIN ledger' : i \in DOMAIN ledger \/ i = Len(ledger) + 1
  BY <1>2
<1> QED  BY <1>2, <1>3, <1>4 DEF Unpaid, PaidOnce

LEMMA ElsewhereKeeps ==
    ASSUME IsSeq(ledger), Elsewhere
    PROVE  /\ IsSeq(ledger)'
           /\ \A r \in Reports : Unpaid(r) => Unpaid(r)'
           /\ \A r \in Reports : PaidOnce(r) => PaidOnce(r)'
<1>1. CASE ledger' = ledger
  BY <1>1 DEF IsSeq, Unpaid, PaidOnce
<1>2. CASE \E x : x.ref \notin Reports /\ ledger' = Append(ledger, x)
  <2>1. PICK x : x.ref \notin Reports /\ ledger' = Append(ledger, x)
    BY <1>2
  <2>2. PICK S : ledger \in Seq(S)
    BY DEF IsSeq
  <2> QED  BY <2>1, <2>2, Appended
<1> QED  BY <1>1, <1>2 DEF Elsewhere

\* A handler goes on with its report, or comes or goes before or after its claim.
LEMMA HandlerMoves ==
    ASSUME ChargeInv, Elsewhere, UNCHANGED <<reports, answers>>,
           NEW w \in Workers, NEW h, Goto(w, h), DOMAIN h = Fields,
           h.pc # "idle" => h.report \in Reports,
           h.pc \notin Unclaimed => Past(w) /\ h.report = handler[w].report,
           h.pc \in Undebited => Early(w)
    PROVE  ChargeInv'
<1>1. handler' = [handler EXCEPT ![w] = h] /\ DOMAIN handler = Workers
  BY DEF Goto, ChargeInv, Shapes
<1>2. /\ DOMAIN handler' = Workers /\ handler'[w] = h
      /\ \A v \in Workers : v # w => handler'[v] = handler[v]
  BY <1>1
<1>3. /\ IsSeq(ledger)' /\ \A r \in Reports : Unpaid(r) => Unpaid(r)'
      /\ \A r \in Reports : PaidOnce(r) => PaidOnce(r)'
  BY ElsewhereKeeps DEF ChargeInv, Shapes
<1>4. Shapes'
  BY <1>2, <1>3 DEF ChargeInv, Shapes
<1>5. \A v \in Workers : (Past(v)' => Past(v) /\ handler'[v].report = handler[v].report)
                         /\ (Early(v)' => Early(v)) /\ (Early(v) => Past(v))
                         /\ (Past(v) => handler[v].report \in Reports)
  BY <1>2 DEF Past, Early, Unclaimed, Undebited, ChargeInv, Shapes
<1>6. \A r, x : Says(r, x)' <=> Says(r, x)
  BY DEF Says
<1>7. ClaimIsHeld'
  <2>1. \A v \in Workers : Early(v)' => Unpaid(handler[v].report)' /\ Past(v)'
    BY <1>3, <1>5 DEF ChargeInv, ClaimIsHeld, Past, Early, Unclaimed, Undebited
  <2> QED  BY <1>5, <1>6, <2>1 DEF ChargeInv, ClaimIsHeld, Unpaid
<1>8. RowIsTrue'
  BY <1>3, <1>6 DEF ChargeInv, RowIsTrue
<1> QED  BY <1>4, <1>7, <1>8 DEF ChargeInv

LEMMA OutsideMoves ==
    ASSUME ChargeInv, Elsewhere, UNCHANGED <<reports, answers, handler>>
    PROVE  ChargeInv'
<1>1. /\ IsSeq(ledger)' /\ \A r \in Reports : Unpaid(r) => Unpaid(r)'
      /\ \A r \in Reports : PaidOnce(r) => PaidOnce(r)'
  BY ElsewhereKeeps DEF ChargeInv, Shapes
<1>2. \A r, x : Says(r, x)' <=> Says(r, x)
  BY DEF Says
<1>3. \A w \in Workers : /\ (Past(w)' <=> Past(w)) /\ (Early(w)' <=> Early(w))
                         /\ (Early(w) => handler[w].report \in Reports)
  BY DEF Past, Early, Undebited, ChargeInv, Shapes
<1>4. Shapes'
  BY <1>1 DEF ChargeInv, Shapes
<1>5. ClaimIsHeld'
  <2>1. \A v \in Workers : Early(v)' => Unpaid(handler[v].report)'
    BY <1>1, <1>3 DEF ChargeInv, ClaimIsHeld
  <2> QED  BY <1>2, <1>3, <2>1 DEF ChargeInv, ClaimIsHeld, Unpaid
<1>6. RowIsTrue'
  BY <1>1, <1>2 DEF ChargeInv, RowIsTrue
<1> QED  BY <1>4, <1>5, <1>6 DEF ChargeInv

---------------------------------------------------------------------------
(* Steps that claim, debit and answer *)

LEMMA ClaimKeeps ==
    ASSUME ChargeInv, NEW w \in Workers, Claim(w)
    PROVE  ChargeInv'
<1> DEFINE h == handler[w]
           r == h.report
<1>1. h.pc = "claim" /\ r \in Reports /\ ~Past(w) /\ ~Early(w) /\ DOMAIN h = Fields
  BY DEF Claim, Past, Early, Unclaimed, Undebited, ChargeInv, Shapes
<1>2. CASE reports[r].status # "none"
  <2>1. /\ Goto(w, [h EXCEPT !.pc = "refind"])
        /\ UNCHANGED <<reports, answers, ledger>>
    BY <1>2 DEF Claim, ledgerVars
  <2> QED  BY <1>1, <2>1, HandlerMoves DEF Elsewhere, Unclaimed, Undebited, Fields, Idle
<1>3. CASE reports[r].status = "none"
  <2>1. /\ handler' = [handler EXCEPT ![w] = [h EXCEPT !.pc = "keys"]]
        /\ reports' = [reports EXCEPT ![r] = [status |-> "pending", result |-> Empty]]
        /\ UNCHANGED <<answers, ledger>>
    BY <1>3 DEF Claim, Goto, ledgerVars
  <2>2. /\ DOMAIN handler' = Workers /\ handler'[w].pc = "keys" /\ handler'[w].report = r
        /\ DOMAIN handler'[w] = Fields
        /\ \A v \in Workers : v # w => handler'[v] = handler[v]
    BY <1>1, <2>1 DEF ChargeInv, Shapes, Fields, Idle
  <2>3. /\ DOMAIN reports' = Reports /\ reports'[r].status = "pending" /\ reports'[r].result = Empty
        /\ \A q \in Reports : q # r => reports'[q] = reports[q]
    BY <1>1, <2>1 DEF ChargeInv, Shapes
  <2>4. \A q, x : Says(q, x)' <=> Says(q, x)
    BY <2>1 DEF Says
  <2>5. \A q : (Unpaid(q)' <=> Unpaid(q)) /\ (PaidOnce(q)' <=> PaidOnce(q))
    BY <2>1 DEF Unpaid, PaidOnce
  <2>6. Unpaid(r) /\ \A x : ~Says(r, x)
    BY <1>1, <1>3 DEF ChargeInv, RowIsTrue
  <2>7. \A v \in Workers : v # w /\ Past(v) => handler[v].report # r /\ handler[v].report \in Reports
    BY <1>1, <1>3 DEF ChargeInv, ClaimIsHeld, Shapes, Past, Unclaimed
  <2>8. \A v \in Workers : v # w => /\ (Past(v)' <=> Past(v)) /\ (Early(v)' <=> Early(v))
                                    /\ (Early(v) => Past(v))
    BY <2>2 DEF Past, Early, Unclaimed, Undebited
  <2>9. Shapes'
    BY <1>1, <2>1, <2>2, <2>3 DEF ChargeInv, Shapes, IsSeq
  <2>10. ClaimIsHeld'
    BY <2>2, <2>3, <2>4, <2>5, <2>6, <2>7, <2>8 DEF ChargeInv, ClaimIsHeld
  <2>11. RowIsTrue'
    BY <1>1, <2>3, <2>4, <2>5, <2>6 DEF ChargeInv, RowIsTrue
  <2> QED  BY <2>9, <2>10, <2>11 DEF ChargeInv
<1> QED  BY <1>2, <1>3

LEMMA DebitKeeps ==
    ASSUME ChargeInv, NEW w \in Workers, DeductOk(w)
    PROVE  ChargeInv'
<1> DEFINE h == handler[w]
           r == h.report
           row == Row(UserOf(r), "usage", 0 - h.charged, RowAfterDeduct(UserOf(r), h.charged).balance,
                      NoKey, r)
<1>1. h.pc = "deduct" /\ r \in Reports /\ Past(w) /\ Early(w) /\ DOMAIN h = Fields /\ Unpaid(r)
  BY DEF DeductOk, Past, Early, Unclaimed, Undebited, ChargeInv, Shapes, ClaimIsHeld
<1>2. /\ ledger' = Append(ledger, row) /\ UNCHANGED <<reports, answers>>
      /\ handler' = [handler EXCEPT ![w] = [h EXCEPT !.pc = "allocate", !.remaining = h.charged,
                        !.status = IF h.unpaid = 0 THEN "charged" ELSE "partially_charged"]]
  BY DEF DeductOk, DeductCredits, Goto, tables
<1>3. row.ref = r
  BY DEF Row
<1> HIDE DEF row
<1>4. /\ DOMAIN handler' = Workers /\ handler'[w].pc = "allocate" /\ handler'[w].report = r
      /\ DOMAIN handler'[w] = Fields
      /\ \A v \in Workers : v # w => handler'[v] = handler[v]
  BY <1>1, <1>2 DEF ChargeInv, Shapes, Fields, Idle
<1>5. PICK S : ledger \in Seq(S)
  BY DEF ChargeInv, Shapes, IsSeq
<1>6. /\ IsSeq(ledger)'
      /\ \A q : q # r /\ Unpaid(q) => Unpaid(q)'
      /\ \A q : q # r /\ PaidOnce(q) => PaidOnce(q)'
      /\ PaidOnce(r)'
  BY <1>1, <1>2, <1>3, <1>5, Appended
<1>7. \A q, x : Says(q, x)' <=> Says(q, x)
  BY <1>2 DEF Says
<1>8. \A v \in Workers : /\ (Past(v)' => Past(v)) /\ (Early(v)' => Early(v) /\ v # w)
                         /\ handler'[v].report = handler[v].report
                         /\ (Early(v) => Past(v))
  BY <1>1, <1>4 DEF Past, Early, Unclaimed, Undebited
<1>9. Shapes'
  BY <1>1, <1>2, <1>4, <1>6 DEF ChargeInv, Shapes
<1>10. ClaimIsHeld'
  <2>1. \A v \in Workers : Early(v)' => Unpaid(handler[v].report)'
    BY <1>1, <1>6, <1>8 DEF ChargeInv, ClaimIsHeld
  <2>2. \A v \in Workers : Past(v)' => /\ reports'[handler'[v].report].status = "pending"
                                       /\ \A x : ~Says(handler[v].report, x)'
    BY <1>2, <1>7, <1>8 DEF ChargeInv, ClaimIsHeld
  <2>3. \A u, v \in Workers : Past(u)' /\ Past(v)' /\ handler'[u].report = handler'[v].report => u = v
    BY <1>8 DEF ChargeInv, ClaimIsHeld
  <2> QED  BY <2>1, <2>2, <2>3 DEF ClaimIsHeld
<1>11. RowIsTrue'
  <2>1. reports[r].status = "pending"
    BY <1>1 DEF ChargeInv, ClaimIsHeld
  <2> QED  BY <1>2, <1>6, <1>7, <2>1 DEF ChargeInv, RowIsTrue
<1> QED  BY <1>9, <1>10, <1>11 DEF ChargeInv

\* Find and Refind answer what the row holds.
LEMMA CopiesKeep ==
    ASSUME ChargeInv, NEW w \in Workers, handler[w].pc \in {"find", "refind"},
           Answer(w, reports[handler[w].report].result), UNCHANGED <<reports, ledger>>
    PROVE  ChargeInv'
<1> DEFINE r == handler[w].report
           x == reports[r].result
<1>1. r \in Reports /\ ~Past(w) /\ ~Early(w)
  BY DEF Past, Early, Unclaimed, Undebited, ChargeInv, Shapes
<1>2. answers' = answers \cup {[report |-> r, result |-> x]} /\ handler' = [handler EXCEPT ![w] = Idle]
  BY DEF Answer, Goto
<1>3. /\ DOMAIN handler' = Workers /\ handler'[w].pc = "idle" /\ DOMAIN handler'[w] = Fields
      /\ \A v \in Workers : v # w => handler'[v] = handler[v]
  BY <1>2 DEF ChargeInv, Shapes, Fields, Idle
<1>4. \A q, y : Says(q, y)' <=> Says(q, y) \/ (q = r /\ y = x /\ x # Empty)
  BY <1>2 DEF Says
<1>5. \A v \in Workers : /\ (Past(v)' => Past(v) /\ v # w) /\ (Early(v)' => Early(v) /\ v # w)
  BY <1>3 DEF Past, Early, Unclaimed, Undebited
<1>6. \A q : (Unpaid(q)' <=> Unpaid(q)) /\ (PaidOnce(q)' <=> PaidOnce(q))
  BY DEF Unpaid, PaidOnce
<1>7. Shapes'
  BY <1>1, <1>2, <1>3 DEF ChargeInv, Shapes, IsSeq
<1>8. ClaimIsHeld'
  <2>1. ASSUME NEW v \in Workers, Past(v)' PROVE \A y : ~Says(handler[v].report, y)'
    <3>1. reports[handler[v].report].status = "pending" /\ Past(v) /\ v # w
          /\ handler[v].report \in Reports
      BY <1>5, <2>1 DEF ChargeInv, ClaimIsHeld, Shapes, Past, Unclaimed
    <3>2. reports[handler[v].report].result = Empty
      BY <3>1 DEF ChargeInv, RowIsTrue
    <3> QED  BY <1>3, <1>4, <3>1, <3>2 DEF ChargeInv, ClaimIsHeld
  <2> QED  BY <1>3, <1>5, <1>6, <2>1 DEF ChargeInv, ClaimIsHeld
<1>9. RowIsTrue'
  <2> DEFINE st == reports[r].status
  <2>1. x # Empty => st \notin {"none", "pending"}
    BY <1>1 DEF ChargeInv, RowIsTrue
  <2>2. \A q \in Reports : \A y : Says(q, y)' => Says(q, y) \/ (q = r /\ y = x /\ st \notin {"none", "pending"})
    BY <1>4, <2>1
  <2>3. st \notin {"none", "pending"} => \A y : Says(r, y) => y = x
    BY <1>1 DEF ChargeInv, RowIsTrue
  <2> QED  BY <1>6, <2>2, <2>3 DEF ChargeInv, RowIsTrue
<1> QED  BY <1>7, <1>8, <1>9 DEF ChargeInv

\* Who is past the claim answers its own result, and stores it unless that write fails.
LEMMA ResultKeeps ==
    ASSUME ChargeInv, NEW w \in Workers, Finalize(w) \/ FinalizeUnrecorded(w)
    PROVE  ChargeInv'
<1> DEFINE x == ResultOf(handler[w])
<1>0. PICK r \in Reports : r = handler[w].report /\ Past(w)
  BY DEF Finalize, FinalizeUnrecorded, Past, Unclaimed, ChargeInv, Shapes
<1>1. /\ Past(w) /\ reports[r].status = "pending" /\ handler[w].pc = "finalize"
      /\ \A y : ~Says(r, y)
  BY <1>0 DEF Finalize, FinalizeUnrecorded, ChargeInv, ClaimIsHeld
<1>2. /\ answers' = answers \cup {[report |-> r, result |-> x]}
      /\ handler' = [handler EXCEPT ![w] = Idle] /\ ledger' = ledger
  BY <1>0 DEF Answer, Goto, Finalize, FinalizeUnrecorded, ledgerVars
<1>3. \/ reports' = reports
      \/ \E s \in {"settled", "partially_settled"} :
            reports' = [reports EXCEPT ![r] = [status |-> s, result |-> x]]
  BY <1>0 DEF Finalize, FinalizeUnrecorded, tables
<1> HIDE DEF x
<1>4. /\ DOMAIN handler' = Workers /\ handler'[w].pc = "idle" /\ DOMAIN handler'[w] = Fields
      /\ \A v \in Workers : v # w => handler'[v] = handler[v]
  BY <1>2 DEF ChargeInv, Shapes, Fields, Idle
<1>5. /\ DOMAIN reports' = Reports
      /\ \A q \in Reports : q # r => reports'[q] = reports[q]
      /\ \/ reports'[r] = reports[r]
         \/ reports'[r].status \in {"settled", "partially_settled"} /\ reports'[r].result = x
  BY <1>1, <1>3 DEF ChargeInv, Shapes
<1>6. \A q, y : Says(q, y)' <=> Says(q, y) \/ (q = r /\ y = x /\ x # Empty)
  BY <1>2 DEF Says
<1>7. \A v \in Workers : /\ (Past(v)' => /\ Past(v) /\ v # w /\ handler[v].report # r
                                        /\ handler[v].report \in Reports)
                         /\ (Early(v)' => Early(v) /\ v # w)
  BY <1>0, <1>1, <1>4 DEF Past, Early, Unclaimed, Undebited, ChargeInv, ClaimIsHeld, Shapes
<1>8. \A q : (Unpaid(q)' <=> Unpaid(q)) /\ (PaidOnce(q)' <=> PaidOnce(q))
  BY <1>2 DEF Unpaid, PaidOnce
<1>9. Shapes'
  BY <1>1, <1>2, <1>4, <1>5 DEF ChargeInv, Shapes, IsSeq
<1>10. ClaimIsHeld'
  BY <1>4, <1>5, <1>6, <1>7, <1>8 DEF ChargeInv, ClaimIsHeld
<1>11. RowIsTrue'
  <2>1. ASSUME NEW q \in Reports, q # r
        PROVE  /\ reports'[q] = reports[q] /\ (\A y : Says(q, y)' <=> Says(q, y))
               /\ (Unpaid(q)' <=> Unpaid(q)) /\ (PaidOnce(q)' <=> PaidOnce(q))
    BY <1>5, <1>6, <1>8, <2>1
  <2>2. /\ \A y : Says(r, y)' <=> (y = x /\ x # Empty)
        /\ PaidOnce(r)'
    BY <1>1, <1>6, <1>8 DEF ChargeInv, RowIsTrue
  <2> QED  BY <1>1, <1>5, <2>1, <2>2 DEF ChargeInv, RowIsTrue
<1> QED  BY <1>9, <1>10, <1>11 DEF ChargeInv

---------------------------------------------------------------------------
(* Every step *)

LEMMA ChargeInitInv == Init => ChargeInv
<1> SUFFICES ASSUME Init PROVE ChargeInv
  OBVIOUS
<1>1. /\ ledger = << >> /\ answers = {} /\ handler = [w \in Workers |-> Idle]
      /\ reports = [r \in Reports |-> [status |-> "none", result |-> Empty]]
  BY DEF Init, LedgerInit
<1>2. \A w \in Workers : handler[w] = Idle /\ ~Past(w) /\ ~Early(w)
  BY <1>1 DEF Past, Early, Unclaimed, Undebited, Idle
<1>3. IsSeq(ledger) /\ DOMAIN ledger = {}
  <2>1. ledger \in Seq({})
    BY <1>1
  <2> QED  BY <1>1, <2>1 DEF IsSeq
<1>4. Shapes
  BY <1>1, <1>2, <1>3 DEF Shapes, Fields, Idle
<1> QED  BY <1>1, <1>2, <1>3, <1>4 DEF ChargeInv, ClaimIsHeld, RowIsTrue, Unpaid, PaidOnce, Says

\* The handler of w goes on to one of these calls, with the same report.
Goes(w, calls) ==
    /\ UNCHANGED <<reports, answers>> /\ Elsewhere
    /\ \E h : /\ Goto(w, h) /\ DOMAIN h = Fields
              /\ h.report = handler[w].report /\ h.pc \in calls

\* What a step writes over the handler's record leaves it its fields and its report.
LEMMA Written ==
    ASSUME NEW w, DOMAIN handler[w] = Fields, NEW calls, NEW h, Goto(w, h),
           DOMAIN h = Fields, h.report = handler[w].report, h.pc \in calls,
           Elsewhere, UNCHANGED <<reports, answers>>
    PROVE  Goes(w, calls)
  BY DEF Goes

LEMMA GoingKeeps ==
    ASSUME ChargeInv, NEW w \in Workers, NEW calls, Goes(w, calls), Past(w),
           calls \cap Unclaimed = {}, ~Early(w) => calls \cap Undebited = {}
    PROVE  ChargeInv'
<1>1. PICK h : /\ Goto(w, h) /\ DOMAIN h = Fields
               /\ h.report = handler[w].report /\ h.pc \in calls
  BY DEF Goes
<1>2. handler[w].report \in Reports
  BY DEF Past, Unclaimed, ChargeInv, Shapes
<1> QED  BY <1>1, <1>2, HandlerMoves DEF Goes

\* Pricing and logging, which the rows of the report are written by.
LEMMA PricingKeeps ==
    ASSUME ChargeInv, NEW w \in Workers,
           ReadKeys(w) \/ ReadToday(w) \/ ClaimDayFee(w) \/ LogItem(w)
    PROVE  ChargeInv'
<1> DEFINE h == handler[w]
<1>1. DOMAIN h = Fields /\ Early(w) /\ Past(w)
  BY DEF ReadKeys, ReadToday, ClaimDayFee, LogItem, Early, Past, Undebited, Unclaimed,
         ChargeInv, Shapes
<1>2. ReadKeys(w) => Goes(w, {"today", "log", "finalize"})
  <2> SUFFICES ASSUME ReadKeys(w) PROVE Goes(w, {"today", "log", "finalize"})
    OBVIOUS
  <2>1. Elsewhere /\ UNCHANGED <<reports, answers>>
    BY DEF ReadKeys, Elsewhere, ledgerVars, tables
  <2> DEFINE x == [h EXCEPT !.items = Priced(h.report),
                              !.pc = CASE /\ \E i \in DOMAIN Priced(h.report) : Priced(h.report)[i].kind = "own"
                                          /\ Content[h.report].minutes > 0 -> "today"
                                       [] Priced(h.report) = << >> -> "finalize"
                                       [] OTHER -> "log"]
  <2>2. Goto(w, x)
    BY DEF ReadKeys
  <2>3. DOMAIN x = Fields /\ x.report = h.report /\ x.pc \in {"today", "log", "finalize"}
    BY <1>1 DEF Fields, Idle
  <2> HIDE DEF x
  <2> QED  BY <1>1, <2>1, <2>2, <2>3, Written
<1>3. ReadToday(w) => Goes(w, {"fee", "log"})
  <2> SUFFICES ASSUME ReadToday(w) PROVE Goes(w, {"fee", "log"})
    OBVIOUS
  <2>1. Elsewhere /\ UNCHANGED <<reports, answers>>
    BY DEF ReadToday, Elsewhere, ledgerVars, tables
  <2> DEFINE h1 == [h EXCEPT !.today = day,
                      !.extra = ExtraMinutes(UserOf(h.report), day, Content[h.report].minutes)]
             x == [h1 EXCEPT !.pc = "fee"]
             y == [h1 EXCEPT !.pc = "log", !.items = Append(@, PlatformItem(h1, FALSE))]
  <2>2. Goto(w, x) \/ Goto(w, y)
    BY DEF ReadToday
  <2>3. DOMAIN h1 = Fields /\ h1.report = h.report
    BY <1>1 DEF Fields, Idle
  <2> HIDE DEF h1
  <2>4. /\ DOMAIN x = Fields /\ x.report = h.report /\ x.pc = "fee"
        /\ DOMAIN y = Fields /\ y.report = h.report /\ y.pc = "log"
    BY <2>3 DEF Fields, Idle
  <2> HIDE DEF x, y
  <2> QED  BY <1>1, <2>1, <2>2, <2>4, Written
<1>4. ClaimDayFee(w) => Goes(w, {"log"})
  <2> SUFFICES ASSUME ClaimDayFee(w) PROVE Goes(w, {"log"})
    OBVIOUS
  <2>1. Elsewhere /\ UNCHANGED <<reports, answers>>
    BY DEF ClaimDayFee, Elsewhere, ledgerVars, tables
  <2> DEFINE x == [h EXCEPT !.pc = "log",
                     !.items = Append(@, PlatformItem(h, <<UserOf(h.report), h.today>> \notin dayClaims))]
  <2>2. Goto(w, x)
    BY DEF ClaimDayFee
  <2>3. DOMAIN x = Fields /\ x.report = h.report /\ x.pc \in {"log"}
    BY <1>1 DEF Fields, Idle
  <2> HIDE DEF x
  <2> QED  BY <1>1, <2>1, <2>2, <2>3, Written
<1>5. LogItem(w) => Goes(w, {"log", "balance", "allocate"})
  <2> SUFFICES ASSUME LogItem(w) PROVE Goes(w, {"log", "balance", "allocate"})
    OBVIOUS
  <2>1. Elsewhere /\ UNCHANGED <<reports, answers>>
    BY DEF LogItem, Elsewhere, ledgerVars, tables
  <2> DEFINE item == h.items[h.next]
             h1 == [h EXCEPT !.logged = Append(@, Len(logs) + 1), !.requested = @ + item.cost]
             x == [h1 EXCEPT !.next = @ + 1]
             y == [h1 EXCEPT !.next = 1,
                             !.pc = IF h1.requested > 0 THEN "balance" ELSE "allocate"]
  <2>2. Goto(w, x) \/ Goto(w, y)
    BY DEF LogItem
  <2>3. DOMAIN h1 = Fields /\ h1.report = h.report /\ h1.pc = "log"
    BY <1>1 DEF LogItem, Fields, Idle
  <2> HIDE DEF h1
  <2>4. /\ DOMAIN x = Fields /\ x.report = h.report /\ x.pc = "log"
        /\ DOMAIN y = Fields /\ y.report = h.report /\ y.pc \in {"balance", "allocate"}
    BY <2>3 DEF Fields, Idle
  <2> HIDE DEF x, y
  <2> QED  BY <1>1, <2>1, <2>2, <2>4, Written
<1> QED  BY <1>1, <1>2, <1>3, <1>4, <1>5, GoingKeeps DEF Unclaimed

\* What is left of the debit, and a handler that is lost.
LEMMA PayingKeeps ==
    ASSUME ChargeInv, NEW w \in Workers,
           GetBalance(w) \/ EnsureBalance(w) \/ DeductRefused(w) \/ AllocateItem(w)
    PROVE  ChargeInv'
<1> DEFINE h == handler[w]
<1>1. /\ DOMAIN h = Fields /\ Past(w) /\ h.report \in Reports
      /\ ~AllocateItem(w) => Early(w)
      /\ AllocateItem(w) => h.pc = "allocate"
  BY DEF GetBalance, EnsureBalance, DeductRefused, AllocateItem, Early, Past, Undebited,
         Unclaimed, ChargeInv, Shapes
<1>2. ASSUME NEW b
      PROVE  /\ DOMAIN Quote(h, b) = Fields /\ Quote(h, b).report = h.report
             /\ Quote(h, b).pc \in {"deduct", "allocate"}
  BY <1>1 DEF Quote, Fields, Idle
<1>3. GetBalance(w) => Goes(w, {"deduct", "allocate", "ensure"})
  <2> SUFFICES ASSUME GetBalance(w) PROVE Goes(w, {"deduct", "allocate", "ensure"})
    OBVIOUS
  <2>1. \E x : /\ Goto(w, x) /\ DOMAIN x = Fields /\ x.report = h.report
               /\ x.pc \in {"deduct", "allocate", "ensure"}
    BY <1>1, <1>2 DEF GetBalance, Fields, Idle
  <2> QED  BY <2>1 DEF GetBalance, Goes, Elsewhere, ledgerVars, tables
<1>4. EnsureBalance(w) => ChargeInv'
  <2> SUFFICES ASSUME EnsureBalance(w) PROVE ChargeInv'
    OBVIOUS
  <2>1. Elsewhere /\ UNCHANGED <<reports, answers>>
    BY DEF EnsureBalance, EnsureRow, Elsewhere, ledgerVars, tables
  <2>2. CASE Goto(w, Idle)
    BY <2>1, <2>2, HandlerMoves DEF Unclaimed, Undebited, Fields, Idle
  <2>3. CASE Goto(w, Quote(h, 0))
    <3>1. Goes(w, {"deduct", "allocate"})
      BY <1>2, <2>1, <2>3 DEF Goes
    <3> QED  BY <1>1, <3>1, GoingKeeps DEF Unclaimed, EnsureBalance, Early, Undebited
  <2> QED  BY <2>2, <2>3 DEF EnsureBalance
<1>5. DeductRefused(w) => Goes(w, {"allocate"})
  <2> SUFFICES ASSUME DeductRefused(w) PROVE Goes(w, {"allocate"})
    OBVIOUS
  <2>1. Elsewhere /\ UNCHANGED <<reports, answers>>
    BY DEF DeductRefused, Elsewhere, ledgerVars, tables
  <2> DEFINE x == [h EXCEPT !.pc = "allocate", !.charged = 0, !.unpaid = h.requested,
                              !.status = "insufficient_credits"]
  <2>2. Goto(w, x)
    BY DEF DeductRefused
  <2>3. DOMAIN x = Fields /\ x.report = h.report /\ x.pc \in {"allocate"}
    BY <1>1 DEF Fields, Idle
  <2> HIDE DEF x
  <2> QED  BY <1>1, <2>1, <2>2, <2>3, Written
<1>6. AllocateItem(w) => Goes(w, {"allocate", "finalize"})
  <2> SUFFICES ASSUME AllocateItem(w) PROVE Goes(w, {"allocate", "finalize"})
    OBVIOUS
  <2>1. Elsewhere /\ UNCHANGED <<reports, answers>>
    BY DEF AllocateItem, Elsewhere, ledgerVars, tables
  <2> DEFINE x == [h EXCEPT !.remaining = @ - Share(h, logs[h.logged[h.next]].requested).charged,
                              !.next = @ + 1,
                              !.pc = IF h.next = Len(h.logged) THEN "finalize" ELSE "allocate"]
  <2>2. Goto(w, x)
    BY DEF AllocateItem
  <2>3. DOMAIN x = Fields /\ x.report = h.report /\ x.pc \in {"allocate", "finalize"}
    BY <1>1 DEF Fields, Idle
  <2> HIDE DEF x
  <2> QED  BY <1>1, <2>1, <2>2, <2>3, Written
<1>7. AllocateItem(w) => ~Early(w)
  BY <1>1 DEF Early, Undebited
<1> QED  BY <1>1, <1>3, <1>4, <1>5, <1>6, <1>7, GoingKeeps DEF Unclaimed, Undebited

\* A request that arrives, is answered by the row it finds, or is lost.
LEMMA ComingKeeps ==
    ASSUME ChargeInv, NEW w \in Workers,
           (\E r \in Reports : Receive(w, r)) \/ Find(w) \/ Refind(w) \/ Fail(w)
    PROVE  ChargeInv'
<1> DEFINE h == handler[w]
<1>1. /\ h.pc # "idle" => h.report \in Reports
      /\ DOMAIN h = Fields
  BY DEF ChargeInv, Shapes
<1>2. CASE \E r \in Reports : Receive(w, r)
  <2>1. PICK r \in Reports : Receive(w, r)
    BY <1>2
  <2>2. Goto(w, [Idle EXCEPT !.pc = "find", !.report = r]) /\ Elsewhere
        /\ UNCHANGED <<reports, answers>>
    BY <2>1 DEF Receive, Elsewhere, ledgerVars, tables
  <2> QED  BY <2>2, HandlerMoves DEF Unclaimed, Undebited, Fields, Idle
<1>3. CASE Find(w)
  <2>1. h.pc = "find" /\ UNCHANGED <<reports, ledger>>
    BY <1>3 DEF Find, ledgerVars, tables
  <2>2. CASE reports[h.report].status # "none"
    BY <1>3, <2>1, <2>2, CopiesKeep DEF Find
  <2>3. CASE reports[h.report].status = "none"
    <3>1. Goto(w, [h EXCEPT !.pc = "claim"]) /\ Elsewhere /\ UNCHANGED <<reports, answers>>
      BY <1>3, <2>1, <2>3 DEF Find, Elsewhere
    <3> QED  BY <1>1, <2>1, <3>1, HandlerMoves DEF Unclaimed, Undebited, Fields, Idle
  <2> QED  BY <2>2, <2>3
<1>4. CASE Refind(w)
  BY <1>4, CopiesKeep DEF Refind, ledgerVars, tables
<1>5. CASE Fail(w)
  <2>1. Goto(w, Idle) /\ Elsewhere /\ UNCHANGED <<reports, answers>>
    BY <1>5 DEF Fail, Elsewhere, ledgerVars, tables
  <2> QED  BY <2>1, HandlerMoves DEF Unclaimed, Undebited, Fields, Idle
<1> QED  BY <1>2, <1>3, <1>4, <1>5

\* What other routes do to the ledger carries no report's reference.
LEMMA OthersKeep ==
    ASSUME ChargeInv,
           \/ \E u \in Users : NewUser(u) \/ ToggleKey(u)
           \/ \E u \in Users, a \in Amounts : MoveBalance(u, a)
           \/ Midnight
           \/ UNCHANGED vars
    PROVE  ChargeInv'
<1>1. NoRef \notin Reports
  BY LedgerAssumption, SettlementAssumption DEF LedgerAssumption, SettlementAssumption
<1>2. \A u, t, a, b, k : Row(u, t, a, b, k, NoRef).ref \notin Reports
  BY <1>1 DEF Row
<1>3. UNCHANGED <<reports, answers, handler>>
  BY DEF NewUser, ToggleKey, MoveBalance, Midnight, vars, tables
<1>4. Elsewhere
  <2>1. ASSUME NEW u \in Users, NewUser(u) PROVE Elsewhere
    BY <1>2, <2>1 DEF NewUser, SignUp, Elsewhere
  <2>2. ASSUME NEW u \in Users, NEW a \in Amounts, MoveBalance(u, a) PROVE Elsewhere
    <3>1. CASE AddCredits(u, a, "purchase", NoKey, NoRef)
      BY <1>2, <3>1 DEF AddCredits, KeyTaken, Elsewhere
    <3>2. CASE DeductCredits(u, a, NoRef)
      BY <1>2, <3>2 DEF DeductCredits, Elsewhere
    <3> QED  BY <2>2, <3>1, <3>2 DEF MoveBalance
  <2>3. ASSUME (\E u \in Users : ToggleKey(u)) \/ Midnight \/ UNCHANGED vars PROVE Elsewhere
    BY <2>3 DEF ToggleKey, Midnight, vars, ledgerVars, Elsewhere
  <2> QED  BY <2>1, <2>2, <2>3
<1> QED  BY <1>3, <1>4, OutsideMoves

LEMMA ChargeNextInv == ChargeInv /\ [Next]_vars => ChargeInv'
<1> SUFFICES ASSUME ChargeInv, [Next]_vars PROVE ChargeInv'
  OBVIOUS
<1>1. ASSUME NEW w \in Workers, Handle(w) \/ FinalizeUnrecorded(w) \/ Fail(w) PROVE ChargeInv'
  BY <1>1, ClaimKeeps, DebitKeeps, ResultKeeps, PricingKeeps, PayingKeeps, ComingKeeps DEF Handle
<1>2. ASSUME NEW w \in Workers, NEW r \in Reports, Receive(w, r) PROVE ChargeInv'
  BY <1>2, ComingKeeps
<1> QED  BY <1>1, <1>2, OthersKeep DEF Next

---------------------------------------------------------------------------
(* A report is debited once *)

\* However often the agent sends a report, to however many workers, and wherever one of
\* them is lost, the report is debited once, and whoever is told its outcome is told the
\* same (process_usage_report).
THEOREM ReportsChargedOnce == Spec => []ChargedOnce
<1>1. ASSUME ChargeInv PROVE ChargedOnce
  <2>1. ASSUME NEW r \in Reports PROVE Cardinality(DebitsOf(r)) <= 1
    <3>1. \A i, j \in DebitsOf(r) : i = j
      BY <1>1 DEF DebitsOf, ChargeInv, RowIsTrue, PaidOnce
    <3>2. CASE DebitsOf(r) = {}
      BY <3>2, FS_EmptySet
    <3>3. CASE DebitsOf(r) # {}
      <4>1. PICK i : DebitsOf(r) = {i}
        BY <3>1, <3>3
      <4> QED  BY <4>1, FS_Singleton
    <3> QED  BY <3>2, <3>3
  <2>2. ASSUME NEW a \in answers, NEW b \in answers, a.report = b.report,
               a.result # Empty, b.result # Empty
        PROVE  a.result = b.result
    <3>1. Says(a.report, a.result) /\ Says(a.report, b.result) /\ a.report \in Reports
      BY <1>1, <2>2 DEF ChargeInv, Shapes, Says
    <3> QED  BY <1>1, <3>1 DEF ChargeInv, RowIsTrue
  <2> QED  BY <2>1, <2>2 DEF ChargedOnce
<1> QED  BY <1>1, ChargeInitInv, ChargeNextInv, PTL DEF Spec

---------------------------------------------------------------------------
(* The day's fee *)

LogFields == {"report", "user", "kind", "minutes", "fee", "today", "day", "requested",
              "charged", "status"}

\* The fee a handler has decided to charge, for a day, and not logged yet.
Bears(h) == h.pc = "log" /\ \E i \in DOMAIN h.items : i >= h.next /\ h.items[i].fee
KeyOf(h) == <<UserOf(h.report), h.today>>

Local(h) ==
    /\ DOMAIN h = Fields
    /\ h.pc # "idle" => h.report \in Reports
    /\ h.pc \in {"find", "claim", "keys", "today", "fee"} => h.next = 1
    /\ h.pc \in {"today", "fee", "log"} =>
          IsSeq(h.items) /\ \A i, j \in DOMAIN h.items : h.items[i].fee /\ h.items[j].fee => i = j
    /\ h.pc \in {"today", "fee"} => \A i \in DOMAIN h.items : ~h.items[i].fee
    /\ h.pc = "log" => h.next \in DOMAIN h.items

FeeLogged(key) ==
    \E i \in DOMAIN logs : logs[i].fee /\ <<logs[i].user, logs[i].today>> = key

FeeInv ==
    /\ DOMAIN handler = Workers /\ \A w \in Workers : Local(handler[w])
    /\ IsSeq(logs) /\ \A i \in DOMAIN logs : DOMAIN logs[i] = LogFields
    /\ \A key : FeeLogged(key) => key \in dayClaims
    /\ \A w \in Workers : \A key :
          Bears(handler[w]) /\ KeyOf(handler[w]) = key => key \in dayClaims /\ ~FeeLogged(key)
    /\ \A v, w \in Workers :
          Bears(handler[v]) /\ Bears(handler[w]) /\ KeyOf(handler[v]) = KeyOf(handler[w]) => v = w
    /\ DayFeeOnce

\* The rows say of fees what they said before.
FeesStay ==
    /\ dayClaims' = dayClaims /\ DOMAIN logs' = DOMAIN logs
    /\ IsSeq(logs)' /\ \A i \in DOMAIN logs : DOMAIN logs'[i] = LogFields
    /\ \A i \in DOMAIN logs : /\ logs'[i].fee = logs[i].fee /\ logs'[i].user = logs[i].user
                             /\ logs'[i].today = logs[i].today

LEMMA FeesStayOnce ==
    ASSUME FeeInv, FeesStay
    PROVE  DayFeeOnce' /\ \A key : FeeLogged(key)' <=> FeeLogged(key)
<1>1. DayFeeOnce
  BY DEF FeeInv
<1>2. DayFeeOnce'
  BY <1>1 DEF FeesStay, DayFeeOnce
<1> QED  BY <1>2 DEF FeesStay, FeeLogged

LEMMA FeeMoves ==
    ASSUME FeeInv, FeesStay, NEW w \in Workers, NEW h, Goto(w, h), Local(h),
           Bears(h) => Bears(handler[w]) /\ KeyOf(h) = KeyOf(handler[w])
    PROVE  FeeInv'
<1>1. /\ DOMAIN handler' = Workers /\ handler'[w] = h
      /\ \A v \in Workers : v # w => handler'[v] = handler[v]
  BY DEF Goto, FeeInv
<1>2. DayFeeOnce' /\ \A key : FeeLogged(key)' <=> FeeLogged(key)
  BY FeesStayOnce
<1>3. \A v \in Workers : /\ Local(handler'[v])
                         /\ Bears(handler'[v]) => /\ Bears(handler[v])
                                                  /\ KeyOf(handler'[v]) = KeyOf(handler[v])
  BY <1>1 DEF FeeInv
<1>4. \A v \in Workers : /\ Local(handler[v])' <=> Local(handler'[v])
                         /\ Bears(handler[v])' <=> Bears(handler'[v])
                         /\ KeyOf(handler[v])' = KeyOf(handler'[v])
  BY DEF Local, Bears, KeyOf, IsSeq
<1> QED  BY <1>1, <1>2, <1>3, <1>4 DEF FeeInv, FeesStay

\* Calls after which nothing is left to log.
LEMMA FeeQuiet ==
    ASSUME FeeInv, FeesStay, NEW w \in Workers, NEW h, Goto(w, h), DOMAIN h = Fields,
           h.pc # "idle" => h.report \in Reports,
           h.pc \in {"find", "claim", "keys"} => h.next = 1,
           h.pc \notin {"today", "fee", "log"}
    PROVE  FeeInv'
<1>1. Local(h) /\ ~Bears(h)
  BY DEF Local, Bears
<1> QED  BY <1>1, FeeMoves

LEMMA FeesStayUnchanged ==
    ASSUME FeeInv, UNCHANGED <<dayClaims, logs>>
    PROVE  FeesStay
  BY DEF FeesStay, FeeInv, IsSeq

LEMMA FeeComing ==
    ASSUME FeeInv, NEW w \in Workers,
           \/ \E r \in Reports : Receive(w, r)
           \/ Find(w) \/ Claim(w) \/ Refind(w) \/ Fail(w) \/ Finalize(w) \/ FinalizeUnrecorded(w)
    PROVE  FeeInv'
<1> DEFINE h == handler[w]
<1>1. Local(h)
  BY DEF FeeInv
<1>2. FeesStay
  <2>1. UNCHANGED <<dayClaims, logs>>
    BY DEF Receive, Find, Claim, Refind, Fail, Finalize, FinalizeUnrecorded, tables
  <2> QED  BY <2>1, FeesStayUnchanged
<1>3. CASE Goto(w, Idle)
  BY <1>2, <1>3, FeeQuiet DEF Fields, Idle
<1>4. ASSUME NEW r \in Reports, Goto(w, [Idle EXCEPT !.pc = "find", !.report = r]) PROVE FeeInv'
  BY <1>2, <1>4, FeeQuiet DEF Fields, Idle
<1>5. ASSUME NEW p \in {"claim", "refind", "keys"}, Goto(w, [h EXCEPT !.pc = p]),
             h.pc \in {"find", "claim"}
      PROVE  FeeInv'
  <2> DEFINE x == [h EXCEPT !.pc = p]
  <2>1. DOMAIN x = Fields /\ x.report = h.report /\ x.pc = p /\ x.next = h.next
    BY <1>1 DEF Local, Fields, Idle
  <2>2. h.report \in Reports /\ h.next = 1
    BY <1>1, <1>5 DEF Local
  <2>3. Goto(w, x)
    BY <1>5
  <2> HIDE DEF x
  <2> QED  BY <1>2, <2>1, <2>2, <2>3, FeeQuiet
<1> QED  BY <1>3, <1>4, <1>5
         DEF Receive, Find, Claim, Refind, Fail, Finalize, FinalizeUnrecorded, Answer

LEMMA FeePaying ==
    ASSUME FeeInv, NEW w \in Workers,
           GetBalance(w) \/ EnsureBalance(w) \/ DeductOk(w) \/ DeductRefused(w)
    PROVE  FeeInv'
<1> DEFINE h == handler[w]
<1>1. Local(h) /\ h.report \in Reports /\ DOMAIN h = Fields
  BY DEF FeeInv, Local, GetBalance, EnsureBalance, DeductOk, DeductRefused
<1>2. FeesStay
  <2>1. UNCHANGED <<dayClaims, logs>>
    BY DEF GetBalance, EnsureBalance, DeductOk, DeductRefused, tables
  <2> QED  BY <2>1, FeesStayUnchanged
<1>3. ASSUME NEW x, Goto(w, x), DOMAIN x = Fields, x.report = h.report,
             x.pc \in {"ensure", "deduct", "allocate"}
      PROVE  FeeInv'
  BY <1>1, <1>2, <1>3, FeeQuiet
<1>4. ASSUME NEW b
      PROVE  /\ DOMAIN Quote(h, b) = Fields /\ Quote(h, b).report = h.report
             /\ Quote(h, b).pc \in {"deduct", "allocate"}
  BY <1>1 DEF Quote, Fields, Idle
<1>5. CASE GetBalance(w)
  <2> DEFINE x == [h EXCEPT !.pc = "ensure"]
  <2>1. DOMAIN x = Fields /\ x.report = h.report /\ x.pc = "ensure"
    BY <1>1 DEF Fields, Idle
  <2>2. Goto(w, x) \/ \E b : Goto(w, Quote(h, b))
    BY <1>5 DEF GetBalance
  <2> HIDE DEF x
  <2> QED  BY <1>3, <1>4, <2>1, <2>2
<1>6. CASE EnsureBalance(w)
  <2>1. CASE Goto(w, Idle)
    BY <1>2, <2>1, FeeQuiet DEF Fields, Idle
  <2> QED  BY <1>3, <1>4, <1>6, <2>1 DEF EnsureBalance
<1>7. CASE DeductOk(w)
  <2> DEFINE x == [h EXCEPT !.pc = "allocate", !.remaining = h.charged,
                        !.status = IF h.unpaid = 0 THEN "charged" ELSE "partially_charged"]
  <2>1. DOMAIN x = Fields /\ x.report = h.report /\ x.pc = "allocate"
    BY <1>1 DEF Fields, Idle
  <2>2. Goto(w, x)
    BY <1>7 DEF DeductOk
  <2> HIDE DEF x
  <2> QED  BY <1>3, <2>1, <2>2
<1>8. CASE DeductRefused(w)
  <2> DEFINE x == [h EXCEPT !.pc = "allocate", !.charged = 0, !.unpaid = h.requested,
                         !.status = "insufficient_credits"]
  <2>1. DOMAIN x = Fields /\ x.report = h.report /\ x.pc = "allocate"
    BY <1>1 DEF Fields, Idle
  <2>2. Goto(w, x)
    BY <1>8 DEF DeductRefused
  <2> HIDE DEF x
  <2> QED  BY <1>3, <2>1, <2>2
<1> QED  BY <1>5, <1>6, <1>7, <1>8

LEMMA FeeAllocate ==
    ASSUME FeeInv, NEW w \in Workers, AllocateItem(w)
    PROVE  FeeInv'
<1> DEFINE h == handler[w]
           id == h.logged[h.next]
           share == Share(h, logs[id].requested)
           x == [h EXCEPT !.remaining = @ - share.charged, !.next = @ + 1,
                          !.pc = IF h.next = Len(h.logged) THEN "finalize" ELSE "allocate"]
<1>1. h.report \in Reports /\ DOMAIN h = Fields
  BY DEF FeeInv, Local, AllocateItem
<1>2. Goto(w, x) /\ dayClaims' = dayClaims
  BY DEF AllocateItem
<1>3. DOMAIN x = Fields /\ x.report = h.report /\ x.pc \in {"allocate", "finalize"}
  BY <1>1 DEF Fields, Idle
<1>4. logs' = [logs EXCEPT ![id].charged = share.charged, ![id].status = share.status]
  BY DEF AllocateItem
<1> HIDE DEF share, id, x
<1>5. FeesStay
  <2>1. PICK S : logs \in Seq(S)
    BY DEF FeeInv, IsSeq
  <2>2. DOMAIN logs' = DOMAIN logs
    BY <1>4
  <2>3. ASSUME NEW i \in DOMAIN logs
        PROVE  /\ DOMAIN logs'[i] = LogFields
               /\ logs'[i].fee = logs[i].fee /\ logs'[i].user = logs[i].user
               /\ logs'[i].today = logs[i].today
    <3>1. DOMAIN logs[i] = LogFields
      BY DEF FeeInv
    <3>2. CASE i = id
      <4>1. logs'[i] = [logs[i] EXCEPT !.charged = share.charged, !.status = share.status]
        BY <1>4, <3>2
      <4> QED  BY <3>1, <4>1 DEF LogFields
    <3>3. CASE i # id
      <4>1. logs'[i] = logs[i]
        BY <1>4, <3>3
      <4> QED  BY <3>1, <4>1
    <3> QED  BY <3>2, <3>3
  <2>4. IsSeq(logs)'
    <3> DEFINE T == {logs'[i] : i \in DOMAIN logs}
    <3>1. Len(logs) \in Nat /\ DOMAIN logs = 1 .. Len(logs)
      BY <2>1
    <3>2. logs' = [i \in DOMAIN logs |-> logs'[i]]
      BY <1>4
    <3>3. logs' \in [1 .. Len(logs) -> T]
      BY <3>1, <3>2
    <3>4. logs' \in Seq(T)
      BY <3>1, <3>3, SeqDef
    <3> QED  BY <3>4 DEF IsSeq
  <2> QED  BY <1>2, <2>2, <2>3, <2>4 DEF FeesStay
<1> QED  BY <1>1, <1>2, <1>3, <1>5, FeeQuiet

NoFees(items) == \A i \in DOMAIN items : ~items[i].fee

LEMMA PricedItems ==
    ASSUME NEW r \in Reports
    PROVE  /\ IsSeq(Priced(r)) /\ NoFees(Priced(r))
           /\ Priced(r) # << >> => 1 \in DOMAIN Priced(r)
<1> DEFINE items == Content[r].items
           T == {Priced(r)[i] : i \in DOMAIN items}
<1>1. Len(items) \in Nat /\ DOMAIN items = 1 .. Len(items)
  BY SettlementAssumption DEF SettlementAssumption
<1>2. /\ DOMAIN Priced(r) = DOMAIN items /\ NoFees(Priced(r))
      /\ Priced(r) = [i \in DOMAIN items |-> Priced(r)[i]]
  BY DEF Priced, NoFees
<1>3. Priced(r) \in [1 .. Len(items) -> T]
  BY <1>1, <1>2
<1>4. Priced(r) \in Seq(T)
  BY <1>1, <1>3, SeqDef
<1>5. Priced(r) # << >> => 1 \in DOMAIN Priced(r)
  BY <1>4
<1> QED  BY <1>2, <1>4, <1>5 DEF IsSeq

LEMMA OneMoreItem ==
    ASSUME NEW items, IsSeq(items), NEW item
    PROVE  /\ IsSeq(Append(items, item))
           /\ 1 \in DOMAIN Append(items, item)
           /\ \A i \in DOMAIN Append(items, item) :
                 \/ i \in DOMAIN items /\ Append(items, item)[i] = items[i]
                 \/ i = Len(items) + 1 /\ Append(items, item)[i] = item
<1>1. PICK S : items \in Seq(S)
  BY DEF IsSeq
<1>2. \A i \in 1 .. Len(items) : items[i] \in S \cup {item}
  BY <1>1
<1>3. items \in Seq(S \cup {item}) /\ Len(items) \in Nat
  BY <1>1, <1>2
<1>4. Append(items, item) \in Seq(S \cup {item})
  BY <1>3
<1>5. IsSeq(Append(items, item))
  BY <1>4 DEF IsSeq
<1> QED  BY <1>3, <1>5

LEMMA FeePricing ==
    ASSUME FeeInv, NEW w \in Workers, ReadKeys(w) \/ ReadToday(w)
    PROVE  FeeInv'
<1> DEFINE h == handler[w]
<1>1. Local(h) /\ DOMAIN h = Fields /\ h.report \in Reports /\ h.next = 1
  BY DEF FeeInv, Local, ReadKeys, ReadToday
<1>2. FeesStay
  <2>1. UNCHANGED <<dayClaims, logs>>
    BY DEF ReadKeys, ReadToday, tables
  <2> QED  BY <2>1, FeesStayUnchanged
<1>3. ASSUME NEW x, Goto(w, x), DOMAIN x = Fields, x.report = h.report, x.next = 1,
             x.pc \in {"today", "fee", "log", "finalize"},
             x.pc # "finalize" => IsSeq(x.items) /\ NoFees(x.items),
             x.pc = "log" => 1 \in DOMAIN x.items
      PROVE  FeeInv'
  <2>1. Local(x) /\ ~Bears(x)
    BY <1>1, <1>3 DEF Local, Bears, NoFees
  <2> QED  BY <1>2, <1>3, <2>1, FeeMoves
<1>4. CASE ReadKeys(w)
  <2> DEFINE x == [h EXCEPT !.items = Priced(h.report),
                              !.pc = CASE /\ \E i \in DOMAIN Priced(h.report) : Priced(h.report)[i].kind = "own"
                                          /\ Content[h.report].minutes > 0 -> "today"
                                       [] Priced(h.report) = << >> -> "finalize"
                                       [] OTHER -> "log"]
  <2>1. Goto(w, x)
    BY <1>4 DEF ReadKeys
  <2>2. /\ DOMAIN x = Fields /\ x.report = h.report /\ x.next = 1 /\ x.items = Priced(h.report)
        /\ x.pc \in {"today", "finalize", "log"}
        /\ x.pc = "log" => Priced(h.report) # << >>
    BY <1>1 DEF Fields, Idle
  <2> HIDE DEF x
  <2> QED  BY <1>1, <1>3, <2>1, <2>2, PricedItems
<1>5. CASE ReadToday(w)
  <2> DEFINE h1 == [h EXCEPT !.today = day,
                      !.extra = ExtraMinutes(UserOf(h.report), day, Content[h.report].minutes)]
             plat == PlatformItem(h1, FALSE)
             x == [h1 EXCEPT !.pc = "fee"]
             y == [h1 EXCEPT !.pc = "log", !.items = Append(@, plat)]
  <2>1. Goto(w, x) \/ Goto(w, y)
    BY <1>5 DEF ReadToday
  <2>2. IsSeq(h.items) /\ NoFees(h.items)
    BY <1>1, <1>5 DEF ReadToday, Local, NoFees
  <2>3. DOMAIN h1 = Fields /\ h1.report = h.report /\ h1.next = 1 /\ h1.items = h.items
    BY <1>1 DEF Fields, Idle
  <2>4. ~plat.fee
    BY DEF PlatformItem
  <2> HIDE DEF h1, plat
  <2>5. /\ DOMAIN x = Fields /\ x.report = h.report /\ x.pc = "fee" /\ x.next = 1 /\ x.items = h.items
        /\ DOMAIN y = Fields /\ y.report = h.report /\ y.pc = "log" /\ y.next = 1
        /\ y.items = Append(h.items, plat)
    BY <2>3 DEF Fields, Idle
  <2> HIDE DEF x, y
  <2>6. IsSeq(y.items) /\ 1 \in DOMAIN y.items /\ NoFees(y.items)
    <3>1. \A i \in DOMAIN y.items : ~y.items[i].fee
      BY <2>2, <2>4, <2>5, OneMoreItem DEF NoFees
    <3> QED  BY <2>2, <2>5, <3>1, OneMoreItem DEF NoFees
  <2> QED  BY <1>3, <2>1, <2>2, <2>5, <2>6
<1> QED  BY <1>4, <1>5

\* Who inserts the day's key has the fee to charge: nobody had it before.
LEMMA FeeClaimed ==
    ASSUME FeeInv, NEW w \in Workers, ClaimDayFee(w)
    PROVE  FeeInv'
<1> DEFINE h == handler[w]
<1>1. PICK key : key = KeyOf(h)
  OBVIOUS
<1> DEFINE plat == PlatformItem(h, key \notin dayClaims)
           x == [h EXCEPT !.pc = "log", !.items = Append(@, plat)]
<1>2. Local(h) /\ DOMAIN h = Fields /\ h.report \in Reports /\ h.next = 1 /\ h.pc = "fee"
  BY DEF FeeInv, Local, ClaimDayFee
<1>3. Goto(w, x) /\ dayClaims' = dayClaims \cup {key} /\ logs' = logs
  BY <1>1 DEF ClaimDayFee, KeyOf
<1>4. IsSeq(h.items) /\ NoFees(h.items) /\ (plat.fee <=> key \notin dayClaims)
  BY <1>2 DEF Local, NoFees, PlatformItem
<1> HIDE DEF plat
<1>5. /\ DOMAIN x = Fields /\ x.report = h.report /\ x.pc = "log" /\ x.next = 1
      /\ x.items = Append(h.items, plat) /\ x.today = h.today
  BY <1>2 DEF Fields, Idle
<1> HIDE DEF x
<1>6. \A i \in DOMAIN x.items : x.items[i].fee => key \notin dayClaims /\ i = Len(h.items) + 1
  BY <1>4, <1>5, OneMoreItem DEF NoFees
<1>7. Local(x) /\ KeyOf(x) = key /\ (Bears(x) => key \notin dayClaims)
  BY <1>1, <1>2, <1>4, <1>5, <1>6, OneMoreItem DEF Local, Bears, KeyOf
<1>8. /\ DOMAIN handler' = Workers /\ handler'[w] = x
      /\ \A v \in Workers : v # w => handler'[v] = handler[v]
  BY <1>3 DEF Goto, FeeInv
<1>9. (DayFeeOnce' <=> DayFeeOnce) /\ \A k : FeeLogged(k)' <=> FeeLogged(k)
  BY <1>3 DEF DayFeeOnce, FeeLogged
<1>10. \A v \in Workers : /\ Local(handler[v])' <=> Local(handler'[v])
                          /\ Bears(handler[v])' <=> Bears(handler'[v])
                          /\ KeyOf(handler[v])' = KeyOf(handler'[v])
  BY DEF Local, Bears, KeyOf, IsSeq
<1>11. \A v \in Workers : Local(handler[v])'
  BY <1>7, <1>8, <1>10 DEF FeeInv
<1>12. \A v \in Workers : \A k :
          Bears(handler'[v]) /\ KeyOf(handler'[v]) = k => k \in dayClaims' /\ ~FeeLogged(k)
  <2> SUFFICES ASSUME NEW v \in Workers, Bears(handler'[v])
               PROVE  KeyOf(handler'[v]) \in dayClaims' /\ ~FeeLogged(KeyOf(handler'[v]))
    OBVIOUS
  <2>1. CASE v = w
    BY <1>3, <1>7, <1>8, <2>1 DEF FeeInv
  <2>2. CASE v # w
    BY <1>3, <1>8, <2>2 DEF FeeInv
  <2> QED  BY <2>1, <2>2
<1>13. \A u, v \in Workers :
          Bears(handler'[u]) /\ Bears(handler'[v]) /\ KeyOf(handler'[u]) = KeyOf(handler'[v]) => u = v
  BY <1>7, <1>8 DEF FeeInv
<1>14. IsSeq(logs)' /\ \A i \in DOMAIN logs' : DOMAIN logs'[i] = LogFields
  BY <1>3 DEF FeeInv, IsSeq
<1> QED  BY <1>3, <1>8, <1>9, <1>10, <1>11, <1>12, <1>13, <1>14 DEF FeeInv

\* A bearer logs its fee, and bears it no more.
LEMMA FeeLogging ==
    ASSUME FeeInv, NEW w \in Workers, LogItem(w)
    PROVE  FeeInv'
<1> DEFINE h == handler[w]
<1>1. PICK key : key = KeyOf(h)
  OBVIOUS
<1> DEFINE item == h.items[h.next]
           row == [report |-> h.report, user |-> UserOf(h.report), kind |-> item.kind,
                   minutes |-> item.minutes, fee |-> item.fee, today |-> h.today, day |-> day,
                   requested |-> item.cost, charged |-> 0, status |-> "pending"]
           h1 == [h EXCEPT !.logged = Append(@, Len(logs) + 1), !.requested = @ + item.cost]
           more == [h1 EXCEPT !.next = @ + 1]
           last == [h1 EXCEPT !.next = 1,
                              !.pc = IF h1.requested > 0 THEN "balance" ELSE "allocate"]
<1>2. /\ Local(h) /\ DOMAIN h = Fields /\ h.report \in Reports /\ h.pc = "log"
      /\ h.next \in DOMAIN h.items /\ IsSeq(h.items)
  BY DEF FeeInv, Local, LogItem
<1>3. /\ dayClaims' = dayClaims /\ logs' = Append(logs, row)
      /\ IF h.next < Len(h.items) THEN Goto(w, more) ELSE Goto(w, last)
  BY DEF LogItem
<1>4. /\ DOMAIN row = LogFields /\ row.fee = item.fee
      /\ <<row.user, row.today>> = key
  BY <1>1 DEF LogFields, KeyOf
<1>5. DOMAIN h1 = Fields /\ h1.report = h.report /\ h1.pc = "log" /\ h1.next = h.next
      /\ h1.items = h.items /\ h1.today = h.today
  BY <1>2 DEF Fields, Idle
<1> HIDE DEF row, h1
<1>6. /\ DOMAIN more = Fields /\ more.report = h.report /\ more.pc = "log" /\ more.next = h.next + 1
      /\ more.items = h.items /\ more.today = h.today
      /\ DOMAIN last = Fields /\ last.report = h.report /\ last.pc \in {"balance", "allocate"}
  BY <1>5 DEF Fields, Idle
<1> HIDE DEF more, last
<1>7. h.next \in 1 .. Len(h.items) /\ Len(h.items) \in Nat /\ DOMAIN h.items = 1 .. Len(h.items)
  <2>1. PICK S : h.items \in Seq(S)
    BY <1>2 DEF IsSeq
  <2> QED  BY <1>2, <2>1
<1>8. PICK x : /\ Goto(w, x) /\ Local(x) /\ x.report = h.report
               /\ Bears(x) => Bears(h) /\ KeyOf(x) = key /\ ~item.fee
  <2>1. CASE h.next < Len(h.items)
    <3>1. Local(more)
      BY <1>2, <1>6, <1>7, <2>1 DEF Local
    <3>2. ASSUME Bears(more) PROVE Bears(h) /\ KeyOf(more) = key /\ ~item.fee
      <4>1. PICK i \in DOMAIN h.items : i >= h.next + 1 /\ h.items[i].fee
        BY <1>6, <3>2 DEF Bears
      <4>2. i # h.next /\ i >= h.next
        BY <1>7, <4>1
      <4>3. ~item.fee
        <5>1. \A j, k \in DOMAIN h.items : h.items[j].fee /\ h.items[k].fee => j = k
          BY <1>2 DEF Local
        <5> QED  BY <1>2, <4>1, <4>2, <5>1
      <4> QED  BY <1>1, <1>2, <1>6, <4>1, <4>2, <4>3 DEF Bears, KeyOf
    <3> QED  BY <1>3, <1>6, <2>1, <3>1, <3>2
  <2>2. CASE ~(h.next < Len(h.items))
    <3>1. Local(last) /\ ~Bears(last)
      BY <1>2, <1>6 DEF Local, Bears
    <3> QED  BY <1>3, <1>6, <2>2, <3>1
  <2> QED  BY <2>1, <2>2
<1>9. /\ DOMAIN handler' = Workers /\ handler'[w] = x
      /\ \A v \in Workers : v # w => handler'[v] = handler[v]
  BY <1>8 DEF Goto, FeeInv
<1>10. item.fee => Bears(h) /\ key \in dayClaims /\ ~FeeLogged(key)
  <2>1. item.fee => Bears(h)
    BY <1>2, <1>7 DEF Bears
  <2> QED  BY <1>1, <2>1 DEF FeeInv
<1>11. /\ IsSeq(logs)' /\ DOMAIN logs' = 1 .. Len(logs) + 1 /\ DOMAIN logs = 1 .. Len(logs)
       /\ Len(logs) \in Nat /\ \A i \in DOMAIN logs : logs'[i] = logs[i]
       /\ logs'[Len(logs) + 1] = row
  <2>1. PICK S : logs \in Seq(S)
    BY DEF FeeInv, IsSeq
  <2>2. \A i \in 1 .. Len(logs) : logs[i] \in S \cup {row}
    BY <2>1
  <2>3. logs \in Seq(S \cup {row})
    BY <2>1, <2>2
  <2>4. logs' \in Seq(S \cup {row})
    BY <1>3, <2>3
  <2> QED  BY <1>3, <2>3, <2>4 DEF IsSeq
<1>12. \A i \in DOMAIN logs' : i \in DOMAIN logs \/ i = Len(logs) + 1
  BY <1>11
<1>13. \A k : FeeLogged(k)' <=> FeeLogged(k) \/ (k = key /\ item.fee)
  <2>1. Len(logs) + 1 \in DOMAIN logs' /\ DOMAIN logs \subseteq DOMAIN logs'
    BY <1>11
  <2> QED  BY <1>4, <1>11, <1>12, <2>1 DEF FeeLogged
<1>14. DayFeeOnce'
  <2> SUFFICES ASSUME NEW i \in DOMAIN logs', NEW j \in DOMAIN logs', logs'[i].fee, logs'[j].fee,
                      logs'[i].user = logs'[j].user, logs'[i].today = logs'[j].today
               PROVE  i = j
    BY DEF DayFeeOnce
  <2>1. DayFeeOnce
    BY DEF FeeInv
  <2>2. CASE i \in DOMAIN logs /\ j \in DOMAIN logs
    BY <1>11, <2>1, <2>2 DEF DayFeeOnce
  <2>3. CASE i \in DOMAIN logs /\ j = Len(logs) + 1
    <3>1. item.fee /\ FeeLogged(key)
      BY <1>4, <1>11, <2>3 DEF FeeLogged
    <3> QED  BY <1>10, <3>1
  <2>4. CASE i = Len(logs) + 1 /\ j \in DOMAIN logs
    <3>1. item.fee /\ FeeLogged(key)
      BY <1>4, <1>11, <2>4 DEF FeeLogged
    <3> QED  BY <1>10, <3>1
  <2> QED  BY <1>12, <2>2, <2>3, <2>4
<1>15. \A v \in Workers : /\ Local(handler[v])' <=> Local(handler'[v])
                          /\ Bears(handler[v])' <=> Bears(handler'[v])
                          /\ KeyOf(handler[v])' = KeyOf(handler'[v])
  BY DEF Local, Bears, KeyOf, IsSeq
<1>16. \A v \in Workers : Local(handler[v])'
  BY <1>8, <1>9, <1>15 DEF FeeInv
<1>17. \A v \in Workers : Bears(handler'[v]) =>
          /\ Bears(handler[v]) /\ KeyOf(handler'[v]) = KeyOf(handler[v])
          /\ v = w => ~item.fee
  BY <1>1, <1>8, <1>9
<1>18. \A v \in Workers : \A k :
          Bears(handler'[v]) /\ KeyOf(handler'[v]) = k => k \in dayClaims /\ ~FeeLogged(k)'
  <2> SUFFICES ASSUME NEW v \in Workers, NEW k, Bears(handler'[v]), KeyOf(handler'[v]) = k
               PROVE  k \in dayClaims /\ ~FeeLogged(k)'
    OBVIOUS
  <2>1. k \in dayClaims /\ ~FeeLogged(k)
    BY <1>17 DEF FeeInv
  <2>2. ~(k = key /\ item.fee)
    BY <1>1, <1>10, <1>17 DEF FeeInv
  <2> QED  BY <1>13, <2>1, <2>2
<1>19. \A u, v \in Workers :
          Bears(handler'[u]) /\ Bears(handler'[v]) /\ KeyOf(handler'[u]) = KeyOf(handler'[v]) => u = v
  BY <1>17 DEF FeeInv
<1>20. /\ \A i \in DOMAIN logs' : DOMAIN logs'[i] = LogFields
       /\ \A k : FeeLogged(k)' => k \in dayClaims
  BY <1>4, <1>10, <1>11, <1>12, <1>13 DEF FeeInv
<1> QED  BY <1>3, <1>9, <1>11, <1>14, <1>15, <1>16, <1>18, <1>19, <1>20 DEF FeeInv

LEMMA FeeOthers ==
    ASSUME FeeInv, UNCHANGED <<handler, dayClaims, logs>>
    PROVE  FeeInv'
  BY DEF FeeInv, Local, Bears, KeyOf, IsSeq, FeeLogged, DayFeeOnce

LEMMA FeeNextInv == FeeInv /\ [Next]_vars => FeeInv'
<1> SUFFICES ASSUME FeeInv, [Next]_vars PROVE FeeInv'
  OBVIOUS
<1>1. ASSUME NEW w \in Workers, Handle(w) \/ FinalizeUnrecorded(w) \/ Fail(w) PROVE FeeInv'
  BY <1>1, FeeComing, FeePaying, FeeAllocate, FeePricing, FeeClaimed, FeeLogging DEF Handle
<1>2. ASSUME NEW w \in Workers, NEW r \in Reports, Receive(w, r) PROVE FeeInv'
  BY <1>2, FeeComing
<1>3. ASSUME \/ \E u \in Users : NewUser(u) \/ ToggleKey(u)
             \/ \E u \in Users, a \in Amounts : MoveBalance(u, a)
             \/ Midnight
             \/ UNCHANGED vars
      PROVE  FeeInv'
  <2>1. UNCHANGED <<handler, dayClaims, logs>>
    BY <1>3 DEF NewUser, ToggleKey, MoveBalance, Midnight, vars, tables
  <2> QED  BY <2>1, FeeOthers
<1> QED  BY <1>1, <1>2, <1>3 DEF Next

LEMMA FeeInitInv == Init => FeeInv
<1> SUFFICES ASSUME Init PROVE FeeInv
  OBVIOUS
<1>1. /\ logs = << >> /\ dayClaims = {} /\ handler = [w \in Workers |-> Idle]
  BY DEF Init
<1>2. \A w \in Workers : Local(handler[w]) /\ ~Bears(handler[w])
  BY <1>1 DEF Local, Bears, Fields, Idle
<1>3. IsSeq(logs) /\ DOMAIN logs = {}
  <2>1. logs \in Seq({})
    BY <1>1
  <2> QED  BY <1>1, <2>1 DEF IsSeq
<1> QED  BY <1>1, <1>2, <1>3 DEF FeeInv, FeeLogged, DayFeeOnce

\* A user is charged the day's platform fee once: of the sessions that all found the day
\* unused, the one whose key the table took is charged, for the day it read, however long
\* it takes to log it and whatever it is charged with (_claim_day_fee).
THEOREM DayFeeChargedOnce == Spec => []DayFeeOnce
<1>1. FeeInv => DayFeeOnce
  BY DEF FeeInv
<1> QED  BY <1>1, FeeInitInv, FeeNextInv, PTL DEF Spec

---------------------------------------------------------------------------
(* The rows of a report add up *)

Item == [kind : {"own", "metered", "platform"}, cost : Nat, minutes : Nat, fee : BOOLEAN]

Handling ==
    [pc : Unclaimed \cup Undebited \cup {"allocate", "finalize"}, report : Reports \cup {None},
     items : Seq(Item), today : 0 .. MaxDay, extra : Nat, logged : Seq(Nat), requested : Nat,
     available : Nat, charged : Nat, unpaid : Nat, status : SettlementStatuses,
     remaining : Nat, next : Nat \ {0}]

LogRow == [report : Reports, user : Users, kind : {"own", "metered", "platform"}, minutes : Nat,
           fee : BOOLEAN, today : 0 .. MaxDay, day : 1 .. MaxDay, requested : Nat, charged : Nat,
           status : ItemStatuses]

HandlingOK(h) ==
    /\ h \in Handling
    /\ h.pc # "idle" => h.report \in Reports
    /\ h.pc = "fee" => h.today \in 1 .. MaxDay

LogsOK == logs \in Seq(LogRow) /\ \A i \in DOMAIN logs : logs[i].charged <= logs[i].requested

UsageTypes ==
    /\ TypeOK
    /\ reports \in [Reports -> [status : ReportStatuses, result : Results]]
    /\ dayClaims \subseteq Users \X (1 .. MaxDay)
    /\ LogsOK
    /\ day \in 1 .. MaxDay
    /\ handler \in [Workers -> Handling] /\ \A w \in Workers : HandlingOK(handler[w])
    /\ answers \subseteq [report : Reports, result : Results]

\* The rows a handler has logged and not yet given their share, and what they ask for.
Undone(h) == {h.logged[k] : k \in h.next .. Len(h.logged)}
Rest(h) == SumFunctionOnSet([i \in DOMAIN logs |-> logs[i].requested], Undone(h))

\* The handler knows the rows of its report: its own, one by one.
Knows(h) ==
    /\ {h.logged[k] : k \in DOMAIN h.logged} = LogsOf(h.report)
    /\ \A j, k \in DOMAIN h.logged : h.logged[j] = h.logged[k] => j = k
    /\ h.requested = Requested(h.report)

Fresh(h) ==
    /\ h.logged = << >> /\ h.next = 1
    /\ h.requested = 0 /\ h.charged = 0 /\ h.unpaid = 0 /\ h.remaining = 0

\* How far a handler has come with the rows, the debit and the shares.
Stage(h) ==
    LET r == h.report IN
    /\ h.pc \in {"find", "claim", "keys", "today", "fee"} => Fresh(h)
    /\ h.pc \notin Unclaimed => Knows(h)
    /\ h.pc \in Undebited => /\ h.remaining = 0 /\ Allocated(r) = 0
                             /\ \A i \in LogsOf(r) : logs[i].charged = 0
    /\ h.pc \in Undebited \ {"deduct"} => h.charged = 0 /\ h.unpaid = 0
    /\ h.pc = "log" => h.next \in DOMAIN h.items /\ Len(h.logged) = h.next - 1
    /\ h.pc \in {"balance", "ensure", "deduct"} => h.next = 1 /\ h.logged # << >>
    /\ h.pc \in {"deduct", "allocate", "finalize"} => h.charged + h.unpaid = h.requested
    /\ h.pc = "allocate" =>
          /\ h.next \in DOMAIN h.logged
          /\ Debited(r) = h.charged /\ Allocated(r) + h.remaining = h.charged
          /\ h.remaining <= Rest(h)
          /\ \A i \in LogsOf(r) : IF i \in Undone(h) THEN logs[i].charged = 0
                                                     ELSE logs[i].status # "pending"
    /\ h.pc = "finalize" =>
          /\ Debited(r) = h.charged /\ Allocated(r) = h.charged
          /\ \A i \in LogsOf(r) : logs[i].status # "pending"

Settled(r) == reports[r].status \in {"settled", "partially_settled"}

\* What RowsAddUp says of one report, and that an unclaimed one has no rows.
AddsUp(r) ==
    /\ reports[r].status = "none" => LogsOf(r) = {}
    /\ Allocated(r) <= Debited(r) /\ Debited(r) <= Requested(r)
    /\ Settled(r) =>
          /\ Allocated(r) = Debited(r)
          /\ reports[r].result.charged = Debited(r)
          /\ reports[r].result.unpaid = Requested(r) - Debited(r)
          /\ \A i \in LogsOf(r) : logs[i].status # "pending"

RowsInv ==
    /\ UsageTypes
    /\ \A w \in Workers : Stage(handler[w])
    /\ \A r \in Reports : AddsUp(r)

---------------------------------------------------------------------------
(* What the sums of the rows are, and what a step does to them *)

LEMMA RowsAre ==
    ASSUME TypeOK, LogsOK
    PROVE  /\ Len(logs) \in Nat /\ DOMAIN logs = 1 .. Len(logs)
           /\ \A i \in DOMAIN logs : /\ logs[i] \in LogRow
                                     /\ logs[i].requested \in Nat /\ logs[i].charged \in Nat
                                     /\ logs[i].charged <= logs[i].requested
           /\ \A S \in SUBSET DOMAIN logs : IsFiniteSet(S)
           /\ Len(ledger) \in Nat /\ DOMAIN ledger = 1 .. Len(ledger)
           /\ \A i \in DOMAIN ledger : ledger[i].amount \in Int
           /\ \A S \in SUBSET DOMAIN ledger : IsFiniteSet(S)
<1>1. Len(logs) \in Nat /\ DOMAIN logs = 1 .. Len(logs) /\ \A i \in DOMAIN logs : logs[i] \in LogRow
  BY DEF LogsOK
<1>2. \A i \in DOMAIN logs : /\ logs[i].requested \in Nat /\ logs[i].charged \in Nat
                             /\ logs[i].charged <= logs[i].requested
  BY <1>1 DEF LogsOK, LogRow
<1>3. Len(ledger) \in Nat /\ DOMAIN ledger = 1 .. Len(ledger)
      /\ \A i \in DOMAIN ledger : ledger[i] \in LedgerRow
  BY DEF TypeOK
<1>4. \A i \in DOMAIN ledger : ledger[i].amount \in Int
  BY <1>3 DEF LedgerRow
<1>5. IsFiniteSet(1 .. Len(logs)) /\ IsFiniteSet(1 .. Len(ledger))
  BY <1>1, <1>3, FS_Interval
<1>6. /\ \A S \in SUBSET DOMAIN logs : IsFiniteSet(S)
      /\ \A S \in SUBSET DOMAIN ledger : IsFiniteSet(S)
  BY <1>1, <1>3, <1>5, FS_Subset
<1> QED  BY <1>1, <1>2, <1>3, <1>4, <1>6

\* The columns that are summed.
Costs == [i \in DOMAIN logs |-> logs[i].requested]
Charges == [i \in DOMAIN logs |-> logs[i].charged]
Debits == [i \in DOMAIN ledger |-> 0 - ledger[i].amount]

LEMMA SumsTyped ==
    ASSUME TypeOK, LogsOK, NEW r
    PROVE  /\ Requested(r) \in Nat /\ Allocated(r) \in Nat /\ Debited(r) \in Int
           /\ \A S \in SUBSET DOMAIN logs : SumFunctionOnSet(Costs, S) \in Nat
<1>1. LogsOf(r) \in SUBSET DOMAIN logs /\ DebitsOf(r) \in SUBSET DOMAIN ledger
  BY DEF LogsOf, DebitsOf
<1>2. \A S \in SUBSET DOMAIN logs : SumFunctionOnSet(Costs, S) \in Nat
  <2> TAKE S \in SUBSET DOMAIN logs
  <2>1. IsFiniteSet(S) /\ \A x \in S : Costs[x] \in Nat
    BY RowsAre DEF Costs
  <2> QED  BY <2>1, SumIsNatural
<1>3. SumFunctionOnSet(Charges, LogsOf(r)) \in Nat
  <2>1. IsFiniteSet(LogsOf(r)) /\ \A x \in LogsOf(r) : Charges[x] \in Nat
    BY <1>1, RowsAre DEF Charges
  <2> QED  BY <2>1, SumIsNatural
<1>4. SumFunctionOnSet(Debits, DebitsOf(r)) \in Int
  <2>1. IsFiniteSet(DebitsOf(r)) /\ \A x \in DebitsOf(r) : Debits[x] \in Int
    BY <1>1, RowsAre DEF Debits
  <2> QED  BY <2>1, SumIsInteger
<1>5. Requested(r) = SumFunctionOnSet(Costs, LogsOf(r))
      /\ Allocated(r) = SumFunctionOnSet(Charges, LogsOf(r))
      /\ Debited(r) = SumFunctionOnSet(Debits, DebitsOf(r))
  BY DEF Requested, Allocated, Debited, Costs, Charges, Debits
<1> QED  BY <1>1, <1>2, <1>3, <1>4, <1>5

LEMMA NoRowsNoSums ==
    ASSUME NEW r
    PROVE  /\ LogsOf(r) = {} => Requested(r) = 0 /\ Allocated(r) = 0
           /\ Unpaid(r) => Debited(r) = 0
<1>1. Unpaid(r) => DebitsOf(r) = {}
  BY DEF Unpaid, DebitsOf
<1> QED  BY <1>1, SumOfNone DEF Requested, Allocated, Debited

\* Nothing that is summed for r is moved.
Same(r) ==
    /\ LogsOf(r)' = LogsOf(r) /\ \A i \in LogsOf(r) : logs'[i] = logs[i]
    /\ Debited(r)' = Debited(r)

LEMMA DebitElsewhere ==
    ASSUME TypeOK, NEW r, \/ ledger' = ledger
                          \/ \E x \in LedgerRow : x.ref # r /\ ledger' = Append(ledger, x)
    PROVE  Debited(r)' = Debited(r)
<1>1. CASE ledger' = ledger
  BY <1>1 DEF Debited, DebitsOf
<1>2. CASE \E x \in LedgerRow : x.ref # r /\ ledger' = Append(ledger, x)
  <2>1. PICK x \in LedgerRow : x.ref # r /\ ledger' = Append(ledger, x)
    BY <1>2
  <2>2. /\ Len(ledger) \in Nat /\ DOMAIN ledger = 1 .. Len(ledger)
        /\ DOMAIN ledger' = 1 .. Len(ledger) + 1
        /\ \A i \in DOMAIN ledger : ledger'[i] = ledger[i]
        /\ ledger'[Len(ledger) + 1] = x
    BY <2>1, AppendedRows
  <2>3. DebitsOf(r)' = DebitsOf(r)
    <3>1. DOMAIN ledger' = DOMAIN ledger \cup {Len(ledger) + 1}
      BY <2>2
    <3> QED  BY <2>1, <2>2, <3>1 DEF DebitsOf
  <2>4. IsFiniteSet(DebitsOf(r)) /\ DebitsOf(r) \subseteq DOMAIN ledger
        /\ DOMAIN ledger \subseteq DOMAIN ledger'
    <3>1. IsFiniteSet(DOMAIN ledger)
      BY <2>2, FS_Interval
    <3> QED  BY <2>2, <3>1, FS_Subset DEF DebitsOf
  <2> DEFINE f == [i \in DOMAIN ledger |-> 0 - ledger[i].amount]
             g == [i \in DOMAIN ledger' |-> 0 - ledger'[i].amount]
  <2>5. \A i \in DebitsOf(r) : g[i] = f[i]
    BY <2>2, <2>4
  <2> HIDE DEF f, g
  <2>6. SumFunctionOnSet(g, DebitsOf(r)) = SumFunctionOnSet(f, DebitsOf(r))
    BY <2>4, <2>5, SumsAgree
  <2>7. Debited(r) = SumFunctionOnSet(f, DebitsOf(r)) /\ Debited(r)' = SumFunctionOnSet(g, DebitsOf(r)')
    BY DEF Debited, f, g
  <2> QED  BY <2>3, <2>6, <2>7
<1> QED  BY <1>1, <1>2

LEMMA DebitOfReport ==
    ASSUME TypeOK, NEW x \in LedgerRow, ledger' = Append(ledger, x), Unpaid(x.ref)
    PROVE  Debited(x.ref)' = 0 - x.amount
<1> DEFINE n == Len(ledger) + 1
           g == [i \in DOMAIN ledger' |-> 0 - ledger'[i].amount]
<1>1. /\ Len(ledger) \in Nat /\ DOMAIN ledger = 1 .. Len(ledger)
      /\ DOMAIN ledger' = 1 .. Len(ledger) + 1
      /\ \A i \in DOMAIN ledger : ledger'[i] = ledger[i]
      /\ ledger'[Len(ledger) + 1] = x
  BY AppendedRows
<1>2. DOMAIN ledger' = DOMAIN ledger \cup {n} /\ n \in Nat
  BY <1>1
<1>3. DebitsOf(x.ref)' = {n}
  BY <1>1, <1>2 DEF DebitsOf, Unpaid
<1>4. g[n] = 0 - x.amount /\ g[n] \in Int
  BY <1>1, <1>2 DEF LedgerRow
<1>5. SumFunctionOnSet(g, {n}) = g[n] + SumFunctionOnSet(g, {n} \ {n})
  <2>1. IsFiniteSet({n})
    BY FS_Singleton
  <2> HIDE DEF n, g
  <2> QED  BY <1>4, <2>1, SumTakesAny
<1>6. {n} \ {n} = {}
  OBVIOUS
<1>7. SumFunctionOnSet(g, {n}) = g[n]
  <2>1. g[n] \in Int
    BY <1>4
  <2> HIDE DEF g, n
  <2>2. SumFunctionOnSet(g, {n} \ {n}) = 0
    BY <1>6, SumOfNone
  <2> QED  BY <1>5, <2>1, <2>2
<1>8. Debited(x.ref)' = SumFunctionOnSet(g, DebitsOf(x.ref)')
  BY DEF Debited
<1> QED  BY <1>3, <1>4, <1>7, <1>8

---------------------------------------------------------------------------
(* A row is logged, or given its share *)

\* Sums of a column over rows that are not touched.
LEMMA ColumnsStay ==
    ASSUME TypeOK, LogsOK, LogsOK', NEW S \in SUBSET DOMAIN logs, DOMAIN logs \subseteq DOMAIN logs',
           \A i \in S : logs'[i].requested = logs[i].requested
    PROVE  /\ SumFunctionOnSet(Costs', S) = SumFunctionOnSet(Costs, S)
           /\ (\A i \in S : logs'[i].charged = logs[i].charged) =>
                 SumFunctionOnSet(Charges', S) = SumFunctionOnSet(Charges, S)
<1>1. IsFiniteSet(S)
  BY RowsAre
<1>2. \A i \in S : Costs'[i] = Costs[i]
  BY DEF Costs
<1>3. (\A i \in S : logs'[i].charged = logs[i].charged) => \A i \in S : Charges'[i] = Charges[i]
  BY DEF Charges
<1> QED  BY <1>1, <1>2, <1>3, SumsAgree

LEMMA SameRows ==
    ASSUME TypeOK, LogsOK, LogsOK', DOMAIN logs \subseteq DOMAIN logs', NEW r, Same(r)
    PROVE  /\ Requested(r)' = Requested(r) /\ Allocated(r)' = Allocated(r)
           /\ \A S \in SUBSET LogsOf(r) : SumFunctionOnSet(Costs', S) = SumFunctionOnSet(Costs, S)
<1>1. LogsOf(r) \in SUBSET DOMAIN logs
  BY DEF LogsOf
<1>2. \A S \in SUBSET LogsOf(r) : /\ SumFunctionOnSet(Costs', S) = SumFunctionOnSet(Costs, S)
                                  /\ SumFunctionOnSet(Charges', S) = SumFunctionOnSet(Charges, S)
  BY <1>1, ColumnsStay DEF Same
<1>3. /\ Requested(r) = SumFunctionOnSet(Costs, LogsOf(r))
      /\ Allocated(r) = SumFunctionOnSet(Charges, LogsOf(r))
      /\ Requested(r)' = SumFunctionOnSet(Costs', LogsOf(r)')
      /\ Allocated(r)' = SumFunctionOnSet(Charges', LogsOf(r)')
  BY DEF Requested, Allocated, Costs, Charges
<1> QED  BY <1>2, <1>3 DEF Same

LEMMA SameAddsUp ==
    ASSUME TypeOK, LogsOK, LogsOK', DOMAIN logs \subseteq DOMAIN logs', NEW r, Same(r),
           reports'[r] = reports[r], AddsUp(r)
    PROVE  AddsUp(r)'
<1>1. Requested(r)' = Requested(r) /\ Allocated(r)' = Allocated(r)
  BY SameRows
<1>2. Settled(r)' <=> Settled(r)
  BY DEF Settled
<1>3. /\ LogsOf(r)' = LogsOf(r) /\ Debited(r)' = Debited(r)
      /\ \A i \in LogsOf(r) : logs'[i] = logs[i]
  BY DEF Same
<1> QED  BY <1>1, <1>2, <1>3 DEF AddsUp

LEMMA SameStage ==
    ASSUME TypeOK, LogsOK, LogsOK', DOMAIN logs \subseteq DOMAIN logs', NEW h \in Handling, Stage(h),
           h.pc \notin Unclaimed => Same(h.report)
    PROVE  Stage(h)'
<1> DEFINE r == h.report
<1>1. CASE h.pc \in Unclaimed
  BY <1>1 DEF Stage, Unclaimed, Undebited, Fresh
<1>2. CASE h.pc \notin Unclaimed
  <2>1. Requested(r)' = Requested(r) /\ Allocated(r)' = Allocated(r)
    BY <1>2, SameRows
  <2>2. /\ LogsOf(r)' = LogsOf(r) /\ Debited(r)' = Debited(r)
        /\ \A i \in LogsOf(r) : logs'[i] = logs[i]
    BY <1>2 DEF Same
  <2>3. Knows(h)
    BY <1>2 DEF Stage
  <2>4. Knows(h)'
    BY <2>1, <2>2, <2>3 DEF Knows
  <2>5. h.pc = "allocate" => Rest(h)' = Rest(h) /\ Undone(h)' = Undone(h)
    <3> HAVE h.pc = "allocate"
    <3>1. h.next \in Nat \ {0} /\ DOMAIN h.logged = 1 .. Len(h.logged) /\ Len(h.logged) \in Nat
      BY DEF Handling
    <3>2. Undone(h) \in SUBSET LogsOf(r)
      BY <2>3, <3>1 DEF Undone, Knows
    <3>3. SumFunctionOnSet(Costs', Undone(h)) = SumFunctionOnSet(Costs, Undone(h))
      BY <1>2, <3>2, SameRows
    <3> QED  BY <3>3 DEF Rest, Costs, Undone
  <2> HIDE DEF r
  <2>6. r = h.report
    BY DEF r
  <2> QED  BY <2>1, <2>2, <2>4, <2>5, <2>6 DEF Stage, Fresh
<1> QED  BY <1>1, <1>2

\* One handler moves and one report with it: the rest is as before.
LEMMA RowsMove ==
    ASSUME ChargeInv, RowsInv, UsageTypes', DOMAIN logs \subseteq DOMAIN logs',
           NEW w \in Workers, NEW h, Goto(w, h), NEW r,
           \A q \in Reports : q # r => Same(q) /\ reports'[q] = reports[q],
           Same(r) \/ \A v \in Workers : v # w /\ Past(v) => handler[v].report # r,
           Stage(h)', r \in Reports => AddsUp(r)'
    PROVE  RowsInv'
<1>1. TypeOK /\ LogsOK /\ LogsOK' /\ \A v \in Workers : handler[v] \in Handling /\ HandlingOK(handler[v])
  BY DEF RowsInv, UsageTypes
<1>2. /\ handler'[w] = h /\ \A v \in Workers : v # w => handler'[v] = handler[v]
  BY DEF Goto, ChargeInv, Shapes
<1>3. \A q \in Reports : q # r => AddsUp(q)'
  <2> TAKE q \in Reports
  <2> HAVE q # r
  <2>1. Same(q) /\ reports'[q] = reports[q] /\ AddsUp(q)
    BY DEF RowsInv
  <2> QED  BY <1>1, <2>1, SameAddsUp
<1>4. ASSUME NEW v \in Workers, v # w PROVE Stage(handler[v])'
  <2>1. PICK g \in Handling : g = handler[v] /\ handler'[v] = g
    BY <1>1, <1>2, <1>4
  <2>2. Stage(g)
    BY <2>1 DEF RowsInv
  <2>3. g.pc \notin Unclaimed => Same(g.report)
    <3> HAVE g.pc \notin Unclaimed
    <3>1. Past(v) /\ g.report \in Reports
      BY <1>1, <2>1 DEF Past, HandlingOK, Unclaimed
    <3> QED  BY <1>4, <2>1, <3>1
  <2>4. Stage(g)'
    BY <1>1, <2>2, <2>3, SameStage
  <2>5. g = handler'[v]
    BY <2>1
  <2> HIDE DEF Stage
  <2> QED  BY <2>4, <2>5 DEF Stage, Knows, Undone, Rest, Fresh
<1>5. Stage(handler[w])'
  BY <1>2 DEF Stage, Knows, Undone, Rest, Fresh
<1> QED  BY <1>3, <1>4, <1>5 DEF RowsInv

\* A new row adds its cost to its report, and nothing else.
LEMMA RowLogged ==
    ASSUME TypeOK, LogsOK, ledger' = ledger, NEW row \in LogRow, logs' = Append(logs, row),
           row.charged = 0
    PROVE  LET r == row.report
               n == Len(logs) + 1
           IN /\ LogsOK' /\ DOMAIN logs \subseteq DOMAIN logs'
              /\ \A q : q # r => Same(q)
              /\ LogsOf(r)' = LogsOf(r) \cup {n} /\ n \notin LogsOf(r) /\ logs'[n] = row
              /\ \A i \in LogsOf(r) : logs'[i] = logs[i]
              /\ Requested(r)' = Requested(r) + row.requested
              /\ Allocated(r)' = Allocated(r) /\ Debited(r)' = Debited(r)
<1> DEFINE n == Len(logs) + 1
<1>1. /\ Len(logs) \in Nat /\ DOMAIN logs = 1 .. Len(logs)
      /\ \A i \in DOMAIN logs : logs[i] \in LogRow /\ logs[i].charged <= logs[i].requested
  BY RowsAre
<1>2. /\ DOMAIN logs' = DOMAIN logs \cup {n} /\ n \notin DOMAIN logs /\ logs'[n] = row
      /\ \A i \in DOMAIN logs : logs'[i] = logs[i]
      /\ logs' \in Seq(LogRow)
  BY <1>1 DEF LogsOK
<1>3. row.requested \in Nat
  BY DEF LogRow
<1>4. LogsOK'
  BY <1>1, <1>2, <1>3 DEF LogsOK
<1>5. \A q : Debited(q)' = Debited(q)
  BY DEF Debited, DebitsOf
<1> HIDE DEF n
<1>6. \A q : LogsOf(q)' = IF q = row.report THEN LogsOf(q) \cup {n} ELSE LogsOf(q)
  BY <1>2 DEF LogsOf
<1>7. \A q : \A i \in LogsOf(q) : logs'[i] = logs[i]
  BY <1>2 DEF LogsOf
<1>8. PICK r : r = row.report
  OBVIOUS
<1>9. LogsOf(r) \in SUBSET DOMAIN logs /\ n \notin LogsOf(r) /\ IsFiniteSet(LogsOf(r))
  BY <1>2, RowsAre DEF LogsOf
<1>10. /\ SumFunctionOnSet(Costs', LogsOf(r)) = SumFunctionOnSet(Costs, LogsOf(r))
       /\ SumFunctionOnSet(Charges', LogsOf(r)) = SumFunctionOnSet(Charges, LogsOf(r))
  BY <1>2, <1>4, <1>7, <1>9, ColumnsStay
<1>11. \A x \in LogsOf(r) \cup {n} : Costs'[x] \in Int /\ Charges'[x] \in Int
  <2> TAKE x \in LogsOf(r) \cup {n}
  <2>2. x \in DOMAIN logs' /\ logs'[x] \in LogRow
    BY <1>1, <1>2, <1>9
  <2>1. x \in DOMAIN logs' /\ logs'[x].requested \in Nat /\ logs'[x].charged \in Nat
    BY <2>2 DEF LogRow
  <2> QED  BY <2>1 DEF Costs, Charges
<1>12. Costs'[n] = row.requested /\ Charges'[n] = 0
  BY <1>2 DEF Costs, Charges
<1>13. /\ SumFunctionOnSet(Costs', LogsOf(r) \cup {n}) = SumFunctionOnSet(Costs', LogsOf(r)) + Costs'[n]
       /\ SumFunctionOnSet(Charges', LogsOf(r) \cup {n}) = SumFunctionOnSet(Charges', LogsOf(r)) + Charges'[n]
  BY <1>9, <1>11, SumAddsOne
<1>14. /\ Requested(r) = SumFunctionOnSet(Costs, LogsOf(r))
       /\ Allocated(r) = SumFunctionOnSet(Charges, LogsOf(r))
       /\ Requested(r)' = SumFunctionOnSet(Costs', LogsOf(r)')
       /\ Allocated(r)' = SumFunctionOnSet(Charges', LogsOf(r)')
  BY DEF Requested, Allocated, Costs, Charges
<1>15. LogsOf(r)' = LogsOf(r) \cup {n}
  BY <1>6, <1>8
<1>16. Requested(r)' = Requested(r) + row.requested /\ Allocated(r)' = Allocated(r)
  BY <1>10, <1>12, <1>13, <1>14, <1>15, SumsTyped
<1>17. \A q : q # r => Same(q)
  BY <1>5, <1>6, <1>7, <1>8 DEF Same
<1> QED  BY <1>2, <1>4, <1>5, <1>7, <1>8, <1>9, <1>15, <1>16, <1>17 DEF n

LEMMA FunctionsAreSeqs ==
    ASSUME NEW S, NEW m \in Nat, NEW f \in [1 .. m -> S]
    PROVE  f \in Seq(S)
  BY SeqDef

\* Row id of report r, which has no share yet, gets a share c of what it asks.
Shared(id, c, s, r) ==
    /\ id \in DOMAIN logs /\ logs[id].report = r /\ logs[id].charged = 0
    /\ c \in Nat /\ c <= logs[id].requested /\ s \in ItemStatuses
    /\ logs' = [logs EXCEPT ![id].charged = c, ![id].status = s]

\* A share moves what is allocated of its report by as much.
LEMMA RowShared ==
    ASSUME TypeOK, LogsOK, ledger' = ledger, NEW id, NEW c, NEW s, NEW r, Shared(id, c, s, r)
    PROVE  /\ LogsOK' /\ DOMAIN logs' = DOMAIN logs
           /\ \A q : q # r => Same(q)
           /\ LogsOf(r)' = LogsOf(r)
           /\ \A i \in DOMAIN logs : /\ i # id => logs'[i] = logs[i]
                                     /\ logs'[i].requested = logs[i].requested
           /\ logs'[id].charged = c /\ logs'[id].status = s
           /\ Requested(r)' = Requested(r) /\ Allocated(r)' = Allocated(r) + c
           /\ Debited(r)' = Debited(r)
<1>0. /\ id \in DOMAIN logs /\ logs[id].report = r /\ logs[id].charged = 0
      /\ c \in Nat /\ c <= logs[id].requested /\ s \in ItemStatuses
      /\ logs' = [logs EXCEPT ![id].charged = c, ![id].status = s]
  BY DEF Shared
<1>1. /\ Len(logs) \in Nat /\ DOMAIN logs = 1 .. Len(logs)
      /\ \A i \in DOMAIN logs : logs[i] \in LogRow /\ logs[i].charged <= logs[i].requested
  BY RowsAre
<1>2. /\ DOMAIN logs' = DOMAIN logs
      /\ \A i \in DOMAIN logs : i # id => logs'[i] = logs[i]
      /\ logs'[id] = [logs[id] EXCEPT !.charged = c, !.status = s]
  BY <1>0 DEF LogsOK
<1>3. /\ logs'[id] \in LogRow /\ logs'[id].charged = c /\ logs'[id].status = s
      /\ logs'[id].requested = logs[id].requested /\ logs'[id].report = logs[id].report
  <2>1. logs[id] \in LogRow /\ c \in Nat /\ s \in ItemStatuses
    BY <1>0, <1>1
  <2> QED  BY <1>2, <2>1 DEF LogRow
<1>4. LogsOK'
  <2>1. \A i \in 1 .. Len(logs) : logs'[i] \in LogRow
    BY <1>1, <1>2, <1>3
  <2>2. logs' = [i \in 1 .. Len(logs) |-> logs'[i]]
    BY <1>0, <1>1
  <2>3. logs' \in [1 .. Len(logs) -> LogRow]
    BY <2>1, <2>2
  <2>5. logs' \in Seq(LogRow)
    BY <1>1, <2>3, FunctionsAreSeqs
  <2>6. \A i \in DOMAIN logs' : logs'[i].charged <= logs'[i].requested
    <3> TAKE i \in DOMAIN logs'
    <3>1. CASE i = id
      BY <1>0, <1>3, <3>1
    <3>2. CASE i # id
      <4>1. i \in DOMAIN logs /\ logs'[i] = logs[i]
        BY <1>2, <3>2
      <4> QED  BY <1>1, <4>1
    <3> QED  BY <3>1, <3>2
  <2> QED  BY <2>5, <2>6 DEF LogsOK
<1>5. \A q : Debited(q)' = Debited(q)
  BY DEF Debited, DebitsOf
<1>6. \A q : LogsOf(q)' = LogsOf(q)
  BY <1>2, <1>3 DEF LogsOf
<1>8. \A q : q # r => Same(q)
  BY <1>0, <1>2, <1>5, <1>6 DEF Same, LogsOf
<1>9. id \in LogsOf(r) /\ LogsOf(r) \in SUBSET DOMAIN logs /\ IsFiniteSet(LogsOf(r))
      /\ LogsOf(r) \ {id} \in SUBSET DOMAIN logs
  BY <1>0, RowsAre DEF LogsOf
<1>10. SumFunctionOnSet(Costs', LogsOf(r)) = SumFunctionOnSet(Costs, LogsOf(r))
  BY <1>2, <1>3, <1>4, <1>9, ColumnsStay
<1>11. SumFunctionOnSet(Charges', LogsOf(r) \ {id}) = SumFunctionOnSet(Charges, LogsOf(r) \ {id})
  BY <1>2, <1>4, <1>9, ColumnsStay
<1>12. \A x \in LogsOf(r) : Charges'[x] \in Int /\ Charges[x] \in Int
  <2> TAKE x \in LogsOf(r)
  <2>1. x \in DOMAIN logs' /\ logs'[x].charged \in Nat /\ x \in DOMAIN logs /\ logs[x].charged \in Nat
    BY <1>1, <1>2, <1>9, <1>3 DEF LogRow
  <2> QED  BY <2>1 DEF Charges
<1>13. Charges'[id] = c /\ Charges[id] = 0
  BY <1>0, <1>2, <1>3 DEF Charges
<1>14. /\ SumFunctionOnSet(Charges', LogsOf(r)) = Charges'[id] + SumFunctionOnSet(Charges', LogsOf(r) \ {id})
       /\ SumFunctionOnSet(Charges, LogsOf(r)) = Charges[id] + SumFunctionOnSet(Charges, LogsOf(r) \ {id})
  BY <1>9, <1>12, SumTakesAny
<1>15. /\ Requested(r) = SumFunctionOnSet(Costs, LogsOf(r))
       /\ Allocated(r) = SumFunctionOnSet(Charges, LogsOf(r))
       /\ Requested(r)' = SumFunctionOnSet(Costs', LogsOf(r)')
       /\ Allocated(r)' = SumFunctionOnSet(Charges', LogsOf(r)')
  BY DEF Requested, Allocated, Costs, Charges
<1>16. SumFunctionOnSet(Charges, LogsOf(r) \ {id}) \in Int
  <2>1. IsFiniteSet(LogsOf(r) \ {id})
    BY <1>9, RowsAre
  <2> QED  BY <1>12, <2>1, SumIsInteger
<1>17. Requested(r)' = Requested(r) /\ Allocated(r)' = Allocated(r) + c
  BY <1>0, <1>6, <1>10, <1>11, <1>13, <1>14, <1>15, <1>16
<1> QED  BY <1>2, <1>3, <1>4, <1>5, <1>6, <1>8, <1>17

---------------------------------------------------------------------------
(* Types *)

LEMMA TypesMove ==
    ASSUME UsageTypes, TypeOK', LogsOK', day' = day, NEW w \in Workers, NEW h, Goto(w, h), HandlingOK(h),
           reports' = reports \/ \E x \in [status : ReportStatuses, result : Results] :
                                    \E r \in Reports : reports' = [reports EXCEPT ![r] = x],
           dayClaims' = dayClaims \/ \E k \in Users \X (1 .. MaxDay) : dayClaims' = dayClaims \cup {k},
           answers' = answers \/ \E a \in [report : Reports, result : Results] :
                                    answers' = answers \cup {a}
    PROVE  UsageTypes'
<1>1. handler' \in [Workers -> Handling] /\ \A v \in Workers : HandlingOK(handler'[v])
  BY DEF UsageTypes, Goto, HandlingOK
<1>2. reports' \in [Reports -> [status : ReportStatuses, result : Results]]
  BY DEF UsageTypes
<1>3. dayClaims' \subseteq Users \X (1 .. MaxDay) /\ answers' \subseteq [report : Reports, result : Results]
  BY DEF UsageTypes
<1>4. \A v \in Workers : HandlingOK(handler[v])'
  BY <1>1 DEF HandlingOK
<1> QED  BY <1>1, <1>2, <1>3, <1>4 DEF UsageTypes

LEMMA IdleIsFine == HandlingOK(Idle) /\ Stage(Idle)
<1>1. << >> \in Seq(Item) /\ << >> \in Seq(Nat) /\ 0 \in 0 .. MaxDay
  BY SettlementAssumption DEF SettlementAssumption
<1>2. HandlingOK(Idle)
  BY <1>1 DEF HandlingOK, Handling, Idle, Unclaimed, SettlementStatuses
<1> QED  BY <1>2 DEF Stage, Idle, Unclaimed, Undebited

---------------------------------------------------------------------------
(* The steps *)

\* What is known of a handler past its claim.
LEMMA Alone ==
    ASSUME ChargeInv, RowsInv, NEW w \in Workers
    PROVE  LET h == handler[w]
               r == h.report
           IN /\ HandlingOK(h) /\ Stage(h) /\ h \in Handling
              /\ h.pc # "idle" => r \in Reports /\ AddsUp(r)
              /\ Past(w) => /\ \A v \in Workers : v # w /\ Past(v) => handler[v].report # r
                            /\ reports[r].status = "pending"
              /\ Early(w) => Unpaid(r) /\ Debited(r) = 0
<1> DEFINE h == handler[w]
<1>1. HandlingOK(h) /\ Stage(h) /\ h \in Handling
  BY DEF RowsInv, UsageTypes
<1>2. h.pc # "idle" => h.report \in Reports /\ AddsUp(h.report)
  BY <1>1 DEF HandlingOK, RowsInv
<1>3. Past(w) => /\ \A v \in Workers : v # w /\ Past(v) => handler[v].report # h.report
                 /\ reports[h.report].status = "pending"
  BY DEF ChargeInv, ClaimIsHeld
<1>4. Early(w) => Unpaid(h.report)
  BY DEF ChargeInv, ClaimIsHeld
<1> QED  BY <1>1, <1>2, <1>3, <1>4, NoRowsNoSums

\* The handler goes on, and no row is touched.
LEMMA RowsGo ==
    ASSUME ChargeInv, RowsInv, TypeOK', NEW w \in Workers, NEW h, Goto(w, h), HandlingOK(h), Stage(h),
           UNCHANGED <<logs, reports, day>>, \A q \in Reports : Debited(q)' = Debited(q),
           dayClaims' = dayClaims \/ \E k \in Users \X (1 .. MaxDay) : dayClaims' = dayClaims \cup {k},
           answers' = answers \/ \E a \in [report : Reports, result : Results] :
                                    answers' = answers \cup {a}
    PROVE  RowsInv'
<1>1. TypeOK /\ LogsOK /\ UsageTypes
  BY DEF RowsInv, UsageTypes
<1>2. LogsOK'
  BY <1>1 DEF LogsOK
<1>3. UsageTypes'
  BY <1>1, <1>2, TypesMove
<1>4. \A q \in Reports : Same(q)
  BY DEF Same, LogsOf
<1>5. Stage(h)'
  <2>1. h \in Handling /\ (h.pc \notin Unclaimed => h.report \in Reports)
    BY DEF HandlingOK, Unclaimed
  <2> QED  BY <1>1, <1>2, <1>4, <2>1, SameStage
<1>6. \A q \in Reports : AddsUp(q)'
  BY <1>1, <1>2, <1>4, SameAddsUp DEF RowsInv
<1>7. \/ Same(h.report)
      \/ \A v \in Workers : v # w /\ Past(v) => handler[v].report # h.report
  <2>1. \A v \in Workers : Past(v) => handler[v].report \in Reports
    BY DEF ChargeInv, Shapes, Past, Unclaimed
  <2> QED  BY <1>4, <2>1
<1> QED  BY <1>3, <1>4, <1>5, <1>6, <1>7, RowsMove

LEMMA RowsLost ==
    ASSUME ChargeInv, RowsInv, TypeOK', NEW w \in Workers, Goto(w, Idle),
           UNCHANGED <<logs, reports, day, dayClaims>>, ledger' = ledger,
           answers' = answers \/ \E a \in [report : Reports, result : Results] :
                                    answers' = answers \cup {a}
    PROVE  RowsInv'
<1>1. \A q \in Reports : Debited(q)' = Debited(q)
  BY DEF Debited, DebitsOf
<1> QED  BY <1>1, IdleIsFine, RowsGo

\* A request that arrives, is answered by the row it finds, or is lost.
LEMMA RowsComing ==
    ASSUME ChargeInv, RowsInv, TypeOK', NEW w \in Workers,
           (\E r \in Reports : Receive(w, r)) \/ Find(w) \/ Refind(w) \/ Fail(w)
    PROVE  RowsInv'
<1> DEFINE h == handler[w]
<1>1. HandlingOK(h) /\ Stage(h) /\ h \in Handling
  BY Alone
<1>2. UNCHANGED <<logs, reports, day, dayClaims>> /\ ledger' = ledger
  BY DEF Receive, Find, Refind, Fail, ledgerVars, tables, outside
<1>3. \A q \in Reports : Debited(q)' = Debited(q)
  BY <1>2 DEF Debited, DebitsOf
<1>4. \A r \in Reports : reports[r].result \in Results
  BY DEF RowsInv, UsageTypes
<1>5. CASE \E r \in Reports : Receive(w, r)
  <2>1. PICK r \in Reports : Goto(w, [Idle EXCEPT !.pc = "find", !.report = r]) /\ answers' = answers
    BY <1>5 DEF Receive
  <2> DEFINE x == [Idle EXCEPT !.pc = "find", !.report = r]
  <2>2. HandlingOK(x)
    BY IdleIsFine DEF HandlingOK, Handling, Unclaimed, Idle
  <2>3. Stage(x)
    BY DEF Stage, Idle, Unclaimed, Undebited, Fresh
  <2> HIDE DEF x
  <2>4. Goto(w, x)
    BY <2>1 DEF x
  <2> QED  BY <1>2, <1>3, <2>1, <2>2, <2>3, <2>4, RowsGo
<1>6. CASE Find(w) /\ Goto(w, [h EXCEPT !.pc = "claim"]) /\ UNCHANGED answers
  <2> DEFINE x == [h EXCEPT !.pc = "claim"]
  <2>1. h.pc = "find"
    BY <1>6 DEF Find
  <2>2. HandlingOK(x)
    BY <1>1, <2>1 DEF HandlingOK, Handling, Unclaimed
  <2>3. Fresh(x) /\ x.pc = "claim"
    <3>1. Fresh(h)
      BY <1>1, <2>1 DEF Stage
    <3> QED  BY <1>1, <3>1 DEF Fresh, Handling
  <2> HIDE DEF x
  <2>4. Stage(x) /\ Goto(w, x)
    BY <1>6, <2>3 DEF Stage, Unclaimed, Undebited, x
  <2> QED  BY <1>2, <1>3, <1>6, <2>2, <2>4, RowsGo
<1>7. CASE Answer(w, reports[h.report].result) /\ h.pc # "idle"
  <2>1. [report |-> h.report, result |-> reports[h.report].result] \in [report : Reports, result : Results]
    BY <1>1, <1>4, <1>7 DEF HandlingOK
  <2> QED  BY <1>2, <1>7, <2>1, RowsLost DEF Answer
<1>8. CASE Fail(w)
  BY <1>2, <1>8, RowsLost DEF Fail
<1> QED  BY <1>5, <1>6, <1>7, <1>8 DEF Find, Refind

LEMMA RowsClaim ==
    ASSUME ChargeInv, RowsInv, TypeOK', NEW w \in Workers, Claim(w)
    PROVE  RowsInv'
<1>0. PICK h, r : h = handler[w] /\ r = h.report
  OBVIOUS
<1> DEFINE y == [h EXCEPT !.pc = "refind"]
           x == [h EXCEPT !.pc = "keys"]
           row == [status |-> "pending", result |-> Empty]
<1>1. /\ HandlingOK(h) /\ Stage(h) /\ h \in Handling /\ h.pc = "claim"
      /\ r \in Reports /\ AddsUp(r)
  BY <1>0, Alone DEF Claim
<1>2. UNCHANGED <<logs, day, dayClaims, answers>> /\ ledger' = ledger
  BY DEF Claim, ledgerVars, outside
<1>3. \A q : Debited(q)' = Debited(q)
  BY <1>2 DEF Debited, DebitsOf
<1>4. CASE reports[r].status # "none"
  <2>1. Goto(w, y) /\ UNCHANGED reports
    BY <1>0, <1>4 DEF Claim
  <2>2. HandlingOK(y) /\ y.pc = "refind"
    BY <1>1 DEF HandlingOK, Handling, Unclaimed
  <2> HIDE DEF y
  <2>3. Stage(y)
    BY <2>2 DEF Stage, Unclaimed, Undebited
  <2> QED  BY <1>2, <1>3, <2>1, <2>2, <2>3, RowsGo
<1>5. CASE reports[r].status = "none"
  <2>1. Goto(w, x) /\ reports' = [reports EXCEPT ![r] = row]
    BY <1>0, <1>5 DEF Claim
  <2>2. TypeOK /\ LogsOK /\ UsageTypes /\ LogsOK'
    BY <1>2 DEF RowsInv, UsageTypes, LogsOK
  <2>3. row \in [status : ReportStatuses, result : Results]
    BY DEF ReportStatuses, Results, Empty
  <2>4. HandlingOK(x) /\ x.report = r /\ x.pc = "keys"
    BY <1>0, <1>1 DEF HandlingOK, Handling, Unclaimed, Undebited
  <2>5. Fresh(x)
    <3>1. Fresh(h)
      BY <1>1 DEF Stage
    <3> QED  BY <1>1, <3>1 DEF Fresh, Handling
  <2> HIDE DEF x, row
  <2>6. UsageTypes'
    BY <1>1, <1>2, <2>1, <2>2, <2>3, <2>4, TypesMove
  <2>7. /\ LogsOf(r) = {} /\ Allocated(r) = 0 /\ Requested(r) = 0
        /\ Debited(r) = 0
    <3>1. LogsOf(r) = {}
      BY <1>1, <1>5 DEF AddsUp
    <3>2. Unpaid(r)
      BY <1>1, <1>5 DEF ChargeInv, RowIsTrue
    <3> QED  BY <3>1, <3>2, NoRowsNoSums
  <2>8. \A q : Same(q) /\ Requested(q)' = Requested(q) /\ Allocated(q)' = Allocated(q)
               /\ LogsOf(q)' = LogsOf(q)
    BY <1>2, <1>3 DEF Same, LogsOf, Requested, Allocated
  <2>9. Stage(x)
    <3>1. Knows(x)
      BY <2>4, <2>5, <2>7 DEF Knows, Fresh
    <3> QED  BY <2>4, <2>5, <2>7, <3>1 DEF Stage, Fresh, Unclaimed, Undebited
  <2>10. Stage(x)'
    BY <2>2, <2>4, <2>8, <2>9, <1>2, SameStage DEF HandlingOK
  <2>11. reports'[r].status = "pending" /\ \A q \in Reports : q # r => reports'[q] = reports[q]
    BY <2>1, <2>2, <1>1 DEF UsageTypes, row
  <2>12. AddsUp(r)'
    BY <1>3, <2>7, <2>8, <2>11 DEF AddsUp, Settled
  <2> QED  BY <1>2, <2>1, <2>6, <2>8, <2>10, <2>11, <2>12, RowsMove
<1> QED  BY <1>4, <1>5

---------------------------------------------------------------------------
(* Pricing *)

LEMMA ElementsOf ==
    ASSUME NEW S, NEW s \in Seq(S), NEW i \in DOMAIN s
    PROVE  s[i] \in S
  OBVIOUS

LEMMA PricedAre ==
    ASSUME NEW r \in Reports
    PROVE  Priced(r) \in Seq(Item) /\ (Priced(r) # << >> => 1 \in DOMAIN Priced(r))
<1> DEFINE items == Content[r].items
<1>1. /\ items \in Seq([cost : Nat, own : BOOLEAN])
      /\ Len(items) \in Nat /\ DOMAIN items = 1 .. Len(items)
  BY SettlementAssumption DEF SettlementAssumption
<1>2. \A i \in DOMAIN items : Priced(r)[i] \in Item
  <2> TAKE i \in DOMAIN items
  <2>1. items[i] \in [cost : Nat, own : BOOLEAN]
    BY <1>1, ElementsOf
  <2> DEFINE own == items[i].own /\ UserOf(r) \in connected
  <2>2. Priced(r)[i] = [kind |-> IF own THEN "own" ELSE "metered",
                        cost |-> IF own THEN 0 ELSE items[i].cost, minutes |-> 0, fee |-> FALSE]
    BY DEF Priced
  <2>3. items[i].cost \in Nat
    BY <2>1
  <2> HIDE DEF own
  <2> QED  BY <2>2, <2>3 DEF Item
<1>3. Priced(r) \in [1 .. Len(items) -> Item]
  <2>1. DOMAIN Priced(r) = 1 .. Len(items) /\ Priced(r) = [i \in 1 .. Len(items) |-> Priced(r)[i]]
    BY <1>1 DEF Priced
  <2> QED  BY <1>1, <1>2, <2>1
<1>4. Priced(r) \in Seq(Item)
  BY <1>1, <1>3, FunctionsAreSeqs
<1>5. Priced(r) # << >> => 1 \in DOMAIN Priced(r)
  <2>1. ASSUME NEW s \in Seq(Item), s # << >> PROVE 1 \in DOMAIN s
    BY <2>1
  <2> QED  BY <1>4, <2>1
<1> QED  BY <1>4, <1>5

LEMMA ExtraIsNatural ==
    ASSUME TypeOK, LogsOK, NEW u, NEW d, NEW minutes \in Nat
    PROVE  ExtraMinutes(u, d, minutes) \in Nat
<1> DEFINE f == [i \in DOMAIN logs |-> logs[i].minutes]
<1>1. PlatformRows(u, d) \in SUBSET DOMAIN logs /\ IsFiniteSet(PlatformRows(u, d))
  BY RowsAre DEF PlatformRows
<1>2. \A i \in PlatformRows(u, d) : f[i] \in Nat
  BY <1>1, RowsAre DEF LogRow
<1> HIDE DEF f
<1>3. PICK used \in Nat : used = SumFunctionOnSet(f, PlatformRows(u, d))
  BY <1>1, <1>2, SumIsNatural
<1>4. ExtraMinutes(u, d, minutes) = Over(used + minutes) - Over(used)
  BY <1>3 DEF ExtraMinutes, f
<1>5. DayMinutes \in Nat
  BY SettlementAssumption DEF SettlementAssumption
<1> QED  BY <1>3, <1>4, <1>5 DEF Over

LEMMA PlatformItemIs ==
    ASSUME NEW h, h.report \in Reports, h.extra \in Nat, NEW withFee \in BOOLEAN
    PROVE  PlatformItem(h, withFee) \in Item
<1>1. MinuteFee \in Nat /\ DayFee \in Nat /\ Content[h.report].minutes \in Nat
  BY SettlementAssumption DEF SettlementAssumption
<1>2. \A a, b \in Nat : a * b \in Nat
  OBVIOUS
<1>3. h.extra * MinuteFee \in Nat
  BY <1>1, <1>2
<1>4. h.extra * MinuteFee + (IF withFee THEN DayFee ELSE 0) \in Nat
  BY <1>1, <1>3
<1> QED  BY <1>1, <1>4 DEF PlatformItem, Item

\* What a handler with nothing logged may go on to.
LEMMA StillFresh ==
    ASSUME ChargeInv, RowsInv, NEW w \in Workers, handler[w].pc \in {"keys", "today", "fee"},
           NEW x \in Handling, x.report = handler[w].report, Fresh(x),
           \/ x.pc \in {"today", "fee", "finalize"}
           \/ x.pc = "log" /\ 1 \in DOMAIN x.items
    PROVE  Stage(x)
<1> DEFINE h == handler[w]
           r == h.report
<1>1. /\ Fresh(h) /\ Knows(h) /\ Allocated(r) = 0 /\ \A i \in LogsOf(r) : logs[i].charged = 0
      /\ Debited(r) = 0
  BY Alone DEF Stage, Undebited, Unclaimed, Early
<1>2. DOMAIN h.logged = {} /\ Len(x.logged) = 0
  BY <1>1 DEF Fresh
<1>3. Knows(x)
  BY <1>1 DEF Knows, Fresh
<1>4. LogsOf(r) = {}
  BY <1>1, <1>2 DEF Knows
<1> QED  BY <1>1, <1>2, <1>3, <1>4 DEF Stage, Fresh, Undebited, Unclaimed

LEMMA RowsPricing ==
    ASSUME ChargeInv, RowsInv, TypeOK', NEW w \in Workers,
           ReadKeys(w) \/ ReadToday(w) \/ ClaimDayFee(w)
    PROVE  RowsInv'
<1>0. PICK h, r : h = handler[w] /\ r = h.report
  OBVIOUS
<1>1. /\ HandlingOK(h) /\ h \in Handling /\ h.pc \in {"keys", "today", "fee"} /\ Fresh(h)
      /\ r \in Reports
  BY <1>0, Alone DEF ReadKeys, ReadToday, ClaimDayFee, Stage
<1>2. UNCHANGED <<logs, reports, day, answers>> /\ ledger' = ledger
  BY DEF ReadKeys, ReadToday, ClaimDayFee, ledgerVars, tables, outside
<1>3. \A q \in Reports : Debited(q)' = Debited(q)
  BY <1>2 DEF Debited, DebitsOf
<1>4. TypeOK /\ LogsOK /\ day \in 1 .. MaxDay
  BY DEF RowsInv, UsageTypes
<1>5. ASSUME NEW x, Goto(w, x), x \in Handling, x.report = r, Fresh(x),
             x.pc \in {"today", "fee", "log", "finalize"}, x.pc = "fee" => x.today \in 1 .. MaxDay,
             x.pc = "log" => 1 \in DOMAIN x.items,
             \/ dayClaims' = dayClaims
             \/ \E k \in Users \X (1 .. MaxDay) : dayClaims' = dayClaims \cup {k}
      PROVE  RowsInv'
  <2>1. HandlingOK(x)
    BY <1>1, <1>5 DEF HandlingOK
  <2>2. Stage(x)
    BY <1>0, <1>1, <1>5, StillFresh
  <2> QED  BY <1>2, <1>3, <1>5, <2>1, <2>2, RowsGo
<1>6. CASE ReadKeys(w)
  <2> DEFINE items == Priced(r)
             x == [h EXCEPT !.items = items,
                            !.pc = CASE /\ \E i \in DOMAIN items : items[i].kind = "own"
                                        /\ Content[r].minutes > 0 -> "today"
                                     [] items = << >> -> "finalize"
                                     [] OTHER -> "log"]
  <2>1. Goto(w, x) /\ dayClaims' = dayClaims
    BY <1>0, <1>6 DEF ReadKeys, tables
  <2>2. items \in Seq(Item) /\ (items # << >> => 1 \in DOMAIN items)
    BY <1>1, PricedAre
  <2> HIDE DEF items
  <2>3. /\ x \in Handling /\ x.report = r /\ x.items = items
        /\ x.pc \in {"today", "log", "finalize"} /\ (x.pc = "log" => items # << >>)
        /\ x.logged = h.logged /\ x.next = h.next /\ x.requested = h.requested
        /\ x.charged = h.charged /\ x.unpaid = h.unpaid /\ x.remaining = h.remaining
    BY <1>0, <1>1, <2>2 DEF Handling, Undebited
  <2> HIDE DEF x
  <2>4. Fresh(x)
    BY <1>1, <2>3 DEF Fresh
  <2> QED  BY <1>5, <2>1, <2>2, <2>3, <2>4
<1>7. CASE ReadToday(w)
  <2>1. PICK extra \in Nat : extra = ExtraMinutes(UserOf(r), day, Content[r].minutes)
    <3>1. Content[r].minutes \in Nat
      BY <1>1, SettlementAssumption DEF SettlementAssumption
    <3> QED  BY <1>4, <3>1, ExtraIsNatural
  <2> DEFINE h1 == [h EXCEPT !.today = day, !.extra = extra]
             plat == PlatformItem(h1, FALSE)
             x == [h1 EXCEPT !.pc = "fee"]
             y == [h1 EXCEPT !.pc = "log", !.items = Append(@, plat)]
  <2>2. (Goto(w, x) \/ Goto(w, y)) /\ dayClaims' = dayClaims
    BY <1>0, <1>7, <2>1 DEF ReadToday, tables
  <2>8. day \in 0 .. MaxDay /\ h.items \in Seq(Item)
    BY <1>1, <1>4 DEF Handling
  <2>9. h1 \in Handling
    BY <1>1, <2>8 DEF Handling
  <2>3. /\ h1 \in Handling /\ h1.report = r /\ h1.today = day /\ h1.extra = extra
        /\ h1.items = h.items /\ h1.items \in Seq(Item)
        /\ h1.logged = h.logged /\ h1.next = h.next /\ h1.requested = h.requested
        /\ h1.charged = h.charged /\ h1.unpaid = h.unpaid /\ h1.remaining = h.remaining
    BY <1>0, <1>1, <2>8, <2>9 DEF Handling
  <2>4. plat \in Item
    BY <1>1, <2>1, <2>3, PlatformItemIs
  <2> HIDE DEF h1, plat
  <2>5. Append(h1.items, plat) \in Seq(Item) /\ 1 \in DOMAIN Append(h1.items, plat)
    BY <2>3, <2>4
  <2>6. /\ x \in Handling /\ x.report = r /\ x.pc = "fee" /\ x.today = day
        /\ x.logged = h1.logged /\ x.next = h1.next /\ x.requested = h1.requested
        /\ x.charged = h1.charged /\ x.unpaid = h1.unpaid /\ x.remaining = h1.remaining
        /\ y \in Handling /\ y.report = r /\ y.pc = "log" /\ y.items = Append(h1.items, plat)
        /\ y.logged = h1.logged /\ y.next = h1.next /\ y.requested = h1.requested
        /\ y.charged = h1.charged /\ y.unpaid = h1.unpaid /\ y.remaining = h1.remaining
    BY <2>3, <2>5 DEF Handling, Undebited
  <2> HIDE DEF x, y
  <2>7. Fresh(x) /\ Fresh(y)
    BY <1>1, <2>3, <2>6 DEF Fresh
  <2> QED  BY <1>4, <1>5, <2>2, <2>5, <2>6, <2>7
<1>8. CASE ClaimDayFee(w)
  <2> DEFINE key == <<UserOf(r), h.today>>
             plat == PlatformItem(h, key \notin dayClaims)
             x == [h EXCEPT !.pc = "log", !.items = Append(@, plat)]
  <2>1. Goto(w, x) /\ dayClaims' = dayClaims \cup {key}
    BY <1>0, <1>8 DEF ClaimDayFee
  <2>2. key \in Users \X (1 .. MaxDay)
    <3>1. UserOf(r) \in Users
      BY <1>1, SettlementAssumption DEF SettlementAssumption, UserOf
    <3>2. h.today \in 1 .. MaxDay
      BY <1>0, <1>1, <1>8 DEF HandlingOK, ClaimDayFee
    <3> QED  BY <3>1, <3>2
  <2>3. plat \in Item
    <3>1. h.extra \in Nat
      BY <1>1 DEF Handling
    <3>2. (key \notin dayClaims) \in BOOLEAN
      OBVIOUS
    <3> HIDE DEF key
    <3> QED  BY <1>0, <1>1, <3>1, <3>2, PlatformItemIs
  <2> HIDE DEF plat, key
  <2>4. h.items \in Seq(Item)
    BY <1>1 DEF Handling
  <2>5. Append(h.items, plat) \in Seq(Item) /\ 1 \in DOMAIN Append(h.items, plat)
    BY <2>3, <2>4
  <2>6. /\ x \in Handling /\ x.report = r /\ x.pc = "log" /\ x.items = Append(h.items, plat)
        /\ x.logged = h.logged /\ x.next = h.next /\ x.requested = h.requested
        /\ x.charged = h.charged /\ x.unpaid = h.unpaid /\ x.remaining = h.remaining
    BY <1>0, <1>1, <2>5 DEF Handling, Undebited
  <2> HIDE DEF x
  <2>7. Fresh(x)
    BY <1>1, <2>6 DEF Fresh
  <2> QED  BY <1>5, <2>1, <2>2, <2>5, <2>6, <2>7
<1> QED  BY <1>6, <1>7, <1>8

---------------------------------------------------------------------------
(* Logging *)

\* A row number more is known.
LEMMA OneMoreKnown ==
    ASSUME NEW s \in Seq(Nat), NEW n \in Nat, NEW L, {s[k] : k \in DOMAIN s} = L, n \notin L,
           \A j, k \in DOMAIN s : s[j] = s[k] => j = k,
           NEW t, t = Append(s, n)
    PROVE  /\ t \in Seq(Nat) /\ Len(t) = Len(s) + 1 /\ t # << >> /\ DOMAIN t = 1 .. Len(t)
           /\ {t[k] : k \in DOMAIN t} = L \cup {n}
           /\ \A j, k \in DOMAIN t : t[j] = t[k] => j = k
<1>1. /\ t \in Seq(Nat) /\ Len(t) = Len(s) + 1 /\ Len(s) \in Nat
      /\ DOMAIN s = 1 .. Len(s) /\ DOMAIN t = 1 .. Len(s) + 1
      /\ \A k \in DOMAIN s : t[k] = s[k]
      /\ t[Len(s) + 1] = n
  OBVIOUS
<1>2. t # << >> /\ DOMAIN t = DOMAIN s \cup {Len(s) + 1}
  BY <1>1
<1>3. {t[k] : k \in DOMAIN t} = L \cup {n}
  BY <1>1, <1>2
<1>4. \A k \in DOMAIN s : s[k] # n
  OBVIOUS
<1>5. ASSUME NEW j \in DOMAIN t, NEW k \in DOMAIN t, t[j] = t[k] PROVE j = k
  BY <1>1, <1>2, <1>4, <1>5
<1> QED  BY <1>1, <1>2, <1>3, <1>5

LEMMA RowsLogging ==
    ASSUME ChargeInv, RowsInv, TypeOK', NEW w \in Workers, LogItem(w)
    PROVE  RowsInv'
<1>0. PICK h, r, n : h = handler[w] /\ r = h.report /\ n = Len(logs) + 1
  OBVIOUS
<1>1. /\ HandlingOK(h) /\ h \in Handling /\ h.pc = "log" /\ Stage(h) /\ r \in Reports /\ AddsUp(r)
      /\ Past(w) /\ Debited(r) = 0 /\ Unpaid(r) /\ reports[r].status = "pending"
      /\ \A v \in Workers : v # w /\ Past(v) => handler[v].report # r
  BY <1>0, Alone DEF LogItem, Past, Early, Unclaimed, Undebited
<1>2. /\ Knows(h) /\ h.remaining = 0 /\ Allocated(r) = 0 /\ h.charged = 0 /\ h.unpaid = 0
      /\ h.next \in DOMAIN h.items /\ Len(h.logged) = h.next - 1
      /\ \A i \in LogsOf(r) : logs[i].charged = 0
  BY <1>0, <1>1 DEF Stage, Unclaimed, Undebited
<1>3. UNCHANGED <<reports, dayClaims, day, answers>> /\ ledger' = ledger
  BY DEF LogItem, ledgerVars, outside
<1>4. TypeOK /\ LogsOK /\ UsageTypes /\ day \in 1 .. MaxDay
  BY DEF RowsInv, UsageTypes
<1>5. /\ h.items \in Seq(Item) /\ h.logged \in Seq(Nat) /\ h.next \in Nat \ {0} /\ h.requested \in Nat
      /\ h.today \in 0 .. MaxDay
  BY <1>1 DEF Handling
<1>6. PICK item \in Item : item = h.items[h.next]
  BY <1>2, <1>5, ElementsOf
<1>7. PICK lg, req : lg = Append(h.logged, n) /\ req = h.requested + item.cost
  OBVIOUS
<1> DEFINE row == [report |-> r, user |-> UserOf(r), kind |-> item.kind,
                   minutes |-> item.minutes, fee |-> item.fee, today |-> h.today, day |-> day,
                   requested |-> item.cost, charged |-> 0, status |-> "pending"]
           h1 == [h EXCEPT !.logged = lg, !.requested = req]
           more == [h1 EXCEPT !.next = @ + 1]
           last == [h1 EXCEPT !.next = 1, !.pc = IF req > 0 THEN "balance" ELSE "allocate"]
<1>8. /\ logs' = Append(logs, row)
      /\ IF h.next < Len(h.items) THEN Goto(w, more) ELSE Goto(w, last)
  <2> DEFINE hh == [h EXCEPT !.logged = Append(@, n), !.requested = @ + item.cost]
  <2>1. hh = h1
    BY <1>1, <1>7 DEF Handling
  <2>2. /\ logs' = Append(logs, row)
        /\ Goto(w, IF h.next < Len(h.items) THEN [hh EXCEPT !.next = @ + 1]
                   ELSE [hh EXCEPT !.next = 1,
                                   !.pc = IF hh.requested > 0 THEN "balance" ELSE "allocate"])
    BY <1>0, <1>6 DEF LogItem
  <2>3. h1.requested = req
    BY <1>1 DEF Handling
  <2> HIDE DEF hh, h1, row
  <2> QED  BY <2>1, <2>2, <2>3
<1>9. row \in LogRow /\ row.charged = 0 /\ row.report = r /\ row.requested = item.cost
  <2>1. UserOf(r) \in Users
    BY <1>1, SettlementAssumption DEF SettlementAssumption, UserOf
  <2> QED  BY <1>1, <1>4, <1>5, <2>1 DEF LogRow, Item, ItemStatuses
<1>10. PICK row1 \in LogRow : row1 = row
  BY <1>9
<1> HIDE DEF row
<1>11. /\ LogsOK' /\ DOMAIN logs \subseteq DOMAIN logs'
       /\ \A q : q # r => Same(q)
       /\ LogsOf(r)' = LogsOf(r) \cup {n} /\ n \notin LogsOf(r) /\ logs'[n] = row1
       /\ \A i \in LogsOf(r) : logs'[i] = logs[i]
       /\ Requested(r)' = Requested(r) + item.cost
       /\ Allocated(r)' = 0 /\ Debited(r)' = 0
  BY <1>0, <1>1, <1>2, <1>3, <1>4, <1>8, <1>9, <1>10, RowLogged
<1>12. \A i \in LogsOf(r)' : logs'[i].charged = 0
  BY <1>2, <1>9, <1>10, <1>11
<1>13. n \in Nat
  BY <1>0, <1>4, RowsAre
<1>14. /\ {h.logged[k] : k \in DOMAIN h.logged} = LogsOf(r) /\ h.requested = Requested(r)
       /\ \A j, k \in DOMAIN h.logged : h.logged[j] = h.logged[k] => j = k
  BY <1>0, <1>2 DEF Knows
<1>15. /\ lg \in Seq(Nat) /\ Len(lg) = h.next /\ lg # << >> /\ DOMAIN lg = 1 .. h.next
       /\ {lg[k] : k \in DOMAIN lg} = LogsOf(r)'
       /\ \A j, k \in DOMAIN lg : lg[j] = lg[k] => j = k
  <2>1. /\ lg \in Seq(Nat) /\ Len(lg) = Len(h.logged) + 1 /\ lg # << >> /\ DOMAIN lg = 1 .. Len(lg)
        /\ {lg[k] : k \in DOMAIN lg} = LogsOf(r) \cup {n}
        /\ \A j, k \in DOMAIN lg : lg[j] = lg[k] => j = k
    <3>0. PICK L : L = LogsOf(r)
      OBVIOUS
    <3>1. PICK s \in Seq(Nat) : s = h.logged /\ L = LogsOf(r)
      BY <1>5, <3>0
    <3>2. /\ {s[k] : k \in DOMAIN s} = L /\ n \notin L /\ lg = Append(s, n)
          /\ \A j, k \in DOMAIN s : s[j] = s[k] => j = k
      BY <1>7, <1>11, <1>14, <3>1
    <3>3. /\ lg \in Seq(Nat) /\ Len(lg) = Len(s) + 1 /\ lg # << >> /\ DOMAIN lg = 1 .. Len(lg)
          /\ {lg[k] : k \in DOMAIN lg} = L \cup {n}
          /\ \A j, k \in DOMAIN lg : lg[j] = lg[k] => j = k
      BY <1>13, <3>2, OneMoreKnown
    <3> QED  BY <3>1, <3>3
  <2>2. Len(lg) = h.next
    BY <1>2, <1>5, <2>1
  <2> QED  BY <1>11, <2>1, <2>2
<1>16. req \in Nat /\ req = Requested(r)'
  <2>1. item.cost \in Nat
    BY <1>6 DEF Item
  <2> QED  BY <1>5, <1>7, <1>11, <1>14, <2>1
<1>17. /\ h1 \in Handling /\ h1.pc = "log" /\ h1.report = r /\ h1.items = h.items
       /\ h1.logged = lg /\ h1.next = h.next /\ h1.requested = req
       /\ h1.charged = 0 /\ h1.unpaid = 0 /\ h1.remaining = 0
  <2>1. h1 \in Handling
    BY <1>1, <1>15, <1>16 DEF Handling
  <2> QED  BY <1>0, <1>1, <1>2, <2>1 DEF Handling
<1> HIDE DEF h1
<1>18. PICK x : x = more
  OBVIOUS
<1>19. PICK y : y = last
  OBVIOUS
<1>20. /\ x \in Handling /\ x.pc = "log" /\ x.report = r /\ x.items = h.items
       /\ x.logged = lg /\ x.next = h.next + 1 /\ x.requested = req
       /\ x.charged = 0 /\ x.unpaid = 0 /\ x.remaining = 0
  <2>1. h.next + 1 \in Nat \ {0}
    BY <1>5
  <2> QED  BY <1>17, <1>18, <2>1 DEF Handling
<1>21. /\ y \in Handling /\ y.report = r
       /\ y.pc = (IF req > 0 THEN "balance" ELSE "allocate")
       /\ y.logged = lg /\ y.next = 1 /\ y.requested = req
       /\ y.charged = 0 /\ y.unpaid = 0 /\ y.remaining = 0
  <2> DEFINE p == IF req > 0 THEN "balance" ELSE "allocate"
  <2>1. p \in Unclaimed \cup Undebited \cup {"allocate", "finalize"} /\ 1 \in Nat \ {0}
    BY DEF Undebited
  <2>2. y = [h1 EXCEPT !.next = 1, !.pc = p]
    BY <1>19
  <2> HIDE DEF p
  <2>3. y \in Handling
    BY <1>17, <2>1, <2>2 DEF Handling
  <2>4. /\ y.report = r /\ y.pc = p /\ y.logged = lg /\ y.next = 1 /\ y.requested = req
        /\ y.charged = 0 /\ y.unpaid = 0 /\ y.remaining = 0
    BY <1>17, <2>2 DEF Handling
  <2> QED  BY <2>3, <2>4 DEF p
<1> HIDE DEF more, last
<1>22. Knows(x)' /\ Knows(y)'
  BY <1>15, <1>16, <1>20, <1>21 DEF Knows
<1>23. h.next < Len(h.items) => Stage(x)'
  <2> HAVE h.next < Len(h.items)
  <2>1. h.next + 1 \in DOMAIN h.items /\ Len(lg) = (h.next + 1) - 1
    BY <1>5, <1>15
  <2> QED  BY <1>11, <1>12, <1>20, <1>22, <2>1 DEF Stage, Unclaimed, Undebited
<1>24. Stage(y)'
  <2>1. CASE req > 0
    BY <1>11, <1>12, <1>15, <1>21, <1>22, <2>1 DEF Stage, Unclaimed, Undebited
  <2>2. CASE ~(req > 0)
    <3>1. req = 0 /\ y.pc = "allocate"
      BY <1>16, <1>21, <2>2
    <3>2. 1 \in DOMAIN lg /\ DOMAIN lg = 1 .. Len(lg)
      BY <1>5, <1>15
    <3>3. Undone(y)' = LogsOf(r)'
      <4>1. Undone(y)' = {lg[k] : k \in DOMAIN lg}
        BY <1>21, <3>2 DEF Undone
      <4> QED  BY <1>15, <4>1
    <3>4. Rest(y)' \in Nat
      <4>1. Rest(y)' = SumFunctionOnSet(Costs', LogsOf(r)')
        BY <3>3 DEF Rest, Costs
      <4>2. Requested(r)' = SumFunctionOnSet(Costs', LogsOf(r)')
        BY DEF Requested, Costs
      <4> QED  BY <1>16, <4>1, <4>2
    <3> QED  BY <1>11, <1>12, <1>21, <1>22, <3>1, <3>2, <3>3, <3>4 DEF Stage, Unclaimed, Undebited
  <2> QED  BY <2>1, <2>2
<1>25. PICK z : Goto(w, z) /\ Stage(z)' /\ z \in Handling /\ z.report = r /\ z.pc # "fee"
  <2>1. CASE h.next < Len(h.items)
    BY <1>8, <1>18, <1>20, <1>23, <2>1
  <2>2. CASE ~(h.next < Len(h.items))
    BY <1>8, <1>19, <1>21, <1>24, <2>2
  <2> QED  BY <2>1, <2>2
<1>26. UsageTypes'
  <2>1. HandlingOK(z)
    BY <1>1, <1>25 DEF HandlingOK
  <2> QED  BY <1>3, <1>4, <1>11, <1>25, <2>1, TypesMove
<1>27. AddsUp(r)'
  <2>1. ~Settled(r)' /\ reports'[r].status # "none"
    BY <1>1, <1>3 DEF Settled
  <2> QED  BY <1>11, <1>16, <2>1 DEF AddsUp
<1> QED  BY <1>1, <1>3, <1>11, <1>25, <1>26, <1>27, RowsMove

---------------------------------------------------------------------------
(* The debit *)

LEMMA LeastOfTwo ==
    ASSUME NEW a \in Nat, NEW b \in Nat
    PROVE  /\ Min({a, b}) \in Nat /\ Min({a, b}) <= a /\ Min({a, b}) <= b
           /\ Min({a, b}) = a \/ Min({a, b}) = b
<1>1. \E m \in {a, b} : \A k \in {a, b} : m <= k
  <2>1. a <= b \/ b <= a
    OBVIOUS
  <2> QED  BY <2>1
<1>2. Min({a, b}) \in {a, b} /\ \A k \in {a, b} : Min({a, b}) <= k
  BY <1>1 DEF Min
<1> QED  BY <1>2

\* Before its first share, a handler's undone rows are its report's.
LEMMA AllUndone ==
    ASSUME NEW x \in Handling, Knows(x), x.next = 1, x.logged # << >>
    PROVE  /\ 1 \in DOMAIN x.logged /\ Undone(x) = LogsOf(x.report)
           /\ Rest(x) = Requested(x.report)
<1>1. x.logged \in Seq(Nat)
  BY DEF Handling
<1>2. DOMAIN x.logged = 1 .. Len(x.logged) /\ 1 \in DOMAIN x.logged
  BY <1>1
<1>3. Undone(x) = {x.logged[k] : k \in DOMAIN x.logged}
  BY <1>2 DEF Undone
<1>4. Undone(x) = LogsOf(x.report)
  BY <1>3 DEF Knows
<1> QED  BY <1>2, <1>4 DEF Rest, Requested

\* Once it is known what can be paid, the handler debits that or, if it is nothing, goes on
\* to the shares.
LEMMA PayingStage ==
    ASSUME ChargeInv, RowsInv, NEW w \in Workers,
           handler[w].pc \in {"balance", "ensure", "deduct"},
           NEW x \in Handling, x.report = handler[w].report, x.logged = handler[w].logged,
           x.requested = handler[w].requested, x.next = 1, x.remaining = 0,
           x.charged + x.unpaid = x.requested,
           x.pc = "deduct" \/ (x.pc = "allocate" /\ x.charged = 0)
    PROVE  Stage(x)
<1>0. PICK h, r : h = handler[w] /\ r = h.report
  OBVIOUS
<1>1. /\ Knows(h) /\ Allocated(r) = 0 /\ \A i \in LogsOf(r) : logs[i].charged = 0
      /\ Debited(r) = 0 /\ h.logged # << >>
  BY <1>0, Alone DEF Stage, Undebited, Unclaimed, Early
<1>2. Knows(x)
  BY <1>0, <1>1 DEF Knows
<1>3. 1 \in DOMAIN x.logged /\ Undone(x) = LogsOf(r) /\ Rest(x) \in Nat
  <2>1. TypeOK /\ LogsOK
    BY DEF RowsInv, UsageTypes
  <2> QED  BY <1>0, <1>1, <1>2, <2>1, AllUndone, SumsTyped
<1>4. x.charged \in Nat
  BY DEF Handling
<1> QED  BY <1>0, <1>1, <1>2, <1>3, <1>4 DEF Stage, Undebited, Unclaimed

LEMMA QuotedStage ==
    ASSUME ChargeInv, RowsInv, NEW w \in Workers, handler[w].pc \in {"balance", "ensure"},
           NEW balance \in Nat, NEW x, x = Quote(handler[w], balance)
    PROVE  HandlingOK(x) /\ Stage(x)
<1>0. PICK h, r : h = handler[w] /\ r = h.report
  OBVIOUS
<1>1. /\ HandlingOK(h) /\ h \in Handling /\ r \in Reports /\ h.requested \in Nat
      /\ h.next = 1 /\ h.remaining = 0 /\ h.charged = 0
  <2>1. HandlingOK(h) /\ h \in Handling /\ Stage(h) /\ r \in Reports
    BY <1>0, Alone
  <2> QED  BY <1>0, <2>1 DEF Stage, Undebited, Handling
<1>2. PICK c \in Nat : c = Min({h.requested, balance}) /\ c <= h.requested
  BY <1>1, LeastOfTwo
<1>3. PICK rest \in Nat : rest = h.requested - c
  BY <1>1, <1>2
<1> DEFINE h1 == [h EXCEPT !.available = balance, !.unpaid = rest]
           pay == [h1 EXCEPT !.pc = "deduct", !.charged = c]
           skip == [h1 EXCEPT !.pc = "allocate", !.status = "insufficient_credits"]
<1>4. x = IF c > 0 THEN pay ELSE skip
  BY <1>0, <1>2, <1>3 DEF Quote
<1>5. /\ h1 \in Handling /\ h1.report = r /\ h1.logged = h.logged /\ h1.requested = h.requested
      /\ h1.next = 1 /\ h1.remaining = 0 /\ h1.charged = 0 /\ h1.unpaid = rest
  BY <1>0, <1>1 DEF Handling
<1> HIDE DEF h1
<1>6. CASE c > 0
  <2>1. /\ x \in Handling /\ x.report = r /\ x.logged = h.logged /\ x.requested = h.requested
        /\ x.next = 1 /\ x.remaining = 0 /\ x.charged = c /\ x.unpaid = rest /\ x.pc = "deduct"
    <3>1. x = pay
      BY <1>4, <1>6
    <3>2. x \in Handling
      BY <1>5, <3>1 DEF Handling, Undebited
    <3> QED  BY <1>5, <3>1, <3>2 DEF Handling
  <2>2. x.charged + x.unpaid = x.requested
    BY <1>1, <1>3, <2>1
  <2> HIDE DEF pay, skip
  <2>3. Stage(x)
    BY <1>0, <2>1, <2>2, PayingStage
  <2> QED  BY <1>1, <2>1, <2>3 DEF HandlingOK
<1>7. CASE ~(c > 0)
  <2>1. /\ x \in Handling /\ x.report = r /\ x.logged = h.logged /\ x.requested = h.requested
        /\ x.next = 1 /\ x.remaining = 0 /\ x.charged = 0 /\ x.unpaid = rest /\ x.pc = "allocate"
    <3>1. x = skip
      BY <1>4, <1>7
    <3>2. x \in Handling
      BY <1>5, <3>1 DEF Handling, SettlementStatuses
    <3> QED  BY <1>5, <3>1, <3>2 DEF Handling
  <2>2. x.charged + x.unpaid = x.requested
    BY <1>1, <1>3, <1>7, <2>1
  <2> HIDE DEF pay, skip
  <2>3. Stage(x)
    BY <1>0, <2>1, <2>2, PayingStage
  <2> QED  BY <1>1, <2>1, <2>3 DEF HandlingOK
<1> QED  BY <1>6, <1>7

LEMMA RowsBalance ==
    ASSUME ChargeInv, RowsInv, TypeOK', NEW w \in Workers, GetBalance(w) \/ EnsureBalance(w)
    PROVE  RowsInv'
<1>0. PICK h, r : h = handler[w] /\ r = h.report
  OBVIOUS
<1>1. /\ HandlingOK(h) /\ h \in Handling /\ Stage(h) /\ r \in Reports /\ h.pc \in {"balance", "ensure"}
  BY <1>0, Alone DEF GetBalance, EnsureBalance
<1>2. UNCHANGED <<logs, reports, day, dayClaims, answers>> /\ ledger' = ledger
  BY DEF GetBalance, EnsureBalance, EnsureRow, ledgerVars, tables, outside
<1>3. \A q \in Reports : Debited(q)' = Debited(q)
  BY <1>2 DEF Debited, DebitsOf
<1>4. ASSUME NEW balance \in Nat, Goto(w, Quote(h, balance)) PROVE RowsInv'
  <2>1. PICK x : x = Quote(h, balance)
    OBVIOUS
  <2>2. HandlingOK(x) /\ Stage(x)
    BY <1>0, <1>1, <2>1, QuotedStage
  <2> QED  BY <1>2, <1>3, <1>4, <2>1, <2>2, RowsGo
<1>5. CASE GetBalance(w)
  <2>1. UserOf(r) \in DOMAIN credits => credits[UserOf(r)].balance \in Nat
    BY DEF RowsInv, UsageTypes, TypeOK, CreditRow
  <2>2. CASE Goto(w, [h EXCEPT !.pc = "ensure"])
    <3> DEFINE x == [h EXCEPT !.pc = "ensure"]
    <3>1. /\ HandlingOK(x) /\ x.pc = "ensure" /\ x.report = r /\ x.logged = h.logged /\ x.next = h.next
          /\ x.requested = h.requested /\ x.charged = h.charged /\ x.unpaid = h.unpaid
          /\ x.remaining = h.remaining
      BY <1>0, <1>1 DEF HandlingOK, Handling, Undebited
    <3>2. h.pc = "balance"
      BY <1>0, <1>5 DEF GetBalance
    <3> HIDE DEF x
    <3>3. Knows(x)
      BY <1>0, <1>1, <3>1 DEF Stage, Unclaimed, Knows
    <3>4. Stage(x)
      BY <1>0, <1>1, <3>1, <3>2, <3>3 DEF Stage, Unclaimed, Undebited
    <3>5. Goto(w, x)
      BY <2>2 DEF x
    <3> QED  BY <1>2, <1>3, <3>1, <3>4, <3>5, RowsGo
  <2> QED  BY <1>0, <1>4, <1>5, <2>1, <2>2 DEF GetBalance
<1>6. CASE EnsureBalance(w)
  <2>1. Goto(w, Idle) \/ Goto(w, Quote(h, 0))
    BY <1>0, <1>6 DEF EnsureBalance
  <2> QED  BY <1>2, <1>4, <2>1, RowsLost
<1> QED  BY <1>5, <1>6

LEMMA RowsRefused ==
    ASSUME ChargeInv, RowsInv, TypeOK', NEW w \in Workers, DeductRefused(w)
    PROVE  RowsInv'
<1>0. PICK h, r : h = handler[w] /\ r = h.report
  OBVIOUS
<1>1. /\ HandlingOK(h) /\ h \in Handling /\ Stage(h) /\ r \in Reports /\ h.pc = "deduct"
      /\ h.next = 1 /\ h.remaining = 0 /\ h.requested \in Nat
  <2>1. /\ HandlingOK(h) /\ h \in Handling /\ Stage(h) /\ r \in Reports /\ h.pc = "deduct"
    BY <1>0, Alone DEF DeductRefused
  <2> QED  BY <2>1 DEF Stage, Undebited, Handling
<1>2. UNCHANGED <<logs, reports, day, dayClaims, answers>> /\ ledger' = ledger
  BY DEF DeductRefused, ledgerVars, tables, outside
<1>3. \A q \in Reports : Debited(q)' = Debited(q)
  BY <1>2 DEF Debited, DebitsOf
<1> DEFINE x == [h EXCEPT !.pc = "allocate", !.charged = 0, !.unpaid = h.requested,
                         !.status = "insufficient_credits"]
<1>4. /\ x \in Handling /\ x.report = r /\ x.logged = h.logged /\ x.requested = h.requested
      /\ x.next = 1 /\ x.remaining = 0 /\ x.charged = 0 /\ x.unpaid = h.requested /\ x.pc = "allocate"
  <2>1. x \in Handling
    BY <1>1 DEF Handling, SettlementStatuses
  <2> QED  BY <1>0, <1>1, <2>1 DEF Handling
<1>5. Goto(w, x)
  BY <1>0 DEF DeductRefused
<1> HIDE DEF x
<1>6. Stage(x)
  BY <1>0, <1>1, <1>4, PayingStage
<1>7. HandlingOK(x)
  BY <1>1, <1>4 DEF HandlingOK
<1> QED  BY <1>2, <1>3, <1>5, <1>6, <1>7, RowsGo

LEMMA RowsDebited ==
    ASSUME ChargeInv, RowsInv, TypeOK', NEW w \in Workers, DeductOk(w)
    PROVE  RowsInv'
<1>0. PICK h, r, u, c : h = handler[w] /\ r = h.report /\ u = UserOf(r) /\ c = h.charged
  OBVIOUS
<1>1. /\ HandlingOK(h) /\ h \in Handling /\ Stage(h) /\ r \in Reports /\ h.pc = "deduct" /\ AddsUp(r)
      /\ Past(w) /\ Unpaid(r) /\ reports[r].status = "pending"
      /\ \A v \in Workers : v # w /\ Past(v) => handler[v].report # r
  BY <1>0, Alone DEF DeductOk, Past, Early, Unclaimed, Undebited
<1>2. /\ Knows(h) /\ h.remaining = 0 /\ Allocated(r) = 0 /\ h.next = 1 /\ h.logged # << >>
      /\ h.charged + h.unpaid = h.requested /\ \A i \in LogsOf(r) : logs[i].charged = 0
      /\ c \in Nat /\ h.unpaid \in Nat /\ h.requested \in Nat
  BY <1>0, <1>1 DEF Stage, Unclaimed, Undebited, Handling
<1>3. UNCHANGED <<logs, reports, dayClaims, day, answers>>
  BY DEF DeductOk, tables, outside
<1>4. TypeOK /\ LogsOK /\ UsageTypes /\ LogsOK'
  BY <1>3 DEF RowsInv, UsageTypes, LogsOK
<1>5. PICK b : LET row == Row(u, "usage", 0 - c, b, NoKey, r)
               IN  row \in LedgerRow /\ ledger' = Append(ledger, row)
  <2>1. u \in Users /\ r \in Refs
    BY <1>0, <1>1, SettlementAssumption DEF SettlementAssumption, UserOf
  <2>2. DeductCredits(u, c, r)
    BY <1>0 DEF DeductOk
  <2>3. Post(u, RowAfterDeduct(u, c), Row(u, "usage", 0 - c, RowAfterDeduct(u, c).balance, NoKey, r))
    BY <1>2, <1>4, <2>1, <2>2, DeductPosts
  <2> QED  BY <2>3 DEF Post
<1>6. PICK row \in LedgerRow : ledger' = Append(ledger, row) /\ row.ref = r /\ row.amount = 0 - c
  BY <1>5 DEF Row
<1>7. Debited(r)' = c /\ \A q : q # r => Debited(q)' = Debited(q)
  <2>1. Debited(r)' = 0 - (0 - c)
    BY <1>1, <1>4, <1>6, DebitOfReport
  <2> QED  BY <1>2, <1>4, <1>6, <2>1, DebitElsewhere
<1>8. /\ \A q : q # r => Same(q)
      /\ LogsOf(r)' = LogsOf(r) /\ Allocated(r)' = 0 /\ Requested(r)' = Requested(r)
  BY <1>2, <1>3, <1>7 DEF Same, LogsOf, Allocated, Requested
<1> DEFINE st == IF h.unpaid = 0 THEN "charged" ELSE "partially_charged"
<1>9. PICK x : x = [h EXCEPT !.pc = "allocate", !.remaining = c, !.status = st]
  OBVIOUS
<1>10. Goto(w, x)
  BY <1>0, <1>9 DEF DeductOk
<1>11. st \in SettlementStatuses
  BY DEF SettlementStatuses
<1> HIDE DEF st
<1>12. /\ x \in Handling /\ x.report = r /\ x.logged = h.logged /\ x.requested = h.requested
       /\ x.next = 1 /\ x.remaining = c /\ x.charged = c /\ x.unpaid = h.unpaid /\ x.pc = "allocate"
  BY <1>0, <1>1, <1>2, <1>9, <1>11 DEF Handling
<1>13. Knows(x) /\ Knows(x)'
  BY <1>0, <1>2, <1>8, <1>12 DEF Knows
<1>14. /\ 1 \in DOMAIN x.logged /\ Undone(x) = LogsOf(r) /\ Rest(x) = Requested(r)
       /\ Undone(x)' = LogsOf(r)' /\ Rest(x)' = Requested(r)
  <2>1. Undone(x)' = Undone(x) /\ Rest(x)' = Rest(x)
    BY <1>3 DEF Undone, Rest
  <2> QED  BY <1>2, <1>8, <1>12, <1>13, <2>1, AllUndone
<1>15. Requested(r) = h.requested
  BY <1>0, <1>2 DEF Knows
<1>16. c <= h.requested
  BY <1>0, <1>2
<1>17. Stage(x)'
  BY <1>0, <1>2, <1>3, <1>7, <1>8, <1>12, <1>13, <1>14, <1>15, <1>16 DEF Stage, Unclaimed, Undebited
<1>18. UsageTypes'
  <2>1. HandlingOK(x)
    BY <1>1, <1>12 DEF HandlingOK
  <2> QED  BY <1>3, <1>4, <1>10, <2>1, TypesMove
<1>19. AddsUp(r)'
  <2>1. ~Settled(r)' /\ reports'[r].status # "none"
    BY <1>1, <1>3 DEF Settled
  <2> QED  BY <1>2, <1>7, <1>8, <1>15, <1>16, <2>1 DEF AddsUp
<1> QED  BY <1>1, <1>3, <1>8, <1>10, <1>17, <1>18, <1>19, RowsMove

---------------------------------------------------------------------------
(* The shares *)

LEMMA ShareIs ==
    ASSUME NEW h \in Handling, NEW requested \in Nat
    PROVE  LET s == Share(h, requested)
           IN /\ s.charged \in Nat /\ s.charged <= requested /\ s.charged <= h.remaining
              /\ s.status \in ItemStatuses /\ s.status # "pending"
              /\ s.charged = requested \/ s.charged = h.remaining
<1>1. h.remaining \in Nat
  BY DEF Handling
<1>2. CASE requested = 0
  BY <1>1, <1>2 DEF Share, ItemStatuses
<1>3. CASE requested > 0 /\ h.remaining > 0
  <2> DEFINE c == Min({requested, h.remaining})
  <2>1. /\ c \in Nat /\ c <= requested /\ c <= h.remaining
        /\ c = requested \/ c = h.remaining
    BY <1>1, LeastOfTwo
  <2>2. Share(h, requested) = [charged |-> c,
                               status |-> IF c = requested THEN "charged" ELSE "partially_charged"]
    BY <1>3 DEF Share
  <2> HIDE DEF c
  <2> QED  BY <2>1, <2>2 DEF ItemStatuses
<1>4. CASE requested > 0 /\ h.remaining = 0
  BY <1>1, <1>4 DEF Share, ItemStatuses
<1> QED  BY <1>1, <1>2, <1>3, <1>4

LEMMA RowsAllocate ==
    ASSUME ChargeInv, RowsInv, TypeOK', NEW w \in Workers, AllocateItem(w)
    PROVE  RowsInv'
<1>0. PICK h, r, id : h = handler[w] /\ r = h.report /\ id = h.logged[h.next]
  OBVIOUS
<1>1. /\ HandlingOK(h) /\ h \in Handling /\ Stage(h) /\ r \in Reports /\ h.pc = "allocate" /\ AddsUp(r)
      /\ Past(w) /\ reports[r].status = "pending"
      /\ \A v \in Workers : v # w /\ Past(v) => handler[v].report # r
  BY <1>0, Alone DEF AllocateItem, Past, Unclaimed
<1>2. /\ Knows(h) /\ h.charged + h.unpaid = h.requested
      /\ h.next \in DOMAIN h.logged /\ Debited(r) = h.charged
      /\ Allocated(r) + h.remaining = h.charged /\ h.remaining <= Rest(h)
      /\ \A i \in LogsOf(r) : IF i \in Undone(h) THEN logs[i].charged = 0
                                                 ELSE logs[i].status # "pending"
  BY <1>0, <1>1 DEF Stage, Unclaimed, Undebited
<1>3. /\ h.logged \in Seq(Nat) /\ h.next \in Nat \ {0} /\ h.remaining \in Nat /\ h.charged \in Nat
      /\ h.unpaid \in Nat /\ h.requested \in Nat
      /\ DOMAIN h.logged = 1 .. Len(h.logged) /\ Len(h.logged) \in Nat
  BY <1>1 DEF Handling
<1>4. TypeOK /\ LogsOK /\ UsageTypes
  BY DEF RowsInv, UsageTypes
<1>5. UNCHANGED <<reports, dayClaims, day, answers>> /\ ledger' = ledger
  BY DEF AllocateItem, ledgerVars, outside
<1>6. /\ {h.logged[k] : k \in DOMAIN h.logged} = LogsOf(r) /\ h.requested = Requested(r)
      /\ \A j, k \in DOMAIN h.logged : h.logged[j] = h.logged[k] => j = k
  BY <1>0, <1>2 DEF Knows
<1>7. id \in Undone(h) /\ id \in LogsOf(r) /\ id \in DOMAIN logs /\ logs[id].report = r
      /\ Undone(h) \subseteq LogsOf(r) /\ LogsOf(r) \subseteq DOMAIN logs
  <2>1. h.next \in h.next .. Len(h.logged) /\ h.next .. Len(h.logged) \subseteq DOMAIN h.logged
    BY <1>2, <1>3
  <2>2. id \in Undone(h)
    BY <1>0, <2>1 DEF Undone
  <2>3. Undone(h) \subseteq LogsOf(r)
    BY <1>6, <2>1 DEF Undone
  <2> QED  BY <2>2, <2>3 DEF LogsOf
<1>8. PICK cost \in Nat : cost = logs[id].requested /\ Costs[id] = cost
  BY <1>4, <1>7, RowsAre DEF Costs
<1>9. PICK c, s : c = Share(h, cost).charged /\ s = Share(h, cost).status
  OBVIOUS
<1>10. /\ c \in Nat /\ c <= cost /\ c <= h.remaining /\ s \in ItemStatuses /\ s # "pending"
       /\ c = cost \/ c = h.remaining
  BY <1>1, <1>9, ShareIs
<1>11. logs[id].charged = 0
  BY <1>2, <1>7
<1>12. logs' = [logs EXCEPT ![id].charged = c, ![id].status = s]
  BY <1>0, <1>8, <1>9 DEF AllocateItem
<1>13. /\ LogsOK' /\ DOMAIN logs' = DOMAIN logs /\ \A q : q # r => Same(q)
       /\ LogsOf(r)' = LogsOf(r)
       /\ \A i \in DOMAIN logs : /\ i # id => logs'[i] = logs[i]
                                 /\ logs'[i].requested = logs[i].requested
       /\ logs'[id].charged = c /\ logs'[id].status = s
       /\ Requested(r)' = Requested(r) /\ Allocated(r)' = Allocated(r) + c
       /\ Debited(r)' = Debited(r)
  <2>1. c <= logs[id].requested /\ logs[id].report = r
    BY <1>7, <1>8, <1>10
  <2>2. Shared(id, c, s, r)
    BY <1>7, <1>10, <1>11, <1>12, <2>1 DEF Shared
  <2> QED  BY <1>4, <1>5, <2>2, RowShared
<1>14. PICK last \in BOOLEAN : last <=> h.next = Len(h.logged)
  OBVIOUS
<1>15. PICK rem \in Nat : rem = h.remaining - c
  BY <1>3, <1>10
<1>16. PICK x : x = [h EXCEPT !.remaining = rem, !.next = @ + 1,
                              !.pc = IF last THEN "finalize" ELSE "allocate"]
  OBVIOUS
<1>17. Goto(w, x)
  BY <1>0, <1>8, <1>9, <1>14, <1>15, <1>16 DEF AllocateItem
<1>18. /\ x \in Handling /\ x.report = r /\ x.logged = h.logged /\ x.requested = h.requested
       /\ x.next = h.next + 1 /\ x.remaining = rem /\ x.charged = h.charged /\ x.unpaid = h.unpaid
       /\ x.pc = (IF last THEN "finalize" ELSE "allocate")
  <2> DEFINE p == IF last THEN "finalize" ELSE "allocate"
  <2>1. p \in Unclaimed \cup Undebited \cup {"allocate", "finalize"} /\ h.next + 1 \in Nat \ {0}
    BY <1>3
  <2>2. x = [h EXCEPT !.remaining = rem, !.next = h.next + 1, !.pc = p]
    BY <1>1, <1>16 DEF Handling
  <2> HIDE DEF p
  <2>3. x \in Handling
    BY <1>1, <2>1, <2>2 DEF Handling
  <2>4. /\ x.report = h.report /\ x.logged = h.logged /\ x.requested = h.requested
        /\ x.next = h.next + 1 /\ x.remaining = rem /\ x.charged = h.charged /\ x.unpaid = h.unpaid
        /\ x.pc = p
    BY <1>1, <2>2 DEF Handling
  <2> QED  BY <1>0, <2>3, <2>4 DEF p
<1>19. Undone(x) = Undone(h) \ {id}
  <2>1. h.next .. Len(h.logged) = {h.next} \cup ((h.next + 1) .. Len(h.logged))
    BY <1>2, <1>3
  <2>2. \A k \in (h.next + 1) .. Len(h.logged) : k \in DOMAIN h.logged /\ k # h.next
    BY <1>2, <1>3
  <2>3. \A k \in (h.next + 1) .. Len(h.logged) : h.logged[k] # id
    BY <1>0, <1>2, <1>6, <2>2
  <2> QED  BY <1>0, <1>18, <2>1, <2>3 DEF Undone
<1>20. Rest(h) = cost + Rest(x) /\ Rest(x) \in Nat /\ Rest(x)' = Rest(x)
  <2>1. Undone(h) \in SUBSET DOMAIN logs /\ Undone(x) \in SUBSET DOMAIN logs /\ IsFiniteSet(Undone(h))
    BY <1>4, <1>7, <1>19, RowsAre
  <2>2. \A i \in Undone(h) : Costs[i] \in Int
    BY <1>4, <2>1, RowsAre DEF Costs
  <2>3. SumFunctionOnSet(Costs, Undone(h)) = Costs[id] + SumFunctionOnSet(Costs, Undone(h) \ {id})
    BY <1>7, <2>1, <2>2, SumTakesAny
  <2>4. SumFunctionOnSet(Costs, Undone(x)) \in Nat
    BY <1>4, <2>1, SumsTyped
  <2>5. SumFunctionOnSet(Costs', Undone(x)) = SumFunctionOnSet(Costs, Undone(x))
    BY <1>4, <1>13, <2>1, ColumnsStay
  <2>6. Undone(x)' = Undone(x)
    BY DEF Undone
  <2> QED  BY <1>8, <1>19, <2>3, <2>4, <2>5, <2>6 DEF Rest, Costs
<1>21. Allocated(r) \in Nat
  BY <1>4, SumsTyped
<1>22. Allocated(r)' + rem = h.charged /\ rem <= Rest(x) /\ Allocated(r)' <= h.charged
  <2>1. PICK a \in Nat, rest \in Nat : a = Allocated(r) /\ rest = Rest(x)
    BY <1>20, <1>21
  <2>2. PICK had \in Nat, all \in Nat : had = h.remaining /\ all = h.charged
    BY <1>3
  <2>3. /\ a + had = all /\ had <= cost + rest /\ rem = had - c
        /\ c = cost \/ c = had
    BY <1>2, <1>10, <1>15, <1>20, <2>1, <2>2
  <2>4. (a + c) + rem = all /\ rem <= rest /\ a + c <= all
    <3>1. CASE c = cost
      BY <1>8, <1>10, <2>3, <3>1
    <3>2. CASE c = had
      BY <1>8, <1>10, <2>3, <3>2
    <3> QED  BY <2>3, <3>1, <3>2
  <2> QED  BY <1>13, <2>1, <2>2, <2>4
<1>23. \A i \in LogsOf(r) : IF i \in Undone(x) THEN logs'[i].charged = 0
                                             ELSE logs'[i].status # "pending"
  <2> TAKE i \in LogsOf(r)
  <2>1. CASE i = id
    BY <1>10, <1>13, <1>19, <2>1
  <2>2. CASE i # id
    <3>1. logs'[i] = logs[i] /\ (i \in Undone(x) <=> i \in Undone(h))
      BY <1>7, <1>13, <1>19, <2>2
    <3> QED  BY <1>2, <3>1
  <2> QED  BY <2>1, <2>2
<1>24. Knows(x)'
  BY <1>6, <1>13, <1>18 DEF Knows
<1>25. Undone(x)' = Undone(x)
  BY DEF Undone
<1>26. Stage(x)'
  <2>1. CASE last
    <3>1. Undone(x) = {}
      <4>1. (h.next + 1) .. Len(h.logged) = {}
        BY <1>3, <1>14, <2>1
      <4> QED  BY <1>18, <4>1 DEF Undone
    <3>2. Rest(x) = 0
      BY <3>1, SumOfNone DEF Rest
    <3>3. Allocated(r)' = h.charged
      BY <1>13, <1>10, <1>21, <1>22, <3>2
    <3>4. \A i \in LogsOf(r)' : logs'[i].status # "pending"
      BY <1>13, <1>23, <3>1
    <3> QED  BY <1>2, <1>13, <1>18, <1>24, <2>1, <3>3, <3>4 DEF Stage, Unclaimed, Undebited
  <2>2. CASE ~last
    <3>1. x.next \in DOMAIN x.logged
      BY <1>2, <1>3, <1>14, <1>18, <2>2
    <3> QED  BY <1>2, <1>13, <1>18, <1>20, <1>22, <1>23, <1>24, <1>25, <2>2, <3>1
             DEF Stage, Unclaimed, Undebited
  <2> QED  BY <1>14, <2>1, <2>2
<1>27. UsageTypes'
  <2>1. HandlingOK(x)
    BY <1>1, <1>18 DEF HandlingOK
  <2> QED  BY <1>4, <1>5, <1>13, <1>17, <2>1, TypesMove
<1>28. AddsUp(r)'
  <2>1. ~Settled(r)' /\ reports'[r].status # "none"
    BY <1>1, <1>5 DEF Settled
  <2>2. Debited(r) <= Requested(r)
    BY <1>1 DEF AddsUp
  <2> QED  BY <1>2, <1>13, <1>22, <2>1, <2>2 DEF AddsUp
<1> QED  BY <1>1, <1>5, <1>13, <1>17, <1>26, <1>27, <1>28, RowsMove

---------------------------------------------------------------------------
(* The end, and every step *)

LEMMA RowsSettled ==
    ASSUME ChargeInv, RowsInv, TypeOK', NEW w \in Workers, Finalize(w) \/ FinalizeUnrecorded(w)
    PROVE  RowsInv'
<1>0. PICK h, r, result : h = handler[w] /\ r = h.report /\ result = ResultOf(h)
  OBVIOUS
<1>1. /\ HandlingOK(h) /\ h \in Handling /\ Stage(h) /\ r \in Reports /\ h.pc = "finalize" /\ AddsUp(r)
      /\ Past(w) /\ \A v \in Workers : v # w /\ Past(v) => handler[v].report # r
  BY <1>0, Alone DEF Finalize, FinalizeUnrecorded, Past, Unclaimed
<1>2. /\ Knows(h) /\ h.charged + h.unpaid = h.requested /\ h.requested = Requested(r)
      /\ Debited(r) = h.charged /\ Allocated(r) = h.charged
      /\ \A i \in LogsOf(r) : logs[i].status # "pending"
      /\ h.charged \in Nat /\ h.unpaid \in Nat /\ h.requested \in Nat
  BY <1>0, <1>1 DEF Stage, Unclaimed, Undebited, Knows, Handling
<1>3. UNCHANGED <<logs, dayClaims, day>> /\ ledger' = ledger /\ Goto(w, Idle)
  BY DEF Finalize, FinalizeUnrecorded, Answer, ledgerVars, outside, tables
<1>4. /\ result \in Results /\ result.charged = h.charged /\ result.unpaid = h.unpaid
  BY <1>0, <1>1, <1>2 DEF ResultOf, Results, Handling
<1>5. /\ [report |-> r, result |-> result] \in [report : Reports, result : Results]
      /\ answers' = answers \cup {[report |-> r, result |-> result]}
  BY <1>0, <1>1, <1>4 DEF Finalize, FinalizeUnrecorded, Answer
<1>6. CASE FinalizeUnrecorded(w)
  <2>1. reports' = reports
    BY <1>6 DEF FinalizeUnrecorded, tables
  <2> QED  BY <1>3, <1>5, <2>1, RowsLost
<1>7. CASE Finalize(w)
  <2>1. PICK st \in {"settled", "partially_settled"} :
          reports' = [reports EXCEPT ![r] = [status |-> st, result |-> result]]
    BY <1>0, <1>7 DEF Finalize
  <2>2. TypeOK /\ LogsOK /\ UsageTypes /\ LogsOK'
    BY <1>3 DEF RowsInv, UsageTypes, LogsOK
  <2>3. [status |-> st, result |-> result] \in [status : ReportStatuses, result : Results]
    BY <1>4 DEF ReportStatuses
  <2>4. UsageTypes'
    BY <1>1, <1>3, <1>5, <2>1, <2>2, <2>3, IdleIsFine, TypesMove
  <2>5. /\ reports'[r].status = st /\ reports'[r].result = result
        /\ \A q \in Reports : q # r => reports'[q] = reports[q]
    BY <1>1, <2>1, <2>2 DEF UsageTypes
  <2>6. \A q : Same(q) /\ Requested(q)' = Requested(q) /\ Allocated(q)' = Allocated(q)
               /\ LogsOf(q)' = LogsOf(q)
    BY <1>3 DEF Same, LogsOf, Requested, Allocated, Debited, DebitsOf
  <2>7. Debited(r)' = Debited(r)
    BY <2>6 DEF Same
  <2>8. AddsUp(r)'
    BY <1>2, <1>3, <1>4, <2>5, <2>6, <2>7 DEF AddsUp, Settled
  <2>9. Stage(Idle)'
    <3>1. PICK x : x = Idle
      OBVIOUS
    <3>2. Stage(x)'
      BY <3>1 DEF Stage, Idle, Unclaimed, Undebited
    <3> QED  BY <3>1, <3>2 DEF Stage, Idle, Unclaimed, Undebited
  <2> QED  BY <1>3, <2>4, <2>5, <2>6, <2>8, <2>9, RowsMove
<1> QED  BY <1>6, <1>7

\* What other routes do touches no row of a report and no debit of one.
LEMMA RowsOthers ==
    ASSUME ChargeInv, RowsInv, TypeOK',
           \/ \E u \in Users : NewUser(u) \/ ToggleKey(u)
           \/ \E u \in Users, a \in Amounts : MoveBalance(u, a)
           \/ Midnight
           \/ UNCHANGED vars
    PROVE  RowsInv'
<1>1. TypeOK /\ LogsOK /\ UsageTypes
  BY DEF RowsInv, UsageTypes
<1>2. UNCHANGED <<reports, dayClaims, logs, handler, answers>>
  BY DEF NewUser, ToggleKey, MoveBalance, Midnight, vars, tables
<1>3. NoRef \notin Reports
  BY LedgerAssumption, SettlementAssumption DEF LedgerAssumption, SettlementAssumption
<1>0. \A u, t, a, b, k : Row(u, t, a, b, k, NoRef).ref = NoRef
  BY DEF Row
<1>4. \/ ledger' = ledger
      \/ \E u \in Users : \E new, x : Post(u, new, x) /\ x.ref = NoRef
  <2>1. ASSUME NEW u \in Users, NewUser(u) PROVE \E new, x : Post(u, new, x) /\ x.ref = NoRef
    <3>1. SignUp(u)
      BY <2>1 DEF NewUser
    <3> QED  BY <1>0, <1>1, <3>1, SignUpPosts, LedgerAssumption
  <2>2. ASSUME NEW u \in Users, NEW a \in Amounts, MoveBalance(u, a)
        PROVE  \E new, x : Post(u, new, x) /\ x.ref = NoRef
    <3>1. a \in Nat /\ "purchase" \in TransactionTypes /\ ~KeyTaken(NoKey)
      BY LedgerAssumption DEF LedgerAssumption, TransactionTypes, KeyTaken
    <3>2. CASE AddCredits(u, a, "purchase", NoKey, NoRef)
      BY <1>0, <1>1, <3>1, <3>2, AddPosts
    <3>3. CASE DeductCredits(u, a, NoRef)
      BY <1>0, <1>1, <3>1, <3>3, DeductPosts
    <3> QED  BY <2>2, <3>2, <3>3 DEF MoveBalance
  <2>3. ASSUME (\E u \in Users : ToggleKey(u)) \/ Midnight \/ UNCHANGED vars
        PROVE  ledger' = ledger
    BY <2>3 DEF ToggleKey, Midnight, vars, ledgerVars
  <2> QED  BY <2>1, <2>2, <2>3
<1>5. \A q \in Reports : Debited(q)' = Debited(q)
  <2> TAKE q \in Reports
  <2>1. \/ ledger' = ledger
        \/ \E x \in LedgerRow : x.ref # q /\ ledger' = Append(ledger, x)
    BY <1>3, <1>4 DEF Post
  <2> QED  BY <1>1, <2>1, DebitElsewhere
<1>6. \A q \in Reports : Same(q)
  BY <1>2, <1>5 DEF Same, LogsOf
<1>7. LogsOK' /\ DOMAIN logs \subseteq DOMAIN logs'
  BY <1>1, <1>2 DEF LogsOK
<1>8. UsageTypes'
  <2>1. day' \in 1 .. MaxDay
    <3>1. day \in 1 .. MaxDay /\ MaxDay \in Nat
      BY <1>1, SettlementAssumption DEF UsageTypes, SettlementAssumption
    <3>2. day' = day \/ (day < MaxDay /\ day' = day + 1)
      BY DEF NewUser, ToggleKey, MoveBalance, Midnight, vars, outside
    <3> QED  BY <3>1, <3>2
  <2>2. \A w \in Workers : HandlingOK(handler[w])'
    BY <1>1, <1>2 DEF UsageTypes, HandlingOK
  <2> QED  BY <1>1, <1>2, <1>7, <2>1, <2>2 DEF UsageTypes
<1>9. ASSUME NEW w \in Workers PROVE Stage(handler[w])'
  <2>1. PICK h \in Handling : h = handler[w] /\ h = handler'[w] /\ HandlingOK(h)
    BY <1>1, <1>2 DEF UsageTypes
  <2>2. Stage(h) /\ (h.pc \notin Unclaimed => h.report \in Reports)
    BY <2>1 DEF RowsInv, HandlingOK, Unclaimed
  <2>3. Stage(h)'
    BY <1>1, <1>6, <1>7, <2>2, SameStage
  <2> HIDE DEF Stage
  <2> QED  BY <2>1, <2>3 DEF Stage, Knows, Undone, Rest, Fresh
<1>10. \A q \in Reports : AddsUp(q)'
  <2> TAKE q \in Reports
  <2>1. AddsUp(q) /\ reports'[q] = reports[q]
    BY <1>2 DEF RowsInv
  <2> QED  BY <1>1, <1>6, <1>7, <2>1, SameAddsUp
<1> QED  BY <1>8, <1>9, <1>10 DEF RowsInv

LEMMA UsageCalls ==
    ASSUME RowsInv, [Next]_vars
    PROVE  Called
<1>1. /\ NoKey \in Keys \cup {NoKey} /\ NoRef \in Refs \cup {NoRef} /\ "purchase" \in TransactionTypes
      /\ Amounts \subseteq Nat
  BY LedgerAssumption DEF LedgerAssumption, TransactionTypes
<1>2. ASSUME NEW w \in Workers, EnsureBalance(w) \/ DeductOk(w) PROVE Called
  <2>1. PICK h \in Handling : h = handler[w] /\ h.pc \in {"ensure", "deduct"} /\ h.report \in Reports
    BY <1>2 DEF RowsInv, UsageTypes, HandlingOK, EnsureBalance, DeductOk
  <2>2. PICK u \in Users : u = UserOf(h.report)
    BY <2>1, SettlementAssumption DEF SettlementAssumption, UserOf
  <2>3. h.report \in Refs \cup {NoRef} /\ h.charged \in Nat
    BY <2>1, SettlementAssumption DEF SettlementAssumption, Handling
  <2>4. CASE EnsureBalance(w)
    BY <2>1, <2>2, <2>4 DEF EnsureBalance, Called
  <2>5. CASE DeductOk(w)
    <3>1. DeductCredits(u, h.charged, h.report)
      BY <2>1, <2>2, <2>5 DEF DeductOk
    <3> QED  BY <2>3, <3>1 DEF Called
  <2> QED  BY <1>2, <2>4, <2>5
<1>3. ASSUME NEW w \in Workers,
             Find(w) \/ Claim(w) \/ Refind(w) \/ ReadKeys(w) \/ ReadToday(w) \/ ClaimDayFee(w)
             \/ LogItem(w) \/ GetBalance(w) \/ DeductRefused(w) \/ AllocateItem(w) \/ Finalize(w)
             \/ FinalizeUnrecorded(w) \/ Fail(w) \/ \E r \in Reports : Receive(w, r)
      PROVE  Called
  BY <1>3 DEF Find, Claim, Refind, ReadKeys, ReadToday, ClaimDayFee, LogItem, GetBalance,
              DeductRefused, AllocateItem, Finalize, FinalizeUnrecorded, Fail, Receive, Called
<1>4. ASSUME NEW u \in Users, NewUser(u) \/ ToggleKey(u) PROVE Called
  BY <1>4 DEF NewUser, ToggleKey, Called
<1>5. ASSUME NEW u \in Users, NEW a \in Amounts, MoveBalance(u, a) PROVE Called
  <2>1. AddCredits(u, a, "purchase", NoKey, NoRef) \/ DeductCredits(u, a, NoRef)
    BY <1>5 DEF MoveBalance
  <2>2. a \in Nat
    BY <1>1
  <2> QED  BY <1>1, <2>1, <2>2 DEF Called
<1>6. CASE Midnight \/ UNCHANGED vars
  BY <1>6 DEF Midnight, vars, ledgerVars, Called
<1> QED  BY <1>2, <1>3, <1>4, <1>5, <1>6 DEF Next, Handle

LEMMA RowsInitInv == Init => RowsInv
<1> SUFFICES ASSUME Init PROVE RowsInv
  OBVIOUS
<1>1. TypeOK
  BY BooksOpen DEF Init, BooksInv
<1>2. /\ logs = << >> /\ ledger = << >> /\ dayClaims = {} /\ answers = {} /\ day = 1
      /\ handler = [w \in Workers |-> Idle]
      /\ reports = [r \in Reports |-> [status |-> "none", result |-> Empty]]
  BY DEF Init, LedgerInit
<1>3. LogsOK
  BY <1>2 DEF LogsOK
<1>4. [status |-> "none", result |-> Empty] \in [status : ReportStatuses, result : Results]
  BY DEF ReportStatuses, Results, Empty
<1>5. 1 \in 1 .. MaxDay
  BY SettlementAssumption DEF SettlementAssumption
<1>6. handler \in [Workers -> Handling] /\ \A w \in Workers : HandlingOK(handler[w]) /\ Stage(handler[w])
  BY <1>2, IdleIsFine DEF HandlingOK
<1>7. UsageTypes
  BY <1>1, <1>2, <1>3, <1>4, <1>5, <1>6 DEF UsageTypes
<1>8. ASSUME NEW r \in Reports PROVE AddsUp(r)
  <2>1. LogsOf(r) = {} /\ Unpaid(r)
    BY <1>2 DEF LogsOf, Unpaid
  <2>2. Requested(r) = 0 /\ Allocated(r) = 0 /\ Debited(r) = 0
    BY <2>1, NoRowsNoSums
  <2>3. ~Settled(r)
    BY <1>2 DEF Settled
  <2> QED  BY <2>1, <2>2, <2>3 DEF AddsUp
<1> QED  BY <1>6, <1>7, <1>8 DEF RowsInv

LEMMA RowsNextInv ==
    ASSUME ChargeInv, RowsInv, BooksInv, [Next]_vars
    PROVE  RowsInv' /\ BooksInv'
<1>1. BooksInv' /\ TypeOK'
  BY UsageCalls, CallsKeepBooks DEF BooksInv
<1>2. ASSUME NEW w \in Workers, Handle(w) \/ FinalizeUnrecorded(w) \/ Fail(w) PROVE RowsInv'
  BY <1>1, <1>2, RowsComing, RowsClaim, RowsPricing, RowsLogging, RowsBalance, RowsRefused, RowsDebited,
     RowsAllocate, RowsSettled DEF Handle
<1>3. ASSUME NEW w \in Workers, NEW r \in Reports, Receive(w, r) PROVE RowsInv'
  BY <1>1, <1>3, RowsComing
<1> QED  BY <1>1, <1>2, <1>3, RowsOthers DEF Next

LEMMA RowsAddUpHolds == RowsInv => RowsAddUp
<1> SUFFICES ASSUME RowsInv PROVE RowsAddUp
  OBVIOUS
<1>1. UsageTypes /\ TypeOK /\ LogsOK /\ \A r \in Reports : AddsUp(r)
  BY DEF RowsInv, UsageTypes
<1>2. \A i \in DOMAIN logs : /\ logs[i].report \in Reports /\ logs[i].status \in ItemStatuses
                            /\ logs[i].charged <= logs[i].requested
  BY <1>1, RowsAre DEF LogRow
<1>3. \A w \in Workers : handler[w].remaining \in Nat /\ handler[w].unpaid \in Nat
  BY <1>1 DEF UsageTypes, Handling
<1>4. UsageTypeOK
  BY <1>1, <1>2, <1>3 DEF UsageTypes, UsageTypeOK
<1> QED  BY <1>1, <1>4 DEF RowsAddUp, AddsUp, Settled

\* The settlement keeps the books: the ledger explains every balance, and a balance is
\* what was given and bought less what was used, wherever a handler is lost between two of
\* its calls (get_balance, deduct_credits, and what other routes do meanwhile).
THEOREM SettlementKeepsBooks == Spec => [](AuditTrail /\ Conservation)
<1>1. Init => RowsInv /\ BooksInv
  BY RowsInitInv, BooksOpen DEF Init
<1>2. ChargeInv /\ RowsInv /\ BooksInv /\ [Next]_vars => RowsInv' /\ BooksInv'
  BY RowsNextInv
<1>3. BooksInv => AuditTrail /\ Conservation
  BY DEF BooksInv, ConservationInv
<1> QED  BY <1>1, <1>2, <1>3, ChargeInitInv, ChargeNextInv, PTL DEF Spec

\* No row is marked charged beyond what the ledger took, and the ledger took no more than
\* was logged; of a settled report shares and debit are the same number, debit and rest are
\* what was requested, and no row is left pending: for any number of rows and any prices
\* (process_usage_report, update_usage_settlement, _finalize_usage_report).
THEOREM RowsAlwaysAddUp == Spec => []RowsAddUp
<1>1. Init => RowsInv /\ BooksInv
  BY RowsInitInv, BooksOpen DEF Init
<1>2. ChargeInv /\ RowsInv /\ BooksInv /\ [Next]_vars => RowsInv' /\ BooksInv'
  BY RowsNextInv
<1> QED  BY <1>1, <1>2, RowsAddUpHolds, ChargeInitInv, ChargeNextInv, PTL DEF Spec

-----------------------------------------------------------------------------
(* Reconciliation: its invariant *)

Statuses == {"none", "pending", "completed", "failed", "partial"}

LinesOf(i) == {l \in lines : l.import = i}

LineOK(l) ==
    /\ l.import \in Imports /\ l.n \in DOMAIN Export[l.import] /\ l.provider = Provider[l.import]
    /\ l.created \in 1..stamp /\ l.raw \in Nat \union {Null} /\ l.est \in Nat \union {Null}

RunFields    == {"status", "totals", "findings"}
RunnerFields == {"pc", "ask", "got", "own", "offset", "read", "report", "saw", "owed", "since", "till"}

ReconTypes ==
    /\ imports \in [Imports -> [status : Statuses, count : Nat]]
    /\ importer \in [Imports -> [pc : {"idle", "pull", "details", "insert", "finish", "failed", "lost", "done"},
                                 pulled : SUBSET Nat, refused : SUBSET Nat, offset : Nat]]
    /\ IsFiniteSet(lines) /\ \A l \in lines : LineOK(l)
    /\ written \in 0..Len(UsageRows) /\ stamp \in Nat /\ failures \in 0..MaxFailures
    /\ DOMAIN runs = Runs /\ DOMAIN runner = Runs
    /\ \A r \in Runs : /\ DOMAIN runs[r] = RunFields /\ DOMAIN runner[r] = RunnerFields
                       /\ runs[r].status \in Statuses \ {"partial"}

\* An import and its lines: none before the insert, and all of them from then on
ImportInv(i) ==
    LET m == importer[i] IN
    /\ m.pulled \subseteq DOMAIN Export[i] /\ imports[i].count <= Len(Export[i])
    /\ m.pc \in {"idle", "pull", "details", "insert"} => LinesOf(i) = {}
    /\ m.pc \notin {"failed", "done"} => imports[i].status # "completed"
    /\ m.pc = "finish" => Cardinality(LinesOf(i)) = Cardinality(m.pulled)
    /\ imports[i].status = "completed" => imports[i].count = Cardinality(LinesOf(i))

\* A table only gains rows, and newer ones
Grew(seen, rows) ==
    /\ seen \subseteq rows
    /\ \A x \in rows \ seen : \A y \in seen : y.created < x.created

Tieless(rows) == \A a, b \in rows : a.created = b.created => a = b

\* What paging has fetched so far: every row that was there and is above the offset now
Fetched(f, offset, seen, rows) ==
    /\ DOMAIN f = 1..offset /\ offset <= Cardinality(rows)
    /\ Tieless(seen) => \A x \in seen : Cardinality(Newer(rows, x)) < offset => x \in Range(f)

\* With no row inserted meanwhile, or together with another, every row is fetched at its place
InOrder(f, rows) ==
    \A k \in DOMAIN f : f[k] \in rows /\ Cardinality(Newer(rows, f[k])) = k - 1

Paging(r, f, seen, rows) ==
    /\ Fetched(f, runner[r].offset, seen, rows)
    /\ stamp = runner[r].since /\ Tieless(seen) => InOrder(f, rows)

Watched(r, seen, rows) == Grew(seen, rows) /\ (stamp = runner[r].since => seen = rows)

\* `f` is `rows`, each at one place
Lists(f, rows) ==
    /\ IsFiniteSet(DOMAIN f) /\ Range(f) = rows
    /\ \A j, k \in DOMAIN f : f[j] = f[k] => j = k

\* What QuietReportIsTrue says, of any report
Flagged(findings, invoiced, logged) ==
    \A l \in invoiced : \A s \in Candidates(l) :
        LET mine == {x \in logged : x.session = s}
            type == IF mine = {} THEN "unmatched_provider_line" ELSE "negative_margin_session"
        IN Candidates(l) = {s} /\ Money(mine, BilledCost) < ProviderCost(l) =>
             \E f \in findings : f.type = type /\ f.provider = l.provider /\ f.about \in {s, {s}}

Truth(totals, findings, invoiced, logged) ==
    /\ DOMAIN totals = {x.provider : x \in invoiced \union logged}
    /\ \A p \in DOMAIN totals :
          LET got == {l \in invoiced : l.provider = p}
              own == {x \in logged : x.provider = p}
          IN /\ totals[p].imported = Money(got, ProviderCost)
             /\ totals[p].internal = Money(own, InternalCost)
             /\ totals[p].margin = Money(own, BilledCost) - Money(got, ProviderCost)
    /\ Flagged(findings, invoiced, logged)

\* How far a run has come with the rows
Fetching(r) ==
    LET w == runner[r] IN
    /\ w.pc \in {"lines", "logs"} => /\ Watched(r, w.saw, AskedLines(w.ask))
                                     /\ Watched(r, w.owed, AskedLogs(w.ask))
    /\ w.pc = "lines" => Paging(r, w.got, w.saw, AskedLines(w.ask)) /\ w.own = << >>
    /\ w.pc = "logs" => Paging(r, w.own, w.owed, AskedLogs(w.ask))
    /\ w.pc = "logs" /\ Untied(r) => /\ SawLines(r) \subseteq Range(w.got)
                                     /\ stamp = w.since => Lists(w.got, SawLines(r))

\* ... and with its report
Reporting(r) ==
    LET w == runner[r] IN
    /\ w.pc \in {"idle", "lines", "logs"} => ~w.read
    /\ w.pc \in {"clear", "store", "finish"} => w.read
    /\ w.read /\ Untied(r) => /\ SawLines(r) \subseteq Range(w.got)
                              /\ SawLogs(r) \subseteq Range(w.own)
    /\ w.read /\ Untied(r) /\ Quiet(r) =>
          Truth(w.report.totals, w.report.findings, SawLines(r), SawLogs(r))
    /\ w.pc = "finish" => runs[r].findings = w.report.findings
    /\ w.pc \notin {"failed", "done"} => runs[r].status # "completed"
    /\ runs[r].status = "completed" => /\ w.read
                                       /\ runs[r].totals = w.report.totals
                                       /\ runs[r].findings = w.report.findings

RunInv(r) ==
    /\ runner[r].pc \in {"idle", "lines", "logs", "clear", "store", "finish", "failed", "lost", "done"}
    /\ runner[r].offset \in Nat /\ runner[r].since \in Nat /\ runner[r].since <= stamp
    /\ Fetching(r) /\ Reporting(r)

ReconInv ==
    /\ ReconTypes
    /\ \A i \in Imports : ImportInv(i)
    /\ \A r \in Runs : RunInv(r)

-----------------------------------------------------------------------------
(* Pages *)

\* The smaller of two numbers
LEMMA TheSmaller ==
    ASSUME NEW a \in Int, NEW b \in Int
    PROVE  Min({a, b}) = IF a <= b THEN a ELSE b
<1>1. \E m \in {a, b} : \A k \in {a, b} : m <= k
  <2>1. CASE a <= b
    BY <2>1
  <2>2. CASE ~(a <= b)
    BY <2>2
  <2> QED  BY <2>1, <2>2
<1>2. Min({a, b}) \in {a, b} /\ \A k \in {a, b} : Min({a, b}) <= k
  BY <1>1 DEF Min
<1> QED  BY <1>2

\* What a page has: the places after the offset, up to the last row there is
LEMMA PageIs ==
    ASSUME NEW rows, IsFiniteSet(rows), NEW offset \in Nat, offset <= Cardinality(rows),
           NEW page \in Pages(rows, offset), ReconciliationAssumption
    PROVE  /\ Full(page) => DOMAIN page = (offset + 1)..(offset + BatchSize)
                            /\ offset + BatchSize <= Cardinality(rows)
           /\ ~Full(page) => DOMAIN page = (offset + 1)..Cardinality(rows)
                             /\ Cardinality(rows) < offset + BatchSize
           /\ \A k \in DOMAIN page : /\ page[k] \in rows
                                     /\ Cardinality(Newer(rows, page[k])) < k
                                     /\ k <= Cardinality(NotOlder(rows, page[k]))
<1> DEFINE C == Cardinality(rows)
           top == Min({offset + BatchSize, C})
<1>1. BatchSize \in Nat \ {0} /\ C \in Nat
  BY FS_CardinalityType DEF ReconciliationAssumption
<1>2. top = IF offset + BatchSize <= C THEN offset + BatchSize ELSE C
  <2>1. offset + BatchSize \in Int /\ C \in Int
    BY <1>1
  <2> HIDE DEF C
  <2> QED  BY <2>1, TheSmaller
<1>3. /\ page \in [(offset + 1)..top -> rows]
      /\ \A k \in (offset + 1)..top : /\ Cardinality(Newer(rows, page[k])) < k
                                      /\ k <= Cardinality(NotOlder(rows, page[k]))
  BY DEF Pages, ByPlace
<1>4. DOMAIN page = (offset + 1)..top /\ \A k \in (offset + 1)..top : page[k] \in rows
  BY <1>3
<1> HIDE DEF top, C
<1>5. top \in Nat /\ offset <= top
  BY <1>1, <1>2 DEF C
<1>6. Cardinality((offset + 1)..top) = top - offset
  <2>1. \A a, b \in Int : Cardinality(a..b) = IF a > b THEN 0 ELSE b - a + 1
    BY FS_Interval
  <2>2. offset + 1 \in Int /\ top \in Int
    BY <1>5
  <2>3. Cardinality((offset + 1)..top) = IF offset + 1 > top THEN 0 ELSE top - (offset + 1) + 1
    BY <2>1, <2>2
  <2> QED  BY <1>5, <2>3
<1>7. Cardinality(DOMAIN page) = top - offset
  BY <1>4, <1>6
<1>8. Full(page) <=> top = offset + BatchSize
  BY <1>1, <1>5, <1>7 DEF Full
<1> QED  BY <1>1, <1>2, <1>3, <1>4, <1>8 DEF C

\* The rows newer than a row, and those not older
LEMMA NewerAre ==
    ASSUME NEW rows, IsFiniteSet(rows), NEW x
    PROVE  /\ Newer(rows, x) \subseteq rows /\ NotOlder(rows, x) \subseteq rows
           /\ IsFiniteSet(Newer(rows, x)) /\ Cardinality(Newer(rows, x)) \in Nat
           /\ IsFiniteSet(NotOlder(rows, x)) /\ Cardinality(NotOlder(rows, x)) \in Nat
<1>1. Newer(rows, x) \subseteq rows /\ NotOlder(rows, x) \subseteq rows
  BY DEF Newer, NotOlder
<1> QED  BY <1>1, FS_Subset, FS_CardinalityType

Dated(rows) == \A x \in rows : x.created \in Nat

\* A row that shares its time with none is at one place
LEMMA OnePlace ==
    ASSUME NEW rows, IsFiniteSet(rows), Dated(rows), NEW x \in rows,
           \A y \in rows : y.created = x.created => y = x
    PROVE  /\ Cardinality(NotOlder(rows, x)) = Cardinality(Newer(rows, x)) + 1
           /\ Cardinality(Newer(rows, x)) + 1 <= Cardinality(rows)
<1>1. NotOlder(rows, x) = Newer(rows, x) \cup {x} /\ x \notin Newer(rows, x)
  BY DEF NotOlder, Newer, Dated
<1>2. Cardinality(Newer(rows, x) \cup {x}) = Cardinality(Newer(rows, x)) + 1
  BY <1>1, NewerAre, FS_AddElement
<1>3. Cardinality(NotOlder(rows, x)) <= Cardinality(rows)
  BY NewerAre, FS_Subset
<1> QED  BY <1>1, <1>2, <1>3

\* ... and no other row is there.
LEMMA AtThatPlace ==
    ASSUME NEW rows, IsFiniteSet(rows), Dated(rows), NEW x \in rows, NEW y \in rows,
           \A z \in rows : z.created = x.created => z = x,
           Cardinality(Newer(rows, y)) <= Cardinality(Newer(rows, x)),
           Cardinality(Newer(rows, x)) < Cardinality(NotOlder(rows, y))
    PROVE  y = x
<1>1. x.created \in Nat /\ y.created \in Nat
  BY DEF Dated
<1>2. SUFFICES ASSUME y # x PROVE FALSE
  OBVIOUS
<1>3. CASE y.created > x.created
  <2>1. NotOlder(rows, y) \subseteq Newer(rows, x)
    BY <1>1, <1>3 DEF NotOlder, Newer, Dated
  <2>2. Cardinality(NotOlder(rows, y)) <= Cardinality(Newer(rows, x))
    BY <2>1, NewerAre, FS_Subset
  <2> QED  BY <2>2, NewerAre
<1>4. CASE y.created < x.created
  <2>1. NotOlder(rows, x) \subseteq Newer(rows, y)
    BY <1>1, <1>4 DEF NotOlder, Newer, Dated
  <2>2. Cardinality(NotOlder(rows, x)) <= Cardinality(Newer(rows, y))
    BY <2>1, NewerAre, FS_Subset
  <2> QED  BY <2>2, NewerAre, OnePlace
<1> QED  BY <1>1, <1>2, <1>3, <1>4

\* Rows that came later do not share a time with one that was there
LEMMA StillAlone ==
    ASSUME NEW seen, NEW rows, Grew(seen, rows), Dated(rows), Tieless(seen), NEW x \in seen
    PROVE  x \in rows /\ \A y \in rows : y.created = x.created => y = x
BY DEF Grew, Dated, Tieless

\* Each of a page's rows is the one of its place
LEMMA PageHas ==
    ASSUME NEW rows, IsFiniteSet(rows), Dated(rows), NEW offset \in Nat, offset <= Cardinality(rows),
           NEW page \in Pages(rows, offset), ReconciliationAssumption,
           NEW x \in rows, \A y \in rows : y.created = x.created => y = x,
           offset <= Cardinality(Newer(rows, x)),
           Full(page) => Cardinality(Newer(rows, x)) < offset + BatchSize
    PROVE  x \in Range(page)
<1> DEFINE k == Cardinality(Newer(rows, x)) + 1
<1>1. /\ Cardinality(Newer(rows, x)) \in Nat /\ k <= Cardinality(rows) /\ k \in Nat
      /\ BatchSize \in Nat /\ Cardinality(rows) \in Nat
  BY NewerAre, OnePlace, FS_CardinalityType DEF ReconciliationAssumption
<1>2. k \in DOMAIN page
  BY <1>1, PageIs
<1>3. /\ page[k] \in rows /\ Cardinality(Newer(rows, page[k])) < k
      /\ k <= Cardinality(NotOlder(rows, page[k]))
  BY <1>2, PageIs
<1>4. Cardinality(Newer(rows, page[k])) \in Nat /\ Cardinality(NotOlder(rows, page[k])) \in Nat
  BY NewerAre
<1>5. page[k] = x
  BY <1>1, <1>3, <1>4, AtThatPlace
<1> QED  BY <1>2, <1>5 DEF Range

LEMMA Extended ==
    ASSUME NEW f, NEW page, NEW offset \in Nat, NEW top \in Nat, offset <= top,
           DOMAIN f = 1..offset, DOMAIN page = (offset + 1)..top
    PROVE  /\ DOMAIN Extend(f, page) = 1..top
           /\ \A k \in 1..offset : Extend(f, page)[k] = f[k]
           /\ \A k \in (offset + 1)..top : Extend(f, page)[k] = page[k]
           /\ Range(f) \subseteq Range(Extend(f, page)) /\ Range(page) \subseteq Range(Extend(f, page))
<1> DEFINE all == Extend(f, page)
<1>1. 1..top = DOMAIN f \cup DOMAIN page /\ \A k \in DOMAIN page : k \notin DOMAIN f
  OBVIOUS
<1>2. /\ DOMAIN all = 1..top
      /\ \A k \in DOMAIN f : all[k] = f[k]
      /\ \A k \in DOMAIN page : all[k] = page[k]
  BY <1>1 DEF Extend
<1>3. DOMAIN f \subseteq DOMAIN all /\ DOMAIN page \subseteq DOMAIN all
  BY <1>1, <1>2
<1> HIDE DEF all
<1>4. Range(f) \subseteq Range(all) /\ Range(page) \subseteq Range(all)
  BY <1>2, <1>3 DEF Range
<1> QED  BY <1>2, <1>4 DEF all

\* A page more: what is above the offset is fetched, and all of it once the page is not full.
LEMMA PageFetched ==
    ASSUME NEW rows, IsFiniteSet(rows), Dated(rows), NEW seen, Grew(seen, rows),
           NEW offset \in Nat, NEW f, Fetched(f, offset, seen, rows),
           NEW page \in Pages(rows, offset), ReconciliationAssumption
    PROVE  /\ Full(page) => Fetched(Extend(f, page), offset + BatchSize, seen, rows)
           /\ ~Full(page) => /\ DOMAIN Extend(f, page) = 1..Cardinality(rows)
                             /\ Tieless(seen) => seen \subseteq Range(Extend(f, page))
<1> DEFINE all == Extend(f, page)
           C == Cardinality(rows)
           top == IF Full(page) THEN offset + BatchSize ELSE C
<1>1. DOMAIN f = 1..offset /\ offset <= C /\ C \in Nat /\ BatchSize \in Nat
  BY FS_CardinalityType DEF Fetched, ReconciliationAssumption
<1>2. top \in Nat /\ offset <= top /\ DOMAIN page = (offset + 1)..top /\ top <= C
  BY <1>1, PageIs
<1>3. DOMAIN all = 1..top /\ Range(f) \subseteq Range(all) /\ Range(page) \subseteq Range(all)
  BY <1>1, <1>2, Extended
<1>4. ASSUME Tieless(seen), NEW x \in seen, Full(page) => Cardinality(Newer(rows, x)) < offset + BatchSize
      PROVE  x \in Range(all)
  <2>1. x \in rows /\ \A y \in rows : y.created = x.created => y = x
    BY <1>4, StillAlone
  <2>2. Cardinality(Newer(rows, x)) \in Nat
    BY NewerAre
  <2>3. CASE Cardinality(Newer(rows, x)) < offset
    BY <1>3, <1>4, <2>3 DEF Fetched
  <2>4. CASE offset <= Cardinality(Newer(rows, x))
    BY <1>1, <1>3, <1>4, <2>1, <2>4, PageHas
  <2> QED  BY <2>2, <2>3, <2>4
<1> HIDE DEF all
<1>5. CASE Full(page)
  BY <1>2, <1>3, <1>4, <1>5 DEF Fetched, all
<1>6. CASE ~Full(page)
  BY <1>2, <1>3, <1>4, <1>6 DEF all
<1> QED  BY <1>5, <1>6

\* While nothing else is inserted each row is at its place
LEMMA PageInOrder ==
    ASSUME NEW rows, IsFiniteSet(rows), Dated(rows), Tieless(rows),
           NEW offset \in Nat, offset <= Cardinality(rows), NEW f, DOMAIN f = 1..offset,
           InOrder(f, rows), NEW page \in Pages(rows, offset), ReconciliationAssumption
    PROVE  InOrder(Extend(f, page), rows)
<1> DEFINE all == Extend(f, page)
           top == IF Full(page) THEN offset + BatchSize ELSE Cardinality(rows)
<1>1. top \in Nat /\ offset <= top /\ DOMAIN page = (offset + 1)..top
  BY PageIs, FS_CardinalityType DEF ReconciliationAssumption
<1>2. /\ DOMAIN all = 1..top
      /\ \A k \in 1..offset : all[k] = f[k]
      /\ \A k \in (offset + 1)..top : all[k] = page[k]
  BY <1>1, Extended
<1>3. \A k \in 1..offset : f[k] \in rows /\ Cardinality(Newer(rows, f[k])) = k - 1
  BY DEF InOrder
<1>4. ASSUME NEW k \in (offset + 1)..top
      PROVE  page[k] \in rows /\ Cardinality(Newer(rows, page[k])) = k - 1
  <2>1. /\ page[k] \in rows /\ Cardinality(Newer(rows, page[k])) < k
        /\ k <= Cardinality(NotOlder(rows, page[k]))
    BY <1>1, PageIs
  <2>2. Cardinality(NotOlder(rows, page[k])) = Cardinality(Newer(rows, page[k])) + 1
    BY <2>1, OnePlace DEF Tieless
  <2>3. Cardinality(Newer(rows, page[k])) \in Nat
    BY NewerAre
  <2>4. k \in Int
    OBVIOUS
  <2> QED  BY <2>1, <2>2, <2>3, <2>4
<1> HIDE DEF all, top
<1>5. \A k \in 1..top : k \in 1..offset \/ k \in (offset + 1)..top
  BY <1>1
<1>6. InOrder(all, rows)
  BY <1>2, <1>3, <1>4, <1>5 DEF InOrder
<1> QED  BY <1>6 DEF all

\* All the rows in order: each is at one place.
LEMMA InOrderLists ==
    ASSUME NEW rows, NEW f, NEW n \in Nat, DOMAIN f = 1..n, InOrder(f, rows),
           rows \subseteq Range(f)
    PROVE  Lists(f, rows)
<1>1. IsFiniteSet(DOMAIN f)
  BY FS_Interval
<1>2. Range(f) = rows
  BY DEF InOrder, Range
<1>3. \A j, k \in DOMAIN f : f[j] = f[k] => j = k
  <2> TAKE j, k \in DOMAIN f
  <2> HAVE f[j] = f[k]
  <2>1. j - 1 = k - 1 /\ j \in Int /\ k \in Int
    BY DEF InOrder
  <2> QED  BY <2>1
<1> QED  BY <1>1, <1>2, <1>3 DEF Lists

\* Filtering what was fetched
LEMMA Filtered ==
    ASSUME NEW f, NEW K \in SUBSET DOMAIN f
    PROVE  /\ DOMAIN Restrict(f, K) = K
           /\ \A k \in K : Restrict(f, K)[k] = f[k]
           /\ Range(Restrict(f, K)) = {f[k] : k \in K}
BY DEF Restrict, Range

LEMMA FilteredLists ==
    ASSUME NEW f, NEW rows, Lists(f, rows), NEW K \in SUBSET DOMAIN f
    PROVE  Lists(Restrict(f, K), {f[k] : k \in K})
<1>1. IsFiniteSet(K)
  BY FS_Subset DEF Lists
<1> QED  BY <1>1, Filtered DEF Lists

-----------------------------------------------------------------------------
(* What a run reports *)

\* The sum of what was fetched is that of the rows, each being at one place.
LEMMA SumByPlace ==
    ASSUME NEW f, IsFiniteSet(DOMAIN f), \A j, k \in DOMAIN f : f[j] = f[k] => j = k,
           NEW g, NEW h, \A k \in DOMAIN f : g[k] \in Int /\ h[f[k]] = g[k]
    PROVE  SumFunctionOnSet(g, DOMAIN f) = SumFunctionOnSet(h, Range(f))
<1> DEFINE D == DOMAIN f
           Im(T) == {f[k] : k \in T}
           P == {T \in SUBSET D : SumFunctionOnSet(g, T) # SumFunctionOnSet(h, Im(T))}
<1>1. Im(D) = Range(f)
  BY DEF Range
<1>2. SUFFICES ASSUME P # {} PROVE FALSE
  BY <1>1
<1>3. \A T \in P : IsFiniteSet(T)
  BY FS_Subset
<1>4. PICK T \in P : \A U \in P : Cardinality(T) <= Cardinality(U)
  BY <1>2, <1>3, LeastSet
<1> DEFINE c == One(T)
<1>5. T # {}
  <2>1. SUFFICES ASSUME T = {} PROVE FALSE
    OBVIOUS
  <2>2. Im(T) = {}
    BY <2>1
  <2> QED  BY <1>4, <2>1, <2>2, SumOfNone
<1>6. c \in T /\ SumFunctionOnSet(g, T) = g[c] + SumFunctionOnSet(g, T \ {c})
  BY <1>3, <1>5, SumTakesOne
<1>7. T \ {c} \notin P /\ T \ {c} \in SUBSET D
  BY <1>3, <1>4, <1>6, OneLess
<1> HIDE DEF c
<1>8. Im(T) \ {f[c]} = Im(T \ {c}) /\ f[c] \in Im(T)
  BY <1>6
<1>9. IsFiniteSet(Im(T))
  <2>1. [k \in T |-> f[k]] \in Surjection(T, Im(T))
    BY DEF Surjection
  <2> HIDE DEF Im
  <2> QED  BY <1>3, <2>1, FS_Surjection
<1>10. \A x \in Im(T) : h[x] \in Int
  OBVIOUS
<1> HIDE DEF Im
<1>11. SumFunctionOnSet(h, Im(T)) = h[f[c]] + SumFunctionOnSet(h, Im(T) \ {f[c]})
  BY <1>8, <1>9, <1>10, SumTakesAny
<1>12. SumFunctionOnSet(g, T \ {c}) = SumFunctionOnSet(h, Im(T \ {c}))
  BY <1>7
<1>13. h[f[c]] = g[c]
  BY <1>6
<1> QED  BY <1>4, <1>6, <1>8, <1>11, <1>12, <1>13

\* What was paid for the rows fetched is what was paid for the rows: by the provider's line,
LEMMA TotalPaid ==
    ASSUME NEW f, NEW rows, Lists(f, rows), \A x \in rows : ProviderCost(x) \in Int
    PROVE  Total(f, ProviderCost) = Money(rows, ProviderCost)
<1> DEFINE g == [k \in DOMAIN f |-> ProviderCost(f[k])]
           h == [x \in rows |-> ProviderCost(x)]
<1>1. \A k \in DOMAIN f : f[k] \in rows
  BY DEF Lists, Range
<1>2. \A k \in DOMAIN f : g[k] \in Int /\ h[f[k]] = g[k]
  BY <1>1
<1> HIDE DEF g, h
<1>3. SumFunctionOnSet(g, DOMAIN f) = SumFunctionOnSet(h, rows)
  BY <1>2, SumByPlace DEF Lists
<1> QED  BY <1>3 DEF Total, Money, g, h

\* by our own pricing,
LEMMA TotalInternal ==
    ASSUME NEW f, NEW rows, Lists(f, rows), \A x \in rows : InternalCost(x) \in Int
    PROVE  Total(f, InternalCost) = Money(rows, InternalCost)
<1> DEFINE g == [k \in DOMAIN f |-> InternalCost(f[k])]
           h == [x \in rows |-> InternalCost(x)]
<1>1. \A k \in DOMAIN f : f[k] \in rows
  BY DEF Lists, Range
<1>2. \A k \in DOMAIN f : g[k] \in Int /\ h[f[k]] = g[k]
  BY <1>1
<1> HIDE DEF g, h
<1>3. SumFunctionOnSet(g, DOMAIN f) = SumFunctionOnSet(h, rows)
  BY <1>2, SumByPlace DEF Lists
<1> QED  BY <1>3 DEF Total, Money, g, h

\* and by what was billed.
LEMMA TotalBilled ==
    ASSUME NEW f, NEW rows, Lists(f, rows), \A x \in rows : BilledCost(x) \in Int
    PROVE  Total(f, BilledCost) = Money(rows, BilledCost)
<1> DEFINE g == [k \in DOMAIN f |-> BilledCost(f[k])]
           h == [x \in rows |-> BilledCost(x)]
<1>1. \A k \in DOMAIN f : f[k] \in rows
  BY DEF Lists, Range
<1>2. \A k \in DOMAIN f : g[k] \in Int /\ h[f[k]] = g[k]
  BY <1>1
<1> HIDE DEF g, h
<1>3. SumFunctionOnSet(g, DOMAIN f) = SumFunctionOnSet(h, rows)
  BY <1>2, SumByPlace DEF Lists
<1> QED  BY <1>3 DEF Total, Money, g, h

LEMMA ListsOfProvider ==
    ASSUME NEW f, NEW rows, Lists(f, rows), NEW p
    PROVE  Lists(OfProvider(f, p), {x \in rows : x.provider = p})
<1> DEFINE K == {k \in DOMAIN f : f[k].provider = p}
<1>1. {f[k] : k \in K} = {x \in rows : x.provider = p}
  BY DEF Lists, Range
<1> QED  BY <1>1, FilteredLists DEF OfProvider

\* Lines and rows whose amounts are numbers
AmountsOK(invoiced, logged) ==
    /\ \A l \in invoiced : ProviderCost(l) \in Int
    /\ \A x \in logged : InternalCost(x) \in Int /\ BilledCost(x) \in Int

LEMMA TotalsAreTrue ==
    ASSUME NEW got, NEW own, NEW byRef, NEW invoiced, NEW logged, Lists(got, invoiced),
           Lists(own, logged), AmountsOK(invoiced, logged)
    PROVE  LET totals == Report(got, own, byRef).totals IN
           /\ DOMAIN totals = {x.provider : x \in invoiced \union logged}
           /\ \A p \in DOMAIN totals :
                LET ours   == {l \in invoiced : l.provider = p}
                    theirs == {x \in logged : x.provider = p}
                IN /\ totals[p].imported = Money(ours, ProviderCost)
                   /\ totals[p].internal = Money(theirs, InternalCost)
                   /\ totals[p].margin = Money(theirs, BilledCost) - Money(ours, ProviderCost)
<1> DEFINE totals == Report(got, own, byRef).totals
<1>1. totals = Compared(got, own)
  BY DEF Report
<1>2. Range(got) = invoiced /\ Range(own) = logged
  BY DEF Lists
<1>3. /\ DOMAIN totals = {x.provider : x \in invoiced \union logged}
      /\ \A p \in DOMAIN totals : totals[p] = ComparedFor(p, got, own)
  BY <1>1, <1>2 DEF Compared
<1>4. ASSUME NEW p
      PROVE  LET ours   == {l \in invoiced : l.provider = p}
                 theirs == {x \in logged : x.provider = p}
             IN /\ ComparedFor(p, got, own).imported = Money(ours, ProviderCost)
                /\ ComparedFor(p, got, own).internal = Money(theirs, InternalCost)
                /\ ComparedFor(p, got, own).margin = Money(theirs, BilledCost) - Money(ours, ProviderCost)
  <2> DEFINE ours   == {l \in invoiced : l.provider = p}
             theirs == {x \in logged : x.provider = p}
  <2>1. Lists(OfProvider(got, p), ours) /\ Lists(OfProvider(own, p), theirs)
    BY ListsOfProvider
  <2>2. /\ \A l \in ours : ProviderCost(l) \in Int
        /\ \A x \in theirs : InternalCost(x) \in Int
        /\ \A x \in theirs : BilledCost(x) \in Int
    BY DEF AmountsOK
  <2> HIDE DEF ours, theirs
  <2>3. Total(OfProvider(got, p), ProviderCost) = Money(ours, ProviderCost)
    BY <2>1, <2>2, TotalPaid
  <2>4. Total(OfProvider(own, p), InternalCost) = Money(theirs, InternalCost)
    BY <2>1, <2>2, TotalInternal
  <2>5. Total(OfProvider(own, p), BilledCost) = Money(theirs, BilledCost)
    BY <2>1, <2>2, TotalBilled
  <2>6. /\ ComparedFor(p, got, own).imported = Money(ours, ProviderCost)
        /\ ComparedFor(p, got, own).internal = Money(theirs, InternalCost)
        /\ ComparedFor(p, got, own).margin = Money(theirs, BilledCost) - Money(ours, ProviderCost)
    BY <2>3, <2>4, <2>5 DEF ComparedFor
  <2> QED  BY <2>6 DEF ours, theirs
<1> HIDE DEF totals
<1>5. \A p \in DOMAIN totals :
                LET ours   == {l \in invoiced : l.provider = p}
                    theirs == {x \in logged : x.provider = p}
                IN /\ totals[p].imported = Money(ours, ProviderCost)
                   /\ totals[p].internal = Money(theirs, InternalCost)
                   /\ totals[p].margin = Money(theirs, BilledCost) - Money(ours, ProviderCost)
  <2> TAKE p \in DOMAIN totals
  <2>1. totals[p] = ComparedFor(p, got, own)
    BY <1>3
  <2> QED  BY <2>1, <1>4
<1> QED  BY <1>3, <1>5 DEF totals

LEMMA LossesAreFlagged ==
    ASSUME NEW got, NEW own, NEW byRef, NEW invoiced, NEW logged, Lists(got, invoiced),
           Lists(own, logged), AmountsOK(invoiced, logged)
    PROVE  Flagged(Report(got, own, byRef).findings, invoiced, logged)
<1>1. SUFFICES ASSUME NEW l \in invoiced, NEW s \in Candidates(l), Candidates(l) = {s},
                      Money({x \in logged : x.session = s}, BilledCost) < ProviderCost(l)
               PROVE  LET mine == {x \in logged : x.session = s}
                          type == IF mine = {} THEN "unmatched_provider_line"
                                  ELSE "negative_margin_session"
                      IN \E f \in Report(got, own, byRef).findings :
                            f.type = type /\ f.provider = l.provider /\ f.about \in {s, {s}}
  BY DEF Flagged
<1> DEFINE mine  == {x \in logged : x.session = s}
           match == MatchOf(l, own, byRef)
           found == LineFinding(l, own, match)
<1>2. Range(got) = invoiced /\ Range(own) = logged
  BY DEF Lists
<1>3. found \subseteq Report(got, own, byRef).findings
  BY <1>2 DEF Report
<1>4. s # Null
  BY DEF Candidates
<1>5. CASE mine = {}
  <2>1. Matches(l, own) = {}
    BY <1>1, <1>2, <1>5 DEF Matches, Known
  <2>2. match = Null
    BY <2>1 DEF MatchOf
  <2>3. found = {Finding("unmatched_provider_line", "warning", l.provider, {s})}
    BY <1>1, <2>2 DEF LineFinding
  <2> DEFINE f == Finding("unmatched_provider_line", "warning", l.provider, {s})
  <2>4. f.type = "unmatched_provider_line" /\ f.provider = l.provider /\ f.about = {s}
    BY DEF Finding
  <2> HIDE DEF f, found
  <2>5. f \in Report(got, own, byRef).findings
    BY <1>3, <2>3 DEF f
  <2> QED  BY <1>5, <2>4, <2>5
<1>6. CASE mine # {}
  <2>1. Matches(l, own) = {s}
    BY <1>1, <1>2, <1>6 DEF Matches, Known
  <2>2. match = s
    <3>1. Cardinality({s}) = 1
      BY FS_Singleton
    <3>2. (CHOOSE m \in {s} : TRUE) = s
      OBVIOUS
    <3> QED  BY <2>1, <3>1, <3>2 DEF MatchOf
  <2>3. SessionBilled(own, s) = Money(mine, BilledCost)
    <3> DEFINE K == {k \in DOMAIN own : own[k].session = s}
    <3>1. {own[k] : k \in K} = mine
      BY <1>2 DEF Range
    <3>2. Lists(Restrict(own, K), mine)
      BY <3>1, FilteredLists
    <3>3. \A x \in mine : BilledCost(x) \in Int
      BY DEF AmountsOK
    <3> QED  BY <3>2, <3>3, TotalBilled DEF SessionBilled
  <2>4. found = {Finding("negative_margin_session", "critical", l.provider, s)}
    BY <1>1, <1>4, <2>2, <2>3 DEF LineFinding
  <2> DEFINE f == Finding("negative_margin_session", "critical", l.provider, s)
  <2>5. f.type = "negative_margin_session" /\ f.provider = l.provider /\ f.about = s
    BY DEF Finding
  <2> HIDE DEF f, found
  <2>6. f \in Report(got, own, byRef).findings
    BY <1>3, <2>4 DEF f
  <2> QED  BY <1>6, <2>5, <2>6
<1> QED  BY <1>5, <1>6

\* A report of all the rows, each once, is true, whichever session an ambiguous line is given.
LEMMA ReportIsTruth ==
    ASSUME NEW got, NEW own, NEW byRef, NEW invoiced, NEW logged, Lists(got, invoiced),
           Lists(own, logged), AmountsOK(invoiced, logged)
    PROVE  Truth(Report(got, own, byRef).totals, Report(got, own, byRef).findings, invoiced, logged)
BY TotalsAreTrue, LossesAreFlagged DEF Truth

-----------------------------------------------------------------------------
(* Imports *)

\* A statement inserts rows that are all newer than those there are
TablesGrow ==
    /\ lines \subseteq lines' /\ \A l \in lines' \ lines : l.created = stamp + 1
    /\ written' \in {written, written + 1}
    /\ \/ stamp' = stamp /\ lines' = lines /\ written' = written
       \/ stamp' = stamp + 1

\* The table of lines, after a step of import i
LinesKept(i) ==
    /\ IsFiniteSet(lines') /\ stamp' \in Nat /\ \A l \in lines' : LineOK(l)'
    /\ \A j \in Imports \ {i} : LinesOf(j)' = LinesOf(j)

LEMMA UpTo ==
    ASSUME NEW n \in Nat
    PROVE  IsFiniteSet(1..n) /\ Cardinality(1..n) = n
<1>1. \A a, b \in Int : IsFiniteSet(a..b) /\ Cardinality(a..b) = IF a > b THEN 0 ELSE b - a + 1
  BY FS_Interval
<1>2. IsFiniteSet(1..n) /\ Cardinality(1..n) = IF 1 > n THEN 0 ELSE n - 1 + 1
  BY <1>1
<1> QED  BY <1>2

\* What is pulled is part of what the provider reports
LEMMA PulledIsFinite ==
    ASSUME ReconciliationAssumption, NEW i \in Imports, NEW P \in SUBSET DOMAIN Export[i]
    PROVE  IsFiniteSet(P) /\ Cardinality(P) \in 0..Len(Export[i]) /\ P \in SUBSET Nat
<1>1. DOMAIN Export[i] = 1..Len(Export[i]) /\ Len(Export[i]) \in Nat
  BY DEF ReconciliationAssumption
<1>2. IsFiniteSet(1..Len(Export[i])) /\ Cardinality(1..Len(Export[i])) = Len(Export[i])
  BY <1>1, UpTo
<1>3. IsFiniteSet(P) /\ Cardinality(P) <= Len(Export[i]) /\ Cardinality(P) \in Nat
  <2>1. IsFiniteSet(P) /\ Cardinality(P) <= Cardinality(1..Len(Export[i]))
    BY <1>1, <1>2, FS_Subset
  <2> QED  BY <1>2, <2>1, FS_CardinalityType
<1> QED  BY <1>1, <1>3

\* The rows of an import are one for each line pulled.
LEMMA LineRowsAre ==
    ASSUME ReconciliationAssumption, NEW i \in Imports, importer[i].pulled \subseteq DOMAIN Export[i]
    PROVE  /\ IsFiniteSet(LineRows(i))
           /\ Cardinality(LineRows(i)) = Cardinality(importer[i].pulled)
           /\ importer[i].pulled = {} => LineRows(i) = {}
           /\ \A l \in LineRows(i) :
                /\ l.import = i /\ l.n \in DOMAIN Export[i] /\ l.provider = Provider[i]
                /\ l.created = stamp + 1
                /\ l.raw \in Nat \union {Null} /\ l.est \in Nat \union {Null}
<1> DEFINE P == importer[i].pulled
           f == [k \in P |-> LineRow(i, k)]
<1>1. /\ DOMAIN Export[i] = 1..Len(Export[i]) /\ Len(Export[i]) \in Nat
      /\ \A k \in DOMAIN Export[i] : /\ Export[i][k].raw \in Nat \union {Null}
                                     /\ Export[i][k].est \in Nat \union {Null}
                                     /\ Export[i][k].brief \in Nat \union {Null}
  BY DEF ReconciliationAssumption
<1>2. IsFiniteSet(P)
  BY PulledIsFinite
<1>3. \A k \in P : /\ LineRow(i, k).n = k /\ LineRow(i, k).import = i
                   /\ LineRow(i, k).provider = Provider[i] /\ LineRow(i, k).created = stamp + 1
                   /\ LineRow(i, k).raw = Export[i][k].raw
                   /\ LineRow(i, k).est \in {Export[i][k].est, Export[i][k].brief}
  BY DEF LineRow
<1>4. f \in Bijection(P, LineRows(i))
  <2>1. \A j, k \in P : f[j] = f[k] => j = k
    BY <1>3
  <2>2. f \in [P -> LineRows(i)] /\ \A l \in LineRows(i) : \E k \in P : f[k] = l
    BY DEF LineRows
  <2>3. DOMAIN f = P
    OBVIOUS
  <2> HIDE DEF f, P
  <2> QED  BY <2>1, <2>2, <2>3 DEF Bijection, Injection, Surjection, IsInjective
<1>5. IsFiniteSet(LineRows(i)) /\ Cardinality(LineRows(i)) = Cardinality(P)
  <2>1. ExistsBijection(P, LineRows(i))
    BY <1>4 DEF ExistsBijection
  <2> QED  BY <1>2, <2>1, FS_Bijection
<1>6. P = {} => LineRows(i) = {}
  BY DEF LineRows
<1>7. \A l \in LineRows(i) : \E k \in P : l = LineRow(i, k)
  BY DEF LineRows
<1>8. \A k \in P : k \in DOMAIN Export[i]
  OBVIOUS
<1> HIDE DEF P, f
<1>9. \A l \in LineRows(i) :
                /\ l.import = i /\ l.n \in DOMAIN Export[i] /\ l.provider = Provider[i]
                /\ l.created = stamp + 1
                /\ l.raw \in Nat \union {Null} /\ l.est \in Nat \union {Null}
  <2> TAKE l \in LineRows(i)
  <2>1. PICK k \in P : l = LineRow(i, k)
    BY <1>7
  <2> QED  BY <1>1, <1>3, <1>8, <2>1
<1> QED  BY <1>5, <1>6, <1>9 DEF P

LEMMA MoreLines ==
    ASSUME ReconciliationAssumption, ReconTypes, NEW i \in Imports,
           importer[i].pulled \subseteq DOMAIN Export[i], WriteLines(i), written' = written
    PROVE  /\ LinesKept(i)
           /\ LinesOf(i)' = LinesOf(i) \cup LineRows(i)
           /\ TablesGrow
<1>1. lines' = lines \cup LineRows(i) /\ stamp' = IF importer[i].pulled = {} THEN stamp ELSE stamp + 1
  BY DEF WriteLines
<1>2. stamp \in Nat /\ IsFiniteSet(lines) /\ \A l \in lines : LineOK(l)
  BY DEF ReconTypes
<1>3. IsFiniteSet(lines') /\ stamp' \in Nat
  <2>1. IsFiniteSet(LineRows(i)) /\ IsFiniteSet(lines)
    BY <1>2, LineRowsAre
  <2>2. IsFiniteSet(lines \cup LineRows(i))
    BY <2>1, FS_Union
  <2> QED  BY <1>1, <1>2, <2>2
<1>4. \A l \in lines' : LineOK(l)'
  <2> TAKE l \in lines'
  <2>1. CASE l \in lines
    BY <1>1, <1>2, <2>1 DEF LineOK
  <2>2. CASE l \in LineRows(i)
    BY <1>1, <1>2, <2>2, LineRowsAre DEF LineOK
  <2> QED  BY <1>1, <2>1, <2>2
<1>5. /\ \A j \in Imports \ {i} : LinesOf(j)' = LinesOf(j)
      /\ LinesOf(i)' = LinesOf(i) \cup LineRows(i)
  BY <1>1, LineRowsAre DEF LinesOf
<1>6. TablesGrow
  BY <1>1, <1>2, LineRowsAre DEF TablesGrow
<1> QED  BY <1>3, <1>4, <1>5, <1>6 DEF LinesKept

LEMMA SameLines ==
    ASSUME ReconTypes, UNCHANGED <<lines, stamp>>
    PROVE  \A i \in Imports : LinesKept(i) /\ LinesOf(i)' = LinesOf(i)
BY DEF ReconTypes, LineOK, LinesOf, LinesKept

\* One import's step leaves the others alone
LEMMA OtherImport ==
    ASSUME NEW j, ImportInv(j), importer'[j] = importer[j], imports'[j] = imports[j],
           LinesOf(j)' = LinesOf(j)
    PROVE  ImportInv(j)'
BY DEF ImportInv

Importers == [pc : {"idle", "pull", "details", "insert", "finish", "failed", "lost", "done"},
              pulled : SUBSET Nat, refused : SUBSET Nat, offset : Nat]
ImportRecords == [status : Statuses, count : Nat]

\* What an import step has to show
LEMMA ImportKeeps ==
    ASSUME ReconTypes, \A j \in Imports : ImportInv(j), NEW i \in Imports,
           importer' \in [Imports -> Importers], imports' \in [Imports -> ImportRecords],
           \A j \in Imports \ {i} : importer'[j] = importer[j] /\ imports'[j] = imports[j],
           LinesKept(i), UNCHANGED <<written, runs, runner>>, failures' \in 0..MaxFailures,
           ImportInv(i)'
    PROVE  ReconTypes' /\ \A j \in Imports : ImportInv(j)'
<1>1. ReconTypes'
  BY DEF ReconTypes, LinesKept, Importers, ImportRecords
<1>2. \A j \in Imports \ {i} : ImportInv(j)'
  BY OtherImport DEF LinesKept
<1> QED  BY <1>1, <1>2

\* ... where its handler goes on to m, and its record is b
LEMMA ImportMoves ==
    ASSUME ReconTypes, \A j \in Imports : ImportInv(j), NEW i \in Imports,
           NEW m \in Importers, importer' = [importer EXCEPT ![i] = m],
           NEW b \in ImportRecords, imports' = [imports EXCEPT ![i] = b],
           LinesKept(i), UNCHANGED <<written, runs, runner>>, failures' \in 0..MaxFailures,
           m.pulled \subseteq DOMAIN Export[i], b.count <= Len(Export[i]),
           m.pc \in {"idle", "pull", "details", "insert"} => LinesOf(i)' = {},
           m.pc \notin {"failed", "done"} => b.status # "completed",
           m.pc = "finish" => Cardinality(LinesOf(i)') = Cardinality(m.pulled),
           b.status = "completed" => b.count = Cardinality(LinesOf(i)')
    PROVE  ReconTypes' /\ \A j \in Imports : ImportInv(j)'
<1>1. /\ importer'[i] = m /\ imports'[i] = b
      /\ \A j \in Imports \ {i} : importer'[j] = importer[j] /\ imports'[j] = imports[j]
      /\ importer' \in [Imports -> Importers] /\ imports' \in [Imports -> ImportRecords]
  BY DEF ReconTypes, Importers, ImportRecords
<1>2. ImportInv(i)'
  BY <1>1 DEF ImportInv
<1> QED  BY <1>1, <1>2, ImportKeeps

Unfinished == {"idle", "pull", "details", "insert"}

\* Every step of an import keeps the types, all imports, and only adds rows
LEMMA ImportStepKeeps ==
    ASSUME ReconciliationAssumption, ReconTypes, \A j \in Imports : ImportInv(j),
           NEW i \in Imports, ImportStep(i)
    PROVE  /\ ReconTypes' /\ \A j \in Imports : ImportInv(j)'
           /\ TablesGrow /\ UNCHANGED <<runs, runner>>
<1> DEFINE P == importer[i].pulled
<1>1. /\ importer[i] \in Importers /\ imports[i] \in ImportRecords /\ failures \in 0..MaxFailures
      /\ imports = [imports EXCEPT ![i] = imports[i]]
      /\ PullSize \in Nat /\ MaxFailures \in Nat
      /\ importer \in [Imports -> Importers] /\ imports \in [Imports -> ImportRecords]
  BY DEF ReconTypes, ReconciliationAssumption, Importers, ImportRecords
<1>2. /\ P \subseteq DOMAIN Export[i] /\ imports[i].count <= Len(Export[i])
      /\ importer[i].pc \in Unfinished => LinesOf(i) = {}
      /\ importer[i].pc \notin {"failed", "done"} => imports[i].status # "completed"
      /\ importer[i].pc = "finish" => Cardinality(LinesOf(i)) = Cardinality(P)
      /\ imports[i].status = "completed" => imports[i].count = Cardinality(LinesOf(i))
  BY DEF ImportInv, Unfinished
<1>3. DOMAIN Export[i] \in SUBSET Nat /\ DOMAIN Export[i] = 1..Len(Export[i]) /\ Len(Export[i]) \in Nat
  BY DEF ReconciliationAssumption
<1>4. Cardinality(P) \in 0..Len(Export[i])
  BY <1>2, PulledIsFinite
<1>5. UNCHANGED <<lines, written, stamp>> => TablesGrow
  BY DEF TablesGrow
<1>6. /\ NoImporter \in Importers
      /\ \A pc \in {"idle", "pull", "details", "insert", "finish", "failed", "lost", "done"} :
            LET m == [NoImporter EXCEPT !.pc = pc] IN m \in Importers /\ m.pc = pc /\ m.pulled = {}
  BY DEF NoImporter, Importers
<1>7. CASE CreateImport(i) /\ UNCHANGED failures
  <2> DEFINE m == IF Mode[i] = "manual" THEN [NoImporter EXCEPT !.pc = "insert", !.pulled = DOMAIN Export[i]]
                                        ELSE [NoImporter EXCEPT !.pc = "pull"]
             b == [imports[i] EXCEPT !.status = "pending"]
  <2>1. /\ importer[i].pc = "idle" /\ importer' = [importer EXCEPT ![i] = m]
        /\ imports' = [imports EXCEPT ![i] = b]
        /\ UNCHANGED <<lines, written, runs, runner, stamp, failures>>
    BY <1>1, <1>7 DEF CreateImport, NewImport
  <2>2. /\ m \in Importers /\ m.pc \in {"pull", "insert"} /\ m.pulled \subseteq DOMAIN Export[i]
        /\ b \in ImportRecords /\ b.status = "pending" /\ b.count = imports[i].count
    BY <1>1, <1>3 DEF NoImporter, Statuses, Importers, ImportRecords
  <2> HIDE DEF m, b
  <2>3. LinesKept(i) /\ LinesOf(i)' = LinesOf(i)
    BY <2>1, SameLines
  <2>4. LinesOf(i)' = {}
    BY <1>2, <2>1, <2>3 DEF Unfinished
  <2>5. ReconTypes' /\ \A j \in Imports : ImportInv(j)'
    BY <1>1, <1>2, <2>1, <2>2, <2>3, <2>4, ImportMoves
  <2> QED  BY <1>5, <2>1, <2>5
<1>15. CASE CreateImport(i) /\ ~UNCHANGED failures
  <2> DEFINE m == [NoImporter EXCEPT !.pc = "lost"]
  <2>1. /\ importer[i].pc = "idle" /\ importer' = [importer EXCEPT ![i] = m]
        /\ failures' \in 0..MaxFailures
        /\ NewImport(i) \/ UNCHANGED imports
        /\ UNCHANGED <<lines, written, runs, runner, stamp>>
    BY <1>1, <1>15 DEF CreateImport, Leave
  <2>2. m \in Importers /\ m.pc = "lost" /\ m.pulled = {}
    BY <1>6
  <2>3. PICK b \in ImportRecords : /\ imports' = [imports EXCEPT ![i] = b]
                                   /\ b.status # "completed" /\ b.count = imports[i].count
    <3>1. CASE UNCHANGED imports
      <4>1. imports[i].status # "completed"
        BY <1>2, <2>1
      <4> QED  BY <1>1, <3>1, <4>1
    <3>2. CASE NewImport(i)
      <4> DEFINE c == [imports[i] EXCEPT !.status = "pending"]
      <4>1. c \in ImportRecords /\ c.status = "pending" /\ c.count = imports[i].count
        BY <1>1 DEF Statuses, ImportRecords
      <4>2. imports' = [imports EXCEPT ![i] = c]
        BY <1>1, <3>2 DEF NewImport
      <4> HIDE DEF c
      <4> QED  BY <4>1, <4>2
    <3> QED  BY <2>1, <3>1, <3>2
  <2> HIDE DEF m
  <2>4. LinesKept(i) /\ LinesOf(i)' = LinesOf(i)
    BY <2>1, SameLines
  <2>5. ReconTypes' /\ \A j \in Imports : ImportInv(j)'
    <3>1. m.pulled \subseteq DOMAIN Export[i]
      BY <2>2
    <3>2. b.count <= Len(Export[i])
      BY <1>2, <2>3
    <3>3. m.pc \notin {"idle", "pull", "details", "insert"} /\ m.pc # "finish" /\ b.status # "completed"
      BY <2>2, <2>3
    <3>4. importer' = [importer EXCEPT ![i] = m] /\ imports' = [imports EXCEPT ![i] = b]
      BY <2>1, <2>3
    <3>5. UNCHANGED <<written, runs, runner>> /\ failures' \in 0..MaxFailures
      BY <2>1
    <3> QED  BY <2>2, <2>4, <3>1, <3>3, <3>4, <3>5, <3>2, ImportMoves
  <2> QED  BY <1>5, <2>1, <2>5
<1>8. CASE PullPage(i)
  <2>1. /\ importer[i].pc = "pull"
        /\ UNCHANGED <<imports, lines, written, runs, runner, stamp, failures>>
    BY <1>8 DEF PullPage, reconTables
  <2>2. Kept(i) \subseteq DOMAIN Export[i]
    <3> DEFINE o == importer[i].offset
    <3>1. o \in Nat
      BY <1>1 DEF Importers
    <3>2. Min({o + PullSize, Len(Export[i])}) <= Len(Export[i]) /\ Min({o + PullSize, Len(Export[i])}) \in Int
      <4> HIDE DEF o
      <4>1. o + PullSize \in Int /\ Len(Export[i]) \in Int
        BY <1>1, <1>3, <3>1
      <4>2. Min({o + PullSize, Len(Export[i])})
              = IF o + PullSize <= Len(Export[i]) THEN o + PullSize ELSE Len(Export[i])
        BY <4>1, TheSmaller
      <4> QED  BY <4>1, <4>2
    <3>3. Answered(i) \subseteq DOMAIN Export[i]
      BY <1>3, <3>1, <3>2 DEF Answered
    <3> QED  BY <3>3 DEF Kept
  <2>3. /\ importer' \in [Imports -> Importers]
        /\ \A j \in Imports \ {i} : importer'[j] = importer[j]
        /\ importer'[i].pc \in {"pull", "details", "insert"}
        /\ importer'[i].pulled = P \union Kept(i)
    <3>1. /\ P \union Kept(i) \in SUBSET Nat /\ importer[i].offset + PullSize \in Nat
      BY <1>1, <1>2, <1>3, <2>2 DEF Importers
    <3> HIDE DEF P
    <3>2. /\ importer' = [importer EXCEPT
                 ![i].pulled = P \union Kept(i), ![i].offset = importer[i].offset + PullSize,
                 ![i].pc = IF ~LastPage(i) THEN "pull"
                           ELSE IF Provider[i] = "livekit" THEN "details" ELSE "insert"]
      BY <1>1, <1>8 DEF PullPage, P, Importers
    <3> QED  BY <1>1, <3>1, <3>2 DEF Importers
  <2>4. LinesKept(i) /\ LinesOf(i)' = LinesOf(i)
    BY <2>1, SameLines
  <2>5. ImportInv(i)'
    BY <1>2, <2>1, <2>2, <2>3, <2>4 DEF ImportInv, Unfinished
  <2>6. ReconTypes' /\ \A j \in Imports : ImportInv(j)'
    BY <1>1, <2>1, <2>3, <2>4, <2>5, ImportKeeps
  <2> QED  BY <1>5, <2>1, <2>6
<1>9. CASE PullDetails(i)
  <2>1. PICK refused \in SUBSET P :
        /\ failures + Cardinality(refused) <= MaxFailures
        /\ failures' = failures + Cardinality(refused)
        /\ importer' = [importer EXCEPT ![i].pc = "insert", ![i].refused = refused]
    BY <1>9 DEF PullDetails
  <2>2. /\ importer[i].pc = "details"
        /\ UNCHANGED <<imports, lines, written, runs, runner, stamp>>
    BY <1>9 DEF PullDetails, reconTables
  <2>3. /\ importer' \in [Imports -> Importers]
        /\ \A j \in Imports \ {i} : importer'[j] = importer[j]
        /\ importer'[i].pc = "insert" /\ importer'[i].pulled = P
    BY <1>1, <1>2, <1>3, <2>1 DEF Importers
  <2>4. failures' \in 0..MaxFailures
    <3>1. Cardinality(refused) \in Nat
      BY <1>2, PulledIsFinite
    <3> QED  BY <1>1, <2>1, <3>1
  <2>5. LinesKept(i) /\ LinesOf(i)' = LinesOf(i)
    BY <2>2, SameLines
  <2>6. ImportInv(i)'
    BY <1>2, <2>2, <2>3, <2>5 DEF ImportInv, Unfinished
  <2>7. ReconTypes' /\ \A j \in Imports : ImportInv(j)'
    BY <1>1, <2>2, <2>3, <2>4, <2>5, <2>6, ImportKeeps
  <2> QED  BY <1>5, <2>2, <2>7
<1>10. CASE InsertLines(i)
  <2>1. /\ importer[i].pc = "insert" /\ importer' = [importer EXCEPT ![i].pc = "finish"]
        /\ WriteLines(i) /\ UNCHANGED <<imports, written, runs, runner, failures>>
    BY <1>10 DEF InsertLines, At
  <2>2. /\ importer' \in [Imports -> Importers]
        /\ \A j \in Imports \ {i} : importer'[j] = importer[j]
        /\ importer'[i].pc = "finish" /\ importer'[i].pulled = P
    BY <1>1, <2>1 DEF Importers
  <2>3. LinesKept(i) /\ LinesOf(i)' = LinesOf(i) \cup LineRows(i) /\ TablesGrow
    BY <1>2, <2>1, MoreLines
  <2>4. Cardinality(LinesOf(i)') = Cardinality(P)
    <3>1. LinesOf(i)' = LineRows(i)
      BY <1>2, <2>1, <2>3 DEF Unfinished
    <3> QED  BY <1>2, <3>1, LineRowsAre
  <2>5. ImportInv(i)'
    BY <1>2, <2>1, <2>2, <2>4 DEF ImportInv
  <2>6. ReconTypes' /\ \A j \in Imports : ImportInv(j)'
    BY <1>1, <2>1, <2>2, <2>3, <2>5, ImportKeeps
  <2> QED  BY <2>1, <2>3, <2>6
<1> DEFINE b == [status |-> ImportOutcome(i), count |-> Cardinality(P)]
<1>11. b \in ImportRecords /\ b.count <= Len(Export[i]) /\ b.count = Cardinality(P)
  BY <1>4 DEF ImportOutcome, Statuses, ImportRecords
<1>12. CASE FinishImport(i)
  <2> DEFINE m == [NoImporter EXCEPT !.pc = "done"]
  <2>1. /\ importer[i].pc = "finish" /\ importer' = [importer EXCEPT ![i] = m]
        /\ imports' = [imports EXCEPT ![i] = b]
        /\ UNCHANGED <<lines, written, runs, runner, stamp, failures>>
    BY <1>12 DEF FinishImport, Leave, RecordImport
  <2>2. m \in Importers /\ m.pc = "done" /\ m.pulled = {}
    BY <1>6
  <2> HIDE DEF m, b
  <2>3. LinesKept(i) /\ LinesOf(i)' = LinesOf(i)
    BY <2>1, SameLines
  <2>4. b.count = Cardinality(LinesOf(i)')
    BY <1>2, <1>11, <2>1, <2>3
  <2>5. ReconTypes' /\ \A j \in Imports : ImportInv(j)'
    BY <1>1, <1>11, <2>1, <2>2, <2>3, <2>4, ImportMoves
  <2> QED  BY <1>5, <2>1, <2>5
<1>13. CASE ImportFails(i)
  <2> DEFINE m == [NoImporter EXCEPT !.pc = "failed"]
  <2>1. /\ failures' \in 0..MaxFailures /\ importer[i].pc \in {"pull", "insert", "finish"}
        /\ importer' = [importer EXCEPT ![i] = m]
        /\ UNCHANGED <<written, runs, runner>>
    BY <1>1, <1>13 DEF ImportFails, Leave
  <2>2. m \in Importers /\ m.pc = "failed" /\ m.pulled = {}
    BY <1>6
  <2>3. imports[i].status # "completed"
    BY <1>2, <2>1
  <2> HIDE DEF m, b
  <2>4. CASE UNCHANGED <<imports, lines, stamp>>
    <3>1. LinesKept(i) /\ LinesOf(i)' = LinesOf(i)
      BY <2>4, SameLines
    <3>2. imports' = [imports EXCEPT ![i] = imports[i]]
      BY <1>1, <2>4
    <3>3. ReconTypes' /\ \A j \in Imports : ImportInv(j)'
      BY <1>1, <1>2, <2>1, <2>2, <2>3, <3>1, <3>2, ImportMoves
    <3> QED  BY <1>5, <2>1, <2>4, <3>3
  <2>5. CASE WriteLines(i) /\ UNCHANGED imports
    <3>1. /\ LinesKept(i)
          /\ TablesGrow
      BY <1>2, <2>1, <2>5, MoreLines
    <3>2. imports' = [imports EXCEPT ![i] = imports[i]]
      BY <1>1, <2>5
    <3>3. ReconTypes' /\ \A j \in Imports : ImportInv(j)'
      BY <1>1, <1>2, <2>1, <2>2, <2>3, <3>1, <3>2, ImportMoves
    <3> QED  BY <2>1, <3>1, <3>3
  <2>6. CASE importer[i].pc = "finish" /\ RecordImport(i) /\ UNCHANGED <<lines, stamp>>
    <3>1. LinesKept(i) /\ LinesOf(i)' = LinesOf(i)
      BY <2>6, SameLines
    <3>2. imports' = [imports EXCEPT ![i] = b]
      BY <2>6 DEF RecordImport, b
    <3>3. b.count = Cardinality(LinesOf(i)')
      BY <1>2, <1>11, <2>6, <3>1
    <3>4. ReconTypes' /\ \A j \in Imports : ImportInv(j)'
      BY <1>11, <2>1, <2>2, <3>1, <3>2, <3>3, ImportMoves
    <3> QED  BY <1>5, <2>1, <2>6, <3>4
  <2> QED  BY <1>13, <2>4, <2>5, <2>6 DEF ImportFails
<1>14. CASE MarkImportFailed(i)
  <2>1. /\ importer' = [importer EXCEPT ![i].pc = "done"]
        /\ UNCHANGED <<lines, written, runs, runner, stamp>>
    BY <1>14 DEF MarkImportFailed, At
  <2>2. /\ importer' \in [Imports -> Importers]
        /\ \A j \in Imports \ {i} : importer'[j] = importer[j]
        /\ importer'[i].pc = "done" /\ importer'[i].pulled = P
    BY <1>1, <2>1 DEF Importers
  <2>3. LinesKept(i) /\ LinesOf(i)' = LinesOf(i)
    BY <2>1, SameLines
  <2>4. /\ imports' \in [Imports -> ImportRecords] /\ failures' \in 0..MaxFailures
        /\ \A j \in Imports \ {i} : imports'[j] = imports[j]
        /\ imports'[i] = imports[i] \/ imports'[i] = [status |-> "failed", count |-> 0]
    <3>1. [status |-> "failed", count |-> 0] \in ImportRecords
      BY DEF ImportRecords, Statuses
    <3>2. CASE imports' = [imports EXCEPT ![i] = [status |-> "failed", count |-> 0]] /\ UNCHANGED failures
      BY <1>1, <3>1, <3>2
    <3>3. CASE failures < MaxFailures /\ failures' = failures + 1 /\ UNCHANGED imports
      BY <1>1, <3>3
    <3> QED  BY <1>14, <3>2, <3>3 DEF MarkImportFailed
  <2>5. ImportInv(i)'
    BY <1>2, <1>3, <2>2, <2>3, <2>4 DEF ImportInv
  <2>6. ReconTypes' /\ \A j \in Imports : ImportInv(j)'
    BY <2>1, <2>2, <2>3, <2>4, <2>5, ImportKeeps
  <2> QED  BY <1>5, <2>1, <2>6
<1> QED  BY <1>7, <1>8, <1>9, <1>10, <1>12, <1>13, <1>14, <1>15 DEF ImportStep

-----------------------------------------------------------------------------
(* Runs *)

\* The usage rows written so far are finitely many
LEMMA FirstRows ==
    ASSUME NEW n \in Nat
    PROVE  IsFiniteSet({UsageRows[k] : k \in 1..n})
<1> DEFINE L == {UsageRows[k] : k \in 1..n}
<1>1. [k \in 1..n |-> UsageRows[k]] \in Surjection(1..n, L)
  BY DEF Surjection
<1>2. IsFiniteSet(1..n)
  BY UpTo
<1> HIDE DEF L
<1>3. IsFiniteSet(L)
  BY <1>1, <1>2, FS_Surjection
<1> QED  BY <1>3 DEF L

\* What a query returns
LEMMA AskedAre ==
    ASSUME ReconciliationAssumption, ReconTypes, NEW ask
    PROVE  /\ IsFiniteSet(AskedLines(ask)) /\ Dated(AskedLines(ask))
           /\ \A l \in AskedLines(ask) : LineOK(l) /\ l.created <= stamp
           /\ IsFiniteSet(AskedLogs(ask)) /\ Dated(AskedLogs(ask)) /\ Tieless(AskedLogs(ask))
           /\ \A x \in AskedLogs(ask) : x.created \in 1..written /\ x = UsageRows[x.created]
<1>1. AskedLines(ask) \subseteq lines /\ IsFiniteSet(lines) /\ \A l \in lines : LineOK(l)
  BY DEF AskedLines, ReconTypes
<1>2. IsFiniteSet(AskedLines(ask))
  BY <1>1, FS_Subset
<1>3. \A l \in lines : l.created \in Nat /\ l.created <= stamp
  BY <1>1 DEF LineOK, ReconTypes
<1>4. /\ written \in Nat /\ 1..written \subseteq DOMAIN UsageRows
      /\ \A k \in DOMAIN UsageRows : UsageRows[k].created = k
  BY DEF ReconTypes, ReconciliationAssumption
<1>5. \A x \in AskedLogs(ask) : x.created \in 1..written /\ x = UsageRows[x.created]
  BY <1>4 DEF AskedLogs
<1>6. IsFiniteSet(AskedLogs(ask))
  <2>1. AskedLogs(ask) \subseteq {UsageRows[k] : k \in 1..written}
    BY DEF AskedLogs
  <2> QED  BY <1>4, <2>1, FirstRows, FS_Subset
<1>7. Dated(AskedLogs(ask)) /\ Tieless(AskedLogs(ask))
  BY <1>4, <1>5 DEF Dated, Tieless
<1> QED  BY <1>1, <1>2, <1>3, <1>5, <1>6, <1>7 DEF Dated

\* Rows inserted meanwhile only push those that were there further down.
LEMMA FetchedStill ==
    ASSUME NEW seen, NEW rows, NEW more, IsFiniteSet(more), rows \subseteq more,
           NEW f, NEW offset \in Nat, Fetched(f, offset, seen, rows)
    PROVE  Fetched(f, offset, seen, more)
<1>1. IsFiniteSet(rows) /\ Cardinality(rows) <= Cardinality(more)
  BY FS_Subset
<1>2. Cardinality(rows) \in Nat /\ Cardinality(more) \in Nat
  BY <1>1, FS_CardinalityType
<1>3. \A x : Cardinality(Newer(rows, x)) <= Cardinality(Newer(more, x))
  <2> TAKE x
  <2>1. Newer(rows, x) \subseteq Newer(more, x)
    BY DEF Newer
  <2> QED  BY <2>1, NewerAre, FS_Subset
<1>4. \A x : Cardinality(Newer(rows, x)) \in Nat /\ Cardinality(Newer(more, x)) \in Nat
  BY <1>1, NewerAre
<1> QED  BY <1>1, <1>2, <1>3, <1>4 DEF Fetched

LEMMA GrewStill ==
    ASSUME NEW seen, NEW rows, NEW more, Grew(seen, rows), rows \subseteq more,
           \A x \in more \ rows : \A y \in seen : y.created < x.created
    PROVE  Grew(seen, more)
BY DEF Grew

\* What an insert does to what a query returns
LEMMA AskedGrow ==
    ASSUME ReconciliationAssumption, ReconTypes, ReconTypes', TablesGrow, NEW ask
    PROVE  /\ AskedLines(ask) \subseteq AskedLines(ask)'
           /\ \A x \in AskedLines(ask)' \ AskedLines(ask) : \A y \in AskedLines(ask) : y.created < x.created
           /\ AskedLogs(ask) \subseteq AskedLogs(ask)'
           /\ \A x \in AskedLogs(ask)' \ AskedLogs(ask) : \A y \in AskedLogs(ask) : y.created < x.created
           /\ stamp <= stamp' /\ stamp \in Nat /\ stamp' \in Nat
           /\ stamp' = stamp => AskedLines(ask)' = AskedLines(ask) /\ AskedLogs(ask)' = AskedLogs(ask)
           /\ IsFiniteSet(AskedLines(ask)') /\ IsFiniteSet(AskedLogs(ask)')
<1>1. stamp \in Nat /\ stamp' \in Nat /\ stamp <= stamp' /\ written \in Nat
  BY DEF ReconTypes, TablesGrow
<1>2. AskedLines(ask) \subseteq AskedLines(ask)'
  BY DEF AskedLines, TablesGrow
<1>3. \A x \in AskedLines(ask)' \ AskedLines(ask) : \A y \in AskedLines(ask) : y.created < x.created
  <2>1. \A x \in AskedLines(ask)' \ AskedLines(ask) : x.created = stamp + 1
    BY DEF AskedLines, TablesGrow
  <2>2. \A y \in AskedLines(ask) : y.created <= stamp /\ y.created \in Nat
    BY AskedAre DEF Dated
  <2> QED  BY <1>1, <2>1, <2>2
<1>4. AskedLogs(ask) \subseteq AskedLogs(ask)'
  BY <1>1 DEF AskedLogs, TablesGrow
<1>5. \A x \in AskedLogs(ask)' \ AskedLogs(ask) : \A y \in AskedLogs(ask) : y.created < x.created
  <2>1. \A x \in AskedLogs(ask)' \ AskedLogs(ask) : x.created = written + 1
    <3> TAKE x \in AskedLogs(ask)' \ AskedLogs(ask)
    <3>1. PICK k \in 1..written' : x = UsageRows[k]
      BY DEF AskedLogs
    <3>2. k \notin 1..written
      BY <3>1 DEF AskedLogs
    <3>3. k = written + 1
      BY <1>1, <3>2 DEF TablesGrow
    <3>4. written' \in 0..Len(UsageRows) /\ Len(UsageRows) \in Nat
      BY DEF ReconTypes, ReconciliationAssumption
    <3>5. k \in DOMAIN UsageRows
      BY <3>4 DEF ReconciliationAssumption
    <3> QED  BY <3>1, <3>3, <3>5 DEF ReconciliationAssumption
  <2>2. \A y \in AskedLogs(ask) : y.created <= written /\ y.created \in Nat
    BY <1>1, AskedAre
  <2> QED  BY <1>1, <2>1, <2>2
<1>6. stamp' = stamp => AskedLines(ask)' = AskedLines(ask) /\ AskedLogs(ask)' = AskedLogs(ask)
  BY <1>1 DEF AskedLines, AskedLogs, TablesGrow
<1>7. IsFiniteSet(AskedLines(ask)') /\ IsFiniteSet(AskedLogs(ask)')
  <2>1. AskedLines(ask)' \subseteq lines' /\ IsFiniteSet(lines') /\ written' \in Nat
    BY DEF AskedLines, ReconTypes
  <2>2. AskedLogs(ask)' \subseteq {UsageRows[k] : k \in 1..written'}
    BY DEF AskedLogs
  <2>3. IsFiniteSet({UsageRows[k] : k \in 1..written'})
    BY <2>1, FirstRows
  <2> QED  BY <2>1, <2>2, <2>3, FS_Subset
<1> QED  BY <1>1, <1>2, <1>3, <1>4, <1>5, <1>6, <1>7

\* What is inserted while a run reads it does not disturb what it has read.
LEMMA RunUndisturbed ==
    ASSUME ReconciliationAssumption, ReconTypes, ReconTypes', TablesGrow, NEW r \in Runs, RunInv(r),
           runner'[r] = runner[r], runs'[r] = runs[r]
    PROVE  RunInv(r)'
<1>1. /\ runner[r].pc \in {"idle", "lines", "logs", "clear", "store", "finish", "failed", "lost", "done"}
      /\ runner[r].offset \in Nat /\ runner[r].since \in Nat /\ runner[r].since <= stamp
      /\ Fetching(r) /\ Reporting(r)
  BY DEF RunInv
<1>2. PICK w : w = runner[r]
  OBVIOUS
<1>3. PICK ask : ask = w.ask
  OBVIOUS
<1>4. /\ AskedLines(ask) \subseteq AskedLines(ask)'
      /\ \A x \in AskedLines(ask)' \ AskedLines(ask) : \A y \in AskedLines(ask) : y.created < x.created
      /\ AskedLogs(ask) \subseteq AskedLogs(ask)'
      /\ \A x \in AskedLogs(ask)' \ AskedLogs(ask) : \A y \in AskedLogs(ask) : y.created < x.created
      /\ stamp <= stamp' /\ stamp \in Nat /\ stamp' \in Nat
      /\ stamp' = stamp => AskedLines(ask)' = AskedLines(ask) /\ AskedLogs(ask)' = AskedLogs(ask)
  BY AskedGrow
<1>5. IsFiniteSet(AskedLines(ask)') /\ IsFiniteSet(AskedLogs(ask)')
  BY AskedGrow
<1>6. w.since <= stamp' /\ w.since \in Nat /\ w.offset \in Nat
  BY <1>1, <1>2, <1>4
<1>7. stamp' = w.since => /\ stamp = w.since /\ AskedLines(ask)' = AskedLines(ask)
                          /\ AskedLogs(ask)' = AskedLogs(ask)
  BY <1>1, <1>2, <1>4
<1>8. w.pc \in {"lines", "logs"} =>
         /\ Grew(w.saw, AskedLines(ask)') /\ (stamp' = w.since => w.saw = AskedLines(ask)')
         /\ Grew(w.owed, AskedLogs(ask)') /\ (stamp' = w.since => w.owed = AskedLogs(ask)')
  <2> HAVE w.pc \in {"lines", "logs"}
  <2>1. /\ Grew(w.saw, AskedLines(ask)) /\ (stamp = w.since => w.saw = AskedLines(ask))
        /\ Grew(w.owed, AskedLogs(ask)) /\ (stamp = w.since => w.owed = AskedLogs(ask))
    BY <1>1, <1>2, <1>3 DEF Fetching, Watched
  <2>2. w.saw \subseteq AskedLines(ask) /\ w.owed \subseteq AskedLogs(ask)
    BY <2>1 DEF Grew
  <2>3. Grew(w.saw, AskedLines(ask)') /\ Grew(w.owed, AskedLogs(ask)')
    BY <1>4, <2>1, <2>2, GrewStill
  <2> QED  BY <1>7, <2>1, <2>3
<1>9. w.pc = "lines" => /\ Fetched(w.got, w.offset, w.saw, AskedLines(ask)')
                        /\ stamp' = w.since /\ Tieless(w.saw) => InOrder(w.got, AskedLines(ask)')
                        /\ w.own = << >>
  <2> HAVE w.pc = "lines"
  <2>1. /\ Fetched(w.got, w.offset, w.saw, AskedLines(ask))
        /\ stamp = w.since /\ Tieless(w.saw) => InOrder(w.got, AskedLines(ask))
        /\ w.own = << >>
    BY <1>1, <1>2, <1>3 DEF Fetching, Paging
  <2> QED  BY <1>4, <1>5, <1>6, <1>7, <2>1, FetchedStill
<1>10. w.pc = "logs" => /\ Fetched(w.own, w.offset, w.owed, AskedLogs(ask)')
                        /\ stamp' = w.since /\ Tieless(w.owed) => InOrder(w.own, AskedLogs(ask)')
  <2> HAVE w.pc = "logs"
  <2>1. /\ Fetched(w.own, w.offset, w.owed, AskedLogs(ask))
        /\ stamp = w.since /\ Tieless(w.owed) => InOrder(w.own, AskedLogs(ask))
    BY <1>1, <1>2, <1>3 DEF Fetching, Paging
  <2> QED  BY <1>4, <1>5, <1>6, <1>7, <2>1, FetchedStill
<1>11. (Untied(r)' <=> Untied(r)) /\ SawLines(r)' = SawLines(r)
  BY DEF Untied, SawLines
<1>12. Fetching(r)'
  <2>1. w = runner'[r] /\ ask = runner'[r].ask
    BY <1>2, <1>3
  <2>2. w.pc = "logs" /\ Untied(r)' => /\ SawLines(r)' \subseteq Range(w.got)
                                       /\ stamp' = w.since => Lists(w.got, SawLines(r)')
    BY <1>1, <1>2, <1>7, <1>11 DEF Fetching
  <2> QED  BY <1>8, <1>9, <1>10, <2>1, <2>2 DEF Fetching, Watched, Paging
<1>13. Reporting(r)'
  BY <1>1 DEF Reporting, Untied, Quiet, SawLines, SawLogs
<1> QED  BY <1>1, <1>4, <1>12, <1>13 DEF RunInv

\* What a run's step has to show
LEMMA RunMoves ==
    ASSUME ReconciliationAssumption, ReconTypes, \A q \in Runs : RunInv(q), NEW r \in Runs,
           UNCHANGED <<imports, lines, written, importer, stamp>>, failures' \in 0..MaxFailures,
           DOMAIN runs' = Runs, DOMAIN runner' = Runs,
           \A q \in Runs \ {r} : runs'[q] = runs[q] /\ runner'[q] = runner[q],
           DOMAIN runs'[r] = RunFields, DOMAIN runner'[r] = RunnerFields,
           runs'[r].status \in Statuses \ {"partial"}, RunInv(r)'
    PROVE  /\ ReconTypes' /\ \A q \in Runs : RunInv(q)'
           /\ UNCHANGED <<imports, importer, lines>>
<1>1. ReconTypes'
  <2>1. \A l \in lines' : LineOK(l)'
    BY DEF ReconTypes, LineOK
  <2> QED  BY <2>1 DEF ReconTypes
<1>2. TablesGrow
  BY DEF TablesGrow
<1>3. \A q \in Runs \ {r} : RunInv(q)'
  BY <1>1, <1>2, RunUndisturbed
<1> QED  BY <1>1, <1>3

\* A run's fields that a step does not set are as they were.
SameReading(r) ==
    /\ runner'[r].ask = runner[r].ask /\ runner'[r].got = runner[r].got /\ runner'[r].own = runner[r].own
    /\ runner'[r].read = runner[r].read /\ runner'[r].report = runner[r].report
    /\ runner'[r].saw = runner[r].saw /\ runner'[r].owed = runner[r].owed
    /\ runner'[r].since = runner[r].since /\ runner'[r].till = runner[r].till
    /\ runner'[r].offset = runner[r].offset

\* A step after the rows were read
LEMMA StoringKeeps ==
    ASSUME ReconTypes, NEW r \in Runs, RunInv(r), SameReading(r), stamp' = stamp,
           runner'[r].pc \in {"store", "finish", "failed", "lost", "done"},
           runner'[r].pc \in {"store", "finish"} => runner[r].read,
           runner'[r].pc = "finish" => runs'[r].findings = runner[r].report.findings,
           runner'[r].pc \notin {"failed", "done"} => runs'[r].status # "completed",
           runs'[r].status = "completed" => /\ runner[r].read
                                            /\ runs'[r].totals = runner[r].report.totals
                                            /\ runs'[r].findings = runner[r].report.findings
    PROVE  RunInv(r)'
<1>1. /\ runner[r].offset \in Nat /\ runner[r].since \in Nat /\ runner[r].since <= stamp
      /\ Fetching(r) /\ Reporting(r)
  BY DEF RunInv
<1>2. /\ Untied(r)' <=> Untied(r)
      /\ SawLines(r)' = SawLines(r) /\ SawLogs(r)' = SawLogs(r)
      /\ Quiet(r)' <=> Quiet(r)
  BY DEF SameReading, Untied, SawLines, SawLogs, Quiet
<1>3. Fetching(r)'
  BY DEF Fetching
<1>4. Reporting(r)'
  <2>1. runner'[r].read /\ Untied(r)' => /\ SawLines(r)' \subseteq Range(runner'[r].got)
                                       /\ SawLogs(r)' \subseteq Range(runner'[r].own)
    BY <1>1, <1>2 DEF Reporting, SameReading
  <2>2. runner'[r].read /\ Untied(r)' /\ Quiet(r)' =>
          Truth(runner'[r].report.totals, runner'[r].report.findings, SawLines(r)', SawLogs(r)')
    BY <1>1, <1>2 DEF Reporting, SameReading
  <2> QED  BY <2>1, <2>2 DEF Reporting, SameReading
<1> QED  BY <1>1, <1>3, <1>4 DEF RunInv, SameReading

\* Amounts of what a run asks for are numbers.
LEMMA SawPriced ==
    ASSUME ReconciliationAssumption, ReconTypes, NEW ask, NEW invoiced, invoiced \subseteq AskedLines(ask),
           NEW logged, logged \subseteq AskedLogs(ask)
    PROVE  AmountsOK(invoiced, logged)
<1>1. \A l \in invoiced : l.raw \in Nat \union {Null} /\ l.est \in Nat \union {Null}
  BY AskedAre DEF LineOK
<1>2. \A x \in logged : x.cost \in Int /\ x.billed \in Int \union {Null}
  <2> TAKE x \in logged
  <2>1. x.created \in 1..written /\ x = UsageRows[x.created]
    BY AskedAre
  <2>2. x.created \in DOMAIN UsageRows
    BY <2>1 DEF ReconTypes, ReconciliationAssumption
  <2> QED  BY <2>1, <2>2 DEF ReconciliationAssumption
<1> QED  BY <1>1, <1>2 DEF AmountsOK, ProviderCost, InternalCost, BilledCost

\* The whole table has been paged: of the rows that are kept, those that were there are
\* had, and nothing else when nothing was inserted.
LEMMA AllPaged ==
    ASSUME NEW rows, IsFiniteSet(rows), Dated(rows), NEW seen, Grew(seen, rows), NEW f,
           NEW offset \in Nat, Fetched(f, offset, seen, rows), NEW page \in Pages(rows, offset),
           ReconciliationAssumption, ~Full(page), Tieless(seen), NEW K,
           K \subseteq DOMAIN Extend(f, page), NEW kept, kept \subseteq seen,
           \A k \in DOMAIN Extend(f, page) :
                Extend(f, page)[k] \in seen => (k \in K <=> Extend(f, page)[k] \in kept)
    PROVE  /\ kept \subseteq Range(Restrict(Extend(f, page), K))
           /\ seen = rows /\ InOrder(f, rows) => Lists(Restrict(Extend(f, page), K), kept)
<1> DEFINE all == Extend(f, page)
<1>1. DOMAIN all = 1..Cardinality(rows) /\ seen \subseteq Range(all)
  BY PageFetched
<1>2. DOMAIN f = 1..offset /\ offset <= Cardinality(rows) /\ Cardinality(rows) \in Nat
  BY FS_CardinalityType DEF Fetched
<1>3. seen = rows /\ InOrder(f, rows) => InOrder(all, rows)
  BY <1>2, PageInOrder
<1> HIDE DEF all
<1>4. K \in SUBSET DOMAIN all /\ \A k \in DOMAIN all : all[k] \in seen => (k \in K <=> all[k] \in kept)
  BY DEF all
<1>5. kept \subseteq {all[k] : k \in K}
  <2> SUFFICES ASSUME NEW x \in kept PROVE \E k \in K : all[k] = x
    OBVIOUS
  <2>1. PICK k \in DOMAIN all : all[k] = x
    BY <1>1 DEF Range
  <2> QED  BY <1>4, <2>1
<1>6. kept \subseteq Range(Restrict(all, K))
  BY <1>4, <1>5, Filtered
<1>7. ASSUME seen = rows, InOrder(f, rows) PROVE Lists(Restrict(all, K), kept)
  <2>1. InOrder(all, rows)
    BY <1>3, <1>7
  <2>2. Lists(all, rows)
    BY <1>1, <1>2, <1>7, <2>1, InOrderLists
  <2>3. {all[k] : k \in K} = kept
    BY <1>4, <1>5, <1>7, <2>1 DEF InOrder
  <2> QED  BY <1>4, <2>2, <2>3, FilteredLists
<1> QED  BY <1>6, <1>7 DEF all

\* The insert of a run is answered or, by one more failure, is not
LEMMA RunIsCreated ==
    ASSUME ReconTypes, NEW r \in Runs, CreateRun(r), UNCHANGED failures
    PROVE  /\ runner[r].pc = "idle" /\ NewRun(r)
           /\ \E ask \in Requests :
                 runner' = [runner EXCEPT ![r] = [NoRunner EXCEPT !.pc = "lines", !.ask = ask,
                               !.saw = AskedLines(ask), !.owed = AskedLogs(ask), !.since = stamp]]
           /\ UNCHANGED <<imports, lines, written, importer, stamp>>
<1>1. failures \in Int
  BY DEF ReconTypes
<1>2. failures' # failures + 1
  BY <1>1
<1> QED  BY <1>2, Zenon DEF CreateRun

LEMMA RunIsLost ==
    ASSUME ReconciliationAssumption, ReconTypes, NEW r \in Runs, CreateRun(r), ~UNCHANGED failures
    PROVE  /\ runner[r].pc = "idle" /\ Abort(r, "lost")
           /\ NewRun(r) \/ UNCHANGED runs
           /\ failures' \in 0..MaxFailures
           /\ UNCHANGED <<imports, lines, written, importer, stamp>>
<1>1. /\ runner[r].pc = "idle" /\ Abort(r, "lost")
      /\ NewRun(r) \/ UNCHANGED runs
      /\ failures < MaxFailures /\ failures' = failures + 1
      /\ UNCHANGED <<imports, lines, written, importer, stamp>>
  BY Zenon DEF CreateRun
<1>2. failures \in 0..MaxFailures /\ MaxFailures \in Nat
  BY DEF ReconTypes, ReconciliationAssumption
<1>3. failures' \in 0..MaxFailures
  <2>1. failures < MaxFailures /\ failures' = failures + 1
    BY <1>1, Zenon
  <2> QED  BY <1>2, <2>1
<1> QED  BY <1>1, <1>3, Zenon

LEMMA RunStarts ==
    ASSUME ReconciliationAssumption, ReconTypes, NEW r \in Runs, RunInv(r), CreateRun(r),
           UNCHANGED failures
    PROVE  /\ RunInv(r)' /\ DOMAIN runner' = Runs /\ DOMAIN runner'[r] = RunnerFields
           /\ \A q \in Runs \ {r} : runner'[q] = runner[q]
<1>1. PICK ask \in Requests :
         runner' = [runner EXCEPT ![r] = [NoRunner EXCEPT !.pc = "lines", !.ask = ask,
                       !.saw = AskedLines(ask), !.owed = AskedLogs(ask), !.since = stamp]]
  BY RunIsCreated, Zenon
<1> DEFINE v == [NoRunner EXCEPT !.pc = "lines", !.ask = ask,
                     !.saw = AskedLines(ask), !.owed = AskedLogs(ask), !.since = stamp]
<1>2. /\ runner[r].pc = "idle" /\ runs' = [runs EXCEPT ![r].status = "pending"]
      /\ UNCHANGED <<lines, written, stamp>>
  BY RunIsCreated, Zenon DEF NewRun
<1>3. /\ DOMAIN v = RunnerFields /\ v.pc = "lines" /\ v.ask = ask /\ v.got = << >> /\ v.own = << >>
      /\ v.offset = 0 /\ v.read = FALSE /\ v.saw = AskedLines(ask) /\ v.owed = AskedLogs(ask)
      /\ v.since = stamp
  BY DEF NoRunner, RunnerFields
<1>4. /\ runner'[r] = v /\ DOMAIN runner' = Runs /\ \A q \in Runs \ {r} : runner'[q] = runner[q]
      /\ runs'[r].status = "pending"
  BY <1>1, <1>2 DEF ReconTypes, RunFields
<1> HIDE DEF v
<1>5. AskedLines(ask)' = AskedLines(ask) /\ AskedLogs(ask)' = AskedLogs(ask)
  BY <1>2 DEF AskedLines, AskedLogs
<1>6. \A rows : /\ IsFiniteSet(rows) => Fetched(<< >>, 0, rows, rows)
                /\ InOrder(<< >>, rows) /\ Grew(rows, rows)
  <2> TAKE rows
  <2>1. DOMAIN << >> = {} /\ 1..0 = {}
    OBVIOUS
  <2>2. IsFiniteSet(rows) => 0 <= Cardinality(rows) /\ \A x : ~(Cardinality(Newer(rows, x)) < 0)
    BY NewerAre, FS_CardinalityType
  <2> QED  BY <2>1, <2>2 DEF Fetched, InOrder, Grew
<1>7. IsFiniteSet(AskedLines(ask)) /\ IsFiniteSet(AskedLogs(ask)) /\ stamp \in Nat
  BY AskedAre DEF ReconTypes
<1>8. Fetching(r)'
  BY <1>2, <1>3, <1>4, <1>5, <1>6, <1>7 DEF Fetching, Watched, Paging
<1>9. Reporting(r)'
  BY <1>3, <1>4 DEF Reporting
<1> QED  BY <1>2, <1>3, <1>4, <1>7, <1>8, <1>9 DEF RunInv

\* A page of lines, and after the last one what the period leaves of them
LEMMA LinesPaged ==
    ASSUME ReconciliationAssumption, ReconTypes, NEW r \in Runs, RunInv(r), FetchLines(r)
    PROVE  /\ RunInv(r)' /\ DOMAIN runner' = Runs /\ DOMAIN runner'[r] = RunnerFields
           /\ \A q \in Runs \ {r} : runner'[q] = runner[q]
<1>1. /\ runner[r].pc = "lines" /\ UNCHANGED <<lines, written, runs, stamp>>
  BY DEF FetchLines, reconTables
<1>2. PICK w : w = runner[r]
  OBVIOUS
<1>3. PICK ask : ask = w.ask
  OBVIOUS
<1> DEFINE L == AskedLines(ask)
           X == AskedLogs(ask)
<1>4. PICK page \in Pages(AskedLines(runner[r].ask), runner[r].offset) :
        LET all == Extend(runner[r].got, page)
        IN runner' = [runner EXCEPT
              ![r].got = IF Full(page) THEN all
                         ELSE Restrict(all, {k \in DOMAIN all : InPeriod(all[k], runner[r].ask)}),
              ![r].offset = IF Full(page) THEN @ + BatchSize ELSE 0,
              ![r].pc = IF Full(page) THEN "lines" ELSE "logs"]
  BY DEF FetchLines
<1> DEFINE all == Extend(w.got, page)
           K == {k \in DOMAIN all : InPeriod(all[k], ask)}
<1>11. page \in Pages(L, w.offset)
  BY <1>2, <1>3, <1>4
<1>5. /\ w.pc = "lines" /\ w.offset \in Nat /\ w.since \in Nat /\ w.since <= stamp
      /\ Grew(w.saw, L) /\ (stamp = w.since => w.saw = L)
      /\ Grew(w.owed, X) /\ (stamp = w.since => w.owed = X)
      /\ Fetched(w.got, w.offset, w.saw, L)
      /\ stamp = w.since /\ Tieless(w.saw) => InOrder(w.got, L)
      /\ w.own = << >> /\ ~w.read /\ runs[r].status # "completed"
  BY <1>1, <1>2, <1>3 DEF RunInv, Fetching, Reporting, Watched, Paging
<1>6. IsFiniteSet(L) /\ Dated(L) /\ IsFiniteSet(X) /\ BatchSize \in Nat /\ stamp \in Nat
  BY AskedAre DEF ReconTypes, ReconciliationAssumption
<1>7. L' = L /\ X' = X
  BY <1>1 DEF AskedLines, AskedLogs
<1>8. /\ DOMAIN runner' = Runs /\ DOMAIN runner'[r] = RunnerFields
      /\ \A q \in Runs \ {r} : runner'[q] = runner[q]
      /\ runner'[r].got = IF Full(page) THEN all ELSE Restrict(all, K)
      /\ runner'[r].offset = IF Full(page) THEN w.offset + BatchSize ELSE 0
      /\ runner'[r].pc = IF Full(page) THEN "lines" ELSE "logs"
      /\ runner'[r].ask = ask /\ runner'[r].own = << >> /\ runner'[r].read = w.read
      /\ runner'[r].saw = w.saw /\ runner'[r].owed = w.owed /\ runner'[r].since = w.since
  <2> HIDE DEF all, K
  <2>1. runner' = [runner EXCEPT
              ![r].got = IF Full(page) THEN all ELSE Restrict(all, K),
              ![r].offset = IF Full(page) THEN @ + BatchSize ELSE 0,
              ![r].pc = IF Full(page) THEN "lines" ELSE "logs"]
    BY <1>2, <1>3, <1>4 DEF all, K
  <2> QED  BY <1>2, <1>3, <1>5, <2>1 DEF ReconTypes, RunnerFields
<1> HIDE DEF L, X
<1>9. CASE Full(page)
  <2>1. Fetched(all, w.offset + BatchSize, w.saw, L)
    BY <1>5, <1>6, <1>9, <1>11, PageFetched
  <2>2. stamp = w.since /\ Tieless(w.saw) => InOrder(all, L)
    BY <1>5, <1>6, <1>11, PageInOrder DEF Fetched
  <2> HIDE DEF all
  <2>3. Fetching(r)'
    BY <1>1, <1>5, <1>7, <1>8, <1>9, <2>1, <2>2 DEF Fetching, Watched, Paging, L, X
  <2>4. Reporting(r)'
    BY <1>1, <1>5, <1>8, <1>9 DEF Reporting
  <2> QED  BY <1>1, <1>5, <1>6, <1>8, <1>9, <2>3, <2>4 DEF RunInv
<1>10. CASE ~Full(page)
  <2> DEFINE kept == {l \in w.saw : InPeriod(l, ask)}
  <2>1. SawLines(r)' = kept /\ (Untied(r)' <=> Tieless(w.saw))
    BY <1>8 DEF SawLines, Untied, Tieless
  <2>2. ASSUME Tieless(w.saw)
        PROVE  /\ kept \subseteq Range(Restrict(all, K))
               /\ stamp = w.since => Lists(Restrict(all, K), kept)
    <3>1. /\ K \subseteq DOMAIN all /\ kept \subseteq w.saw
          /\ \A k \in DOMAIN all : all[k] \in w.saw => (k \in K <=> all[k] \in kept)
      OBVIOUS
    <3> HIDE DEF K, kept
    <3>2. /\ IsFiniteSet(L) /\ Dated(L) /\ Grew(w.saw, L) /\ w.offset \in Nat
          /\ Fetched(w.got, w.offset, w.saw, L)
      BY <1>5, <1>6
    <3>3. /\ kept \subseteq Range(Restrict(all, K))
          /\ w.saw = L /\ InOrder(w.got, L) => Lists(Restrict(all, K), kept)
      BY <1>10, <1>11, <2>2, <3>1, <3>2, AllPaged
    <3> QED  BY <1>5, <2>2, <3>3
  <2>3. Fetched(<< >>, 0, w.owed, X) /\ InOrder(<< >>, X)
    <3>1. DOMAIN << >> = {} /\ 1..0 = {}
      OBVIOUS
    <3>2. 0 <= Cardinality(X) /\ \A x : ~(Cardinality(Newer(X, x)) < 0)
      BY <1>6, NewerAre, FS_CardinalityType
    <3> QED  BY <3>1, <3>2 DEF Fetched, InOrder
  <2> HIDE DEF all, K, kept
  <2>4. Fetching(r)'
    BY <1>1, <1>5, <1>7, <1>8, <1>10, <2>1, <2>2, <2>3 DEF Fetching, Watched, Paging, L, X
  <2>5. Reporting(r)'
    BY <1>1, <1>5, <1>8, <1>10 DEF Reporting
  <2> QED  BY <1>1, <1>5, <1>6, <1>8, <1>10, <2>4, <2>5 DEF RunInv
<1> QED  BY <1>8, <1>9, <1>10

\* A page of usage rows, and after the last one the comparison
LEMMA LogsPaged ==
    ASSUME ReconciliationAssumption, ReconTypes, NEW r \in Runs, RunInv(r), FetchLogs(r)
    PROVE  /\ RunInv(r)' /\ DOMAIN runner' = Runs /\ DOMAIN runner'[r] = RunnerFields
           /\ \A q \in Runs \ {r} : runner'[q] = runner[q]
<1>1. /\ runner[r].pc = "logs" /\ UNCHANGED <<lines, written, runs, stamp>>
  BY DEF FetchLogs, reconTables
<1>2. PICK w : w = runner[r]
  OBVIOUS
<1>3. PICK ask : ask = w.ask
  OBVIOUS
<1> DEFINE L == AskedLines(ask)
           X == AskedLogs(ask)
<1>4. PICK page \in Pages(AskedLogs(runner[r].ask), runner[r].offset) :
        LET all == Extend(runner[r].own, page)
            own == Restrict(all, {k \in DOMAIN all : runner[r].ask.providers # {}
                                                 => all[k].provider \in runner[r].ask.providers})
        IN IF Full(page)
           THEN runner' = [runner EXCEPT ![r].own = all, ![r].offset = @ + BatchSize]
           ELSE \E byRef \in SUBSET Ambiguous(runner[r].got, own) :
                  runner' = [runner EXCEPT ![r].own = own, ![r].pc = "clear",
                                ![r].read = TRUE, ![r].till = stamp,
                                ![r].report = Report(runner[r].got, own, byRef)]
  BY DEF FetchLogs
<1> DEFINE all == Extend(w.own, page)
           K == {k \in DOMAIN all : ask.providers # {} => all[k].provider \in ask.providers}
           own == Restrict(all, K)
           kept == {x \in w.owed : ask.providers # {} => x.provider \in ask.providers}
           invoiced == {l \in w.saw : InPeriod(l, ask)}
<1>5. page \in Pages(X, w.offset)
  BY <1>2, <1>3, <1>4
<1>6. /\ w.pc = "logs" /\ w.offset \in Nat /\ w.since \in Nat /\ w.since <= stamp
      /\ Grew(w.saw, L) /\ (stamp = w.since => w.saw = L)
      /\ Grew(w.owed, X) /\ (stamp = w.since => w.owed = X)
      /\ Fetched(w.own, w.offset, w.owed, X)
      /\ (stamp = w.since /\ Tieless(w.owed) => InOrder(w.own, X))
      /\ (Untied(r) => invoiced \subseteq Range(w.got) /\ (stamp = w.since => Lists(w.got, invoiced)))
      /\ ~w.read /\ runs[r].status # "completed"
  BY <1>1, <1>2, <1>3 DEF RunInv, Fetching, Reporting, Watched, Paging, SawLines
<1>7. IsFiniteSet(X) /\ Dated(X) /\ Tieless(X) /\ BatchSize \in Nat /\ stamp \in Nat
  BY AskedAre DEF ReconTypes, ReconciliationAssumption
<1>8. L' = L /\ X' = X
  BY <1>1 DEF AskedLines, AskedLogs
<1>9. Tieless(w.owed)
  BY <1>6, <1>7 DEF Grew, Tieless
<1>10. \A p \in {"lines", "logs", "clear"} : p \notin {"failed", "done"}
  OBVIOUS
<1> HIDE DEF L, X
<1>11. CASE Full(page)
  <2> HIDE DEF all
  <2>1. runner' = [runner EXCEPT ![r].own = all, ![r].offset = @ + BatchSize]
    BY <1>2, <1>4, <1>11 DEF all
  <2>2. /\ DOMAIN runner' = Runs /\ DOMAIN runner'[r] = RunnerFields
        /\ \A q \in Runs \ {r} : runner'[q] = runner[q]
        /\ runner'[r].own = all /\ runner'[r].offset = w.offset + BatchSize /\ runner'[r].pc = "logs"
        /\ runner'[r].ask = ask /\ runner'[r].got = w.got /\ runner'[r].read = w.read
        /\ runner'[r].saw = w.saw /\ runner'[r].owed = w.owed /\ runner'[r].since = w.since
    BY <1>2, <1>3, <1>6, <2>1 DEF ReconTypes, RunnerFields
  <2>3. Fetched(all, w.offset + BatchSize, w.owed, X)
    BY <1>5, <1>6, <1>7, <1>11, PageFetched DEF all
  <2>4. stamp = w.since /\ Tieless(w.owed) => InOrder(all, X)
    BY <1>5, <1>6, <1>7, PageInOrder DEF Fetched, all
  <2>5. SawLines(r)' = invoiced /\ (Untied(r)' <=> Untied(r))
    BY <1>2, <2>2 DEF SawLines, Untied
  <2> HIDE DEF invoiced
  <2>6. Fetching(r)'
    BY <1>1, <1>6, <1>8, <2>2, <2>3, <2>4, <2>5 DEF Fetching, Watched, Paging, L, X
  <2>7. Reporting(r)'
    BY <1>1, <1>6, <2>2 DEF Reporting
  <2> QED  BY <1>1, <1>6, <1>7, <2>2, <2>6, <2>7 DEF RunInv
<1>12. CASE ~Full(page)
  <2>1. PICK byRef :
          runner' = [runner EXCEPT ![r].own = own, ![r].pc = "clear", ![r].read = TRUE,
                        ![r].till = stamp, ![r].report = Report(runner[r].got, own, byRef)]
    <3>1. own = LET f == Extend(runner[r].own, page)
                IN  Restrict(f, {k \in DOMAIN f : runner[r].ask.providers # {}
                                               => f[k].provider \in runner[r].ask.providers})
      BY <1>2, <1>3
    <3> HIDE DEF own
    <3> QED  BY <1>4, <1>12, <3>1
  <2> DEFINE report == Report(w.got, own, byRef)
  <2>2. /\ K \subseteq DOMAIN all /\ kept \subseteq w.owed
        /\ \A k \in DOMAIN all : all[k] \in w.owed => (k \in K <=> all[k] \in kept)
    OBVIOUS
  <2> HIDE DEF K, kept
  <2>3. /\ kept \subseteq Range(own)
        /\ w.owed = X /\ InOrder(w.own, X) => Lists(own, kept)
    BY <1>5, <1>6, <1>7, <1>9, <1>12, <2>2, AllPaged
  <2> HIDE DEF own, all
  <2>4. runner' = [runner EXCEPT ![r].own = own, ![r].pc = "clear", ![r].read = TRUE,
                      ![r].till = stamp, ![r].report = report]
    BY <1>2, <2>1
  <2> HIDE DEF report
  <2>5. /\ DOMAIN runner' = Runs /\ DOMAIN runner'[r] = RunnerFields
        /\ \A q \in Runs \ {r} : runner'[q] = runner[q]
        /\ runner'[r].own = own /\ runner'[r].offset = w.offset /\ runner'[r].pc = "clear"
        /\ runner'[r].ask = ask /\ runner'[r].got = w.got /\ runner'[r].read = TRUE
        /\ runner'[r].saw = w.saw /\ runner'[r].owed = w.owed /\ runner'[r].since = w.since
        /\ runner'[r].till = stamp /\ runner'[r].report = report
    BY <1>2, <1>3, <2>4 DEF ReconTypes, RunnerFields
  <2>6. /\ SawLines(r)' = invoiced /\ SawLogs(r)' = kept /\ (Untied(r)' <=> Untied(r))
        /\ (Quiet(r)' <=> w.since = stamp)
    BY <1>2, <2>5 DEF SawLines, SawLogs, Untied, Quiet, kept
  <2>7. ASSUME Untied(r), stamp = w.since
        PROVE  Truth(report.totals, report.findings, invoiced, kept)
    <3>1. invoiced \subseteq L /\ kept \subseteq X
      BY <1>6, <2>2, <2>7
    <3> HIDE DEF invoiced
    <3>2. AmountsOK(invoiced, kept)
      BY <3>1, SawPriced DEF L, X
    <3>3. Lists(w.got, invoiced) /\ Lists(own, kept)
      BY <1>6, <1>9, <2>3, <2>7
    <3> QED  BY <3>2, <3>3, ReportIsTruth DEF report
  <2> HIDE DEF invoiced
  <2>8. Fetching(r)'
    BY <2>5 DEF Fetching
  <2>9. Reporting(r)'
    <3>1. runs'[r].status # "completed"
      BY <1>1, <1>6
    <3> QED  BY <1>6, <2>3, <2>5, <2>6, <2>7, <3>1 DEF Reporting
  <2> QED  BY <1>1, <1>6, <1>7, <2>5, <2>8, <2>9 DEF RunInv
<1> QED  BY <1>11, <1>12

\* What a step of a run has to show about the two tables
RunKept(r) ==
    /\ DOMAIN runs' = Runs /\ DOMAIN runs'[r] = RunFields
    /\ \A q \in Runs \ {r} : runs'[q] = runs[q]
    /\ runs'[r].status \in Statuses \ {"partial"}

HandlerKept(r) ==
    /\ DOMAIN runner' = Runs /\ DOMAIN runner'[r] = RunnerFields
    /\ \A q \in Runs \ {r} : runner'[q] = runner[q]

\* A run goes on to its next call, and keeps what it has read
LEMMA RunGoesOn ==
    ASSUME ReconTypes, NEW r \in Runs, NEW pc, runner' = [runner EXCEPT ![r].pc = pc]
    PROVE  SameReading(r) /\ runner'[r].pc = pc /\ HandlerKept(r)
BY DEF ReconTypes, RunnerFields, SameReading, HandlerKept

\* The columns of a run that its steps set
LEMMA RunSet ==
    ASSUME ReconTypes, NEW r \in Runs,
           \/ UNCHANGED runs
           \/ runs' = [runs EXCEPT ![r].status = "pending"]
           \/ runs' = [runs EXCEPT ![r].findings = {}]
           \/ WriteFindings(r) \/ RecordRun(r)
           \/ runs' = [runs EXCEPT ![r].status = "failed", ![r].totals = Null]
    PROVE  RunKept(r)
<1>1. DOMAIN runs = Runs /\ DOMAIN runs[r] = RunFields /\ runs[r].status \in Statuses \ {"partial"}
  BY DEF ReconTypes
<1>2. CASE UNCHANGED runs
  BY <1>1, <1>2 DEF RunKept
<1>3. CASE runs' = [runs EXCEPT ![r].status = "pending"]
  BY <1>1, <1>3 DEF RunFields, Statuses, RunKept
<1>4. CASE runs' = [runs EXCEPT ![r].findings = {}]
  BY <1>1, <1>4 DEF RunFields, RunKept
<1>5. CASE WriteFindings(r)
  BY <1>1, <1>5 DEF RunFields, WriteFindings, RunKept
<1>6. CASE RecordRun(r)
  BY <1>1, <1>6 DEF RunFields, RecordRun, Statuses, RunKept
<1>7. CASE runs' = [runs EXCEPT ![r].status = "failed", ![r].totals = Null]
  BY <1>1, <1>7 DEF RunFields, Statuses, RunKept
<1> QED  BY <1>2, <1>3, <1>4, <1>5, <1>6, <1>7 DEF RunKept

\* Every step of a run keeps the types and all runs, and leaves the imports alone
LEMMA RunStepKeeps ==
    ASSUME ReconciliationAssumption, ReconTypes, \A q \in Runs : RunInv(q), NEW r \in Runs, RunStep(r)
    PROVE  ReconTypes' /\ (\A q \in Runs : RunInv(q)') /\ UNCHANGED <<imports, importer, lines>>
<1>1. /\ DOMAIN runs = Runs /\ DOMAIN runs[r] = RunFields /\ failures \in 0..MaxFailures
      /\ DOMAIN runner = Runs /\ RunInv(r) /\ Reporting(r) /\ MaxFailures \in Nat
  BY DEF ReconTypes, RunInv, ReconciliationAssumption
<1>2. CASE CreateRun(r) /\ UNCHANGED failures
  <2>1. /\ runs' = [runs EXCEPT ![r].status = "pending"]
        /\ UNCHANGED <<imports, lines, written, importer, stamp, failures>>
    BY <1>2, RunIsCreated, Zenon DEF NewRun
  <2>2. RunInv(r)' /\ HandlerKept(r) /\ RunKept(r)
    BY <1>1, <1>2, <2>1, RunStarts, RunSet DEF HandlerKept
  <2> QED  BY <1>1, <2>1, <2>2, RunMoves DEF HandlerKept, RunKept
<1>10. CASE CreateRun(r) /\ ~UNCHANGED failures
  <2> DEFINE v == [NoRunner EXCEPT !.pc = "lost"]
  <2>1. /\ runner[r].pc = "idle" /\ runner' = [runner EXCEPT ![r] = v] /\ failures' \in 0..MaxFailures
        /\ \/ runs' = [runs EXCEPT ![r].status = "pending"]
           \/ UNCHANGED runs
        /\ UNCHANGED <<imports, lines, written, importer, stamp>>
    BY <1>10, RunIsLost, Zenon DEF NewRun, Abort
  <2>2. DOMAIN v = RunnerFields /\ v.pc = "lost" /\ v.read = FALSE /\ v.offset = 0 /\ v.since = 0
    BY DEF NoRunner, RunnerFields
  <2> HIDE DEF v
  <2>3. /\ DOMAIN runner' = Runs /\ runner'[r] = v /\ \A q \in Runs \ {r} : runner'[q] = runner[q]
        /\ runs'[r].status # "completed"
    BY <1>1, <2>1 DEF RunFields, Reporting
  <2>4. Fetching(r)' /\ Reporting(r)'
    BY <2>2, <2>3 DEF Fetching, Reporting
  <2>5. stamp' \in Nat
    BY <2>1 DEF ReconTypes
  <2>6. RunInv(r)'
    BY <2>2, <2>3, <2>4, <2>5 DEF RunInv
  <2>7. HandlerKept(r) /\ RunKept(r)
    BY <2>1, <2>2, <2>3, RunSet DEF HandlerKept
  <2> QED  BY <1>1, <2>1, <2>6, <2>7, RunMoves DEF HandlerKept, RunKept
<1>3. CASE FetchLines(r)
  <2>1. UNCHANGED <<imports, lines, written, runs, importer, stamp, failures>>
    BY <1>3 DEF FetchLines, reconTables
  <2>2. RunInv(r)' /\ HandlerKept(r) /\ RunKept(r)
    BY <1>1, <1>3, <2>1, LinesPaged, RunSet DEF HandlerKept
  <2> QED  BY <1>1, <2>1, <2>2, RunMoves DEF HandlerKept, RunKept
<1>4. CASE FetchLogs(r)
  <2>1. UNCHANGED <<imports, lines, written, runs, importer, stamp, failures>>
    BY <1>4 DEF FetchLogs, reconTables
  <2>2. RunInv(r)' /\ HandlerKept(r) /\ RunKept(r)
    BY <1>1, <1>4, <2>1, LogsPaged, RunSet DEF HandlerKept
  <2> QED  BY <1>1, <2>1, <2>2, RunMoves DEF HandlerKept, RunKept
<1>5. CASE ClearFindings(r)
  <2>1. /\ runner[r].pc = "clear" /\ runner' = [runner EXCEPT ![r].pc = "store"]
        /\ runs' = [runs EXCEPT ![r].findings = {}]
        /\ UNCHANGED <<imports, lines, written, importer, stamp, failures>>
    BY <1>5 DEF ClearFindings, At
  <2>2. runs'[r].status = runs[r].status /\ runs[r].status # "completed" /\ runner[r].read
    BY <1>1, <2>1 DEF RunFields, Reporting
  <2>3. SameReading(r) /\ runner'[r].pc = "store" /\ HandlerKept(r) /\ RunKept(r)
    BY <2>1, RunGoesOn, RunSet
  <2>4. RunInv(r)'
    BY <1>1, <2>1, <2>2, <2>3, StoringKeeps
  <2> QED  BY <1>1, <2>1, <2>3, <2>4, RunMoves DEF HandlerKept, RunKept
<1>6. CASE StoreFindings(r)
  <2>1. /\ runner[r].pc = "store" /\ runner' = [runner EXCEPT ![r].pc = "finish"]
        /\ runs' = [runs EXCEPT ![r].findings = runner[r].report.findings] /\ WriteFindings(r)
        /\ UNCHANGED <<imports, lines, written, importer, stamp, failures>>
    BY <1>6 DEF StoreFindings, At, WriteFindings
  <2>2. /\ runs'[r].status = runs[r].status /\ runs'[r].findings = runner[r].report.findings
        /\ runs[r].status # "completed" /\ runner[r].read
    BY <1>1, <2>1 DEF RunFields, Reporting
  <2>3. SameReading(r) /\ runner'[r].pc = "finish" /\ HandlerKept(r) /\ RunKept(r)
    BY <2>1, RunGoesOn, RunSet
  <2>4. RunInv(r)'
    BY <1>1, <2>1, <2>2, <2>3, StoringKeeps
  <2> QED  BY <1>1, <2>1, <2>3, <2>4, RunMoves DEF HandlerKept, RunKept
<1>7. CASE FinishRun(r)
  <2>1. /\ runner[r].pc = "finish" /\ runner' = [runner EXCEPT ![r].pc = "done"]
        /\ RecordRun(r)
        /\ runs' = [runs EXCEPT ![r].status = "completed", ![r].totals = runner[r].report.totals]
        /\ UNCHANGED <<imports, lines, written, importer, stamp, failures>>
    BY <1>7 DEF FinishRun, At, RecordRun
  <2>2. /\ runs'[r].findings = runs[r].findings /\ runs[r].findings = runner[r].report.findings
        /\ runs'[r].totals = runner[r].report.totals /\ runner[r].read
    BY <1>1, <2>1 DEF RunFields, Reporting
  <2>3. SameReading(r) /\ runner'[r].pc = "done" /\ HandlerKept(r) /\ RunKept(r)
    BY <2>1, RunGoesOn, RunSet
  <2>4. RunInv(r)'
    BY <1>1, <2>1, <2>2, <2>3, StoringKeeps
  <2> QED  BY <1>1, <2>1, <2>3, <2>4, RunMoves DEF HandlerKept, RunKept
<1>8. CASE RunFails(r)
  <2>1. /\ runner[r].pc \in {"lines", "logs", "clear", "store", "finish"}
        /\ runner' = [runner EXCEPT ![r].pc = "failed"] /\ failures' \in 0..MaxFailures
        /\ \/ UNCHANGED runs
           \/ runner[r].pc = "store" /\ WriteFindings(r)
           \/ runner[r].pc = "finish" /\ RecordRun(r)
        /\ UNCHANGED <<imports, lines, written, importer, stamp>>
    BY <1>1, <1>8 DEF RunFails
  <2>2. runs[r].status # "completed"
    BY <1>1, <2>1 DEF Reporting
  <2>3. runs'[r].status = "completed" => /\ runner[r].read
                                        /\ runs'[r].totals = runner[r].report.totals
                                        /\ runs'[r].findings = runner[r].report.findings
    <3>1. WriteFindings(r) => runs'[r].status = runs[r].status
      BY <1>1 DEF WriteFindings, RunFields
    <3>2. RecordRun(r) => runs'[r].totals = runner[r].report.totals /\ runs'[r].findings = runs[r].findings
      BY <1>1 DEF RecordRun, RunFields
    <3>3. runner[r].pc = "finish" => runner[r].read /\ runs[r].findings = runner[r].report.findings
      BY <1>1 DEF Reporting
    <3> QED  BY <2>1, <2>2, <3>1, <3>2, <3>3
  <2>4. SameReading(r) /\ runner'[r].pc = "failed" /\ HandlerKept(r) /\ RunKept(r)
    BY <2>1, RunGoesOn, RunSet
  <2>5. RunInv(r)'
    BY <1>1, <2>1, <2>3, <2>4, StoringKeeps
  <2> QED  BY <1>1, <2>1, <2>4, <2>5, RunMoves DEF HandlerKept, RunKept
<1>9. CASE MarkRunFailed(r)
  <2>1. /\ runner[r].pc = "failed" /\ UNCHANGED <<imports, lines, written, importer, stamp>>
        /\ \/ /\ runs' = [runs EXCEPT ![r].status = "failed", ![r].totals = Null]
              /\ Abort(r, "done") /\ UNCHANGED failures
           \/ /\ failures < MaxFailures /\ failures' = failures + 1
              /\ runner' = [runner EXCEPT ![r].pc = "done"] /\ UNCHANGED runs
    BY <1>9 DEF MarkRunFailed
  <2>2. failures' \in 0..MaxFailures
    BY <1>1, <2>1
  <2>3. CASE UNCHANGED runs /\ runner' = [runner EXCEPT ![r].pc = "done"]
    <3>1. SameReading(r) /\ runner'[r].pc = "done" /\ HandlerKept(r) /\ RunKept(r)
      BY <2>3, RunGoesOn, RunSet
    <3>2. runs'[r].status = "completed" => /\ runner[r].read
                                          /\ runs'[r].totals = runner[r].report.totals
                                          /\ runs'[r].findings = runner[r].report.findings
      BY <1>1, <2>3 DEF Reporting
    <3>3. RunInv(r)'
      BY <1>1, <2>1, <3>1, <3>2, StoringKeeps
    <3> QED  BY <1>1, <2>1, <2>2, <3>1, <3>3, RunMoves DEF HandlerKept, RunKept
  <2>4. CASE runs' = [runs EXCEPT ![r].status = "failed", ![r].totals = Null] /\ Abort(r, "done")
    <3> DEFINE v == [NoRunner EXCEPT !.pc = "done"]
    <3>1. DOMAIN v = RunnerFields /\ v.pc = "done" /\ v.read = FALSE /\ v.offset = 0 /\ v.since = 0
      BY DEF NoRunner, RunnerFields
    <3> HIDE DEF v
    <3>2. /\ DOMAIN runner' = Runs /\ runner'[r] = v /\ \A q \in Runs \ {r} : runner'[q] = runner[q]
          /\ runs'[r].status = "failed"
      BY <1>1, <2>4 DEF Abort, v, RunFields
    <3>3. Fetching(r)' /\ Reporting(r)'
      BY <3>1, <3>2 DEF Fetching, Reporting
    <3>4. stamp' \in Nat
      BY <2>1 DEF ReconTypes
    <3>5. RunInv(r)'
      BY <3>1, <3>2, <3>3, <3>4 DEF RunInv
    <3>6. HandlerKept(r) /\ RunKept(r)
      BY <2>4, <3>1, <3>2, RunSet DEF HandlerKept
    <3> QED  BY <1>1, <2>1, <2>2, <3>5, <3>6, RunMoves DEF HandlerKept, RunKept
  <2> QED  BY <2>1, <2>3, <2>4
<1> QED  BY <1>2, <1>3, <1>4, <1>5, <1>6, <1>7, <1>8, <1>9, <1>10 DEF RunStep

-----------------------------------------------------------------------------
(* The whole *)

\* A session's usage row disturbs neither an import nor a run
LEMMA LogUsageKeeps ==
    ASSUME ReconciliationAssumption, ReconInv, LogUsage
    PROVE  ReconInv'
<1>1. /\ ReconTypes /\ (\A i \in Imports : ImportInv(i)) /\ (\A r \in Runs : RunInv(r))
  BY DEF ReconInv
<1>2. /\ written' = written + 1 /\ stamp' = stamp + 1 /\ written < Len(UsageRows)
      /\ UNCHANGED <<imports, lines, runs, importer, runner, failures>>
  BY DEF LogUsage
<1>3. TablesGrow
  BY <1>2 DEF TablesGrow
<1>4. ReconTypes'
  <2>1. \A l \in lines' : LineOK(l)'
    BY <1>1, <1>2 DEF ReconTypes, LineOK
  <2>2. written' \in 0..Len(UsageRows) /\ stamp' \in Nat
    BY <1>1, <1>2 DEF ReconTypes, ReconciliationAssumption
  <2> QED  BY <1>1, <1>2, <2>1, <2>2 DEF ReconTypes
<1>5. \A i \in Imports : ImportInv(i)'
  BY <1>1, <1>2 DEF ImportInv, LinesOf
<1>6. \A r \in Runs : RunInv(r)'
  BY <1>1, <1>2, <1>3, <1>4, RunUndisturbed
<1> QED  BY <1>4, <1>5, <1>6 DEF ReconInv

\* The lines an import completed before has are at most those of its export
LEMMA EarlierLines ==
    ASSUME ReconciliationAssumption, NEW i \in Imports
    PROVE  Cardinality({l \in Earlier : l.import = i}) \in 0..Len(Export[i])
<1> DEFINE mine == {l \in Earlier : l.import = i}
           f == [l \in mine |-> l.n]
<1>1. IsFiniteSet(1..Len(Export[i])) /\ Cardinality(1..Len(Export[i])) = Len(Export[i])
  BY UpTo DEF ReconciliationAssumption
<1>2. f \in [mine -> 1..Len(Export[i])] /\ \A l, m \in mine : f[l] = f[m] => l = m
  BY DEF ReconciliationAssumption
<1>3. f \in Injection(mine, 1..Len(Export[i]))
  <2>1. DOMAIN f = mine
    OBVIOUS
  <2> HIDE DEF f, mine
  <2> QED  BY <1>2, <2>1 DEF Injection, IsInjective
<1>4. IsFiniteSet(mine)
  BY FS_Subset DEF ReconciliationAssumption
<1> HIDE DEF mine, f
<1>5. Cardinality(mine) <= Len(Export[i])
  BY <1>1, <1>3, <1>4, FS_Injection
<1>6. Cardinality(mine) \in Nat /\ Len(Export[i]) \in Nat
  BY <1>4, FS_CardinalityType DEF ReconciliationAssumption
<1> QED  BY <1>5, <1>6 DEF mine

LEMMA ReconInitInv ==
    ASSUME ReconciliationAssumption, ReconciliationInit
    PROVE  ReconInv
<1>1. \A i \in Imports : /\ LinesOf(i) = {l \in Earlier : l.import = i}
                         /\ Cardinality(LinesOf(i)) \in 0..Len(Export[i])
                         /\ Cardinality(LinesOf(i)) \in Nat
  <2> TAKE i \in Imports
  <2>1. LinesOf(i) = {l \in Earlier : l.import = i}
    BY DEF ReconciliationInit, LinesOf
  <2>2. Cardinality(LinesOf(i)) \in 0..Len(Export[i]) /\ Len(Export[i]) \in Nat
    BY <2>1, EarlierLines DEF ReconciliationAssumption
  <2> QED  BY <2>1, <2>2
<1>2. \A i \in Imports :
         /\ imports[i] = [status |-> IF LinesOf(i) = {} THEN "none" ELSE "completed",
                          count |-> Cardinality(LinesOf(i))]
         /\ importer[i] \in Importers /\ importer[i].pulled = {}
         /\ importer[i].pc \in {"done", "idle"} /\ (importer[i].pc = "idle" => LinesOf(i) = {})
  <2> TAKE i \in Imports
  <2>1. LinesOf(i) = {l \in Earlier : l.import = i}
    BY <1>1
  <2>2. imports[i] = [status |-> IF LinesOf(i) = {} THEN "none" ELSE "completed",
                      count |-> Cardinality(LinesOf(i))]
    BY <2>1 DEF ReconciliationInit
  <2>3. CASE \E l \in Earlier : l.import = i
    <3>1. importer[i] = [NoImporter EXCEPT !.pc = "done"]
      BY <2>3 DEF ReconciliationInit
    <3>2. importer[i].pc = "done" /\ importer[i].pulled = {} /\ importer[i] \in Importers
      BY <3>1 DEF NoImporter, Importers
    <3> QED  BY <2>2, <3>2
  <2>4. CASE ~\E l \in Earlier : l.import = i
    <3>1. importer[i] = [NoImporter EXCEPT !.pc = "idle"]
      BY <2>4 DEF ReconciliationInit
    <3>2. importer[i].pc = "idle" /\ importer[i].pulled = {} /\ importer[i] \in Importers
      BY <3>1 DEF NoImporter, Importers
    <3> QED  BY <2>1, <2>2, <2>4, <3>2
  <2> QED  BY <2>3, <2>4
<1>3. DOMAIN imports = Imports /\ DOMAIN importer = Imports
  BY DEF ReconciliationInit
<1>4. imports \in [Imports -> [status : Statuses, count : Nat]]
  <2>1. \A i \in Imports : imports[i] \in [status : Statuses, count : Nat]
    <3> TAKE i \in Imports
    <3>1. Cardinality(LinesOf(i)) \in Nat
      BY <1>1
    <3> DEFINE c == Cardinality(LinesOf(i))
    <3>2. imports[i] = [status |-> IF LinesOf(i) = {} THEN "none" ELSE "completed", count |-> c]
      BY <1>2
    <3> HIDE DEF c
    <3>3. c \in Nat
      BY <3>1 DEF c
    <3> QED  BY <3>2, <3>3 DEF Statuses
  <2>2. imports = [i \in Imports |-> imports[i]]
    BY DEF ReconciliationInit
  <2> QED  BY <2>1, <2>2
<1>5. importer \in [Imports -> Importers]
  <2>1. \A i \in Imports : importer[i] \in Importers
    BY <1>2
  <2>2. importer = [i \in Imports |-> importer[i]]
    BY DEF ReconciliationInit
  <2> QED  BY <2>1, <2>2
<1>6. stamp \in Nat /\ IsFiniteSet(lines) /\ \A l \in lines : LineOK(l)
  <2>1. /\ lines = Earlier /\ stamp = Cardinality(Earlier) /\ IsFiniteSet(Earlier)
    BY DEF ReconciliationInit, ReconciliationAssumption
  <2>2. \A l \in Earlier : LineOK(l)
    BY <2>1 DEF ReconciliationAssumption, LineOK
  <2> QED  BY <2>1, <2>2, FS_CardinalityType
<1>7. written \in 0..Len(UsageRows) /\ failures \in 0..MaxFailures /\ written = 0 /\ failures = 0
  BY DEF ReconciliationInit, ReconciliationAssumption
<1>8. /\ DOMAIN runs = Runs /\ DOMAIN runner = Runs
      /\ \A r \in Runs : /\ DOMAIN runs[r] = RunFields /\ DOMAIN runner[r] = RunnerFields
                         /\ runs[r].status = "none" /\ runner[r].pc = "idle" /\ ~runner[r].read
                         /\ runner[r].offset = 0 /\ runner[r].since = 0
  BY DEF ReconciliationInit, NoRunner, RunFields, RunnerFields
<1>9. ReconTypes
  BY <1>4, <1>5, <1>6, <1>7, <1>8 DEF ReconTypes, Importers, Statuses
<1>10. \A i \in Imports : ImportInv(i)
  <2> TAKE i \in Imports
  <2>1. /\ importer[i].pulled = {} /\ importer[i].pc \in {"done", "idle"}
        /\ importer[i].pc = "idle" => LinesOf(i) = {}
    BY <1>2
  <2> DEFINE c == Cardinality(LinesOf(i))
  <2>2. imports[i] = [status |-> IF LinesOf(i) = {} THEN "none" ELSE "completed", count |-> c]
    BY <1>2
  <2> HIDE DEF c
  <2>3. imports[i].count = c /\ (LinesOf(i) = {} => imports[i].status # "completed")
    BY <2>2
  <2>4. c \in 0..Len(Export[i]) /\ Len(Export[i]) \in Nat
    BY <1>1 DEF c, ReconciliationAssumption
  <2> QED  BY <2>1, <2>3, <2>4 DEF ImportInv, c
<1>11. \A r \in Runs : RunInv(r)
  BY <1>6, <1>8 DEF RunInv, Fetching, Reporting
<1> QED  BY <1>9, <1>10, <1>11 DEF ReconInv

LEMMA ReconNextInv ==
    ASSUME ReconciliationAssumption, ReconInv, [ReconciliationNext]_reconVars
    PROVE  ReconInv'
<1>1. /\ ReconTypes /\ (\A i \in Imports : ImportInv(i)) /\ (\A r \in Runs : RunInv(r))
  BY DEF ReconInv
<1>2. ASSUME NEW i \in Imports, ImportStep(i) PROVE ReconInv'
  <2>1. /\ ReconTypes' /\ (\A j \in Imports : ImportInv(j)')
        /\ TablesGrow /\ UNCHANGED <<runs, runner>>
    BY <1>1, <1>2, ImportStepKeeps
  <2>2. \A r \in Runs : RunInv(r)'
    BY <1>1, <2>1, RunUndisturbed
  <2> QED  BY <2>1, <2>2 DEF ReconInv
<1>3. ASSUME NEW r \in Runs, RunStep(r) PROVE ReconInv'
  <2>1. ReconTypes' /\ (\A q \in Runs : RunInv(q)') /\ UNCHANGED <<imports, importer, lines>>
    BY <1>1, <1>3, RunStepKeeps
  <2>2. \A i \in Imports : ImportInv(i)'
    BY <1>1, <2>1 DEF ImportInv, LinesOf
  <2> QED  BY <2>1, <2>2 DEF ReconInv
<1>4. CASE LogUsage
  BY <1>4, LogUsageKeeps
<1>5. CASE UNCHANGED reconVars
  <2>1. UNCHANGED <<imports, lines, written, runs, importer, runner, stamp, failures>>
    BY <1>5 DEF reconVars, reconTables
  <2>2. ReconTypes'
    BY <1>1, <2>1 DEF ReconTypes, LineOK
  <2>3. TablesGrow
    BY <2>1 DEF TablesGrow
  <2>4. \A r \in Runs : RunInv(r)'
    BY <1>1, <2>1, <2>2, <2>3, RunUndisturbed
  <2>5. \A i \in Imports : ImportInv(i)'
    BY <1>1, <2>1 DEF ImportInv, LinesOf
  <2> QED  BY <2>2, <2>4, <2>5 DEF ReconInv
<1> QED  BY <1>2, <1>3, <1>4, <1>5 DEF ReconciliationNext

LEMMA ReconInvariant == ReconciliationSpec => []ReconInv
<1>1. ReconciliationInit => ReconInv
  BY ReconciliationAssumption, ReconInitInv
<1>2. ReconInv /\ [ReconciliationNext]_reconVars => ReconInv'
  BY ReconciliationAssumption, ReconNextInv
<1> QED  BY <1>1, <1>2, PTL DEF ReconciliationSpec

\* A completed import has all its lines in the table and a completed run the findings its
\* totals came with, whichever calls failed or took effect without an answer.
THEOREM ImportsAndRunsAreWhole == ReconciliationSpec => []CompletedIsWhole
<1>1. ReconInv => CompletedIsWhole
  <2> SUFFICES ASSUME ReconInv PROVE CompletedIsWhole
    OBVIOUS
  <2>1. ReconTypes /\ (\A i \in Imports : ImportInv(i)) /\ (\A r \in Runs : RunInv(r))
    BY DEF ReconInv
  <2>2. \A l \in lines : /\ l.import \in Imports /\ l.provider = Provider[l.import]
                         /\ l.created \in 1..stamp /\ ProviderCost(l) \in Nat
    BY <2>1 DEF ReconTypes, LineOK, ProviderCost
  <2>3. \A i \in Imports : imports[i].status \in Statuses /\ imports[i].count \in 0..Len(Export[i])
    <3> TAKE i \in Imports
    <3>1. imports[i].count \in Nat /\ imports[i].status \in Statuses
      BY <2>1 DEF ReconTypes
    <3>2. imports[i].count <= Len(Export[i]) /\ Len(Export[i]) \in Nat
      BY <2>1 DEF ImportInv, ReconciliationAssumption
    <3> QED  BY ReconciliationAssumption, <3>1, <3>2
  <2>4. ReconciliationTypeOK
    BY <2>1, <2>2, <2>3 DEF ReconciliationTypeOK, ReconTypes, Statuses
  <2>5. \A i \in Imports : imports[i].status = "completed" =>
           imports[i].count = Cardinality({l \in lines : l.import = i})
    BY <2>1 DEF ImportInv, LinesOf
  <2>6. \A r \in Runs : runs[r].status = "completed" =>
           runs[r].findings = runner[r].report.findings /\ runs[r].totals = runner[r].report.totals
    BY <2>1 DEF RunInv, Reporting
  <2> QED  BY <2>4, <2>5, <2>6 DEF CompletedIsWhole
<1> QED  BY <1>1, ReconInvariant, PTL

\* Paging by offset, newest first, while rows go on being inserted loses no row that was
\* there when the run began.
THEOREM PagingMissesNothing == ReconciliationSpec => []NothingMissed
<1>1. ReconInv => NothingMissed
  BY DEF ReconInv, RunInv, Reporting, NothingMissed
<1> QED  BY <1>1, ReconInvariant, PTL

\* What a run that was not disturbed stores is the truth: the sums of the tables for every
\* provider, and a finding for every line that was a loss.
THEOREM QuietReportsAreTrue == ReconciliationSpec => []QuietReportIsTrue
<1>1. ReconInv => QuietReportIsTrue
  <2> SUFFICES ASSUME ReconInv, NEW r \in Runs, runs[r].status = "completed", Untied(r), Quiet(r)
               PROVE  /\ DOMAIN runs[r].totals = {x.provider : x \in SawLines(r) \union SawLogs(r)}
                      /\ \A p \in DOMAIN runs[r].totals :
                            LET got == {l \in SawLines(r) : l.provider = p}
                                own == {x \in SawLogs(r) : x.provider = p}
                            IN /\ runs[r].totals[p].imported = Money(got, ProviderCost)
                               /\ runs[r].totals[p].internal = Money(own, InternalCost)
                               /\ runs[r].totals[p].margin
                                    = Money(own, BilledCost) - Money(got, ProviderCost)
                      /\ LossIsFlagged(r)
    BY DEF QuietReportIsTrue
  <2>1. Truth(runs[r].totals, runs[r].findings, SawLines(r), SawLogs(r))
    BY DEF ReconInv, RunInv, Reporting
  <2> QED  BY <2>1 DEF Truth, Flagged, LossIsFlagged
<1> QED  BY <1>1, ReconInvariant, PTL
===========================================================================

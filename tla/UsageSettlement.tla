-------------------------- MODULE UsageSettlement --------------------------
(***************************************************************************)
(* Settlement of the usage reports the LiveKit agent sends                 *)
(* (process_usage_report).  Every database call of the handler is one      *)
(* step, so requests handled by different workers interleave between any   *)
(* two of them; nothing but a single call is atomic.                       *)
(*                                                                         *)
(* A report is its key: what it says is fixed by Content.  Prices are given *)
(* (an item's cost in micro-credits), providers are one, minutes are whole. *)
(* A handler that fails or is killed leaves what it has written: the agent  *)
(* may send the report again.                                              *)
(***************************************************************************)
EXTENDS CreditLedger, FiniteSetsExt

CONSTANTS
    Workers,            \* requests being handled at once
    Reports,            \* report keys
    Content,            \* Reports -> [user, items : Seq([cost, own]), minutes]
    DayMinutes,         \* billing_platform_day_minutes
    DayFee,             \* billing_platform_day_credits
    MinuteFee,          \* billing_platform_extra_minute_credits
    MaxDeliveries,      \* bound: requests the agent sends
    MaxFaults,          \* bound: handlers lost before they answer
    MaxDay,             \* bound: UTC days
    MaxTopUps,          \* bound: other movements of a balance
    None

ASSUME SettlementAssumption ==
    /\ Reports \subseteq Refs
    /\ \A r \in Reports : /\ Content[r].user \in Users
                         /\ Content[r].items \in Seq([cost : Nat, own : BOOLEAN])
                         /\ Content[r].minutes \in Nat
    /\ {DayMinutes, DayFee, MinuteFee} \subseteq Nat
    /\ MaxDay \in Nat \ {0}

VARIABLES
    reports,        \* usage_reports: Reports -> [status, result]
    dayClaims,      \* usage_reports: the platform-day keys, <<user, day>>
    logs,           \* credit_usage_logs, in insertion order
    connected,      \* users with a row in kwami_provider_keys
    day,            \* the current UTC day
    handler,        \* Workers -> the request being handled
    answers,        \* history: what the agent was answered, [report, result]
    deliveries, faults, topUps   \* counters, bounded

tables  == <<reports, dayClaims, logs>>
outside == <<connected, day>>
bounds  == <<deliveries, faults, topUps>>
vars    == <<accounts, credits, ledger, tables, outside, bounds, handler, answers>>

Idle == [pc |-> "idle", report |-> None, items |-> << >>, today |-> 0, extra |-> 0,
         logged |-> << >>, requested |-> 0, available |-> 0, charged |-> 0, unpaid |-> 0,
         status |-> "skipped", remaining |-> 0, next |-> 1]

\* the empty result a claimed report has until it is finalized
Empty == [status |-> "none", requested |-> 0, charged |-> 0, unpaid |-> 0]

UserOf(r) == Content[r].user

---------------------------------------------------------------------------
(* Pricing of one report *)

\* calculate_usage_charge, on what _only_keys_they_connected left of own_key
Priced(r) ==
    [i \in DOMAIN Content[r].items |->
        LET item == Content[r].items[i]
            own  == item.own /\ UserOf(r) \in connected
        IN  [kind |-> IF own THEN "own" ELSE "metered",
             cost |-> IF own THEN 0 ELSE item.cost, minutes |-> 0, fee |-> FALSE]]

Over(minutes) == IF minutes > DayMinutes THEN minutes - DayMinutes ELSE 0

PlatformRows(u, d) ==
    {i \in DOMAIN logs : logs[i].kind = "platform" /\ logs[i].user = u /\ logs[i].day >= d}

\* What the session adds to the minutes of the day past the included ones
ExtraMinutes(u, d, minutes) ==
    LET used == SumFunctionOnSet([i \in DOMAIN logs |-> logs[i].minutes], PlatformRows(u, d))
    IN  Over(used + minutes) - Over(used)

PlatformItem(h, withFee) ==
    [kind |-> "platform", minutes |-> Content[h.report].minutes, fee |-> withFee,
     cost |-> h.extra * MinuteFee + (IF withFee THEN DayFee ELSE 0)]

---------------------------------------------------------------------------
(* The handler *)

Goto(w, h) == handler' = [handler EXCEPT ![w] = h]

Answer(w, result) ==
    /\ answers' = answers \cup {[report |-> handler[w].report, result |-> result]}
    /\ Goto(w, Idle)

\* POST /usage/report; resolve_ledger_user_id has mapped the id to UserOf(r)
Receive(w, r) ==
    /\ handler[w].pc = "idle"
    /\ deliveries < MaxDeliveries
    /\ UserOf(r) \in accounts
    /\ deliveries' = deliveries + 1
    /\ Goto(w, [Idle EXCEPT !.pc = "find", !.report = r])
    /\ UNCHANGED <<ledgerVars, tables, outside, faults, topUps, answers>>

\* _find_usage_report: an existing row answers at once, whatever its status
Find(w) ==
    LET h == handler[w] IN
    /\ h.pc = "find"
    /\ IF reports[h.report].status # "none"
       THEN Answer(w, reports[h.report].result)
       ELSE Goto(w, [h EXCEPT !.pc = "claim"]) /\ UNCHANGED answers
    /\ UNCHANGED <<ledgerVars, tables, outside, bounds>>

ClaimUpsert(w) ==    \* mutant: the claim overwrites a row it finds
    LET h == handler[w] IN
    /\ h.pc = "claim"
    /\ reports' = [reports EXCEPT ![h.report] = [status |-> "pending", result |-> Empty]]
    /\ Goto(w, [h EXCEPT !.pc = "keys"])
    /\ UNCHANGED <<ledgerVars, dayClaims, logs, outside, bounds, answers>>

\* INSERT INTO usage_reports, which UNIQUE (report_key) refuses to all but one
Claim(w) ==
    LET h == handler[w] IN
    /\ h.pc = "claim"
    /\ IF reports[h.report].status # "none"
       THEN Goto(w, [h EXCEPT !.pc = "refind"]) /\ UNCHANGED reports
       ELSE /\ reports' = [reports EXCEPT ![h.report] = [status |-> "pending",
                                                        result |-> Empty]]
            /\ Goto(w, [h EXCEPT !.pc = "keys"])
    /\ UNCHANGED <<ledgerVars, dayClaims, logs, outside, bounds, answers>>

\* Lost the race: answer what the row says now
Refind(w) ==
    /\ handler[w].pc = "refind"
    /\ Answer(w, reports[handler[w].report].result)
    /\ UNCHANGED <<ledgerVars, tables, outside, bounds>>

\* _only_keys_they_connected; a session with own-key usage also owes the platform, and
\* one without usage nothing
ReadKeys(w) ==
    LET h     == handler[w]
        items == Priced(h.report)
        own   == \E i \in DOMAIN items : items[i].kind = "own"
    IN
    /\ h.pc = "keys"
    /\ Goto(w, [h EXCEPT !.items = items,
                         !.pc = CASE own /\ Content[h.report].minutes > 0 -> "today"
                                  [] items = << >> -> "finalize"
                                  [] OTHER -> "log"])
    /\ UNCHANGED <<ledgerVars, tables, outside, bounds, answers>>

\* _platform_charge_micro reads the day's platform rows
ReadToday(w) ==
    LET h     == handler[w]
        u     == UserOf(h.report)
        first == PlatformRows(u, day) = {}
        h1    == [h EXCEPT !.today = day,
                           !.extra = ExtraMinutes(u, day, Content[h.report].minutes)]
    IN
    /\ h.pc = "today"
    /\ Goto(w, IF first
               THEN [h1 EXCEPT !.pc = "fee"]
               ELSE [h1 EXCEPT !.pc = "log", !.items = Append(@, PlatformItem(h1, FALSE))])
    /\ UNCHANGED <<ledgerVars, tables, outside, bounds, answers>>

ClaimDayFeeAlways(w) ==    \* mutant: whoever saw no earlier session charges the fee
    LET h   == handler[w]
        key == <<UserOf(h.report), h.today>>
    IN
    /\ h.pc = "fee"
    /\ dayClaims' = dayClaims \cup {key}
    /\ Goto(w, [h EXCEPT !.pc = "log", !.items = Append(@, PlatformItem(h, TRUE))])
    /\ UNCHANGED <<ledgerVars, reports, logs, outside, bounds, answers>>

\* _claim_day_fee: the insert of the platform-day key decides who charges the fee
ClaimDayFee(w) ==
    LET h   == handler[w]
        key == <<UserOf(h.report), h.today>>
    IN
    /\ h.pc = "fee"
    /\ dayClaims' = dayClaims \cup {key}
    /\ Goto(w, [h EXCEPT !.pc = "log",
                         !.items = Append(@, PlatformItem(h, key \notin dayClaims))])
    /\ UNCHANGED <<ledgerVars, reports, logs, outside, bounds, answers>>

\* log_usage for the next item, stamped with the day it is inserted
LogItem(w) ==
    LET h    == handler[w]
        item == h.items[h.next]
        h1   == [h EXCEPT !.logged = Append(@, Len(logs) + 1), !.requested = @ + item.cost]
    IN
    /\ h.pc = "log"
    /\ logs' = Append(logs,
          [report |-> h.report, user |-> UserOf(h.report), kind |-> item.kind,
           minutes |-> item.minutes, fee |-> item.fee, today |-> h.today, day |-> day,
           requested |-> item.cost, charged |-> 0, status |-> "pending"])
    /\ Goto(w, IF h.next < Len(h.items) THEN [h1 EXCEPT !.next = @ + 1]
               ELSE [h1 EXCEPT !.next = 1,
                               !.pc = IF h1.requested > 0 THEN "balance" ELSE "allocate"])
    /\ UNCHANGED <<ledgerVars, reports, dayClaims, outside, bounds, answers>>

\* What can be paid out of a balance just read
Quote(h, balance) ==
    LET charged == Min({h.requested, balance})
        h1 == [h EXCEPT !.available = balance, !.unpaid = h.requested - charged]
    IN  IF charged > 0
        THEN [h1 EXCEPT !.pc = "deduct", !.charged = charged]
        ELSE [h1 EXCEPT !.pc = "allocate", !.status = "insufficient_credits"]

\* get_balance, whose SELECT may find no row ...
GetBalance(w) ==
    LET h == handler[w]
        u == UserOf(h.report)
    IN
    /\ h.pc = "balance"
    /\ Goto(w, IF u \in DOMAIN credits THEN Quote(h, credits[u].balance)
               ELSE [h EXCEPT !.pc = "ensure"])
    /\ UNCHANGED <<ledgerVars, tables, outside, bounds, answers>>

\* ... and then inserts one, which fails the request if another did meanwhile
EnsureBalance(w) ==
    LET h == handler[w] IN
    /\ h.pc = "ensure"
    /\ IF UserOf(h.report) \in DOMAIN credits
       THEN Goto(w, Idle) /\ UNCHANGED ledgerVars
       ELSE Goto(w, Quote(h, 0)) /\ EnsureRow(UserOf(h.report))
    /\ UNCHANGED <<tables, outside, bounds, answers>>

\* deduct_credits
DeductOk(w) ==
    LET h == handler[w] IN
    /\ h.pc = "deduct"
    /\ DeductCredits(UserOf(h.report), h.charged, h.report)
    /\ Goto(w, [h EXCEPT !.pc = "allocate", !.remaining = h.charged,
                         !.status = IF h.unpaid = 0 THEN "charged" ELSE "partially_charged"])
    /\ UNCHANGED <<tables, outside, bounds, answers>>

\* The balance moved between the read and the deduct
DeductRefused(w) ==
    LET h == handler[w] IN
    /\ h.pc = "deduct"
    /\ ~CanDeduct(UserOf(h.report), h.charged)
    /\ Goto(w, [h EXCEPT !.pc = "allocate", !.charged = 0, !.unpaid = h.requested,
                         !.status = "insufficient_credits"])
    /\ UNCHANGED <<ledgerVars, tables, outside, bounds, answers>>

\* One item's share of what was charged: [charged, status]
ShareIgnoringRest(h, requested) ==    \* mutant: shares the whole charge with every item
    CASE requested = 0 -> [charged |-> 0, status |-> "skipped"]
      [] requested > 0 /\ h.charged > 0 ->
            LET c == Min({requested, h.charged})
            IN  [charged |-> c,
                 status |-> IF c = requested THEN "charged" ELSE "partially_charged"]
      [] OTHER -> [charged |-> 0, status |-> "written_off"]

Share(h, requested) ==
    CASE requested = 0 -> [charged |-> 0, status |-> "skipped"]
      [] requested > 0 /\ h.remaining > 0 ->
            LET c == Min({requested, h.remaining})
            IN  [charged |-> c,
                 status |-> IF c = requested THEN "charged" ELSE "partially_charged"]
      [] OTHER -> [charged |-> 0, status |-> "written_off"]

\* update_usage_settlement for the next logged item
AllocateItem(w) ==
    LET h     == handler[w]
        id    == h.logged[h.next]
        share == Share(h, logs[id].requested)
    IN
    /\ h.pc = "allocate"
    /\ logs' = [logs EXCEPT ![id].charged = share.charged, ![id].status = share.status]
    /\ Goto(w, [h EXCEPT !.remaining = @ - share.charged, !.next = @ + 1,
                         !.pc = IF h.next = Len(h.logged) THEN "finalize" ELSE "allocate"])
    /\ UNCHANGED <<ledgerVars, reports, dayClaims, outside, bounds, answers>>

ResultOf(h) ==
    [status |-> h.status, requested |-> h.requested, charged |-> h.charged,
     unpaid |-> h.unpaid]

\* _finalize_usage_report, then the answer
Finalize(w) ==
    LET h == handler[w] IN
    /\ h.pc = "finalize"
    /\ reports' = [reports EXCEPT ![h.report] =
                      [status |-> IF h.unpaid = 0 THEN "settled" ELSE "partially_settled",
                       result |-> ResultOf(h)]]
    /\ Answer(w, ResultOf(h))
    /\ UNCHANGED <<ledgerVars, dayClaims, logs, outside, bounds>>

\* The write of _finalize_usage_report fails, which is logged and no more
FinalizeUnrecorded(w) ==
    /\ handler[w].pc = "finalize"
    /\ faults < MaxFaults
    /\ faults' = faults + 1
    /\ Answer(w, ResultOf(handler[w]))
    /\ UNCHANGED <<ledgerVars, tables, outside, deliveries, topUps>>

\* A database call raises, or the worker dies: no answer, no cleanup
Fail(w) ==
    /\ handler[w].pc # "idle"
    /\ faults < MaxFaults
    /\ faults' = faults + 1
    /\ Goto(w, Idle)
    /\ UNCHANGED <<ledgerVars, tables, outside, deliveries, topUps, answers>>

Handle(w) ==
    \/ Find(w) \/ Claim(w) \/ Refind(w) \/ ReadKeys(w) \/ ReadToday(w) \/ ClaimDayFee(w)
    \/ LogItem(w) \/ GetBalance(w) \/ EnsureBalance(w) \/ DeductOk(w) \/ DeductRefused(w)
    \/ AllocateItem(w) \/ Finalize(w)

---------------------------------------------------------------------------
(* What else happens meanwhile *)

NewUser(u) == SignUp(u) /\ UNCHANGED <<tables, outside, bounds, handler, answers>>

\* A purchase, or a refund's clawback, by another route
MoveBalance(u, a) ==
    /\ topUps < MaxTopUps
    /\ topUps' = topUps + 1
    /\ AddCredits(u, a, "purchase", NoKey, NoRef) \/ DeductCredits(u, a, NoRef)
    /\ UNCHANGED <<tables, outside, deliveries, faults, handler, answers>>

\* PUT and DELETE of /providers
ToggleKey(u) ==
    /\ connected' = IF u \in connected THEN connected \ {u} ELSE connected \cup {u}
    /\ UNCHANGED <<ledgerVars, tables, day, bounds, handler, answers>>

Midnight ==
    /\ day < MaxDay
    /\ day' = day + 1
    /\ UNCHANGED <<ledgerVars, tables, connected, bounds, handler, answers>>

Init ==
    /\ LedgerInit
    /\ reports = [r \in Reports |-> [status |-> "none", result |-> Empty]]
    /\ dayClaims = {}
    /\ logs = << >>
    /\ connected = Users
    /\ day = 1
    /\ handler = [w \in Workers |-> Idle]
    /\ answers = {}
    /\ deliveries = 0 /\ faults = 0 /\ topUps = 0

Next ==
    \/ \E w \in Workers : Handle(w) \/ FinalizeUnrecorded(w) \/ Fail(w)
    \/ \E w \in Workers, r \in Reports : Receive(w, r)
    \/ \E u \in Users : NewUser(u) \/ ToggleKey(u)
    \/ \E u \in Users, a \in Amounts : MoveBalance(u, a)
    \/ Midnight

Spec == Init /\ [][Next]_vars

\* The event loop runs every coroutine whose call has returned; nothing makes
\* the agent send, the user pay or the night fall
FairSpec == Spec /\ \A w \in Workers : WF_vars(Handle(w))

---------------------------------------------------------------------------
(* Properties *)

LogsOf(r) == {i \in DOMAIN logs : logs[i].report = r}
DebitsOf(r) == {i \in DOMAIN ledger : ledger[i].ref = r}
Debited(r) == SumFunctionOnSet([i \in DOMAIN ledger |-> 0 - ledger[i].amount], DebitsOf(r))
Requested(r) == SumFunctionOnSet([i \in DOMAIN logs |-> logs[i].requested], LogsOf(r))
Allocated(r) == SumFunctionOnSet([i \in DOMAIN logs |-> logs[i].charged], LogsOf(r))

ReportStatuses == {"none", "pending", "settled", "partially_settled"}
SettlementStatuses == {"charged", "partially_charged", "insufficient_credits", "skipped"}
ItemStatuses == {"pending", "charged", "partially_charged", "written_off", "skipped"}
Results == [status : SettlementStatuses \cup {"none"}, requested : Nat, charged : Nat,
            unpaid : Nat]

UsageTypeOK ==
    /\ TypeOK
    /\ reports \in [Reports -> [status : ReportStatuses, result : Results]]
    /\ dayClaims \subseteq Users \X (1 .. MaxDay)
    /\ \A i \in DOMAIN logs :
          /\ logs[i].report \in Reports /\ logs[i].status \in ItemStatuses
          /\ logs[i].charged <= logs[i].requested
    /\ \A w \in Workers : handler[w].remaining \in Nat /\ handler[w].unpaid \in Nat
    /\ answers \subseteq [report : Reports, result : Results]

\* A report is debited at most once, however many workers receive it, in
\* whatever order they interleave, and whichever of them die half way; and two
\* answers about one report that say anything say the same.
ChargedOnce ==
    /\ \A r \in Reports : Cardinality(DebitsOf(r)) <= 1
    /\ \A a, b \in answers :
          a.report = b.report /\ a.result # Empty /\ b.result # Empty => a.result = b.result

\* Nothing is debited that was not logged first, and no row is marked charged
\* out of thin air; once the report is settled its rows add up to its ledger
\* entry, and entry and rest to what was requested.
RowsAddUp ==
    /\ UsageTypeOK
    /\ \A r \in Reports :
        /\ Allocated(r) <= Debited(r) /\ Debited(r) <= Requested(r)
        /\ reports[r].status \in {"settled", "partially_settled"} =>
              /\ Allocated(r) = Debited(r)
              /\ reports[r].result.charged = Debited(r)
              /\ reports[r].result.unpaid = Requested(r) - Debited(r)
              /\ \A i \in LogsOf(r) : logs[i].status # "pending"

\* A user pays the day's platform fee at most once a day, also when two reports
\* both found no earlier session.
DayFeeOnce ==
    \A i, j \in DOMAIN logs :
        /\ logs[i].fee /\ logs[j].fee
        /\ logs[i].user = logs[j].user /\ logs[i].today = logs[j].today
        => i = j

\* A report the API has claimed is settled sooner or later, if no call fails, and
\* what is stored of a settled report is never touched again.  For a user
\* older than the credit rows one call may: get_balance inserts the missing row, and of two
\* reports handled at once the second is refused that insert and stays pending.
ClaimedIsSettled ==
    /\ \A r \in {x \in Reports : UserOf(x) \notin LegacyUsers} :
          reports[r].status = "pending" ~>
              reports[r].status \in {"settled", "partially_settled"} \/ faults > 0
    /\ [][\A r \in Reports :
             reports[r].status \in {"settled", "partially_settled"} =>
                reports'[r] = reports[r]]_vars
=============================================================================

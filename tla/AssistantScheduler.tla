------------------------- MODULE AssistantScheduler -------------------------
(***************************************************************************)
(* Reminders, scheduled work and scheduled reports: the scheduler loop that *)
(* every machine of the API runs (tick, fire, _claim, deliver,             *)
(* notify_finished_work), and the requests that change the tasks it reads  *)
(* (create_task, update_task, delete_task, save_settings).  Every call to  *)
(* the database is one step; machines share nothing but the tables.        *)
(*                                                                         *)
(* Time is a bounded clock all machines agree on.  A rule is the set of    *)
(* instants it falls on.  A message is what it is about; sending it to the *)
(* phone changes no table, and is the time between a claim and the insert. *)
(* The brain process that does the jobs is external.                       *)
(***************************************************************************)
EXTENDS Integers, Sequences, FiniteSets, SequencesExt, FiniteSetsExt

CONSTANTS
    Machines,       \* processes running the scheduler loop
    Savers,         \* requests to PUT /assistant/settings being handled at once
    Tasks,          \* uuids of kwami_assistant_tasks
    Kind,           \* Tasks -> {"reminder", "followup", "work", "report"}
    Repeats,        \* Tasks -> whether the rule is daily or weekly
    Times,          \* Tasks -> the instants the rule falls on
    StaleAfter,     \* REPORT_STALE_AFTER
    MaxDuePerTick,  \* MAX_DUE_PER_TICK
    MaxTime,        \* bound: the clock
    MaxCreated,     \* bound: tasks the user creates
    MaxEdits,       \* bound: changes the user makes to one task
    MaxSaves,       \* bound: requests to save the settings
    MaxFaults       \* bound: calls that raise, and machines that die

NoTime == 0     \* next_run_at IS NULL

ASSUME SchedulerAssumption ==
    /\ MaxDuePerTick \in Nat \ {0} /\ StaleAfter \in Nat /\ MaxTime \in Nat \ {0}
    /\ IsFiniteSet(Tasks)
    /\ \A t \in Tasks :
          /\ Times[t] \subseteq Nat \ {NoTime}
          /\ Repeats[t] => \E x \in Times[t] : x > MaxTime

VARIABLES
    tasks,      \* kwami_assistant_tasks: Tasks -> [status, next, last]
    reportsOn,  \* kwami_assistant_settings.reports_enabled
    jobs,       \* brain_jobs of the schedule, in insertion order
    notices,    \* kwami_assistant_notifications, in insertion order
    machine,    \* Machines -> the tick being run
    saver,      \* Savers -> the request being handled
    clock,
    edits, saves, faults    \* counters, bounded

tables == <<tasks, reportsOn, jobs, notices>>
bounds == <<edits, saves, faults>>
vars   == <<tables, machine, saver, clock, bounds>>

Asleep == [pc |-> "asleep", moment |-> 0, queue |-> << >>]
NoSave == [pc |-> "idle", enabled |-> FALSE, now |-> 0, left |-> {}]

Reports == {t \in Tasks : Kind[t] = "report"}
Exists(t) == tasks[t].status \notin {"none", "deleted"}

\* next_occurrence: the first instant of the rule strictly after `after`
NextOccurrence(t, after) ==
    IF Repeats[t] THEN Min({x \in Times[t] : x > after}) ELSE NoTime

---------------------------------------------------------------------------
(* One tick of one machine.  Its queue holds the rows it has read.          *)

Goto(m, h) == machine' = [machine EXCEPT ![m] = h]
Item(m) == Head(machine[m].queue)

\* The next row of the loop; after the ended jobs the due tasks, after these sleep
Onward(h) ==
    LET rest  == Tail(h.queue)
        ended == Head(h.queue).job # 0
    IN  IF rest # << >>
        THEN [h EXCEPT !.queue = rest, !.pc = IF ended THEN "stamp" ELSE "claim"]
        ELSE IF ended THEN [h EXCEPT !.queue = rest, !.pc = "select"] ELSE Asleep

\* notify_finished_work: the jobs of the schedule that ended and nobody told of
SelectEnded(m) ==
    LET ended == {j \in DOMAIN jobs : jobs[j].status = "ended" /\ ~jobs[j].notified} IN
    /\ machine[m].pc = "asleep"
    /\ \E q \in SetToSeqs({[task |-> jobs[j].task, due |-> jobs[j].due, job |-> j,
                            linked |-> Exists(jobs[j].task)] : j \in ended}) :
          Goto(m, [pc |-> IF q = << >> THEN "select" ELSE "stamp", moment |-> clock,
                   queue |-> SubSeq(q, 1, Min({MaxDuePerTick, Len(q)}))])
    /\ UNCHANGED <<tables, saver, clock, bounds>>

StampJobAlways(m) ==    \* mutant: the update does not ask for notified_at IS NULL
    /\ machine[m].pc = "stamp"
    /\ jobs' = [jobs EXCEPT ![Item(m).job].notified = TRUE]
    /\ Goto(m, [machine[m] EXCEPT !.pc = "deliver"])
    /\ UNCHANGED <<tasks, reportsOn, notices, saver, clock, bounds>>

StampJobInverted(m) ==    \* mutant: goes on when the update found the row
    LET j == Item(m).job IN
    /\ machine[m].pc = "stamp"
    /\ jobs' = [jobs EXCEPT ![j].notified = TRUE]
    /\ Goto(m, IF jobs[j].notified THEN [machine[m] EXCEPT !.pc = "deliver"]
               ELSE Onward(machine[m]))
    /\ UNCHANGED <<tasks, reportsOn, notices, saver, clock, bounds>>

\* notified_at is stamped before sending; who finds it stamped goes on
StampJob(m) ==
    LET j == Item(m).job IN
    /\ machine[m].pc = "stamp"
    /\ jobs' = [jobs EXCEPT ![j].notified = TRUE]
    /\ Goto(m, IF jobs[j].notified THEN Onward(machine[m])
               ELSE [machine[m] EXCEPT !.pc = "deliver"])
    /\ UNCHANGED <<tasks, reportsOn, notices, saver, clock, bounds>>

\* The open tasks whose time has come, oldest first
Due(t, now) == tasks[t].status = "open" /\ tasks[t].next # NoTime /\ tasks[t].next <= now

SelectDue(m) ==
    LET h   == machine[m]
        due == {[task |-> t, due |-> tasks[t].next, job |-> 0, linked |-> TRUE] :
                    t \in {x \in Tasks : Due(x, h.moment)}}
    IN
    /\ h.pc = "select"
    /\ \E q \in SetToSeqs(due) :
          /\ \A i \in 1 .. Len(q) - 1 : q[i].due <= q[i + 1].due
          /\ Goto(m, IF q = << >> THEN Asleep
                     ELSE [h EXCEPT !.pc = "claim",
                                    !.queue = SubSeq(q, 1, Min({MaxDuePerTick, Len(q)}))])
    /\ UNCHANGED <<tables, saver, clock, bounds>>

\* What fire goes on with once it has the claim; a stale report is dropped
Claimed(h) ==
    LET i == Head(h.queue) IN
    CASE Kind[i.task] = "work" -> [h EXCEPT !.pc = "enqueue"]
      [] Kind[i.task] = "report" /\ h.moment - i.due > StaleAfter -> Onward(h)
      [] OTHER -> [h EXCEPT !.pc = "deliver"]

ClaimOpen(m) ==    \* mutant: the update asks for an open task, not for the instant read
    LET h == machine[m]
        t == Item(m).task
        next == NextOccurrence(t, h.moment)
    IN
    /\ h.pc = "claim"
    /\ IF tasks[t].status = "open"
       THEN /\ tasks' = [tasks EXCEPT ![t] =
                   [status |-> IF next = NoTime THEN "done" ELSE @.status,
                    next |-> next, last |-> h.moment]]
            /\ Goto(m, Claimed(h))
       ELSE Goto(m, Onward(h)) /\ UNCHANGED tasks
    /\ UNCHANGED <<reportsOn, jobs, notices, saver, clock, bounds>>

\* _claim: the update that still finds the next_run_at it read wins the occurrence;
\* it does not ask for the status
Claim(m) ==
    LET h == machine[m]
        t == Item(m).task
        next == NextOccurrence(t, h.moment)
    IN
    /\ h.pc = "claim"
    /\ IF Exists(t) /\ tasks[t].next = Item(m).due
       THEN /\ tasks' = [tasks EXCEPT ![t] =
                   [status |-> IF next = NoTime THEN "done" ELSE @.status,
                    next |-> next, last |-> h.moment]]
            /\ Goto(m, Claimed(h))
       ELSE Goto(m, Onward(h)) /\ UNCHANGED tasks
    /\ UNCHANGED <<reportsOn, jobs, notices, saver, clock, bounds>>

\* Scheduled work becomes a job, unless its task was deleted meanwhile: the row
\* refers to it
Enqueue(m) ==
    LET i == Item(m) IN
    /\ machine[m].pc = "enqueue"
    /\ jobs' = IF Exists(i.task)
               THEN Append(jobs, [task |-> i.task, due |-> i.due,
                                  status |-> "queued", notified |-> FALSE])
               ELSE jobs
    /\ Goto(m, Onward(machine[m]))
    /\ UNCHANGED <<tasks, reportsOn, notices, saver, clock, bounds>>

\* deliver, whose insert a task deleted since it was read refuses
Deliver(m) ==
    LET i == Item(m) IN
    /\ machine[m].pc = "deliver"
    /\ notices' = IF i.linked => Exists(i.task)
                  THEN Append(notices, [task |-> i.task, due |-> i.due, job |-> i.job])
                  ELSE notices
    /\ Goto(m, Onward(machine[m]))
    /\ UNCHANGED <<tasks, reportsOn, jobs, saver, clock, bounds>>

\* A call of the tick raises, which costs the row being worked on or the tick, or
\* the machine dies
Fail(m) ==
    /\ machine[m].pc # "asleep"
    /\ faults < MaxFaults
    /\ faults' = faults + 1
    /\ \/ Goto(m, Asleep)
       \/ machine[m].queue # << >> /\ Goto(m, Onward(machine[m]))
    /\ UNCHANGED <<tables, saver, clock, edits, saves>>

Tick(m) ==
    \/ SelectEnded(m) \/ StampJob(m) \/ SelectDue(m) \/ Claim(m) \/ Enqueue(m) \/ Deliver(m)

---------------------------------------------------------------------------
(* Requests of the user *)

\* _schedule_fields: a one-off run_at must lie ahead; only a followup may have no time
FirstRuns(t) ==
    IF Repeats[t] THEN {NextOccurrence(t, clock)}
    ELSE {x \in Times[t] : x > clock} \cup (IF Kind[t] = "followup" THEN {NoTime} ELSE {})

\* create_task
Create(t) ==
    /\ Kind[t] # "report" /\ tasks[t].status = "none"
    /\ Cardinality({x \in Tasks : tasks[x].status # "none"} \ Reports) < MaxCreated
    /\ \E next \in FirstRuns(t) :
          tasks' = [tasks EXCEPT ![t] = [status |-> "open", next |-> next, last |-> 0]]
    /\ UNCHANGED <<reportsOn, jobs, notices, machine, saver, clock, bounds>>

Edit(t) ==
    /\ Kind[t] # "report" /\ Exists(t)
    /\ edits[t] < MaxEdits
    /\ edits' = [edits EXCEPT ![t] = @ + 1]
    /\ UNCHANGED <<reportsOn, jobs, notices, machine, saver, clock, saves, faults>>

\* update_task: closing a task clears next_run_at, opening it leaves it as it is
Update(t, status) ==
    /\ Edit(t)
    /\ tasks' = [tasks EXCEPT ![t].status = status,
                             ![t].next = IF status = "open" THEN @ ELSE NoTime]

Delete(t) ==
    /\ Edit(t)
    /\ tasks' = [tasks EXCEPT ![t].status = "deleted"]

\* save_settings, for a number that is confirmed or unchanged: the settings row ...
SaveSettings(s, enabled) ==
    /\ saver[s].pc = "idle"
    /\ saves < MaxSaves
    /\ saves' = saves + 1
    /\ reportsOn' = enabled
    /\ saver' = [saver EXCEPT ![s] = [pc |-> "sync", enabled |-> enabled, now |-> clock,
                                     left |-> Reports]]
    /\ UNCHANGED <<tasks, jobs, notices, machine, clock, edits, faults>>

\* ... and then _sync_reports, one upsert a report
SyncReport(s, t) ==
    LET h == saver[s] IN
    /\ t \in h.left
    /\ tasks' = [tasks EXCEPT ![t].status = IF h.enabled THEN "open" ELSE "cancelled",
                             ![t].next = IF h.enabled THEN NextOccurrence(t, h.now)
                                                      ELSE NoTime]
    /\ saver' = [saver EXCEPT ![s] = IF h.left = {t} THEN NoSave
                                    ELSE [h EXCEPT !.left = @ \ {t}]]
    /\ UNCHANGED <<reportsOn, jobs, notices, machine, clock, bounds>>

\* The request dies between two of its calls
FailSave(s) ==
    /\ saver[s].pc # "idle"
    /\ faults < MaxFaults
    /\ faults' = faults + 1
    /\ saver' = [saver EXCEPT ![s] = NoSave]
    /\ UNCHANGED <<tables, machine, clock, edits, saves>>

---------------------------------------------------------------------------
\* The brain process finishes a job, done or failed, or it is cancelled
JobEnds(j) ==
    /\ jobs[j].status = "queued"
    /\ \E status \in {"ended", "cancelled"} : jobs' = [jobs EXCEPT ![j].status = status]
    /\ UNCHANGED <<tasks, reportsOn, notices, machine, saver, clock, bounds>>

TimePasses ==
    /\ clock < MaxTime
    /\ clock' = clock + 1
    /\ UNCHANGED <<tables, machine, saver, bounds>>

Init ==
    /\ tasks = [t \in Tasks |-> [status |-> "none", next |-> NoTime, last |-> 0]]
    /\ reportsOn = FALSE
    /\ jobs = << >> /\ notices = << >>
    /\ machine = [m \in Machines |-> Asleep]
    /\ saver = [s \in Savers |-> NoSave]
    /\ clock = 1
    /\ edits = [t \in Tasks |-> 0] /\ saves = 0 /\ faults = 0

Next ==
    \/ \E m \in Machines : Tick(m) \/ Fail(m)
    \/ \E t \in Tasks : \/ Create(t) \/ Delete(t)
                       \/ \E status \in {"open", "done", "cancelled"} : Update(t, status)
    \/ \E s \in Savers : \/ \E enabled \in BOOLEAN : SaveSettings(s, enabled)
                        \/ \E t \in Tasks : SyncReport(s, t)
                        \/ FailSave(s)
    \/ \E j \in DOMAIN jobs : JobEnds(j)
    \/ TimePasses

Spec == Init /\ [][Next]_vars

\* _run_forever ticks again and again on every machine, and the event loop runs
\* every request whose call has returned; nothing makes time pass or a job end
FairSpec ==
    /\ Spec
    /\ \A m \in Machines : WF_vars(Tick(m))
    /\ \A s \in Savers : WF_vars(\E t \in Tasks : SyncReport(s, t))

---------------------------------------------------------------------------
(* Properties *)

JobsOf(t, d) == {j \in DOMAIN jobs : jobs[j].task = t /\ jobs[j].due = d}
Fired(t, d) ==
    \/ \E i \in DOMAIN notices : notices[i] = [task |-> t, due |-> d, job |-> 0]
    \/ JobsOf(t, d) # {}

\* _sync_reports upserts the instant after the `now` it started at, which a machine may
\* have claimed by then: a report the user switches again can be claimed a second time
SwitchedAgain(t) == Kind[t] = "report" /\ saves > 1

AssistantTypeOK ==
    /\ \A t \in Tasks :
          /\ tasks[t].status \in {"none", "open", "done", "cancelled", "deleted"}
          /\ tasks[t].next \in Times[t] \cup {NoTime}
          /\ tasks[t].status \in {"done", "cancelled"} => tasks[t].next = NoTime
          /\ tasks[t].last \in 0 .. clock
    /\ \A i \in DOMAIN notices : notices[i].job \in {0} \cup DOMAIN jobs
    /\ \A j \in DOMAIN jobs : jobs[j].status \in {"queued", "ended", "cancelled"}
    /\ \A m \in Machines : machine[m].moment <= clock

\* However many machines find a task due, one of them acts on the occurrence, and
\* once: there is one notice of a reminder, one job of scheduled work, and one
\* notice of how a job ended.  A report whose settings are saved again is excepted.
ToldOnce ==
    /\ AssistantTypeOK
    /\ \A t \in Tasks : \A d \in Times[t] : Cardinality(JobsOf(t, d)) <= 1
    /\ \A i, k \in DOMAIN notices :
          notices[i] = notices[k] => i = k \/ SwitchedAgain(notices[i].task)

\* The claim does not ask for the status, yet it never takes a task that was closed
\* or deleted after it was found due: a run is recorded only for an open task whose
\* time has come, and at a later moment than the last one was, unless it is a report
\* switched again.
OnlyOpenIsClaimed ==
    [][\A t \in Tasks :
          tasks'[t].last # tasks[t].last =>
             /\ tasks[t].status = "open"
             /\ tasks[t].next \in 1 .. tasks'[t].last
             /\ tasks[t].last < tasks'[t].last \/ SwitchedAgain(t)]_vars

\* What is due is told or done, whatever the machines do at once and however many
\* tasks fall due together, unless a call fails, the user has changed the task
\* meanwhile, or it is a report nobody claimed in time or that was switched again; and
\* nothing else is claimed.
DueIsFired ==
    /\ OnlyOpenIsClaimed
    /\ \A t \in Tasks : \A d \in {x \in Times[t] : x <= MaxTime} :
        tasks[t].status = "open" /\ tasks[t].next = d /\ d <= clock ~>
            \/ Fired(t, d)
            \/ faults > 0 \/ edits[t] > 0
            \/ SwitchedAgain(t)
            \/ Kind[t] = "report" /\ tasks[t].last - d > StaleAfter

\* The user is told how scheduled work ended, unless a call fails or the task was
\* deleted while the notice was on its way: time and again nobody is owed one.
EndIsTold ==
    []<>(\A j \in DOMAIN jobs :
            jobs[j].status = "ended" =>
                \/ \E i \in DOMAIN notices : notices[i].job = j
                \/ faults > 0 \/ ~Exists(jobs[j].task))
=============================================================================

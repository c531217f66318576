---------------------- MODULE AssistantSchedulerProofs ----------------------
(***************************************************************************)
(* Why an occurrence is told once.  A row becomes a machine's own by the   *)
(* one conditional update that finds it not taken, and is taken from then  *)
(* on: a task's next run has moved past the instant, a job has its stamp.  *)
(* So what a machine holds, what was told and what was queued is taken,    *)
(* what is taken stays so, and two machines never take the same row.       *)
(***************************************************************************)
EXTENDS AssistantScheduler, TLAPS, SequenceTheorems, FiniteSetTheorems,
        WellFoundedInduction

Row    == [task : Tasks, due : Nat, job : Nat, linked : BOOLEAN]
Steps  == {"asleep", "select", "stamp", "claim", "enqueue", "deliver"}
Loop   == [pc : Steps, moment : 0 .. MaxTime, queue : Seq(Row)]
JobRow == [task : Tasks, due : Nat, status : {"queued", "ended", "cancelled"},
           notified : BOOLEAN]
Notice == [task : Tasks, due : Nat, job : Nat]
TaskRow == [status : {"none", "open", "done", "cancelled", "deleted"},
            next : Nat, last : Nat]

\* A task that was closed or never was has nothing to run; a job is of scheduled work
TablesOK ==
    /\ tasks \in [Tasks -> TaskRow]
    /\ \A t \in Tasks :
          /\ tasks[t].next \in Times[t] \cup {NoTime}
          /\ tasks[t].status \in {"done", "cancelled"} => tasks[t].next = NoTime
          /\ tasks[t].status = "none" => tasks[t].last = 0
          /\ tasks[t].last <= clock
    /\ jobs \in Seq(JobRow)
    /\ \A j \in DOMAIN jobs : Kind[jobs[j].task] = "work"
    /\ notices \in Seq(Notice)
    /\ \A i \in DOMAIN notices : notices[i].job \in 0 .. Len(jobs)
    /\ clock \in 1 .. MaxTime

\* A row of the loop: an instant that has come, or one of the first n jobs
RowOK(r, moment, n) ==
    /\ r \in Row
    /\ r.job <= n
    /\ r.job = 0 => r.due \in 1 .. moment

\* The rows of a loop are all due tasks, which are claimed, or all ended jobs, which
\* are stamped; only work is queued
TickOK(h, n) ==
    /\ h.queue = << >> <=> h.pc \in {"asleep", "select"}
    /\ \A i \in DOMAIN h.queue :
          RowOK(h.queue[i], h.moment, n) /\ (h.queue[i].job = 0 <=> h.queue[1].job = 0)
    /\ h.pc = "stamp" => h.queue[1].job # 0
    /\ h.pc \in {"claim", "enqueue"} => h.queue[1].job = 0
    /\ h.pc = "enqueue" => Kind[h.queue[1].task] = "work"

MachinesOK ==
    /\ machine \in [Machines -> Loop]
    /\ \A m \in Machines : TickOK(machine[m], Len(jobs)) /\ machine[m].moment <= clock

\* Until the settings are saved a second time each report is switched once, and by
\* one request
SaversOK ==
    /\ saver \in [Savers -> [pc : {"idle", "sync"}, enabled : BOOLEAN,
                             now : 0 .. MaxTime, left : SUBSET Reports]]
    /\ saves \in Nat
    /\ saves = 0 => /\ \A s \in Savers : saver[s].left = {}
                    /\ \A t \in Reports : tasks[t].status = "none"
    /\ saves <= 1 => \A s \in Savers : \A t \in saver[s].left :
                        /\ tasks[t].status = "none"
                        /\ \A s2 \in Savers : t \in saver[s2].left => s2 = s

\* A row is taken: the task's next run is past the instant, or the job is stamped
Taken(r) ==
    IF r.job = 0
    THEN /\ tasks[r.task].status # "none"
         /\ tasks[r.task].next = NoTime \/ r.due < tasks[r.task].next
    ELSE r.job \in DOMAIN jobs /\ jobs[r.job].notified

Holds(m) == machine[m].pc \in {"enqueue", "deliver"}
Same(r, x) == r.task = x.task /\ r.due = x.due /\ r.job = x.job
JobDue(j) == [task |-> jobs[j].task, due |-> jobs[j].due, job |-> 0]

\* What is held, told or queued is taken, and each of it is there once
Once ==
    /\ \A m \in Machines : Holds(m) /\ ~SwitchedAgain(Item(m).task) =>
          /\ Taken(Item(m))
          /\ \A n \in Machines : Holds(n) /\ Same(Item(n), Item(m)) => n = m
          /\ \A i \in DOMAIN notices : ~Same(notices[i], Item(m))
          /\ \A j \in DOMAIN jobs : ~Same(JobDue(j), Item(m))
    /\ \A i \in DOMAIN notices : ~SwitchedAgain(notices[i].task) =>
          /\ Taken(notices[i])
          /\ \A k \in DOMAIN notices : Same(notices[i], notices[k]) => i = k
    /\ \A j \in DOMAIN jobs :
          /\ Taken(JobDue(j))
          /\ \A k \in DOMAIN jobs : Same(JobDue(j), JobDue(k)) => j = k

\* The last run came before the next one
RunsAdvance ==
    \A t \in Tasks : ~SwitchedAgain(t) =>
        tasks[t].next = NoTime \/ tasks[t].last < tasks[t].next

SchedulerInv == TablesOK /\ MachinesOK /\ SaversOK /\ Once /\ RunsAdvance
---------------------------------------------------------------------------
LEMMA MinOfInstants ==
    ASSUME NEW S, S \subseteq Nat, S # {}
    PROVE  Min(S) \in S /\ \A y \in S : Min(S) =< y
<1>1. PICK x \in S : \A y \in S : ~ (<<y, x>> \in OpToRel(<, Nat))
  BY NatLessThanWellFounded, WFMin
<1>2. ASSUME NEW y \in S, y < x PROVE FALSE
  <2>1. <<y, x>> \in OpToRel(<, Nat)
    BY <1>2, Zenon DEF OpToRel
  <2> QED BY <2>1, <1>1
<1>3. \A y \in S : x =< y
  BY <1>2
<1> QED BY <1>3 DEF Min

LEMMA MinOfTwo ==
    ASSUME NEW a \in Nat, NEW b \in Nat
    PROVE  Min({a, b}) \in {a, b} /\ Min({a, b}) <= a /\ Min({a, b}) <= b
BY MinOfInstants

\* The next run is an instant of the rule after the one asked about, or there is none
LEMMA NextRun ==
    ASSUME NEW t \in Tasks, NEW after \in 0 .. MaxTime
    PROVE  /\ NextOccurrence(t, after) \in Times[t] \cup {NoTime}
           /\ NextOccurrence(t, after) \in Nat
           /\ NextOccurrence(t, after) = NoTime \/ after < NextOccurrence(t, after)
<1> DEFINE S == {x \in Times[t] : x > after}
<1>1. Times[t] \subseteq Nat \ {NoTime} /\ MaxTime \in Nat \ {0}
  BY SchedulerAssumption
<1>2. CASE Repeats[t]
  <2>1. PICK x \in Times[t] : x > MaxTime
    BY <1>2, SchedulerAssumption
  <2>2. S \subseteq Nat /\ S # {}
    BY <2>1, <1>1
  <2>3. Min(S) \in S
    BY <2>2, MinOfInstants
  <2> QED BY <2>3, <1>1, <1>2 DEF NextOccurrence
<1>3. CASE ~Repeats[t]
  BY <1>3 DEF NextOccurrence, NoTime
<1> QED BY <1>2, <1>3

\* The rest of a loop is a loop, and starts at a row that is not yet a machine's own
LEMMA OnwardOK ==
    ASSUME NEW h \in Loop, NEW n \in Nat, TickOK(h, n), h.queue # << >>
    PROVE  /\ Onward(h) \in Loop /\ TickOK(Onward(h), n)
           /\ Onward(h).pc \in {"asleep", "select", "stamp", "claim"}
           /\ Onward(h).moment <= h.moment
<1> DEFINE q == h.queue
           r == Tail(q)
<1>1. q \in Seq(Row) /\ Len(q) \in Nat \ {0} /\ Head(q) = q[1] /\ 1 \in DOMAIN q
  BY DEF Loop
<1>2. r \in Seq(Row) /\ DOMAIN r = 1 .. Len(q) - 1 /\ \A i \in DOMAIN r : r[i] = q[i + 1] /\ i + 1 \in DOMAIN q
  BY <1>1
<1>3. r # << >> => 1 \in DOMAIN r
  BY <1>2
<1>4. ASSUME NEW i \in DOMAIN r
      PROVE  RowOK(r[i], h.moment, n) /\ (r[i].job = 0 <=> q[1].job = 0)
  <2>1. r[i] = q[i + 1] /\ i + 1 \in DOMAIN q
    BY <1>2
  <2>2. RowOK(q[i + 1], h.moment, n) /\ (q[i + 1].job = 0 <=> q[1].job = 0)
    BY <2>1 DEF TickOK
  <2> QED BY <2>1, <2>2
<1>5. CASE r # << >>
  <2>1. Onward(h) = [h EXCEPT !.queue = r, !.pc = IF q[1].job # 0 THEN "stamp" ELSE "claim"]
    BY <1>5, <1>1 DEF Onward
  <2> DEFINE g == [h EXCEPT !.queue = r, !.pc = IF q[1].job # 0 THEN "stamp" ELSE "claim"]
  <2>2. g \in Loop /\ g.queue = r /\ g.moment = h.moment
    BY <1>2 DEF Loop, Steps
  <2>3. g.pc = IF q[1].job # 0 THEN "stamp" ELSE "claim"
    BY DEF Loop
  <2>4. r[1].job = 0 <=> q[1].job = 0
    BY <1>3, <1>4, <1>5
  <2>5. TickOK(g, n)
    BY <2>2, <2>3, <2>4, <1>3, <1>4, <1>5 DEF TickOK
  <2> QED BY <2>1, <2>2, <2>3, <2>5 DEF Loop
<1>6. CASE r = << >> /\ q[1].job # 0
  <2> DEFINE g == [h EXCEPT !.queue = r, !.pc = "select"]
  <2>1. Onward(h) = g
    BY <1>6, <1>1 DEF Onward
  <2>2. g \in Loop /\ g.queue = << >> /\ g.moment = h.moment /\ g.pc = "select"
    BY <1>2, <1>6 DEF Loop, Steps
  <2>3. DOMAIN g.queue = {} /\ g.pc = "select" /\ g.queue = << >>
    BY <2>2
  <2> HIDE DEF g
  <2>4. TickOK(g, n)
    BY <2>3 DEF TickOK
  <2> QED BY <2>1, <2>2, <2>4 DEF g, Loop
<1>7. CASE r = << >> /\ q[1].job = 0
  <2>1. Onward(h) = [pc |-> "asleep", moment |-> 0, queue |-> << >>]
    BY <1>7, <1>1 DEF Onward, Asleep
  <2> QED BY <2>1, SchedulerAssumption DEF TickOK, Loop, Steps
<1> QED BY <1>5, <1>6, <1>7

---------------------------------------------------------------------------
(* What a step leaves alone stays right                                     *)

LEMMA TickStays ==
    ASSUME NEW h \in Loop, NEW n \in Nat, NEW k \in Nat, n <= k, TickOK(h, n)
    PROVE  TickOK(h, k)
<1>1. \A i \in DOMAIN h.queue : RowOK(h.queue[i], h.moment, n) => RowOK(h.queue[i], h.moment, k)
  BY DEF RowOK, Row
<1> QED BY <1>1 DEF TickOK

LEMMA MachinesStay ==
    ASSUME MachinesOK, UNCHANGED machine, clock \in Nat, clock' \in Nat, clock <= clock',
           Len(jobs) \in Nat, Len(jobs') \in Nat, Len(jobs) <= Len(jobs')
    PROVE  MachinesOK'
<1> SUFFICES ASSUME NEW m \in Machines
             PROVE  TickOK(machine[m], Len(jobs')) /\ machine[m].moment <= clock'
  BY DEF MachinesOK
<1>1. machine[m] \in Loop /\ TickOK(machine[m], Len(jobs)) /\ machine[m].moment <= clock
  BY DEF MachinesOK
<1>2. machine[m].moment \in Int
  BY <1>1, SchedulerAssumption DEF Loop
<1> QED BY <1>1, <1>2, TickStays

\* A step of one machine
LEMMA MachineMoves ==
    ASSUME MachinesOK, UNCHANGED clock, clock \in Nat,
           Len(jobs) \in Nat, Len(jobs') \in Nat, Len(jobs) <= Len(jobs'),
           NEW m \in Machines, NEW g \in Loop, Goto(m, g),
           TickOK(g, Len(jobs')), g.moment <= clock
    PROVE  /\ MachinesOK'
           /\ machine'[m] = g
           /\ \A n \in Machines \ {m} : machine'[n] = machine[n]
<1>1. machine' \in [Machines -> Loop] /\ machine'[m] = g
  BY DEF MachinesOK, Goto
<1>2. \A n \in Machines \ {m} : machine'[n] = machine[n]
  BY DEF MachinesOK, Goto
<1>3. ASSUME NEW n \in Machines \ {m}
      PROVE  TickOK(machine[n], Len(jobs')) /\ machine[n].moment <= clock
  <2>1. machine[n] \in Loop /\ TickOK(machine[n], Len(jobs)) /\ machine[n].moment <= clock
    BY DEF MachinesOK
  <2> QED BY <2>1, TickStays
<1>4. \A n \in Machines : TickOK(machine'[n], Len(jobs')) /\ machine'[n].moment <= clock'
  BY <1>1, <1>2, <1>3
<1> QED BY <1>1, <1>2, <1>4 DEF MachinesOK

LEMMA SaversStay ==
    ASSUME SaversOK, UNCHANGED <<saver, saves>>,
           \A t \in Reports : tasks[t].status = "none" => tasks'[t].status = "none"
    PROVE  SaversOK'
<1>1. \A s \in Savers : saver[s].left \subseteq Reports
  BY DEF SaversOK
<1> QED BY <1>1 DEF SaversOK

\* A task of another kind is no report
LEMMA ReportsApart ==
    ASSUME SaversOK, UNCHANGED <<saver, saves>>, NEW t \in Tasks, Kind[t] # "report",
           tasks \in [Tasks -> TaskRow], NEW row, tasks' = [tasks EXCEPT ![t] = row]
    PROVE  SaversOK'
<1>1. \A x \in Reports : x \in Tasks /\ x # t
  BY DEF Reports
<1>2. \A x \in Reports : tasks'[x] = tasks[x]
  BY <1>1
<1> QED BY <1>2, SaversStay

\* A step after which what was taken is taken, and by which at most machine m takes a
\* row, one that was not taken
LEMMA HeldRow ==
    ASSUME MachinesOK, NEW m \in Machines, machine[m].queue # << >>
    PROVE  /\ Item(m) \in Row /\ Item(m) = machine[m].queue[1]
           /\ RowOK(Item(m), machine[m].moment, Len(jobs))
<1> DEFINE h == machine[m]
<1>1. h \in Loop /\ TickOK(h, Len(jobs))
  BY DEF MachinesOK
<1>2. h.queue \in Seq(Row) /\ 1 \in DOMAIN h.queue /\ Head(h.queue) = h.queue[1]
  BY <1>1 DEF Loop
<1>3. RowOK(h.queue[1], h.moment, Len(jobs))
  BY <1>1, <1>2 DEF TickOK
<1> QED BY <1>2, <1>3 DEF Item

LEMMA HoldsRow ==
    ASSUME MachinesOK, NEW m \in Machines, Holds(m)
    PROVE  machine[m].queue # << >> /\ Item(m) \in Row
<1>1. TickOK(machine[m], Len(jobs))
  BY DEF MachinesOK
<1>2. machine[m].queue # << >>
  BY <1>1 DEF TickOK, Holds
<1> QED BY <1>2, HeldRow

LEMMA TakenOfSame ==
    ASSUME NEW r, NEW x, Same(r, x)
    PROVE  Taken(r) <=> Taken(x)
BY DEF Same, Taken

LEMMA OnceStays ==
    ASSUME TablesOK, MachinesOK, Once, NEW m, NEW new,
           \A n \in Machines \ {m} : machine'[n] = machine[n],
           m \in Machines /\ Holds(m)' =>
              \/ machine'[m] = machine[m]
              \/ Item(m)' = new /\ (SwitchedAgain(new.task)' \/ (~Taken(new) /\ Taken(new)')),
           UNCHANGED notices, DOMAIN jobs' = DOMAIN jobs,
           \A j \in DOMAIN jobs : jobs'[j].task = jobs[j].task /\ jobs'[j].due = jobs[j].due,
           \A t \in Tasks : SwitchedAgain(t) => SwitchedAgain(t)',
           \A r \in Row \cup Notice : Taken(r) /\ ~SwitchedAgain(r.task)' => Taken(r)'
    PROVE  Once'
<1>1. ASSUME NEW n \in Machines, Holds(n)'
      PROVE  \/ Holds(n) /\ Item(n)' = Item(n)
             \/ /\ n = m /\ Item(n)' = new
                /\ SwitchedAgain(new.task)' \/ (~Taken(new) /\ Taken(new)')
  BY <1>1 DEF Holds, Item
<1>2. ASSUME NEW j \in DOMAIN jobs
      PROVE  JobDue(j)' = JobDue(j) /\ JobDue(j) \in Notice /\ ~SwitchedAgain(JobDue(j).task)'
  <2>1. jobs[j] \in JobRow /\ Kind[jobs[j].task] = "work"
    BY DEF TablesOK
  <2> QED BY <2>1 DEF JobDue, JobRow, Notice, SwitchedAgain
<1>3. ASSUME NEW i \in DOMAIN notices PROVE notices[i] \in Notice
  BY DEF TablesOK
<1>4. ASSUME NEW a \in Machines, Holds(a)', NEW x, x = Item(a)', ~SwitchedAgain(x.task)'
      PROVE  /\ Taken(x)'
             /\ \A n \in Machines : Holds(n)' /\ Same(Item(n)', x) => n = a
             /\ \A i \in DOMAIN notices : ~Same(notices[i], x)
             /\ \A j \in DOMAIN jobs : ~Same(JobDue(j), x)
  <2>1. CASE Holds(a) /\ x = Item(a)
    <3>1. x \in Row
      BY <2>1, HoldsRow
    <3>2. ~SwitchedAgain(x.task)
      BY <3>1, <1>4 DEF Row
    <3>3. Taken(x) /\ Taken(x)'
      BY <2>1, <3>1, <3>2, <1>4 DEF Once
    <3>4. ASSUME NEW n \in Machines, Holds(n)', Same(Item(n)', x) PROVE n = a
      <4>1. CASE Holds(n) /\ Item(n)' = Item(n)
        BY <4>1, <3>4, <3>2, <2>1 DEF Once
      <4>2. CASE Item(n)' = new /\ (SwitchedAgain(new.task)' \/ ~Taken(new))
        <5>1. Same(new, x) /\ new.task = x.task
          BY <4>2, <3>4 DEF Same
        <5> QED BY <5>1, <4>2, <3>3, <1>4, TakenOfSame
      <4> QED BY <3>4, <4>1, <4>2, <1>1
    <3> QED BY <3>2, <3>3, <3>4, <2>1 DEF Once
  <2>2. CASE a = m /\ x = new /\ ~Taken(x) /\ Taken(x)'
    <3>1. ASSUME NEW n \in Machines \ {m}, Holds(n)', Same(Item(n)', x) PROVE FALSE
      <4>1. Holds(n) /\ Same(Item(n), x)
        BY <3>1, <1>1 DEF Holds, Item
      <4>2. Item(n) \in Row /\ Item(n).task = x.task
        BY <4>1, HoldsRow DEF Same
      <4>3. ~SwitchedAgain(Item(n).task)
        BY <4>2, <1>4 DEF Row
      <4>4. Taken(Item(n))
        BY <4>1, <4>3 DEF Once
      <4> QED BY <4>1, <4>4, <2>2, TakenOfSame
    <3>2. ASSUME NEW i \in DOMAIN notices, Same(notices[i], x) PROVE FALSE
      <4>1. notices[i] \in Notice /\ notices[i].task = x.task
        BY <3>2, <1>3 DEF Same
      <4>2. ~SwitchedAgain(notices[i].task)
        BY <4>1, <1>4 DEF Notice
      <4> QED BY <4>2, <3>2, <2>2, TakenOfSame DEF Once
    <3>3. ASSUME NEW j \in DOMAIN jobs, Same(JobDue(j), x) PROVE FALSE
      BY <3>3, <2>2, TakenOfSame DEF Once
    <3> QED BY <3>1, <3>2, <3>3, <2>2
  <2> QED BY <1>1, <1>4, <2>1, <2>2
<1>5. ASSUME NEW i \in DOMAIN notices, ~SwitchedAgain(notices[i].task)'
      PROVE  /\ Taken(notices[i])'
             /\ \A k \in DOMAIN notices : Same(notices[i], notices[k]) => i = k
  <2> DEFINE r == notices[i]
  <2>1. r \in Notice /\ ~SwitchedAgain(r.task)
    BY <1>3, <1>5 DEF Notice
  <2>2. Taken(r) /\ \A k \in DOMAIN notices : Same(r, notices[k]) => i = k
    BY <2>1 DEF Once
  <2>3. Taken(r)'
    <3> SUFFICES ASSUME NEW c, c = r PROVE Taken(c)'
      OBVIOUS
    <3> QED BY <2>1, <2>2, <1>5
  <2> QED BY <2>2, <2>3
<1>6. ASSUME NEW j \in DOMAIN jobs
      PROVE  /\ Taken(JobDue(j))'
             /\ \A k \in DOMAIN jobs : Same(JobDue(j)', JobDue(k)') => j = k
  <2>1. ASSUME NEW c, c = JobDue(j) PROVE Taken(c)'
    BY <2>1, <1>2 DEF Once
  <2>2. Taken(JobDue(j))'
    <3> SUFFICES ASSUME NEW c, c = JobDue(j)' PROVE Taken(c)'
      OBVIOUS
    <3> QED BY <2>1, <1>2
  <2> QED BY <2>2, <1>2 DEF Once
<1>7. \A a \in Machines : Holds(a)' /\ ~SwitchedAgain(Item(a).task)' =>
          /\ Taken(Item(a))'
          /\ \A n \in Machines : Holds(n)' /\ Same(Item(n), Item(a))' => n = a
          /\ \A i \in DOMAIN notices' : ~Same(notices[i], Item(a))'
          /\ \A j \in DOMAIN jobs' : ~Same(JobDue(j), Item(a))'
  <2> SUFFICES ASSUME NEW a \in Machines, Holds(a)', NEW x, x = Item(a)', ~SwitchedAgain(x.task)'
               PROVE  /\ Taken(x)'
                      /\ \A n \in Machines : Holds(n)' /\ Same(Item(n)', x) => n = a
                      /\ \A i \in DOMAIN notices' : ~Same(notices'[i], x)
                      /\ \A j \in DOMAIN jobs' : ~Same(JobDue(j)', x)
    OBVIOUS
  <2> QED BY <1>2, <1>4
<1>8. \A i \in DOMAIN notices' : ~SwitchedAgain(notices[i].task)' =>
          /\ Taken(notices[i])'
          /\ \A k \in DOMAIN notices' : Same(notices[i], notices[k])' => i = k
  BY <1>5
<1> QED BY <1>6, <1>7, <1>8 DEF Once

LEMMA TablesStay ==
    ASSUME TablesOK, UNCHANGED <<tasks, jobs, notices, clock>>
    PROVE  TablesOK'
BY DEF TablesOK

LEMMA RunsStay ==
    ASSUME RunsAdvance, UNCHANGED <<tasks, saves>>
    PROVE  RunsAdvance'
BY DEF RunsAdvance, SwitchedAgain

LEMMA CountsAreNat ==
    ASSUME SchedulerInv
    PROVE  /\ Len(jobs) \in Nat /\ clock \in Nat
           /\ \A m \in Machines : /\ machine[m] \in Loop
                                  /\ machine[m].moment \in Nat /\ machine[m].moment <= clock
                                  /\ TickOK(machine[m], Len(jobs))
BY SchedulerAssumption DEF SchedulerInv, TablesOK, MachinesOK, Loop

\* A machine goes on to a row that is not its own, or to sleep
LEMMA LoopStep ==
    ASSUME SchedulerInv, UNCHANGED <<tasks, jobs, notices, saver, saves, clock>>,
           NEW m \in Machines, NEW g \in Loop, Goto(m, g), TickOK(g, Len(jobs)),
           g.moment <= clock, g.pc \notin {"enqueue", "deliver"}
    PROVE  SchedulerInv'
<1>1. TablesOK' /\ SaversOK' /\ RunsAdvance'
  BY TablesStay, SaversStay, RunsStay DEF SchedulerInv
<1>2. /\ MachinesOK' /\ machine'[m] = g
      /\ \A n \in Machines \ {m} : machine'[n] = machine[n]
  BY MachineMoves, CountsAreNat DEF SchedulerInv
<1>3. ~Holds(m)'
  BY <1>2 DEF Holds
<1>4. \A r : Taken(r) => Taken(r)'
  BY DEF Taken
<1>5. \A t : SwitchedAgain(t) => SwitchedAgain(t)'
  BY DEF SwitchedAgain
<1>6. Once'
  <2>1. TablesOK /\ MachinesOK /\ Once
    BY DEF SchedulerInv
  <2> QED BY <1>2, <1>3, <1>4, <1>5, <2>1, OnceStays
<1> QED BY <1>1, <1>2, <1>6 DEF SchedulerInv

LEMMA AsleepKeeps ==
    ASSUME SchedulerInv, UNCHANGED <<tasks, jobs, notices, saver, saves, clock>>,
           NEW m \in Machines, Goto(m, Asleep)
    PROVE  SchedulerInv'
<1>1. Asleep.queue = << >> /\ Asleep.pc = "asleep" /\ Asleep.moment = 0 /\ DOMAIN Asleep.queue = {}
  BY DEF Asleep
<1>2. Asleep \in Loop
  <2>1. << >> \in Seq(Row)
    BY EmptySeq
  <2> QED BY <2>1, SchedulerAssumption DEF Asleep, Loop, Steps
<1>3. TickOK(Asleep, Len(jobs))
  BY <1>1 DEF TickOK
<1> QED BY <1>1, <1>2, <1>3, CountsAreNat, LoopStep

LEMMA OnwardKeeps ==
    ASSUME SchedulerInv, UNCHANGED <<tasks, jobs, notices, saver, saves, clock>>,
           NEW m \in Machines, machine[m].queue # << >>, Goto(m, Onward(machine[m]))
    PROVE  SchedulerInv'
<1> DEFINE h == machine[m]
           g == Onward(h)
<1>1. /\ h \in Loop /\ h.moment \in Nat /\ h.moment <= clock /\ TickOK(h, Len(jobs))
      /\ Len(jobs) \in Nat /\ clock \in Nat
  BY CountsAreNat
<1>2. /\ g \in Loop /\ TickOK(g, Len(jobs)) /\ g.pc \in {"asleep", "select", "stamp", "claim"}
      /\ g.moment <= h.moment
  BY <1>1, OnwardOK
<1>3. g.moment \in Int
  BY <1>2, SchedulerAssumption DEF Loop
<1> QED BY <1>1, <1>2, <1>3, LoopStep

---------------------------------------------------------------------------
(* Reading the rows                                                         *)

LEMMA FirstRows ==
    ASSUME NEW S, S \subseteq Row, IsFiniteSet(S), NEW q \in SetToSeqs(S)
    PROVE  LET p == SubSeq(q, 1, Min({MaxDuePerTick, Len(q)})) IN
           /\ p \in Seq(Row) /\ q \in Seq(S)
           /\ (\A i \in DOMAIN p : p[i] \in S)
           /\ (p = << >> <=> q = << >>)
<1> DEFINE c == Cardinality(S)
           k == Min({MaxDuePerTick, Len(q)})
           p == SubSeq(q, 1, k)
<1>1. c \in Nat
  BY FS_CardinalityType
<1>2. q \in [1 .. c -> S]
  BY DEF SetToSeqs
<1>3. q \in Seq(S) /\ Len(q) = c
  BY <1>1, <1>2
<1>4. k \in {MaxDuePerTick, Len(q)} /\ k <= Len(q) /\ MaxDuePerTick \in Nat \ {0}
  BY <1>1, <1>3, MinOfTwo, SchedulerAssumption
<1>5. k \in Nat /\ (k = 0 <=> Len(q) = 0)
  BY <1>1, <1>3, <1>4
<1>6. \A i \in 1 .. k : q[i] \in S
  BY <1>1, <1>2, <1>3, <1>4, <1>5
<1>7. p \in Seq(S) /\ Len(p) = k
  <2>1. \A i \in 1 .. k : q[i] \in S
    BY <1>6
  <2> HIDE DEF k
  <2> QED BY <2>1, <1>5, SubSeqProperties
<1> HIDE DEF p
<1>8. p \in Seq(Row) /\ \A i \in DOMAIN p : p[i] \in S
  BY <1>7
<1>9. p = << >> <=> q = << >>
  BY <1>3, <1>5, <1>7, EmptySeq
<1> QED BY <1>3, <1>8, <1>9 DEF p

\* A task deleted or in any state: the rows of a table are finitely many
LEMMA FiniteRows ==
    ASSUME NEW S, IsFiniteSet(S), NEW T, NEW f \in [S -> T], \A y \in T : \E x \in S : f[x] = y
    PROVE  IsFiniteSet(T)
<1>1. f \in Surjection(S, T)
  BY DEF Surjection
<1> QED BY <1>1, FS_Surjection

LEMMA SelectEndedKeeps ==
    ASSUME SchedulerInv, NEW m \in Machines, SelectEnded(m)
    PROVE  SchedulerInv'
<1> DEFINE ended == {j \in DOMAIN jobs : jobs[j].status = "ended" /\ ~jobs[j].notified}
           row(j) == [task |-> jobs[j].task, due |-> jobs[j].due, job |-> j,
                      linked |-> Exists(jobs[j].task)]
           S == {row(j) : j \in ended}
<1>1. DOMAIN jobs = 1 .. Len(jobs) /\ Len(jobs) \in Nat
  BY CountsAreNat DEF SchedulerInv, TablesOK
<1>2. IsFiniteSet(ended)
  <2>1. IsFiniteSet(1 .. Len(jobs)) /\ ended \in SUBSET (1 .. Len(jobs))
    BY <1>1, FS_Interval
  <2> QED BY <2>1, FS_Subset
<1>3. IsFiniteSet(S)
  <2> DEFINE f == [j \in ended |-> row(j)]
  <2>1. f \in [ended -> S] /\ \A y \in S : \E x \in ended : f[x] = y
    OBVIOUS
  <2> HIDE DEF S, ended, f
  <2> QED BY <2>1, <1>2, FiniteRows
<1>4. ASSUME NEW r \in S PROVE r \in Row /\ r.job \in 1 .. Len(jobs)
  <2>1. PICK j \in ended : r = row(j)
    OBVIOUS
  <2>2. jobs[j] \in JobRow /\ j \in 1 .. Len(jobs)
    BY <1>1 DEF SchedulerInv, TablesOK
  <2>3. PICK b \in BOOLEAN : b = Exists(jobs[j].task)
    BY DEF Exists
  <2>4. r = [task |-> jobs[j].task, due |-> jobs[j].due, job |-> j, linked |-> b]
    BY <2>1, <2>3
  <2> QED BY <2>2, <2>4, <1>1 DEF Row, JobRow
<1>5. PICK q \in SetToSeqs(S) :
          Goto(m, [pc |-> IF q = << >> THEN "select" ELSE "stamp", moment |-> clock,
                   queue |-> SubSeq(q, 1, Min({MaxDuePerTick, Len(q)}))])
  BY DEF SelectEnded
<1> DEFINE p == SubSeq(q, 1, Min({MaxDuePerTick, Len(q)}))
           g == [pc |-> IF q = << >> THEN "select" ELSE "stamp", moment |-> clock, queue |-> p]
<1> HIDE DEF S, p
<1>6. /\ p \in Seq(Row) /\ (\A i \in DOMAIN p : p[i] \in S)
      /\ (p = << >> <=> q = << >>)
  BY <1>3, <1>4, FirstRows DEF p
<1>7. clock \in 0 .. MaxTime /\ clock <= clock
  BY SchedulerAssumption DEF SchedulerInv, TablesOK
<1>8. g \in Loop /\ g.queue = p /\ g.moment = clock
      /\ g.pc = IF p = << >> THEN "select" ELSE "stamp"
  BY <1>6, <1>7 DEF Loop, Steps
<1>9. TickOK(g, Len(jobs))
  <2>1. \A i \in DOMAIN p : RowOK(p[i], clock, Len(jobs)) /\ p[i].job # 0
    BY <1>1, <1>4, <1>6 DEF RowOK
  <2>2. p # << >> => 1 \in DOMAIN p
    BY <1>6
  <2> HIDE DEF p, g
  <2> QED BY <1>8, <2>1, <2>2 DEF TickOK
<1>10. UNCHANGED <<tasks, jobs, notices, saver, saves, clock>>
  BY DEF SelectEnded, tables, bounds
<1>11. g.pc \notin {"enqueue", "deliver"} /\ Goto(m, g)
  BY <1>5, <1>8 DEF p
<1> HIDE DEF g
<1> QED BY <1>7, <1>8, <1>9, <1>10, <1>11, LoopStep

LEMMA SelectDueKeeps ==
    ASSUME SchedulerInv, NEW m \in Machines, SelectDue(m)
    PROVE  SchedulerInv'
<1> DEFINE h == machine[m]
           D == {x \in Tasks : Due(x, h.moment)}
           row(t) == [task |-> t, due |-> tasks[t].next, job |-> 0, linked |-> TRUE]
           S == {row(t) : t \in D}
<1>1. h \in Loop /\ h.moment \in Nat /\ h.moment <= clock /\ Len(jobs) \in Nat
  BY CountsAreNat
<1>2. IsFiniteSet(D)
  BY SchedulerAssumption, FS_Subset
<1>3. IsFiniteSet(S)
  <2> DEFINE f == [t \in D |-> row(t)]
  <2>1. f \in [D -> S] /\ \A y \in S : \E x \in D : f[x] = y
    OBVIOUS
  <2> HIDE DEF S, D, f
  <2> QED BY <2>1, <1>2, FiniteRows
<1>4. ASSUME NEW r \in S PROVE r \in Row /\ r.job = 0 /\ r.due \in 1 .. h.moment
  <2>1. PICK t \in D : r = row(t)
    OBVIOUS
  <2>2. tasks[t] \in TaskRow
    BY DEF SchedulerInv, TablesOK
  <2>3. tasks[t].next \in Nat /\ tasks[t].next # 0 /\ tasks[t].next <= h.moment
    BY <2>2 DEF TaskRow, Due, NoTime
  <2> QED BY <2>1, <2>3, <1>1 DEF Row
<1>5. PICK q \in SetToSeqs(S) :
          Goto(m, IF q = << >> THEN Asleep
                  ELSE [h EXCEPT !.pc = "claim",
                                 !.queue = SubSeq(q, 1, Min({MaxDuePerTick, Len(q)}))])
  BY DEF SelectDue
<1> DEFINE p == SubSeq(q, 1, Min({MaxDuePerTick, Len(q)}))
           g == IF q = << >> THEN Asleep ELSE [h EXCEPT !.pc = "claim", !.queue = p]
<1> HIDE DEF S, p
<1>6. /\ p \in Seq(Row) /\ (\A i \in DOMAIN p : p[i] \in S)
      /\ (p = << >> <=> q = << >>)
  BY <1>3, <1>4, FirstRows DEF p
<1>7. CASE q = << >>
  <2>1. g = Asleep
    BY <1>7
  <2> QED BY <2>1, <1>1, <1>5, <1>7, AsleepKeeps DEF SelectDue, tables, bounds
<1>8. CASE q # << >>
  <2>1. /\ g \in Loop /\ g.queue = p /\ g.moment = h.moment /\ g.pc = "claim"
        /\ Goto(m, g)
    BY <1>5, <1>6, <1>8, <1>1 DEF Loop, Steps, p
  <2>2. \A i \in DOMAIN p : RowOK(p[i], h.moment, Len(jobs)) /\ p[i].job = 0
    BY <1>1, <1>4, <1>6 DEF RowOK
  <2>3. p # << >> /\ 1 \in DOMAIN p
    BY <1>6, <1>8
  <2> HIDE DEF g
  <2>4. TickOK(g, Len(jobs))
    BY <2>1, <2>2, <2>3 DEF TickOK
  <2>5. UNCHANGED <<tasks, jobs, notices, saver, saves, clock>>
    BY DEF SelectDue, tables, bounds
  <2> QED BY <2>1, <2>4, <2>5, <1>1, LoopStep
<1> QED BY <1>7, <1>8

LEMMA FailKeeps ==
    ASSUME SchedulerInv, NEW m \in Machines, Fail(m)
    PROVE  SchedulerInv'
<1>1. UNCHANGED <<tasks, jobs, notices, saver, saves, clock>>
  BY DEF Fail, tables
<1>2. CASE Goto(m, Asleep)
  BY <1>1, <1>2, AsleepKeeps
<1>3. CASE machine[m].queue # << >> /\ Goto(m, Onward(machine[m]))
  BY <1>1, <1>3, OnwardKeeps
<1> QED BY <1>2, <1>3 DEF Fail

---------------------------------------------------------------------------
(* Taking a row                                                             *)

\* The row at the head of the queue becomes the machine's own
LEMMA OwnRow ==
    ASSUME NEW h \in Loop, NEW n \in Nat, TickOK(h, n), h.queue # << >>,
           NEW pc \in {"deliver", "enqueue"},
           pc = "enqueue" => h.queue[1].job = 0 /\ Kind[h.queue[1].task] = "work"
    PROVE  LET g == [h EXCEPT !.pc = pc] IN
           g \in Loop /\ TickOK(g, n) /\ g.moment = h.moment /\ g.queue = h.queue /\ g.pc = pc
<1> DEFINE g == [h EXCEPT !.pc = pc]
<1>1. g \in Loop /\ g.moment = h.moment /\ g.queue = h.queue /\ g.pc = pc
  BY DEF Loop, Steps
<1> HIDE DEF g
<1>2. TickOK(g, n)
  BY <1>1 DEF TickOK
<1> QED BY <1>1, <1>2 DEF g

LEMMA StampJobKeeps ==
    ASSUME SchedulerInv, NEW m \in Machines, StampJob(m)
    PROVE  SchedulerInv'
<1> DEFINE h == machine[m]
           new == Item(m)
           j == new.job
           g == IF jobs[j].notified THEN Onward(h) ELSE [h EXCEPT !.pc = "deliver"]
<1>1. /\ h \in Loop /\ h.moment \in Nat /\ h.moment <= clock /\ Len(jobs) \in Nat /\ clock \in Nat
      /\ TickOK(h, Len(jobs)) /\ h.pc = "stamp" /\ Goto(m, g)
      /\ jobs' = [jobs EXCEPT ![j].notified = TRUE]
      /\ UNCHANGED <<tasks, notices, saver, saves, clock>>
  BY CountsAreNat DEF StampJob, bounds
<1>2. h.queue # << >> /\ new \in Row /\ new = h.queue[1] /\ RowOK(new, h.moment, Len(jobs)) /\ j # 0
  <2>1. h.queue # << >> /\ h.queue[1].job # 0
    BY <1>1 DEF TickOK
  <2> QED BY <2>1, HeldRow DEF SchedulerInv
<1>3. DOMAIN jobs = 1 .. Len(jobs) /\ jobs \in Seq(JobRow)
  BY <1>1 DEF SchedulerInv, TablesOK
<1>4. j \in DOMAIN jobs
  <2>1. new.job \in Nat /\ new.job <= Len(jobs)
    BY <1>2 DEF RowOK, Row
  <2>2. new.job # 0 /\ Len(jobs) \in Nat
    BY <1>1, <1>2
  <2>3. new.job \in 1 .. Len(jobs)
    BY ONLY <2>1, <2>2
  <2> QED BY <2>3, <1>3
<1>5. /\ jobs' \in Seq(JobRow) /\ DOMAIN jobs' = DOMAIN jobs /\ Len(jobs') = Len(jobs)
      /\ \A k \in DOMAIN jobs :
            /\ jobs'[k].task = jobs[k].task /\ jobs'[k].due = jobs[k].due
            /\ jobs[k].notified => jobs'[k].notified
      /\ jobs'[j].notified
  <2> HIDE DEF j
  <2>1. PICK o \in JobRow : o = jobs[j]
    BY <1>3, <1>4
  <2>2. PICK e \in JobRow : e = [o EXCEPT !.notified = TRUE]
    BY DEF JobRow
  <2>3. e.task = o.task /\ e.due = o.due /\ e.notified
    BY <2>2 DEF JobRow
  <2>4. jobs' = [jobs EXCEPT ![j] = e]
    BY <1>1, <2>1, <2>2
  <2> QED BY <2>1, <2>3, <2>4, <1>3, <1>4
<1>6. TablesOK'
  <2>1. \A k \in DOMAIN jobs' : Kind[jobs'[k].task] = "work"
    BY <1>5 DEF SchedulerInv, TablesOK
  <2>2. \A i \in DOMAIN notices' : notices'[i].job \in 0 .. Len(jobs')
    BY <1>1, <1>5 DEF SchedulerInv, TablesOK
  <2> QED BY <2>1, <2>2, <1>1, <1>5 DEF SchedulerInv, TablesOK
<1>7. SaversOK' /\ RunsAdvance'
  BY <1>1, SaversStay, RunsStay DEF SchedulerInv
<1>8. /\ g \in Loop /\ TickOK(g, Len(jobs)) /\ g.moment <= clock
      /\ g.pc \in {"enqueue", "deliver"} => g.queue = h.queue /\ ~jobs[j].notified
  <2>1. CASE jobs[j].notified
    <3>1. /\ Onward(h) \in Loop /\ TickOK(Onward(h), Len(jobs)) /\ Onward(h).moment <= h.moment
          /\ Onward(h).pc \in {"asleep", "select", "stamp", "claim"}
      BY <1>1, <1>2, OnwardOK
    <3>2. Onward(h).moment \in Int
      BY <3>1, SchedulerAssumption DEF Loop
    <3> QED BY <2>1, <3>1, <3>2, <1>1
  <2>2. CASE ~jobs[j].notified
    BY <2>2, <1>1, <1>2, OwnRow
  <2> QED BY <2>1, <2>2
<1> HIDE DEF g
<1>9. /\ MachinesOK' /\ machine'[m] = g
      /\ \A n \in Machines \ {m} : machine'[n] = machine[n]
  BY <1>1, <1>5, <1>8, MachineMoves DEF SchedulerInv
<1>10. Once'
  <2>1. TablesOK /\ MachinesOK /\ Once
    BY DEF SchedulerInv
  <2>2. ASSUME NEW c, c = new
        PROVE  Holds(m)' => Item(m)' = c /\ ~Taken(c) /\ Taken(c)'
    BY <2>2, <1>2, <1>4, <1>5, <1>8, <1>9 DEF Holds, Item, Taken
  <2>3. \A r : Taken(r) => Taken(r)'
    BY <1>1, <1>5 DEF Taken
  <2>4. \A t : SwitchedAgain(t) => SwitchedAgain(t)'
    BY <1>1 DEF SwitchedAgain
  <2> QED BY <1>1, <1>5, <1>9, <2>1, <2>2, <2>3, <2>4, OnceStays
<1> QED BY <1>6, <1>7, <1>9, <1>10 DEF SchedulerInv

\* A claim that finds the instant it read takes an open task whose time has come, and
\* moves its next run past the moment of the tick
LEMMA ClaimFinds ==
    ASSUME SchedulerInv, NEW m \in Machines, Claim(m),
           Exists(Item(m).task), tasks[Item(m).task].next = Item(m).due
    PROVE  LET h == machine[m]
               t == Item(m).task
               next == NextOccurrence(t, h.moment)
           IN  /\ t \in Tasks /\ h.queue # << >> /\ Item(m) \in Row /\ Item(m) = h.queue[1]
               /\ Item(m).job = 0 /\ Item(m).due \in 1 .. h.moment
               /\ tasks[t].status = "open"
               /\ next \in Times[t] \cup {NoTime} /\ next \in Nat
               /\ next = NoTime \/ h.moment < next
               /\ tasks' = [tasks EXCEPT ![t] =
                      [status |-> IF next = NoTime THEN "done" ELSE "open",
                       next |-> next, last |-> h.moment]]
               /\ Goto(m, Claimed(h))
<1> DEFINE h == machine[m]
           t == Item(m).task
           next == NextOccurrence(t, h.moment)
<1>1. /\ h \in Loop /\ h.moment \in Nat /\ h.moment <= clock /\ TickOK(h, Len(jobs))
      /\ h.pc = "claim"
  BY CountsAreNat DEF Claim
<1>2. h.queue # << >> /\ h.queue[1].job = 0
  BY <1>1 DEF TickOK
<1>3. Item(m) \in Row /\ Item(m) = h.queue[1] /\ RowOK(Item(m), h.moment, Len(jobs))
  BY <1>2, HeldRow DEF SchedulerInv
<1>4. t \in Tasks /\ Item(m).job = 0 /\ Item(m).due \in 1 .. h.moment
  BY <1>2, <1>3 DEF Row, RowOK
<1>5. tasks[t].status = "open"
  <2>1. tasks[t] \in TaskRow /\ tasks[t].next # NoTime
    BY <1>4 DEF SchedulerInv, TablesOK, NoTime
  <2>2. tasks[t].status \notin {"done", "cancelled"}
    BY <1>4, <2>1 DEF SchedulerInv, TablesOK
  <2> QED BY <2>1, <2>2 DEF Exists, TaskRow
<1>6. h.moment \in 0 .. MaxTime
  BY <1>1 DEF Loop
<1>7. /\ next \in Times[t] \cup {NoTime} /\ next \in Nat
      /\ next = NoTime \/ h.moment < next
  BY <1>4, <1>6, NextRun
<1>8. /\ tasks' = [tasks EXCEPT ![t] =
             [status |-> IF next = NoTime THEN "done" ELSE tasks[t].status,
              next |-> next, last |-> h.moment]]
      /\ Goto(m, Claimed(h))
  BY DEF Claim
<1> QED BY <1>2, <1>3, <1>4, <1>5, <1>7, <1>8

LEMMA ClaimKeeps ==
    ASSUME SchedulerInv, NEW m \in Machines, Claim(m)
    PROVE  SchedulerInv'
<1> DEFINE h == machine[m]
           new == Item(m)
           t == new.task
           next == NextOccurrence(t, h.moment)
           g == Claimed(h)
<1>1. UNCHANGED <<jobs, notices, saver, saves, clock>> /\ h.pc = "claim"
  BY DEF Claim, bounds
<1>2. /\ h \in Loop /\ h.moment \in Nat /\ h.moment <= clock /\ TickOK(h, Len(jobs))
      /\ Len(jobs) \in Nat /\ clock \in Nat
  BY CountsAreNat
<1>3. CASE ~(Exists(t) /\ tasks[t].next = new.due)
  <2>1. Goto(m, Onward(h)) /\ UNCHANGED tasks
    BY <1>3 DEF Claim
  <2>2. h.queue # << >>
    BY <1>1, <1>2 DEF TickOK
  <2> QED BY <1>1, <2>1, <2>2, OnwardKeeps
<1>4. CASE Exists(t) /\ tasks[t].next = new.due
  <2>1. /\ t \in Tasks /\ h.queue # << >> /\ new \in Row /\ new = h.queue[1]
        /\ new.job = 0 /\ new.due \in 1 .. h.moment
        /\ tasks[t].status = "open"
        /\ next \in Times[t] \cup {NoTime} /\ next \in Nat
        /\ next = NoTime \/ h.moment < next
        /\ tasks' = [tasks EXCEPT ![t] =
               [status |-> IF next = NoTime THEN "done" ELSE "open",
                next |-> next, last |-> h.moment]]
        /\ Goto(m, g)
    BY <1>4, ClaimFinds
  <2> HIDE DEF next, g
  <2>2. /\ tasks' \in [Tasks -> TaskRow]
        /\ tasks'[t].next = next /\ tasks'[t].last = h.moment
        /\ tasks'[t].status = IF next = NoTime THEN "done" ELSE "open"
        /\ \A x \in Tasks \ {t} : tasks'[x] = tasks[x]
    BY <2>1, <1>2 DEF SchedulerInv, TablesOK, TaskRow
  <2>3. TablesOK'
    <3>1. \A x \in Tasks : /\ tasks'[x].next \in Times[x] \cup {NoTime}
                           /\ tasks'[x].status \in {"done", "cancelled"} => tasks'[x].next = NoTime
                           /\ tasks'[x].status = "none" => tasks'[x].last = 0
                           /\ tasks'[x].last <= clock
      BY <2>1, <2>2, <1>2 DEF SchedulerInv, TablesOK
    <3> QED BY <3>1, <2>2, <1>1 DEF SchedulerInv, TablesOK
  <2>4. SaversOK'
    <3>1. \A x \in Reports : tasks[x].status = "none" => tasks'[x].status = "none"
      BY <2>1, <2>2 DEF Reports
    <3> QED BY <3>1, <1>1, SaversStay DEF SchedulerInv
  <2>5. RunsAdvance'
    BY <2>1, <2>2, <1>1 DEF SchedulerInv, RunsAdvance, SwitchedAgain
  <2>6. /\ g \in Loop /\ TickOK(g, Len(jobs)) /\ g.moment <= clock
        /\ g.pc \in {"enqueue", "deliver"} => g.queue = h.queue
    <3>1. CASE Kind[t] = "work"
      <4>1. g = [h EXCEPT !.pc = "enqueue"]
        BY <3>1 DEF Claimed, g, Item
      <4> QED BY <3>1, <4>1, <2>1, <1>2, OwnRow
    <3>2. CASE g = Onward(h)
      <4>1. /\ Onward(h) \in Loop /\ TickOK(Onward(h), Len(jobs)) /\ Onward(h).moment <= h.moment
            /\ Onward(h).pc \in {"asleep", "select", "stamp", "claim"}
        BY <1>2, <2>1, OnwardOK
      <4>2. Onward(h).moment \in Int
        BY <4>1, SchedulerAssumption DEF Loop
      <4> QED BY <3>2, <4>1, <4>2, <1>2
    <3>3. CASE g = [h EXCEPT !.pc = "deliver"]
      BY <3>3, <2>1, <1>2, OwnRow
    <3>4. Kind[t] = "work" \/ g = Onward(h) \/ g = [h EXCEPT !.pc = "deliver"]
      BY DEF Claimed, g, Item
    <3> QED BY <3>1, <3>2, <3>3, <3>4
  <2>7. /\ MachinesOK' /\ machine'[m] = g
        /\ \A n \in Machines \ {m} : machine'[n] = machine[n]
    BY <1>1, <1>2, <2>1, <2>6, MachineMoves DEF SchedulerInv
  <2>8. Once'
    <3>1. TablesOK /\ MachinesOK /\ Once
      BY DEF SchedulerInv
    <3>2. ASSUME NEW c, c = new
          PROVE  Holds(m)' => Item(m)' = c /\ ~Taken(c) /\ Taken(c)'
      <4>1. Holds(m)' => Item(m)' = c
        BY <3>2, <2>6, <2>7 DEF Holds, Item
      <4>2. /\ c.job = 0 /\ c.task = t /\ c.due \in 1 .. h.moment
            /\ tasks[t].next = c.due /\ c.due \in Nat /\ c.due # NoTime
        BY <3>2, <1>2, <1>4, <2>1 DEF NoTime
      <4>3. ~Taken(c)
        BY <4>2 DEF Taken
      <4>4. next = NoTime \/ c.due < next
        BY <4>2, <2>1, <1>2
      <4>5. Taken(c)'
        BY <4>2, <4>4, <2>2 DEF Taken
      <4> QED BY <4>1, <4>3, <4>5
    <3>3. ASSUME NEW r \in Row \cup Notice, Taken(r)
          PROVE  Taken(r)'
      <4>1. r.task \in Tasks /\ r.due \in Nat
        BY DEF Row, Notice
      <4>2. CASE r.job = 0 /\ r.task = t
        <5>1. r.due < new.due
          BY <4>2, <3>3, <1>4, <2>1 DEF Taken, NoTime
        <5>2. next = NoTime \/ r.due < next
          BY <4>1, <5>1, <2>1, <1>2
        <5> QED BY <4>2, <5>2, <2>2 DEF Taken
      <4>3. CASE ~(r.job = 0 /\ r.task = t)
        BY <4>1, <4>3, <3>3, <2>2, <1>1 DEF Taken
      <4> QED BY <4>2, <4>3
    <3>4. \A x : SwitchedAgain(x) => SwitchedAgain(x)'
      BY <1>1 DEF SwitchedAgain
    <3> QED BY <1>1, <2>7, <3>1, <3>2, <3>3, <3>4, OnceStays
  <2> QED BY <2>3, <2>4, <2>5, <2>7, <2>8 DEF SchedulerInv
<1> QED BY <1>3, <1>4

---------------------------------------------------------------------------
(* Acting on a row                                                          *)

\* The machine that held the row has told of it and goes on
LEMMA OnceTold ==
    ASSUME TablesOK, MachinesOK, Once, NEW m \in Machines, Holds(m), ~Holds(m)',
           \A n \in Machines \ {m} : machine'[n] = machine[n],
           UNCHANGED <<tasks, jobs, saves>>,
           NEW x \in Notice, Same(x, Item(m)), notices' = Append(notices, x)
    PROVE  Once'
<1> DEFINE k == Len(notices) + 1
<1>1. /\ notices \in Seq(Notice) /\ Len(notices) \in Nat
      /\ DOMAIN notices = 1 .. Len(notices) /\ DOMAIN notices' = 1 .. k
      /\ notices'[k] = x
      /\ \A i \in DOMAIN notices : notices'[i] = notices[i] /\ notices[i] \in Notice
  BY DEF TablesOK
<1> HIDE DEF k
<1>2. \A i \in DOMAIN notices' : i \in DOMAIN notices \/ i = k
  BY <1>1 DEF k
<1>3. /\ \A r : Taken(r)' <=> Taken(r)
      /\ \A t : SwitchedAgain(t)' <=> SwitchedAgain(t)
      /\ \A j : JobDue(j)' = JobDue(j)
  BY DEF Taken, SwitchedAgain, JobDue
<1>4. ~SwitchedAgain(x.task) =>
         /\ Taken(x)
         /\ \A i \in DOMAIN notices : ~Same(notices[i], x) /\ ~Same(x, notices[i])
         /\ \A n \in Machines \ {m} : Holds(n) => ~Same(x, Item(n))
  <2> SUFFICES ASSUME ~SwitchedAgain(x.task)
               PROVE  /\ Taken(x)
                      /\ \A i \in DOMAIN notices : ~Same(notices[i], x) /\ ~Same(x, notices[i])
                      /\ \A n \in Machines \ {m} : Holds(n) => ~Same(x, Item(n))
    OBVIOUS
  <2>1. ~SwitchedAgain(Item(m).task)
    BY DEF Same
  <2>2. /\ Taken(Item(m))
        /\ \A i \in DOMAIN notices : ~Same(notices[i], Item(m))
        /\ \A n \in Machines : Holds(n) /\ Same(Item(n), Item(m)) => n = m
    BY <2>1 DEF Once
  <2>3. \A r : (Same(r, x) => Same(r, Item(m))) /\ (Same(x, r) => Same(r, Item(m)))
    BY DEF Same
  <2> QED BY <2>2, <2>3, TakenOfSame
<1>5. ASSUME NEW a \in Machines, Holds(a)'
      PROVE  a # m /\ Holds(a) /\ Item(a)' = Item(a) /\ Item(a) \in Row
  <2>1. a # m /\ Holds(a) /\ Item(a)' = Item(a)
    BY <1>5 DEF Holds, Item
  <2> QED BY <2>1, HoldsRow
<1>6. ASSUME NEW a \in Machines, Holds(a)', NEW y, y = Item(a)', ~SwitchedAgain(y.task)'
      PROVE  /\ Taken(y)'
             /\ \A n \in Machines : Holds(n)' /\ Same(Item(n)', y) => n = a
             /\ \A i \in DOMAIN notices' : ~Same(notices'[i], y)
             /\ \A j \in DOMAIN jobs' : ~Same(JobDue(j)', y)
  <2>1. Holds(a) /\ y = Item(a) /\ a # m /\ ~SwitchedAgain(y.task)
    BY <1>3, <1>5, <1>6
  <2>2. /\ Taken(y)
        /\ \A n \in Machines : Holds(n) /\ Same(Item(n), y) => n = a
        /\ \A i \in DOMAIN notices : ~Same(notices[i], y)
        /\ \A j \in DOMAIN jobs : ~Same(JobDue(j), y)
    BY <2>1 DEF Once
  <2>3. \A n \in Machines : Holds(n)' => Holds(n) /\ Item(n)' = Item(n)
    BY <1>5
  <2>4. ~Same(x, y)
    <3>1. Same(x, y) => x.task = y.task
      BY DEF Same
    <3> QED BY <3>1, <2>1, <1>4
  <2>5. \A i \in DOMAIN notices' : ~Same(notices'[i], y)
    BY <1>1, <1>2, <2>2, <2>4
  <2> QED BY <1>3, <2>2, <2>3, <2>5
<1>7. ASSUME NEW i \in DOMAIN notices', NEW r, r = notices'[i], ~SwitchedAgain(r.task)'
      PROVE  Taken(r)' /\ \A l \in DOMAIN notices' : Same(r, notices'[l]) => i = l
  <2>1. CASE i = k
    <3>1. r = x /\ ~SwitchedAgain(x.task)
      BY <2>1, <1>1, <1>3, <1>7
    <3> QED BY <3>1, <2>1, <1>1, <1>2, <1>3, <1>4
  <2>2. CASE i \in DOMAIN notices
    <3>1. r = notices[i] /\ ~SwitchedAgain(r.task)
      BY <2>2, <1>1, <1>3, <1>7
    <3>2. Taken(r) /\ \A l \in DOMAIN notices : Same(r, notices[l]) => i = l
      BY <2>2, <3>1 DEF Once
    <3>3. ~Same(r, x)
      <4>1. Same(r, x) => r.task = x.task
        BY DEF Same
      <4> QED BY <4>1, <2>2, <3>1, <1>4
    <3> QED BY <3>2, <3>3, <1>1, <1>2, <1>3
  <2> QED BY <2>1, <2>2, <1>2
<1>8. ASSUME NEW j \in DOMAIN jobs'
      PROVE  /\ Taken(JobDue(j))'
             /\ \A l \in DOMAIN jobs' : Same(JobDue(j), JobDue(l))' => j = l
  <2>1. Taken(JobDue(j)) /\ \A l \in DOMAIN jobs : Same(JobDue(j), JobDue(l)) => j = l
    BY DEF Once
  <2>2. Taken(JobDue(j))'
    <3> SUFFICES ASSUME NEW c, c = JobDue(j)' PROVE Taken(c)'
      OBVIOUS
    <3> QED BY <1>3, <2>1
  <2> QED BY <2>1, <2>2, <1>3
<1>9. \A a \in Machines : Holds(a)' /\ ~SwitchedAgain(Item(a).task)' =>
          /\ Taken(Item(a))'
          /\ \A n \in Machines : Holds(n)' /\ Same(Item(n), Item(a))' => n = a
          /\ \A i \in DOMAIN notices' : ~Same(notices[i], Item(a))'
          /\ \A j \in DOMAIN jobs' : ~Same(JobDue(j), Item(a))'
  <2> SUFFICES ASSUME NEW a \in Machines, Holds(a)', NEW y, y = Item(a)', ~SwitchedAgain(y.task)'
               PROVE  /\ Taken(y)'
                      /\ \A n \in Machines : Holds(n)' /\ Same(Item(n)', y) => n = a
                      /\ \A i \in DOMAIN notices' : ~Same(notices'[i], y)
                      /\ \A j \in DOMAIN jobs' : ~Same(JobDue(j)', y)
    OBVIOUS
  <2> QED BY <1>6
<1>10. \A i \in DOMAIN notices' : ~SwitchedAgain(notices[i].task)' =>
          /\ Taken(notices[i])'
          /\ \A l \in DOMAIN notices' : Same(notices[i], notices[l])' => i = l
  <2> SUFFICES ASSUME NEW i \in DOMAIN notices', NEW r, r = notices'[i], ~SwitchedAgain(r.task)'
               PROVE  Taken(r)' /\ \A l \in DOMAIN notices' : Same(r, notices'[l]) => i = l
    OBVIOUS
  <2> QED BY <1>7
<1> QED BY <1>8, <1>9, <1>10 DEF Once

\* The machine that held the row has queued its job and goes on
LEMMA OnceQueued ==
    ASSUME TablesOK, TablesOK', MachinesOK, Once, NEW m \in Machines, Holds(m), ~Holds(m)',
           \A n \in Machines \ {m} : machine'[n] = machine[n],
           UNCHANGED <<tasks, notices, saves>>,
           NEW e \in JobRow, jobs' = Append(jobs, e), Kind[e.task] = "work",
           Same([task |-> e.task, due |-> e.due, job |-> 0], Item(m))
    PROVE  Once'
<1> SUFFICES ASSUME NEW k, k = Len(jobs) + 1 PROVE Once'
  OBVIOUS
<1> DEFINE x == [task |-> e.task, due |-> e.due, job |-> 0]
<1>1. /\ Len(jobs) \in Nat
      /\ DOMAIN jobs = 1 .. Len(jobs) /\ DOMAIN jobs' = 1 .. k
      /\ jobs'[k] = e
      /\ \A j \in DOMAIN jobs : jobs'[j] = jobs[j]
  BY DEF TablesOK
<1>2. \A j \in DOMAIN jobs' : j \in DOMAIN jobs \/ j = k
  BY <1>1
<1>3. /\ \A r : Taken(r) => Taken(r)'
      /\ \A t : SwitchedAgain(t)' <=> SwitchedAgain(t)
      /\ \A j \in DOMAIN jobs : JobDue(j)' = JobDue(j)
      /\ JobDue(k)' = x
  <2>1. \A r : Taken(r) => Taken(r)'
    BY <1>1 DEF Taken
  <2> QED BY <2>1, <1>1 DEF SwitchedAgain, JobDue
<1>4. /\ Taken(x)
      /\ \A i \in DOMAIN notices : ~Same(notices[i], x)
      /\ \A j \in DOMAIN jobs : ~Same(JobDue(j), x) /\ ~Same(x, JobDue(j))
      /\ \A n \in Machines \ {m} : Holds(n) => ~Same(x, Item(n))
  <2>1. ~SwitchedAgain(Item(m).task)
    BY DEF Same, SwitchedAgain
  <2>2. /\ Taken(Item(m))
        /\ \A i \in DOMAIN notices : ~Same(notices[i], Item(m))
        /\ \A n \in Machines : Holds(n) /\ Same(Item(n), Item(m)) => n = m
        /\ \A j \in DOMAIN jobs : ~Same(JobDue(j), Item(m))
    BY <2>1 DEF Once
  <2>3. \A r : (Same(r, x) => Same(r, Item(m))) /\ (Same(x, r) => Same(r, Item(m)))
    BY DEF Same
  <2> QED BY <2>2, <2>3, TakenOfSame
<1>5. ASSUME NEW a \in Machines, Holds(a)'
      PROVE  a # m /\ Holds(a) /\ Item(a)' = Item(a)
  BY <1>5 DEF Holds, Item
<1>6. ASSUME NEW a \in Machines, Holds(a)', NEW y, y = Item(a)', ~SwitchedAgain(y.task)'
      PROVE  /\ Taken(y)'
             /\ \A n \in Machines : Holds(n)' /\ Same(Item(n)', y) => n = a
             /\ \A i \in DOMAIN notices' : ~Same(notices'[i], y)
             /\ \A j \in DOMAIN jobs' : ~Same(JobDue(j)', y)
  <2>1. Holds(a) /\ y = Item(a) /\ a # m /\ ~SwitchedAgain(y.task)
    BY <1>3, <1>5, <1>6
  <2>2. /\ Taken(y)
        /\ \A n \in Machines : Holds(n) /\ Same(Item(n), y) => n = a
        /\ \A i \in DOMAIN notices : ~Same(notices[i], y)
        /\ \A j \in DOMAIN jobs : ~Same(JobDue(j), y)
    BY <2>1 DEF Once
  <2>3. \A n \in Machines : Holds(n)' => Holds(n) /\ Item(n)' = Item(n)
    BY <1>5
  <2>4. \A j \in DOMAIN jobs' : ~Same(JobDue(j)', y)
    BY <1>2, <1>3, <1>4, <2>1, <2>2
  <2> QED BY <1>3, <2>2, <2>3, <2>4
<1>7. \A a \in Machines : Holds(a)' /\ ~SwitchedAgain(Item(a).task)' =>
          /\ Taken(Item(a))'
          /\ \A n \in Machines : Holds(n)' /\ Same(Item(n), Item(a))' => n = a
          /\ \A i \in DOMAIN notices' : ~Same(notices[i], Item(a))'
          /\ \A j \in DOMAIN jobs' : ~Same(JobDue(j), Item(a))'
  <2> SUFFICES ASSUME NEW a \in Machines, Holds(a)', NEW y, y = Item(a)', ~SwitchedAgain(y.task)'
               PROVE  /\ Taken(y)'
                      /\ \A n \in Machines : Holds(n)' /\ Same(Item(n)', y) => n = a
                      /\ \A i \in DOMAIN notices' : ~Same(notices'[i], y)
                      /\ \A j \in DOMAIN jobs' : ~Same(JobDue(j)', y)
    OBVIOUS
  <2> QED BY <1>6
<1>8. \A i \in DOMAIN notices' : ~SwitchedAgain(notices[i].task)' =>
          /\ Taken(notices[i])'
          /\ \A l \in DOMAIN notices' : Same(notices[i], notices[l])' => i = l
  <2> SUFFICES ASSUME NEW i \in DOMAIN notices, NEW r, r = notices[i], ~SwitchedAgain(r.task)'
               PROVE  Taken(r)' /\ \A l \in DOMAIN notices : Same(r, notices[l]) => i = l
    OBVIOUS
  <2>1. Taken(r) /\ \A l \in DOMAIN notices : Same(r, notices[l]) => i = l
    BY <1>3 DEF Once
  <2> QED BY <2>1, <1>3
<1>9. ASSUME NEW j \in DOMAIN jobs'
      PROVE  /\ Taken(JobDue(j))'
             /\ \A l \in DOMAIN jobs' : Same(JobDue(j)', JobDue(l)') => j = l
  <2>1. CASE j = k
    <3>1. Taken(JobDue(j))'
      <4> SUFFICES ASSUME NEW c, c = JobDue(j)' PROVE Taken(c)'
        OBVIOUS
      <4> QED BY <2>1, <1>3, <1>4
    <3> QED BY <3>1, <2>1, <1>2, <1>3, <1>4
  <2>2. CASE j \in DOMAIN jobs
    <3>1. Taken(JobDue(j)) /\ \A l \in DOMAIN jobs : Same(JobDue(j), JobDue(l)) => j = l
      BY <2>2 DEF Once
    <3>2. Taken(JobDue(j))'
      <4> SUFFICES ASSUME NEW c, c = JobDue(j)' PROVE Taken(c)'
        OBVIOUS
      <4> QED BY <2>2, <1>3, <3>1
    <3> QED BY <3>1, <3>2, <2>2, <1>2, <1>3, <1>4
  <2> QED BY <2>1, <2>2, <1>2
<1> QED BY <1>7, <1>8, <1>9 DEF Once

\* What a machine that holds a row goes on with
LEMMA HolderGoesOn ==
    ASSUME SchedulerInv, NEW m \in Machines, Holds(m), Goto(m, Onward(machine[m])),
           UNCHANGED clock, Len(jobs') \in Nat, Len(jobs) <= Len(jobs')
    PROVE  /\ Item(m) \in Row /\ RowOK(Item(m), machine[m].moment, Len(jobs))
           /\ Item(m) = machine[m].queue[1] /\ TickOK(machine[m], Len(jobs))
           /\ machine[m].queue # << >>
           /\ MachinesOK' /\ ~Holds(m)'
           /\ \A n \in Machines \ {m} : machine'[n] = machine[n]
<1> DEFINE h == machine[m]
           g == Onward(h)
<1>1. /\ h \in Loop /\ h.moment \in Nat /\ h.moment <= clock /\ TickOK(h, Len(jobs))
      /\ Len(jobs) \in Nat /\ clock \in Nat
  BY CountsAreNat
<1>2. h.queue # << >>
  BY <1>1 DEF TickOK, Holds
<1>3. Item(m) \in Row /\ Item(m) = h.queue[1] /\ RowOK(Item(m), h.moment, Len(jobs))
  BY <1>2, HeldRow DEF SchedulerInv
<1>4. /\ g \in Loop /\ TickOK(g, Len(jobs)) /\ g.moment <= h.moment
      /\ g.pc \in {"asleep", "select", "stamp", "claim"}
  BY <1>1, <1>2, OnwardOK
<1>5. TickOK(g, Len(jobs')) /\ g.moment <= clock
  <2>1. g.moment \in Int
    BY <1>4, SchedulerAssumption DEF Loop
  <2> QED BY <2>1, <1>1, <1>4, TickStays
<1> HIDE DEF g
<1>6. MachinesOK' /\ machine'[m] = g /\ \A n \in Machines \ {m} : machine'[n] = machine[n]
  BY <1>1, <1>4, <1>5, MachineMoves DEF SchedulerInv, g
<1> QED BY <1>1, <1>2, <1>3, <1>4, <1>6 DEF Holds

LEMMA DeliverKeeps ==
    ASSUME SchedulerInv, NEW m \in Machines, Deliver(m)
    PROVE  SchedulerInv'
<1> DEFINE i == Item(m)
           x == [task |-> i.task, due |-> i.due, job |-> i.job]
<1>1. /\ UNCHANGED <<tasks, jobs, saver, saves, clock>> /\ Goto(m, Onward(machine[m]))
      /\ notices' = Append(notices, x) \/ UNCHANGED notices
      /\ Holds(m)
  BY DEF Deliver, bounds, Holds
<1>2. Len(jobs) \in Nat /\ Len(jobs') = Len(jobs)
  BY <1>1, CountsAreNat
<1>3. /\ i \in Row /\ RowOK(i, machine[m].moment, Len(jobs)) /\ machine[m].queue # << >>
      /\ MachinesOK' /\ ~Holds(m)'
      /\ \A n \in Machines \ {m} : machine'[n] = machine[n]
  BY <1>1, <1>2, HolderGoesOn
<1>4. CASE UNCHANGED notices
  BY <1>1, <1>3, <1>4, OnwardKeeps
<1>5. CASE notices' = Append(notices, x)
  <2>1. /\ x \in Notice /\ x.job \in 0 .. Len(jobs)
        /\ x.task = i.task /\ x.due = i.due /\ x.job = i.job
    BY <1>2, <1>3 DEF Row, RowOK, Notice
  <2> HIDE DEF x
  <2>2. TablesOK'
    <3>1. notices \in Seq(Notice)
      BY DEF SchedulerInv, TablesOK
    <3>2. /\ notices' \in Seq(Notice)
          /\ \A k \in DOMAIN notices' : (k \in DOMAIN notices /\ notices'[k] = notices[k]) \/ notices'[k] = x
      BY <1>5, <2>1, <3>1
    <3>3. \A k \in DOMAIN notices' : notices'[k].job \in 0 .. Len(jobs')
      BY <3>2, <2>1, <1>2 DEF SchedulerInv, TablesOK
    <3> QED BY <3>2, <3>3, <1>1 DEF SchedulerInv, TablesOK
  <2>3. SaversOK' /\ RunsAdvance'
    BY <1>1, SaversStay, RunsStay DEF SchedulerInv
  <2>4. Same(x, Item(m))
    BY <2>1 DEF Same
  <2>5. Once'
    BY <1>1, <1>3, <1>5, <2>1, <2>4, OnceTold DEF SchedulerInv
  <2> QED BY <1>3, <2>2, <2>3, <2>5 DEF SchedulerInv
<1> QED BY <1>1, <1>4, <1>5

LEMMA EnqueueKeeps ==
    ASSUME SchedulerInv, NEW m \in Machines, Enqueue(m)
    PROVE  SchedulerInv'
<1> DEFINE i == Item(m)
           e == [task |-> i.task, due |-> i.due, status |-> "queued", notified |-> FALSE]
<1>1. /\ UNCHANGED <<tasks, notices, saver, saves, clock>> /\ Goto(m, Onward(machine[m]))
      /\ jobs' = Append(jobs, e) \/ UNCHANGED jobs
      /\ Holds(m) /\ machine[m].pc = "enqueue"
  BY DEF Enqueue, bounds, Holds
<1>2. Len(jobs) \in Nat /\ Len(jobs') \in Nat /\ Len(jobs) <= Len(jobs')
  <2>1. jobs \in Seq(JobRow) /\ Len(jobs) \in Nat
    BY DEF SchedulerInv, TablesOK
  <2> HIDE DEF e
  <2> QED BY <2>1, <1>1
<1>3. /\ i \in Row /\ i = machine[m].queue[1] /\ TickOK(machine[m], Len(jobs))
      /\ machine[m].queue # << >>
      /\ MachinesOK' /\ ~Holds(m)'
      /\ \A n \in Machines \ {m} : machine'[n] = machine[n]
  BY <1>1, <1>2, HolderGoesOn
<1>4. CASE UNCHANGED jobs
  BY <1>1, <1>3, <1>4, OnwardKeeps
<1>5. CASE jobs' = Append(jobs, e)
  <2>1. i.job = 0 /\ Kind[i.task] = "work"
    BY <1>1, <1>3 DEF TickOK
  <2>2. e \in JobRow /\ e.task = i.task /\ e.due = i.due
    BY <1>3 DEF Row, JobRow
  <2> HIDE DEF e
  <2>3. TablesOK'
    <3>1. jobs \in Seq(JobRow)
      BY DEF SchedulerInv, TablesOK
    <3>2. /\ jobs' \in Seq(JobRow)
          /\ \A k \in DOMAIN jobs' : (k \in DOMAIN jobs /\ jobs'[k] = jobs[k]) \/ jobs'[k] = e
      BY <1>5, <2>2, <3>1
    <3>3. \A k \in DOMAIN jobs' : Kind[jobs'[k].task] = "work"
      BY <3>2, <2>1, <2>2 DEF SchedulerInv, TablesOK
    <3>4. \A k \in DOMAIN notices : notices[k].job \in 0 .. Len(jobs')
      BY <1>2 DEF SchedulerInv, TablesOK
    <3> QED BY <3>2, <3>3, <3>4, <1>1 DEF SchedulerInv, TablesOK
  <2>4. SaversOK' /\ RunsAdvance'
    BY <1>1, SaversStay, RunsStay DEF SchedulerInv
  <2>5. Same([task |-> e.task, due |-> e.due, job |-> 0], Item(m))
    BY <2>1, <2>2 DEF Same
  <2>6. Once'
    BY <1>1, <1>3, <1>5, <2>1, <2>2, <2>3, <2>5, OnceQueued DEF SchedulerInv
  <2> QED BY <1>3, <2>3, <2>4, <2>6 DEF SchedulerInv
<1> QED BY <1>1, <1>4, <1>5

---------------------------------------------------------------------------
(* Requests of the user, and what happens outside                           *)

\* A step of no machine
LEMMA OutsideStep ==
    ASSUME SchedulerInv, UNCHANGED <<machine, notices>>, clock' \in Nat, clock <= clock',
           TablesOK', SaversOK', RunsAdvance', Len(jobs') = Len(jobs), DOMAIN jobs' = DOMAIN jobs,
           \A j \in DOMAIN jobs : jobs'[j].task = jobs[j].task /\ jobs'[j].due = jobs[j].due,
           \A t \in Tasks : SwitchedAgain(t) => SwitchedAgain(t)',
           \A r \in Row \cup Notice : Taken(r) /\ ~SwitchedAgain(r.task)' => Taken(r)'
    PROVE  SchedulerInv'
<1>1. Len(jobs) \in Nat /\ clock \in Nat /\ TablesOK /\ MachinesOK /\ Once
  BY CountsAreNat DEF SchedulerInv
<1>2. MachinesOK'
  BY <1>1, MachinesStay
<1>3. Once'
  <2> DEFINE m == CHOOSE x : x \notin Machines
             new == [task |-> 0, due |-> 0, job |-> 0]
  <2>1. \A n \in Machines : machine'[n] = machine[n]
    OBVIOUS
  <2>2. m \in Machines /\ Holds(m)' => machine'[m] = machine[m]
    BY <2>1
  <2> HIDE DEF m, new
  <2> QED BY <1>1, <2>1, <2>2, OnceStays
<1> QED BY <1>2, <1>3 DEF SchedulerInv

\* One task is written; unless its report is switched again, its next run stays or is
\* cleared when the task was there
LEMMA TaskStep ==
    ASSUME SchedulerInv, UNCHANGED <<machine, jobs, notices, clock, saves>>,
           NEW t \in Tasks, NEW row \in TaskRow, tasks' = [tasks EXCEPT ![t] = row],
           row.status # "none", row.next \in Times[t] \cup {NoTime}, row.last <= clock,
           row.status \in {"done", "cancelled"} => row.next = NoTime,
           ~SwitchedAgain(t) =>
              /\ tasks[t].status # "none" => row.next \in {NoTime, tasks[t].next}
              /\ row.next = NoTime \/ row.last < row.next,
           SaversOK'
    PROVE  SchedulerInv'
<1>1. /\ tasks' \in [Tasks -> TaskRow] /\ tasks'[t] = row
      /\ \A x \in Tasks \ {t} : tasks'[x] = tasks[x]
  BY DEF SchedulerInv, TablesOK
<1>2. TablesOK'
  <2>1. \A x \in Tasks : /\ tasks'[x].next \in Times[x] \cup {NoTime}
                         /\ tasks'[x].status \in {"done", "cancelled"} => tasks'[x].next = NoTime
                         /\ tasks'[x].status = "none" => tasks'[x].last = 0
                         /\ tasks'[x].last <= clock
    BY <1>1 DEF SchedulerInv, TablesOK
  <2> QED BY <1>1, <2>1 DEF SchedulerInv, TablesOK
<1>3. \A x : SwitchedAgain(x)' <=> SwitchedAgain(x)
  BY DEF SwitchedAgain
<1>4. RunsAdvance'
  <2>1. \A x \in Tasks : ~SwitchedAgain(x) =>
            tasks'[x].next = NoTime \/ tasks'[x].last < tasks'[x].next
    BY <1>1 DEF SchedulerInv, RunsAdvance
  <2> QED BY <2>1, <1>3 DEF RunsAdvance
<1>5. ASSUME NEW r \in Row \cup Notice, Taken(r), ~SwitchedAgain(r.task)
      PROVE  Taken(r)'
  <2>1. r.task \in Tasks
    BY DEF Row, Notice
  <2>2. CASE r.job = 0 /\ r.task = t
    BY <2>2, <1>1, <1>5 DEF Taken
  <2>3. CASE ~(r.job = 0 /\ r.task = t)
    BY <2>1, <2>3, <1>1, <1>5 DEF Taken
  <2> QED BY <2>2, <2>3
<1> QED BY <1>2, <1>3, <1>4, <1>5, CountsAreNat, OutsideStep

LEMMA CreateKeeps ==
    ASSUME SchedulerInv, NEW t \in Tasks, Create(t)
    PROVE  SchedulerInv'
<1>1. /\ UNCHANGED <<machine, jobs, notices, clock, saver, saves>>
      /\ tasks[t].status = "none"
  BY DEF Create, bounds
<1>2. PICK next \in FirstRuns(t) :
          tasks' = [tasks EXCEPT ![t] = [status |-> "open", next |-> next, last |-> 0]]
  BY DEF Create
<1>3. clock \in 0 .. MaxTime /\ tasks \in [Tasks -> TaskRow] /\ Times[t] \subseteq Nat \ {NoTime}
  BY SchedulerAssumption DEF SchedulerInv, TablesOK
<1>4. next \in Times[t] \cup {NoTime} /\ next \in Nat
  BY <1>3, NextRun DEF FirstRuns, NoTime
<1> DEFINE row == [status |-> "open", next |-> next, last |-> 0]
<1>5. row \in TaskRow /\ row.status = "open" /\ row.next = next /\ row.last = 0
  BY <1>4 DEF TaskRow
<1>6. SaversOK'
  BY <1>1, <1>2, <1>3, ReportsApart DEF Create, SchedulerInv
<1> HIDE DEF row
<1>7. tasks' = [tasks EXCEPT ![t] = row]
  BY <1>2 DEF row
<1>8. row.last <= clock /\ (row.next = NoTime \/ row.last < row.next)
  BY <1>3, <1>4, <1>5, CountsAreNat DEF NoTime
<1> QED BY <1>1, <1>4, <1>5, <1>6, <1>7, <1>8, TaskStep

LEMMA UpdateKeeps ==
    ASSUME SchedulerInv, NEW t \in Tasks, NEW status \in {"open", "done", "cancelled"},
           Update(t, status)
    PROVE  SchedulerInv'
<1> DEFINE next == IF status = "open" THEN tasks[t].next ELSE NoTime
<1>1. /\ UNCHANGED <<machine, jobs, notices, clock, saver, saves>>
      /\ Exists(t) /\ Kind[t] # "report"
  BY DEF Update, Edit
<1>2. /\ tasks \in [Tasks -> TaskRow] /\ tasks[t] \in TaskRow
      /\ tasks[t].next \in Times[t] \cup {NoTime} /\ tasks[t].last <= clock
  BY DEF SchedulerInv, TablesOK
<1> PICK o \in TaskRow : o = tasks[t]
  BY <1>2
<1> DEFINE row == [o EXCEPT !.status = status, !.next = next]
<1>3. tasks' = [tasks EXCEPT ![t] = row]
  BY <1>2 DEF Update
<1>4. row \in TaskRow /\ row.status = status /\ row.next = next /\ row.last = tasks[t].last
  BY <1>2 DEF TaskRow, NoTime
<1> HIDE DEF row
<1>5. SaversOK'
  BY <1>1, <1>2, <1>3, ReportsApart DEF SchedulerInv
<1>6. ~SwitchedAgain(t) => next = NoTime \/ tasks[t].last < next
  BY DEF SchedulerInv, RunsAdvance
<1> QED BY <1>1, <1>2, <1>3, <1>4, <1>5, <1>6, TaskStep

LEMMA DeleteKeeps ==
    ASSUME SchedulerInv, NEW t \in Tasks, Delete(t)
    PROVE  SchedulerInv'
<1>1. /\ UNCHANGED <<machine, jobs, notices, clock, saver, saves>>
      /\ Exists(t) /\ Kind[t] # "report"
  BY DEF Delete, Edit
<1>2. /\ tasks \in [Tasks -> TaskRow] /\ tasks[t] \in TaskRow
      /\ tasks[t].next \in Times[t] \cup {NoTime} /\ tasks[t].last <= clock
  BY DEF SchedulerInv, TablesOK
<1> PICK o \in TaskRow : o = tasks[t]
  BY <1>2
<1> DEFINE row == [o EXCEPT !.status = "deleted"]
<1>3. tasks' = [tasks EXCEPT ![t] = row]
  BY <1>2 DEF Delete
<1>4. row \in TaskRow /\ row.status = "deleted" /\ row.next = tasks[t].next /\ row.last = tasks[t].last
  BY <1>2 DEF TaskRow, NoTime
<1> HIDE DEF row
<1>5. SaversOK'
  BY <1>1, <1>2, <1>3, ReportsApart DEF SchedulerInv
<1>6. ~SwitchedAgain(t) => row.next = NoTime \/ row.last < row.next
  BY <1>4 DEF SchedulerInv, RunsAdvance
<1> QED BY <1>1, <1>2, <1>3, <1>4, <1>5, <1>6, TaskStep

LEMMA SyncReportKeeps ==
    ASSUME SchedulerInv, NEW s \in Savers, NEW t \in Tasks, SyncReport(s, t)
    PROVE  SchedulerInv'
<1> DEFINE h == saver[s]
           status == IF h.enabled THEN "open" ELSE "cancelled"
           next == IF h.enabled THEN NextOccurrence(t, h.now) ELSE NoTime
           g == IF h.left = {t} THEN NoSave ELSE [h EXCEPT !.left = @ \ {t}]
<1>1. /\ UNCHANGED <<machine, jobs, notices, clock, saves>>
      /\ t \in h.left /\ saver' = [saver EXCEPT ![s] = g]
      /\ tasks' = [tasks EXCEPT ![t].status = status, ![t].next = next]
  BY DEF SyncReport, bounds
<1>2. /\ tasks \in [Tasks -> TaskRow] /\ tasks[t] \in TaskRow /\ tasks[t].last <= clock
      /\ tasks[t].status = "none" => tasks[t].last = 0
  BY DEF SchedulerInv, TablesOK
<1>3. /\ saver \in [Savers -> [pc : {"idle", "sync"}, enabled : BOOLEAN,
                               now : 0 .. MaxTime, left : SUBSET Reports]]
      /\ saves \in Nat
      /\ saves = 0 => /\ \A x \in Savers : saver[x].left = {}
                      /\ \A r \in Reports : tasks[r].status = "none"
      /\ saves <= 1 => \A x \in Savers : \A r \in saver[x].left :
                        /\ tasks[r].status = "none"
                        /\ \A y \in Savers : r \in saver[y].left => y = x
  BY DEF SchedulerInv, SaversOK
<1>4. next \in Times[t] \cup {NoTime} /\ next \in Nat
  <2>1. h.now \in 0 .. MaxTime
    BY <1>3
  <2> QED BY <2>1, NextRun DEF NoTime
<1> PICK o \in TaskRow : o = tasks[t]
  BY <1>2
<1> DEFINE row == [o EXCEPT !.status = status, !.next = next]
<1>5. tasks' = [tasks EXCEPT ![t] = row]
  BY <1>1, <1>2
<1>6. row \in TaskRow /\ row.status = status /\ row.next = next /\ row.last = tasks[t].last
  BY <1>2, <1>4 DEF TaskRow
<1> HIDE DEF row, next
<1>7. /\ saver' \in [Savers -> [pc : {"idle", "sync"}, enabled : BOOLEAN,
                                now : 0 .. MaxTime, left : SUBSET Reports]]
      /\ saver'[s].left = h.left \ {t}
      /\ \A x \in Savers \ {s} : saver'[x] = saver[x]
  <2>1. g \in [pc : {"idle", "sync"}, enabled : BOOLEAN, now : 0 .. MaxTime, left : SUBSET Reports]
        /\ g.left = h.left \ {t}
    BY <1>3, SchedulerAssumption DEF NoSave
  <2> HIDE DEF g
  <2> QED BY <2>1, <1>1, <1>3
<1>8. SaversOK'
  <2>1. saves # 0
    BY <1>1, <1>3
  <2>2. ASSUME saves <= 1, NEW x \in Savers, NEW r \in saver'[x].left
        PROVE  /\ tasks'[r].status = "none"
               /\ \A y \in Savers : r \in saver'[y].left => y = x
    <3>1. r \in saver[x].left /\ \A y \in Savers : saver'[y].left \subseteq saver[y].left
      BY <1>3, <1>7
    <3>2. tasks[r].status = "none" /\ \A y \in Savers : r \in saver[y].left => y = x
      BY <2>2, <3>1, <1>3
    <3>3. r # t
      <4> SUFFICES ASSUME r = t PROVE FALSE
        OBVIOUS
      <4>1. x = s
        BY <3>2, <1>1
      <4> QED BY <4>1, <2>2, <1>7
    <3>4. tasks'[r] = tasks[r]
      BY <3>3, <1>2, <1>5, <3>1, <1>3 DEF Reports
    <3> QED BY <3>1, <3>2, <3>4
  <2> QED BY <2>1, <2>2, <1>1, <1>3, <1>7 DEF SaversOK
<1>9. ~SwitchedAgain(t) => tasks[t].status = "none" /\ tasks[t].last = 0
  <2>1. Kind[t] = "report"
    BY <1>1, <1>3 DEF Reports
  <2>2. ~SwitchedAgain(t) => saves <= 1
    BY <2>1, <1>3 DEF SwitchedAgain
  <2> QED BY <2>2, <1>1, <1>2, <1>3
<1>10. row.next = NoTime \/ 0 < row.next
  BY <1>4, <1>6 DEF NoTime
<1>11. row.status # "none" /\ (row.status = "cancelled" => row.next = NoTime) /\ row.status # "done"
  BY <1>6 DEF next
<1>12. /\ row.next \in Times[t] \cup {NoTime} /\ row.last <= clock
       /\ row.status \in {"done", "cancelled"} => row.next = NoTime
       /\ ~SwitchedAgain(t) =>
             /\ tasks[t].status # "none" => row.next \in {NoTime, tasks[t].next}
             /\ row.next = NoTime \/ row.last < row.next
  BY <1>2, <1>4, <1>6, <1>9, <1>10, <1>11
<1> QED BY <1>1, <1>5, <1>6, <1>8, <1>11, <1>12, TaskStep

LEMMA SaveSettingsKeeps ==
    ASSUME SchedulerInv, NEW s \in Savers, NEW enabled \in BOOLEAN, SaveSettings(s, enabled)
    PROVE  SchedulerInv'
<1> DEFINE g == [pc |-> "sync", enabled |-> enabled, now |-> clock, left |-> Reports]
<1>1. /\ UNCHANGED <<tasks, machine, jobs, notices, clock>> /\ saves' = saves + 1
      /\ saver' = [saver EXCEPT ![s] = g]
  BY DEF SaveSettings
<1>2. clock \in 0 .. MaxTime
  BY SchedulerAssumption DEF SchedulerInv, TablesOK
<1>3. SaversOK'
  <2>1. /\ saver' \in [Savers -> [pc : {"idle", "sync"}, enabled : BOOLEAN,
                                  now : 0 .. MaxTime, left : SUBSET Reports]]
        /\ saver'[s].left = Reports
        /\ \A x \in Savers \ {s} : saver'[x] = saver[x]
    <3>1. g \in [pc : {"idle", "sync"}, enabled : BOOLEAN, now : 0 .. MaxTime, left : SUBSET Reports]
          /\ g.left = Reports
      BY <1>2
    <3> HIDE DEF g
    <3> QED BY <3>1, <1>1 DEF SchedulerInv, SaversOK
  <2>2. saves \in Nat
    BY DEF SchedulerInv, SaversOK
  <2>3. ASSUME saves' <= 1
        PROVE  \A x \in Savers : \A r \in saver'[x].left :
                  /\ tasks'[r].status = "none"
                  /\ \A y \in Savers : r \in saver'[y].left => y = x
    <3>1. saves = 0
      BY <2>2, <2>3, <1>1
    <3>2. (\A x \in Savers : saver[x].left = {}) /\ \A r \in Reports : tasks[r].status = "none"
      BY <3>1 DEF SchedulerInv, SaversOK
    <3> QED BY <3>2, <2>1, <1>1
  <2> QED BY <2>1, <2>2, <2>3, <1>1 DEF SaversOK
<1>4. TablesOK'
  BY <1>1, TablesStay DEF SchedulerInv
<1>5. saves \in Nat
  BY DEF SchedulerInv, SaversOK
<1>6. \A t : SwitchedAgain(t) => SwitchedAgain(t)'
  BY <1>1, <1>5 DEF SwitchedAgain
<1>7. RunsAdvance'
  BY <1>1, <1>6 DEF SchedulerInv, RunsAdvance
<1>8. \A r : Taken(r) => Taken(r)'
  BY <1>1 DEF Taken
<1> QED BY <1>1, <1>3, <1>4, <1>6, <1>7, <1>8, CountsAreNat, OutsideStep

LEMMA FailSaveKeeps ==
    ASSUME SchedulerInv, NEW s \in Savers, FailSave(s)
    PROVE  SchedulerInv'
<1>1. /\ UNCHANGED <<tasks, machine, jobs, notices, clock, saves>>
      /\ saver' = [saver EXCEPT ![s] = NoSave]
  BY DEF FailSave, tables
<1>2. SaversOK'
  <2>1. /\ saver' \in [Savers -> [pc : {"idle", "sync"}, enabled : BOOLEAN,
                                  now : 0 .. MaxTime, left : SUBSET Reports]]
        /\ saver'[s].left = {}
        /\ \A x \in Savers \ {s} : saver'[x] = saver[x]
    <3>1. NoSave \in [pc : {"idle", "sync"}, enabled : BOOLEAN, now : 0 .. MaxTime, left : SUBSET Reports]
          /\ NoSave.left = {}
      BY SchedulerAssumption DEF NoSave
    <3> QED BY <3>1, <1>1 DEF SchedulerInv, SaversOK
  <2>2. \A x \in Savers : saver'[x].left \subseteq saver[x].left
    BY <2>1
  <2> QED BY <2>1, <2>2, <1>1 DEF SchedulerInv, SaversOK
<1>3. TablesOK' /\ RunsAdvance'
  BY <1>1, TablesStay, RunsStay DEF SchedulerInv
<1>4. (\A t : SwitchedAgain(t) => SwitchedAgain(t)') /\ \A r : Taken(r) => Taken(r)'
  BY <1>1 DEF SwitchedAgain, Taken
<1> QED BY <1>1, <1>2, <1>3, <1>4, CountsAreNat, OutsideStep

LEMMA JobEndsKeeps ==
    ASSUME SchedulerInv, NEW j \in DOMAIN jobs, JobEnds(j)
    PROVE  SchedulerInv'
<1>1. UNCHANGED <<tasks, machine, saver, notices, clock, saves>>
  BY DEF JobEnds, bounds
<1>2. PICK status \in {"ended", "cancelled"} : jobs' = [jobs EXCEPT ![j].status = status]
  BY DEF JobEnds
<1>3. jobs \in Seq(JobRow) /\ DOMAIN jobs = 1 .. Len(jobs)
  BY DEF SchedulerInv, TablesOK
<1>4. /\ jobs' \in Seq(JobRow) /\ DOMAIN jobs' = DOMAIN jobs /\ Len(jobs') = Len(jobs)
      /\ \A k \in DOMAIN jobs :
            /\ jobs'[k].task = jobs[k].task /\ jobs'[k].due = jobs[k].due
            /\ jobs'[k].notified = jobs[k].notified
  <2>1. PICK o \in JobRow : o = jobs[j]
    BY <1>3
  <2>2. PICK e \in JobRow : e = [o EXCEPT !.status = status]
    BY DEF JobRow
  <2>3. e.task = o.task /\ e.due = o.due /\ e.notified = o.notified
    BY <2>2 DEF JobRow
  <2>4. jobs' = [jobs EXCEPT ![j] = e]
    BY <1>2, <2>1, <2>2
  <2> QED BY <2>1, <2>3, <2>4, <1>3
<1>5. TablesOK'
  <2>1. \A k \in DOMAIN jobs' : Kind[jobs'[k].task] = "work"
    BY <1>4 DEF SchedulerInv, TablesOK
  <2>2. \A i \in DOMAIN notices' : notices'[i].job \in 0 .. Len(jobs')
    BY <1>1, <1>4 DEF SchedulerInv, TablesOK
  <2> QED BY <2>1, <2>2, <1>1, <1>4 DEF SchedulerInv, TablesOK
<1>6. SaversOK' /\ RunsAdvance'
  BY <1>1, SaversStay, RunsStay DEF SchedulerInv
<1>7. (\A t : SwitchedAgain(t) => SwitchedAgain(t)') /\ \A r : Taken(r) => Taken(r)'
  BY <1>1, <1>4 DEF SwitchedAgain, Taken
<1> QED BY <1>1, <1>4, <1>5, <1>6, <1>7, CountsAreNat, OutsideStep

LEMMA TimePassesKeeps ==
    ASSUME SchedulerInv, TimePasses
    PROVE  SchedulerInv'
<1>1. /\ UNCHANGED <<tasks, jobs, notices, machine, saver, saves>>
      /\ clock' = clock + 1 /\ clock < MaxTime /\ clock \in 1 .. MaxTime /\ MaxTime \in Nat
  BY SchedulerAssumption DEF TimePasses, tables, bounds, SchedulerInv, TablesOK
<1>2. clock' \in 1 .. MaxTime /\ clock <= clock' /\ clock' \in Nat
  BY <1>1
<1>3. TablesOK'
  <2>1. \A t \in Tasks : tasks[t].last <= clock'
    <3> TAKE t \in Tasks
    <3>1. tasks[t].last \in Nat /\ tasks[t].last <= clock
      BY DEF SchedulerInv, TablesOK, TaskRow
    <3> QED BY <3>1, <1>1
  <2> QED BY <2>1, <1>1, <1>2 DEF SchedulerInv, TablesOK
<1>4. SaversOK' /\ RunsAdvance'
  BY <1>1, SaversStay, RunsStay DEF SchedulerInv
<1>5. (\A t : SwitchedAgain(t) => SwitchedAgain(t)') /\ \A r : Taken(r) => Taken(r)'
  BY <1>1 DEF SwitchedAgain, Taken
<1> QED BY <1>1, <1>2, <1>3, <1>4, <1>5, OutsideStep

---------------------------------------------------------------------------
(* The theorems                                                             *)

LEMMA SchedulerInvHolds == Spec => []SchedulerInv
<1>1. Init => SchedulerInv
  <2> SUFFICES ASSUME Init PROVE SchedulerInv
    OBVIOUS
  <2>1. TablesOK
    BY SchedulerAssumption DEF Init, TablesOK, TaskRow, NoTime
  <2>2. MachinesOK
    <3>1. Asleep \in Loop /\ Asleep.moment = 0
      <4>1. << >> \in Seq(Row)
        BY EmptySeq
      <4> QED BY <4>1, SchedulerAssumption DEF Asleep, Loop, Steps
    <3>2. TickOK(Asleep, Len(jobs))
      <4>1. Asleep.queue = << >> /\ Asleep.pc = "asleep" /\ DOMAIN Asleep.queue = {}
        BY DEF Asleep
      <4> QED BY <4>1 DEF TickOK
    <3> QED BY <3>1, <3>2 DEF Init, MachinesOK
  <2>3. SaversOK
    <3>1. NoSave \in [pc : {"idle", "sync"}, enabled : BOOLEAN, now : 0 .. MaxTime, left : SUBSET Reports]
          /\ NoSave.left = {}
      BY SchedulerAssumption DEF NoSave
    <3> QED BY <3>1 DEF Init, SaversOK, Reports
  <2>4. Once
    BY DEF Init, Once, Holds, Asleep
  <2>5. RunsAdvance
    BY DEF Init, RunsAdvance
  <2> QED BY <2>1, <2>2, <2>3, <2>4, <2>5 DEF SchedulerInv
<1>2. SchedulerInv /\ [Next]_vars => SchedulerInv'
  <2> SUFFICES ASSUME SchedulerInv, [Next]_vars PROVE SchedulerInv'
    OBVIOUS
  <2>1. ASSUME NEW m \in Machines, Tick(m) PROVE SchedulerInv'
    BY <2>1, SelectEndedKeeps, StampJobKeeps, SelectDueKeeps, ClaimKeeps, EnqueueKeeps,
       DeliverKeeps DEF Tick
  <2>2. ASSUME NEW m \in Machines, Fail(m) PROVE SchedulerInv'
    BY <2>2, FailKeeps
  <2>3. ASSUME NEW t \in Tasks, Create(t) \/ Delete(t) PROVE SchedulerInv'
    BY <2>3, CreateKeeps, DeleteKeeps
  <2>4. ASSUME NEW t \in Tasks, NEW status \in {"open", "done", "cancelled"}, Update(t, status)
        PROVE  SchedulerInv'
    BY <2>4, UpdateKeeps
  <2>5. ASSUME NEW s \in Savers, NEW enabled \in BOOLEAN, SaveSettings(s, enabled)
        PROVE  SchedulerInv'
    BY <2>5, SaveSettingsKeeps
  <2>6. ASSUME NEW s \in Savers, NEW t \in Tasks, SyncReport(s, t) PROVE SchedulerInv'
    BY <2>6, SyncReportKeeps
  <2>7. ASSUME NEW s \in Savers, FailSave(s) PROVE SchedulerInv'
    BY <2>7, FailSaveKeeps
  <2>8. ASSUME NEW j \in DOMAIN jobs, JobEnds(j) PROVE SchedulerInv'
    BY <2>8, JobEndsKeeps
  <2>9. CASE TimePasses
    BY <2>9, TimePassesKeeps
  <2>10. CASE UNCHANGED vars
    <3>1. UNCHANGED <<tasks, jobs, notices, machine, saver, saves, clock>>
      BY <2>10 DEF vars, tables, bounds
    <3>2. TablesOK' /\ SaversOK' /\ RunsAdvance'
      BY <3>1, TablesStay, SaversStay, RunsStay DEF SchedulerInv
    <3>3. (\A t : SwitchedAgain(t) => SwitchedAgain(t)') /\ \A r : Taken(r) => Taken(r)'
      BY <3>1 DEF SwitchedAgain, Taken
    <3> QED BY <3>1, <3>2, <3>3, CountsAreNat, OutsideStep
  <2> QED BY <2>1, <2>2, <2>3, <2>4, <2>5, <2>6, <2>7, <2>8, <2>9, <2>10 DEF Next
<1> QED BY <1>1, <1>2, PTL DEF Spec

\* However many machines run the scheduler and however their steps mix with the user's
\* requests, an occurrence leaves one notice, or one job, and the end of a job one notice.
THEOREM OccurrencesAreToldOnce == Spec => []ToldOnce
<1>1. SchedulerInv => ToldOnce
  <2> SUFFICES ASSUME SchedulerInv PROVE ToldOnce
    OBVIOUS
  <2>1. TablesOK /\ Once
    BY DEF SchedulerInv
  <2>2. AssistantTypeOK
    <3>1. \A t \in Tasks :
          /\ tasks[t].status \in {"none", "open", "done", "cancelled", "deleted"}
          /\ tasks[t].next \in Times[t] \cup {NoTime}
          /\ tasks[t].status \in {"done", "cancelled"} => tasks[t].next = NoTime
          /\ tasks[t].last \in 0 .. clock
      BY <2>1 DEF TablesOK, TaskRow
    <3>2. \A i \in DOMAIN notices : notices[i].job \in {0} \cup DOMAIN jobs
      BY <2>1 DEF TablesOK
    <3>3. \A j \in DOMAIN jobs : jobs[j].status \in {"queued", "ended", "cancelled"}
      <4> TAKE j \in DOMAIN jobs
      <4>1. jobs[j] \in JobRow
        BY <2>1 DEF TablesOK
      <4> QED BY <4>1 DEF JobRow
    <3> QED BY <3>1, <3>2, <3>3, CountsAreNat DEF AssistantTypeOK
  <2>3. ASSUME NEW t \in Tasks, NEW d \in Times[t]
        PROVE  Cardinality(JobsOf(t, d)) <= 1
    <3>1. \A j, k \in JobsOf(t, d) : j = k
      BY <2>1 DEF Once, JobsOf, Same, JobDue
    <3>2. CASE JobsOf(t, d) = {}
      BY <3>2, FS_EmptySet
    <3>3. CASE JobsOf(t, d) # {}
      <4>1. PICK j : JobsOf(t, d) = {j}
        BY <3>1, <3>3
      <4> QED BY <4>1, FS_Singleton
    <3> QED BY <3>2, <3>3
  <2>4. ASSUME NEW i \in DOMAIN notices, NEW k \in DOMAIN notices, notices[i] = notices[k],
               ~SwitchedAgain(notices[i].task)
        PROVE  i = k
    BY <2>1, <2>4 DEF Once, Same
  <2> QED BY <2>2, <2>3, <2>4 DEF ToldOnce
<1> QED BY <1>1, SchedulerInvHolds, PTL

\* A claim takes an open task whose time has come, though it asks only for the instant.
THEOREM OnlyTheOpenAreClaimed == Spec => OnlyOpenIsClaimed
<1>1. SchedulerInv /\ [Next]_vars =>
        [\A t \in Tasks :
            tasks'[t].last # tasks[t].last =>
               /\ tasks[t].status = "open"
               /\ tasks[t].next \in 1 .. tasks'[t].last
               /\ tasks[t].last < tasks'[t].last \/ SwitchedAgain(t)]_vars
  <2> SUFFICES ASSUME SchedulerInv, Next, NEW t \in Tasks, tasks'[t].last # tasks[t].last
               PROVE  /\ tasks[t].status = "open"
                      /\ tasks[t].next \in 1 .. tasks'[t].last
                      /\ tasks[t].last < tasks'[t].last \/ SwitchedAgain(t)
    OBVIOUS
  <2>1. PICK m \in Machines : Claim(m)
    <3>1. /\ tasks \in [Tasks -> TaskRow]
          /\ tasks[t].status = "none" => tasks[t].last = 0
      BY DEF SchedulerInv, TablesOK
    <3>2. tasks # tasks'
      OBVIOUS
    <3>3. ASSUME NEW m \in Machines, Tick(m) \/ Fail(m) PROVE Claim(m)
      BY <3>2, <3>3 DEF Tick, SelectEnded, StampJob, SelectDue, Enqueue, Deliver, Fail, tables
    <3>4. ASSUME NEW x \in Tasks PROVE ~Create(x) /\ ~Delete(x)
      BY <3>1 DEF Create, Delete, TaskRow
    <3>5. ASSUME NEW x \in Tasks, NEW status \in {"open", "done", "cancelled"}
          PROVE  ~Update(x, status)
      BY <3>1 DEF Update, TaskRow
    <3>6. ASSUME NEW s \in Savers, NEW x \in Tasks PROVE ~SyncReport(s, x)
      BY <3>1 DEF SyncReport, TaskRow
    <3>7. ASSUME NEW s \in Savers
          PROVE  ~FailSave(s) /\ \A enabled \in BOOLEAN : ~SaveSettings(s, enabled)
      BY <3>2 DEF FailSave, SaveSettings, tables
    <3>8. (\A j \in DOMAIN jobs : ~JobEnds(j)) /\ ~TimePasses
      BY <3>2 DEF JobEnds, TimePasses, tables
    <3> QED BY <3>3, <3>4, <3>5, <3>6, <3>7, <3>8 DEF Next
  <2> DEFINE h == machine[m]
             c == Item(m).task
             next == NextOccurrence(c, h.moment)
  <2>2. Exists(c) /\ tasks[c].next = Item(m).due
    BY <2>1 DEF Claim
  <2>3. /\ c \in Tasks /\ Item(m).due \in 1 .. h.moment
        /\ tasks[c].status = "open"
        /\ tasks' = [tasks EXCEPT ![c] =
               [status |-> IF next = NoTime THEN "done" ELSE "open",
                next |-> next, last |-> h.moment]]
    BY <2>1, <2>2, ClaimFinds
  <2> HIDE DEF next
  <2>4. tasks \in [Tasks -> TaskRow] /\ tasks[t].last \in Nat /\ h.moment \in Nat
    BY CountsAreNat DEF SchedulerInv, TablesOK, TaskRow
  <2>5. c = t /\ tasks'[t].last = h.moment
    BY <2>3, <2>4
  <2>6. tasks[t].next # NoTime
    BY <2>2, <2>3, <2>4, <2>5 DEF NoTime
  <2>7. SwitchedAgain(t) \/ tasks[t].last < tasks[t].next
    BY <2>6 DEF SchedulerInv, RunsAdvance
  <2> QED BY <2>2, <2>3, <2>4, <2>5, <2>7
<1> QED BY <1>1, SchedulerInvHolds, PTL DEF Spec, OnlyOpenIsClaimed
=============================================================================

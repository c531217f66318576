------------------------------- MODULE PcWork -------------------------------
(* Work for the user's own PC (pc_service.py, routes/pc.py, migrations 021,  *)
(* 024, 027, 028): orders are queued in brain_jobs and claimed by the        *)
(* processes on the PC through brain_claim_job.                              *)
(* External: those processes, the agent and the clock, which queue work too, *)
(* and PostgreSQL, whose FOR UPDATE SKIP LOCKED passes over a row another    *)
(* transaction holds and looks again at one that changed.                    *)
EXTENDS Naturals, FiniteSets

CONSTANTS PcUsers, Runners,   \* users, and processes on their PCs
          RunnerOf,           \* whose PC a process runs on
          Orders,             \* brain_jobs, 1..n, by age; at first not there
          OrderMenu           \* what each may be: [user, mode, host]
ASSUME PcAssumption ==
    /\ Orders \subseteq Nat \ {0}
    /\ OrderMenu \subseteq [user : PcUsers, mode : {"work", "login", "site"}, host : {m.host : m \in OrderMenu}]

VARIABLES
  jobs,      \* brain_jobs
  fresh,     \* processes seen in the last 90 seconds
  sites,     \* brain_sites: <<user, host>> listed
  request,   \* the app's requests, one for each order
  claim,     \* brain_claim_job as each process runs it: rows it saw, row it holds
  took       \* ghost: who claimed which order

pcVars == <<jobs, fresh, sites, request, claim, took>>

Modes == {"work", "login", "site"}
Thinking(mode) == mode # "work"
NotThere == [status |-> "absent", user |-> "", mode |-> "work", host |-> ""]
NoClaim == [at |-> "idle", saw |-> {}, holds |-> 0]

PcInit ==
    /\ jobs = [o \in Orders |-> NotThere] /\ fresh = {} /\ sites = {} /\ took = {}
    /\ request = [o \in Orders |-> "absent"] /\ claim = [r \in Runners |-> NoClaim]

---------------------------------------------------------------------------
(* The orders.  Ages follow the order in which rows are written.             *)

Written(o) == jobs[o].status # "absent"
Next1(o) == \A p \in Orders : p < o => Written(p) \/ request[p] = "refused"

\* status(): some process of the user was seen lately.
Online(u) == \E r \in fresh : RunnerOf[r] = u

\* _order, once the kwami is known to be the user's.
AskOrder(o) ==
    /\ request[o] = "absent" /\ ~Written(o) /\ \A p \in Orders : p < o => request[p] # "absent"
    /\ \E m \in OrderMenu :
         /\ jobs' = [jobs EXCEPT ![o] = [NotThere EXCEPT !.user = m.user, !.mode = m.mode, !.host = m.host]]
         /\ request' = [request EXCEPT ![o] =
                          IF m.mode = "work" THEN "insert" ELSE IF Online(m.user) THEN "insert" ELSE "refused"]
    /\ UNCHANGED <<fresh, sites, claim, took>>

InsertJob(o) ==
    /\ request[o] = "insert" /\ Next1(o)
    /\ \/ /\ jobs' = [jobs EXCEPT ![o].status = "queued"]
          /\ request' = [request EXCEPT ![o] = IF jobs[o].mode = "site" THEN "list" ELSE "ok"]
       \/ request' = [request EXCEPT ![o] = "refused"] /\ UNCHANGED jobs
    /\ UNCHANGED <<fresh, sites, claim, took>>

\* show_site: the site is listed once its order is queued; the call may fail.
ListSite(o) ==
    /\ request[o] = "list"
    /\ \/ sites' = sites \cup {<<jobs[o].user, jobs[o].host>>} /\ request' = [request EXCEPT ![o] = "ok"]
       \/ request' = [request EXCEPT ![o] = "error"] /\ UNCHANGED sites
    /\ UNCHANGED <<jobs, fresh, claim, took>>

\* forget_site
ForgetSite(u, host) ==
    /\ <<u, host>> \in sites /\ sites' = sites \ {<<u, host>>}
    /\ UNCHANGED <<jobs, fresh, request, claim, took>>

---------------------------------------------------------------------------
(* brain_claim_job(user, process, thinking)                                  *)

\* A process comes, goes, or has not been seen for too long.
Seen(r) ==
    /\ fresh' = IF r \in fresh THEN fresh \ {r} ELSE fresh \cup {r}
    /\ UNCHANGED <<jobs, sites, request, claim, took>>

QueuedFor(o, u, thinking) ==
    jobs[o].status = "queued" /\ jobs[o].user = u /\ Thinking(jobs[o].mode) = thinking

LookForJob(r) ==
    /\ claim[r].at = "idle" /\ r \in fresh
    /\ \E thinking \in BOOLEAN :
         claim' = [claim EXCEPT ![r] = [at |-> "looked", holds |-> 0,
                      saw |-> {o \in Orders : QueuedFor(o, RunnerOf[r], thinking)}]]
    /\ UNCHANGED <<jobs, fresh, sites, request, took>>

\* mutant: a plain sub-select, the oldest row seen.
FreeAnyway(o) == TRUE
\* FOR UPDATE SKIP LOCKED: no one holds the row, and it is still queued.
Free(o) == jobs[o].status = "queued" /\ \A r \in Runners : claim[r].holds # o

Before(o, p) == o < p

LockJob(r) ==
    /\ claim[r].at = "looked"
    /\ LET free == {o \in claim[r].saw : Free(o)} IN
       \/ free = {} /\ claim' = [claim EXCEPT ![r] = NoClaim]
       \/ \E o \in free : /\ \A p \in free \ {o} : Before(o, p)
                          /\ claim' = [claim EXCEPT ![r].at = "locked", ![r].holds = o]
    /\ UNCHANGED <<jobs, fresh, sites, request, took>>

\* The statement commits, and the process works on the row it was given.
TakeJob(r) ==
    /\ claim[r].at = "locked"
    /\ jobs' = [jobs EXCEPT ![claim[r].holds].status = "running"]
    /\ took' = took \cup {<<r, claim[r].holds>>}
    /\ claim' = [claim EXCEPT ![r] = NoClaim]
    /\ UNCHANGED <<fresh, sites, request>>

\* A process writes the end of the work it took.
EndJob(r) ==
    /\ \E o \in Orders : <<r, o>> \in took /\ jobs[o].status = "running"
                           /\ jobs' = [jobs EXCEPT ![o].status = "done"]
    /\ UNCHANGED <<fresh, sites, request, claim, took>>

PcNext ==
    \/ \E o \in Orders : AskOrder(o) \/ InsertJob(o) \/ ListSite(o)
    \/ \E u \in PcUsers, o \in Orders : ForgetSite(u, jobs[o].host)
    \/ \E r \in Runners : Seen(r) \/ LookForJob(r) \/ LockJob(r) \/ TakeJob(r) \/ EndJob(r)
PcSpec == PcInit /\ [][PcNext]_pcVars

---------------------------------------------------------------------------
(* Properties *)

\* A row is in one state, and it is running or done exactly when a process took it.
PcTypeOK ==
    /\ \A o \in Orders : /\ jobs[o].status \in {"absent", "queued", "running", "done"}
                         /\ jobs[o].mode \in Modes
                         /\ jobs[o].status \in {"running", "done"} <=> \E r \in Runners : <<r, o>> \in took

\* An order runs once: two processes of a user that ask at the same moment are not given
\* the same one (migration 021: "SKIP LOCKED so two processes never take the same one").
JobRunsOnce == \A a, b \in took : a[2] = b[2] => a = b

\* Nothing runs on another user's PC.
WorkStaysOnOwnPc == \A t \in took : RunnerOf[t[1]] = jobs[t[2]].user

\* Work is taken oldest first: what a process passes over is taken already, or being
\* taken, or of the other lane, or was written after the process looked.
OldestFirst ==
    [][\A r \in Runners : claim[r].at = "looked" /\ claim'[r].at = "locked"
         => \A o \in claim[r].saw : o < claim'[r].holds
              => jobs[o].status # "queued" \/ \E q \in Runners : claim[q].holds = o]_pcVars

\* A site is listed only when an order to open it was queued for the same user: a failure
\* in between leaves an order without a site, never a site no PC was asked to open.
ListedIsOrdered ==
    \A x \in sites : \E o \in Orders : Written(o) /\ jobs[o].mode = "site"
                                         /\ jobs[o].user = x[1] /\ jobs[o].host = x[2]

\* An order runs once, on a PC of the user who gave it, and a site is listed only when a
\* PC was asked to open it.
WorkRunsOnce == PcTypeOK /\ JobRunsOnce /\ WorkStaysOnOwnPc /\ ListedIsOrdered
=============================================================================

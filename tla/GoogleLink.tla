----------------------------- MODULE GoogleLink -----------------------------
(* The links to the users' Google accounts (google_service.py, google.py,    *)
(* migrations 020 and 025): consent and connection, the access tokens each   *)
(* server process caches, calls that refresh them, and disconnection.  Every *)
(* await is a point where the jobs of both processes interleave.             *)
(* External: Google, which issues a grant for a consent, lets a call through *)
(* while the grant of its token lives, and on a revocation ends what the     *)
(* account granted.  Ids are unique; an access token stands for its grant.   *)
EXTENDS GoogleCalls, Naturals

CONSTANTS LinkUsers,      \* who signs in
          Emails,     \* Google accounts
          Workers,    \* server processes, each with its own cache
          Jobs,       \* requests, 1..n, in the order they arrive
          Menu,       \* the requests considered: records as Arrived takes them
          Linked,     \* the accounts each user has linked at the start, oldest first
          MaxFaults,  \* calls that fail, restarts, and grants ended by their owner
          None
\* A request is of a user and has its calls in advance; Google has an account for each
\* address; None is neither an address nor a link.
ASSUME GoogleAssumption ==
    /\ Jobs \subseteq Nat \ {0} /\ MaxFaults \in Nat
    /\ None \notin Emails \cup [email : Emails, flagged : BOOLEAN,
                                 grant : [email : Emails, by : LinkUsers, n : Nat]]
    /\ \A m \in Menu :
         /\ m.kind \in {"complete", "disconnect", "app", "work"} /\ m.fresh \in BOOLEAN
         /\ m.user \in LinkUsers /\ m.by \in LinkUsers /\ m.asked \in Emails \cup {None}
         /\ m.kind = "complete" => m.asked \in Emails
         /\ m.calls \in IF m.kind = "app" THEN AppPrograms
                        ELSE IF m.kind = "work" THEN WorkPrograms ELSE {<<>>}
    /\ \A u \in LinkUsers : /\ Linked[u] \in Seq(Emails)
                        /\ \A i, k \in DOMAIN Linked[u] : Linked[u][i] = Linked[u][k] => i = k

VARIABLES
  rows,    \* kwami_google_accounts of each user, oldest first
  live,    \* the grants Google honours
  cache,   \* _access_tokens of each process: <<user, address asked>> -> grant or None
  job,     \* the requests
  shared,  \* whether the file or folder the "put"s and "touch"es name is shared
  copies,  \* temporary documents that exist
  faults,  \* faults so far
  cut,     \* ghost: <<user, account>> disconnected, its grant ended, not linked since
  excused  \* ghost: <<process, grant>> whose token may outlive its link there

vars == <<rows, live, cache, job, shared, copies, faults, cut, excused>>
google == <<live, shared, copies>>
ghosts == <<cut, excused>>

Asked == Emails \cup {None}
CacheKeys == LinkUsers \X Asked
GrantOf(email, by, n) == [email |-> email, by |-> by, n |-> n]
GrantsIn(r) == UNION {{r[u][i].grant : i \in DOMAIN r[u]} : u \in LinkUsers}

NoJob == [kind |-> None, at |-> "absent", user |-> None, hits |-> <<>>]
At(j, pc) == job[j].at = pc
Go(j, pc) == job' = [job EXCEPT ![j].at = pc]
End(j, why) == job' = [job EXCEPT ![j].at = "ended", ![j].why = why]
Fault == faults < MaxFaults /\ faults' = faults + 1

\* The row a call means: the address it names, or the oldest link (_account).
Means(u, asked, i) == IF asked = None THEN i = 1 ELSE rows[u][i].email = asked
Found(u, asked) == {i \in DOMAIN rows[u] : Means(u, asked, i)}

\* mutant: only the address asked for is forgotten.
ForgetTokensNamed(w, u) ==
    cache' = [cache EXCEPT ![w] = [k \in CacheKeys |-> IF k[1] = u /\ k[2] # None THEN None ELSE @[k]]]

\* _forget_tokens: every token of the user in this process, and in no other.
ForgetTokens(w, u) == cache' = [cache EXCEPT ![w] = [k \in CacheKeys |-> IF k[1] = u THEN None ELSE @[k]]]

---------------------------------------------------------------------------
Init ==
    /\ rows = [u \in LinkUsers |-> [i \in DOMAIN Linked[u] |->
                  [email |-> Linked[u][i], grant |-> GrantOf(Linked[u][i], u, 0),
                   flagged |-> FALSE]]]
    /\ live = GrantsIn(rows)
    /\ cache = [w \in Workers |-> [k \in CacheKeys |-> None]]
    /\ job = [j \in Jobs |-> NoJob]
    /\ shared = FALSE /\ copies = {} /\ faults = 0 /\ cut = {} /\ excused = {}

\* A request as a process receives it.  `by` is who the state of a consent, or a
\* work thread's token, was made for; `fresh` is whether it can still be read.
Arrived(m, w) ==
    [kind |-> m.kind, user |-> m.user, by |-> m.by, worker |-> w, asked |-> m.asked,
     calls |-> m.calls,
     at |-> "call", why |-> None, i |-> 1, row |-> None, token |-> None,
     hits |-> <<>>, sawPrivate |-> FALSE, failing |-> FALSE, revoked |-> FALSE]

\* work_thread(): the token must be readable; the user is the one it was made for.
WorkStarts(m) == m.fresh

\* complete(): the state must be readable and have been started by who finishes it.
CompleteStarts(m) == m.fresh /\ m.by = m.user

Start(j) ==
    /\ At(j, "absent")
    /\ \A k \in Jobs : k < j => ~At(k, "absent")
    /\ \E m \in Menu, w \in Workers :
         LET new == Arrived(m, w) IN
         job' = [job EXCEPT ![j] =
           CASE m.kind = "complete" /\ CompleteStarts(m) -> [new EXCEPT !.at = "exchange"]
             [] m.kind = "disconnect"                    -> [new EXCEPT !.at = "find"]
             [] m.kind = "app"                           -> new
             [] m.kind = "work" /\ WorkStarts(m)         -> new
             [] OTHER -> [new EXCEPT !.at = "ended", !.why = "turned away"]]
    /\ UNCHANGED <<rows, google, cache, faults, ghosts>>

---------------------------------------------------------------------------
(* complete_connection *)

Exchange(j) ==
    /\ At(j, "exchange")
    /\ LET g == GrantOf(job[j].asked, job[j].by, j) IN
       \/ /\ live' = live \cup {g}
          /\ job' = [job EXCEPT ![j].at = "whose", ![j].token = g]
          /\ UNCHANGED faults
       \/ Fault /\ End(j, "refused") /\ UNCHANGED live
    /\ UNCHANGED <<rows, cache, shared, copies, ghosts>>

\* Whose account it is; without an answer the grant stays at Google, and no row has it.
Whose(j) ==
    /\ At(j, "whose")
    /\ \/ job[j].token \in live /\ Go(j, "upsert") /\ UNCHANGED faults
       \/ job[j].token \notin live /\ End(j, "refused") /\ UNCHANGED faults
       \/ Fault /\ End(j, "refused")
    /\ UNCHANGED <<rows, google, cache, ghosts>>

Upserted(u, g) ==
    LET row == [email |-> g.email, grant |-> g, flagged |-> FALSE]
        old == Found(u, g.email)
    IN IF old = {} THEN Append(rows[u], row)
       ELSE [i \in DOMAIN rows[u] |-> IF i \in old THEN row ELSE rows[u][i]]


\* A change of the rows, and what became of the call: answered, failed, or applied with
\* its answer lost.  Tokens of the links that are gone stay where nobody forgets them:
\* in the other processes, and in this one when it does not hear of the change.
ChangeRows(j, u, changed) ==
    \/ /\ rows' = [rows EXCEPT ![u] = changed]
       /\ \/ Go(j, "forget") /\ UNCHANGED faults
          \/ Fault /\ End(j, "failed")
       /\ excused' = excused \cup
            {<<w, g>> : w \in {v \in Workers : v # job[j].worker \/ job'[j].at = "ended"},
                        g \in GrantsIn(rows) \ GrantsIn(rows')}
    \/ Fault /\ End(j, "failed") /\ UNCHANGED <<rows, excused>>

Upsert(j) ==
    /\ At(j, "upsert")
    /\ ChangeRows(j, job[j].user, Upserted(job[j].user, job[j].token))
    /\ cut' = IF rows' = rows THEN cut ELSE cut \ {<<job[j].user, job[j].asked>>}
    /\ UNCHANGED <<google, cache>>

Forget(j) ==
    /\ At(j, "forget")
    /\ ForgetTokens(job[j].worker, job[j].user)
    /\ End(j, "ok")
    /\ UNCHANGED <<rows, google, faults, ghosts>>

---------------------------------------------------------------------------
(* disconnect *)

Find(j) ==
    /\ At(j, "find")
    /\ LET found == Found(job[j].user, job[j].asked) IN
       \/ found = {} /\ End(j, "none")
       \/ \E i \in found : job' = [job EXCEPT ![j].row = rows[job[j].user][i], ![j].at = "revoke"]
    /\ UNCHANGED <<rows, google, cache, faults, ghosts>>

Granted(email) == {g \in live : g.email = email}

\* mutant: only the local link goes away.
RevokeLocally(j) ==
    /\ At(j, "revoke")
    /\ job' = [job EXCEPT ![j].at = "delete", ![j].revoked = TRUE]
    /\ UNCHANGED <<rows, google, cache, faults, ghosts>>

\* Whatever Google says, the link goes away.
Revoke(j) ==
    /\ At(j, "revoke")
    /\ \/ /\ live' = live \ Granted(job[j].row.email)
          /\ job' = [job EXCEPT ![j].at = "delete", ![j].revoked = TRUE]
          /\ UNCHANGED faults
       \/ Fault /\ Go(j, "delete") /\ UNCHANGED live
    /\ UNCHANGED <<rows, cache, shared, copies, ghosts>>

Delete(j) ==
    /\ At(j, "delete")
    /\ LET u == job[j].user
           mine == Found(u, job[j].row.email)
       IN /\ ChangeRows(j, u, IF mine = {} THEN rows[u]
                              ELSE RemoveAt(rows[u], CHOOSE i \in mine : TRUE))
          /\ cut' = IF /\ rows' # rows /\ job[j].revoked
                       /\ \A i \in mine : rows[u][i].grant = job[j].row.grant
                    THEN cut \cup {<<u, job[j].row.email>>} ELSE cut
    /\ UNCHANGED <<google, cache>>

---------------------------------------------------------------------------
(* _access_token and _send *)

What(j) == job[j].calls[job[j].i]

\* mutant: the copy is deleted only once it has been read.
FailAtOnce(j, why) == End(j, why)

\* The request ends with an error; the copy that is being read is deleted first.
Fail(j, why) ==
    job' = IF job[j].i \in DOMAIN job[j].calls /\ What(j) = "export"
           THEN [job EXCEPT ![j].at = "call", ![j].i = @ + 1, ![j].failing = TRUE, ![j].why = why]
           ELSE [job EXCEPT ![j].at = "ended", ![j].why = why]

\* mutant: one entry for all the addresses of a user.
KeyOfUser(j) == <<job[j].user, None>>

\* The entry of the cache a call uses: the user and the address it asked for.
CacheKey(j) == <<job[j].user, job[j].asked>>

\* The next call takes its token from the cache, or reads the row when there is none.
Call(j) ==
    /\ At(j, "call") /\ job[j].i \in DOMAIN job[j].calls /\ What(j) # "refuse"
    /\ LET w == job[j].worker
           k == CacheKey(j)
       IN \/ /\ cache[w][k] # None
             /\ job' = [job EXCEPT ![j].token = cache[w][k], ![j].at = "send"]
             /\ UNCHANGED cache
          \* there is none, or it has expired
          \/ Go(j, "read") /\ cache' = [cache EXCEPT ![w][k] = None]
    /\ UNCHANGED <<rows, google, faults, ghosts>>

Finish(j) ==
    /\ At(j, "call")
    /\ \/ /\ job[j].i \notin DOMAIN job[j].calls
          /\ End(j, IF job[j].failing THEN job[j].why ELSE "ok")
       \/ job[j].i \in DOMAIN job[j].calls /\ What(j) = "refuse" /\ Fail(j, "turned away")
    /\ UNCHANGED <<rows, google, cache, faults, ghosts>>

ReadRow(j) ==
    /\ At(j, "read")
    /\ LET found == Found(job[j].user, job[j].asked) IN
       \/ found = {} /\ Fail(j, "not linked")
       \/ \E i \in found : job' = [job EXCEPT ![j].row = rows[job[j].user][i], ![j].at = "refresh"]
    /\ UNCHANGED <<rows, google, cache, faults, ghosts>>

\* Any answer of 400 or more is taken for a refusal; no answer is only an error.
Refresh(j) ==
    /\ At(j, "refresh")
    /\ \/ /\ job[j].row.grant \in live /\ UNCHANGED faults
          /\ job' = [job EXCEPT ![j].token = job[j].row.grant, ![j].at = "store"]
       \/ job[j].row.grant \notin live /\ Go(j, "flag") /\ UNCHANGED faults
       \/ Fault /\ (Go(j, "flag") \/ Fail(j, "no answer"))
    /\ UNCHANGED <<rows, google, cache, ghosts>>

\* needs_reconnect_at, on the row of that address as it is now.
Flagged(j) ==
    LET u == job[j].user
        seen == Found(u, job[j].row.email)
    IN [rows EXCEPT ![u] =
           [i \in DOMAIN rows[u] |-> [rows[u][i] EXCEPT !.flagged = @ \/ i \in seen]]]

Flag(j) ==
    /\ At(j, "flag")
    /\ \/ rows' = Flagged(j) /\ Fail(j, "reconnect") /\ UNCHANGED faults
       \/ Fault /\ Fail(j, "failed") /\ UNCHANGED rows
    /\ UNCHANGED <<google, cache, ghosts>>

\* Stored under the address asked for, whatever happened to the link meanwhile.
Store(j) ==
    /\ At(j, "store")
    /\ cache' = [cache EXCEPT ![job[j].worker][CacheKey(j)] = job[j].token]
    /\ Go(j, "send")
    /\ excused' = IF job[j].token \in GrantsIn(rows) THEN excused
                  ELSE excused \cup {<<job[j].worker, job[j].token>>}
    /\ UNCHANGED <<rows, google, faults, cut>>

\* What Google does with a call that carries a live token.
CopyOf(j) == {c \in copies : c.job = j}
Does(j) ==
    LET e == job[j].token.email IN
    CASE What(j) = "copy"   -> copies' = copies \cup {[job |-> j, email |-> e]}
      [] What(j) = "delete" -> copies' = copies \ CopyOf(j)
      [] OTHER -> UNCHANGED copies
\* A document made in one account is not found in another.
Finds(j) == What(j) \in {"export", "delete"} =>
                \E c \in CopyOf(j) : c.email = job[j].token.email
Hit(j) == [what |-> What(j), email |-> job[j].token.email, by |-> job[j].token.by,
           shared |-> shared]

Accepted(j) ==
    /\ job[j].token \in live /\ Finds(j) /\ Does(j)
    /\ LET after == [job[j] EXCEPT !.hits = Append(@, Hit(j))] IN
       \/ /\ job' = [job EXCEPT ![j] =
              IF What(j) = "check" /\ shared
              THEN [after EXCEPT !.at = "ended", !.why = "turned away"]
              ELSE [after EXCEPT !.at = "call", !.i = @ + 1,
                                 !.sawPrivate = @ \/ What(j) = "check"]]
          /\ UNCHANGED faults
       \* done, and the answer is lost
       \/ /\ Fault
          /\ job' = [job EXCEPT ![j] =
              IF What(j) = "export"
              THEN [after EXCEPT !.at = "call", !.i = @ + 1, !.failing = TRUE, !.why = "no answer"]
              ELSE [after EXCEPT !.at = "ended", !.why = "no answer"]]
    /\ UNCHANGED cache

\* 401: the user's tokens in this process are forgotten.
Unauthorized(j) ==
    /\ job[j].token \notin live
    /\ ForgetTokens(job[j].worker, job[j].user)
    /\ Fail(j, "unlinked")
    /\ UNCHANGED <<copies, faults>>

Rejected(j) ==
    /\ job[j].token \in live
    /\ \/ ~Finds(j) /\ UNCHANGED faults
       \/ Fault
    /\ Fail(j, "rejected")
    /\ UNCHANGED <<copies, cache>>

SendCall(j) ==
    /\ At(j, "send")
    /\ Accepted(j) \/ Unauthorized(j) \/ Rejected(j)
    /\ UNCHANGED <<rows, live, shared, ghosts>>

---------------------------------------------------------------------------
(* Surroundings *)

\* The owner of an account takes the access back at Google.
OwnerRevokes(e) ==
    /\ Granted(e) # {} /\ Fault
    /\ live' = live \ Granted(e)
    /\ UNCHANGED <<rows, cache, job, shared, copies, ghosts>>

\* The user shares the file, from Drive.
ShareFromDrive ==
    /\ ~shared /\ shared' = TRUE
    /\ UNCHANGED <<rows, live, cache, job, copies, faults, ghosts>>

\* A process restarts: its cache and its requests are gone.
Restart(w) ==
    /\ Fault
    /\ cache' = [cache EXCEPT ![w] = [k \in CacheKeys |-> None]]
    /\ job' = [j \in Jobs |-> IF At(j, "absent") \/ At(j, "ended") \/ job[j].worker # w THEN job[j]
                              ELSE [job[j] EXCEPT !.at = "ended", !.why = "died"]]
    /\ UNCHANGED <<rows, google, ghosts>>

Step(j) ==
    \/ Start(j)
    \/ Exchange(j) \/ Whose(j) \/ Upsert(j) \/ Forget(j)
    \/ Find(j) \/ Revoke(j) \/ Delete(j)
    \/ Call(j) \/ Finish(j) \/ ReadRow(j) \/ Refresh(j) \/ Flag(j) \/ Store(j) \/ SendCall(j)

Next ==
    \/ \E j \in Jobs : Step(j)
    \/ \E e \in Emails : OwnerRevokes(e)
    \/ ShareFromDrive
    \/ \E w \in Workers : Restart(w)

Spec == Init /\ [][Next]_vars

---------------------------------------------------------------------------
(* Properties *)

\* One row per address of a user; a cached token and every token a request holds are
\* grants of that user; a request that is running has calls left to make or has made
\* them all (migration 025, _access_token).
GoogleTypeOK ==
    /\ \A u \in LinkUsers : \A i, k \in DOMAIN rows[u] :
         rows[u][i].email = rows[u][k].email => i = k
    /\ \A w \in Workers, k \in CacheKeys : cache[w][k] # None => cache[w][k].by = k[1]
    /\ \A j \in Jobs : ~At(j, "absent") =>
         /\ job[j].kind \in {"complete", "disconnect", "app", "work"}
         /\ job[j].i \in 1..(Len(job[j].calls) + 1)
         /\ job[j].row # None => job[j].row.grant.by = job[j].user
    /\ faults \in 0..MaxFaults /\ shared \in BOOLEAN

\* A request that names an account reaches that account through the user's own grant,
\* and no other, whatever is linked, refreshed or cached meanwhile; and every link is one
\* its user started the consent of.
NamedAccountOnly ==
    /\ GoogleTypeOK
    /\ \A u \in LinkUsers : \A i \in DOMAIN rows[u] : rows[u][i].grant.by = u
    /\ \A j \in Jobs : ~At(j, "absent") /\ job[j].asked # None =>
        \A i \in DOMAIN job[j].hits :
            job[j].hits[i].email = job[j].asked /\ job[j].hits[i].by = job[j].user

\* Once a user has disconnected an account and Google has ended its grant, no call of
\* theirs reaches it until they link it again: not with a token another process holds,
\* nor with one that a refresh under way at that moment stored afterwards.
CutIsFinal ==
    [][\A j \in Jobs : \A i \in DOMAIN job'[j].hits :
         i \notin DOMAIN job[j].hits => <<job'[j].user, job'[j].hits[i].email>> \notin cut]_vars

\* When a request told the user to link an account again, the link it found refused
\* shows it, unless it was linked again or removed since.
RefusalIsShown ==
    \A j \in Jobs : At(j, "ended") /\ job[j].why = "reconnect" /\ ~job[j].failing =>
        \A i \in DOMAIN rows[job[j].user] :
            rows[job[j].user][i].grant = job[j].row.grant => rows[job[j].user][i].flagged

\* A process holds the token of a link that is gone or was replaced only when another
\* process changed the link, a refresh was under way, or it did not hear the answer; and a
\* link that was found refused shows it.
StaleTokensAreExcused ==
    /\ RefusalIsShown
    /\ \A w \in Workers, k \in CacheKeys :
        LET g == cache[w][k] IN
        g # None => \/ g \in GrantsIn(rows)
                    \/ <<w, g>> \in excused
                    \/ \E j \in Jobs : At(j, "forget") /\ job[j].worker = w /\ job[j].user = k[1]

\* A request that ends well made every one of its calls, in order, and Google took each.
OkIsWhole ==
    \A j \in Jobs : At(j, "ended") /\ job[j].why = "ok" /\ job[j].kind \in {"app", "work"} =>
        [i \in DOMAIN job[j].hits |-> job[j].hits[i].what] = job[j].calls

\* The temporary document of a conversion outlives its request only when the call that
\* made it or the one that deletes it went wrong, or the process died: reading it may
\* fail in any way.
CopyIsRemoved ==
    /\ OkIsWhole
    /\ \A c \in copies : At(c.job, "ended") =>
        job[c.job].why # "ok" /\ (job[c.job].why = "died" \/ What(c.job) \in {"copy", "delete"})

\* The work thread sends nothing, whatever the action and its arguments, and looks before
\* it puts: what it puts into a file or a folder that is shared by then went to one it
\* had found private (_refuse_what_reaches_others, google_worker.py).  Nothing is said of
\* its "touch"es: a shared file it renames, bins or copies where it stands is not looked
\* at, and who shares it sees that.
WorkLooksFirst ==
    /\ \A p \in WorkPrograms : \A i \in DOMAIN p :
         p[i] \in {"send", "put"} =>
             \E k \in 1..(i - 1) : p[k] = "refuse" \/ (p[k] = "check" /\ p[i] = "put")
    /\ \A j \in Jobs : ~At(j, "absent") /\ job[j].kind = "work" =>
         \A i \in DOMAIN job[j].hits :
             /\ job[j].hits[i].what # "send"
             /\ job[j].hits[i].what = "put" /\ job[j].hits[i].shared => job[j].sawPrivate
=============================================================================

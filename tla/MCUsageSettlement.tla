------------------------- MODULE MCUsageSettlement -------------------------
(* TLC instance of UsageSettlement: the reports the agent sends.  Two scenes  *)
(* that share no row, of a user whose usage is metered and of one on keys of  *)
(* his own: at first it is chosen whose the behaviour is.                     *)
EXTENDS UsageSettlement, TLC

CONSTANTS r1, r2, r3, r4, u1, u2

VARIABLE scene   \* the user it is about

\* Two sessions of one user who can pay for one and a half of them, and two sessions on the
\* user's own key, longer together than the day includes.
TwoOfEach ==
    r1 :> [user |-> u1, minutes |-> 0,
           items |-> <<[cost |-> 2, own |-> FALSE], [cost |-> 0, own |-> FALSE],
                       [cost |-> 1, own |-> FALSE]>>]
 @@ r2 :> [user |-> u1, minutes |-> 0, items |-> <<[cost |-> 2, own |-> FALSE]>>]
 @@ [r \in {r3, r4} |-> [user |-> u2, minutes |-> 2, items |-> <<[cost |-> 1, own |-> TRUE]>>]]

\* What may happen in each scene, outside the handlers.
Amount(u) == IF u = u1 THEN 1 ELSE 6
Within ==
    /\ deliveries' <= IF scene = u1 THEN 3 ELSE 2
    /\ faults' <= IF scene = u1 THEN 1 ELSE 0
    /\ day' <= IF scene = u1 THEN 1 ELSE 2
Outside ==
    \/ \E w \in Workers : FinalizeUnrecorded(w) \/ Fail(w)
    \/ \E w \in Workers, r \in Reports : UserOf(r) = scene /\ Receive(w, r)
    \/ NewUser(scene) \/ ToggleKey(scene) \/ MoveBalance(scene, Amount(scene))
    \/ Midnight

SceneInit == Init /\ scene \in Users
SceneNext ==
    /\ UNCHANGED scene
    /\ \/ \E w \in Workers : Handle(w)
       \/ Outside /\ Within
SceneSpec ==
    SceneInit /\ [][SceneNext]_<<vars, scene>> /\ \A w \in Workers : WF_vars(Handle(w))
============================================================================

-------------------------- MODULE MCReconciliation --------------------------
(* A small set of invoices against two usage rows, for TLC.                 *)
EXTENDS Reconciliation

CONSTANTS e1, e2, i1, i2, i3, i4, s1, s2

ModeOf     == [i \in Imports |-> IF i \in {e1, e2, i1} THEN "manual" ELSE "api_pull"]
ProviderIs == [i \in Imports |-> IF i \in {e1, e2, i1} THEN "openai"
                                 ELSE IF i = i2 THEN "livekit" ELSE "zep"]

Item(raw, est, brief, session, ref, at) ==
    [counts |-> TRUE, raw |-> raw, est |-> est, brief |-> brief,
     session |-> session, ref |-> ref, at |-> at]

\* From LiveKit, a session we know with a room that is another one, and an older one
Reported == [i \in Imports |->
    IF i = e1 THEN <<Item(3, 9, 9, s1, Null, 1)>>
    ELSE IF i = e2 THEN <<Item(Null, Null, Null, Null, Null, Null)>>
    ELSE IF i = i1 THEN <<Item(2, Null, Null, Null, s2, Null)>>
    ELSE IF i = i2 THEN <<Item(Null, 150, 20, s1, s2, 2), Item(Null, 2, 1, Null, s2, 1)>>
    ELSE IF i = i3 THEN <<Item(Null, 1, Null, Null, Null, Null)>>
    ELSE << >>]

\* One line from each of two imports
Row(i, created) ==
    [import |-> i, n |-> 1, provider |-> ProviderIs[i], created |-> created,
     raw |-> Reported[i][1].raw, est |-> Reported[i][1].est, session |-> Reported[i][1].session,
     ref |-> Reported[i][1].ref, at |-> Reported[i][1].at]
Before == {Row(e1, 1), Row(e2, 2)}

\* The second session used a key of the user's own: it was billed nothing
Written ==
    <<[n |-> 1, created |-> 1, provider |-> "openai", cost |-> 2, billed |-> 3, session |-> s1,
       source |-> "table", at |-> 1],
      [n |-> 1, created |-> 2, provider |-> "livekit", cost |-> 1, billed |-> 0, session |-> s2,
       source |-> "fallback", at |-> 2]>>

Ask(providers, ids, from, to) == [providers |-> providers, imports |-> ids, from |-> from, to |-> to]

Asked == {Ask({}, {}, Null, Null), Ask({"livekit", "openai"}, {e1, i1}, 1, 1)}
============================================================================

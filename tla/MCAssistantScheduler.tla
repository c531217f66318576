------------------------ MODULE MCAssistantScheduler ------------------------
(* TLC instances of AssistantScheduler: what the user has asked for.        *)
EXTENDS AssistantScheduler, TLC

CONSTANTS remind, work, report

\* A one-off reminder, daily work, and a weekly report, some due together
KindOf    == remind :> "reminder" @@ work :> "work"  @@ report :> "report"
RepeatsOf == remind :> TRUE @@ work :> FALSE @@ report :> TRUE
TimesOf   == remind :> {2, 3, 5} @@ work :> {2} @@ report :> {2, 5}
=============================================================================

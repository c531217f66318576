---------------------------- MODULE MCCommunications ----------------------------
(* Phone lines, messages and calls, and mail share no row that any of them   *)
(* looks at in the others, so the instance is the three side by side: the    *)
(* service that runs is chosen at first, and the others stay as they were.   *)
EXTENDS PhoneLines, Messaging, Mailbox

VARIABLE service

\* Two kwamis and two numbers, one of them a line at the start.
Buys(k, n) == [kind |-> "purchase", kwami |-> k, number |-> n, provider |-> TRUE]
Releases(k, n, provider) == [kind |-> "release", kwami |-> k, number |-> n, provider |-> provider]
AnyLineRequest == {Buys(k, n) : k \in Kwamis, n \in Numbers}
                    \cup {Releases(k, n, p) : k \in Kwamis, n \in Numbers, p \in BOOLEAN}
OneLine == {[kwami |-> "k1", number |-> "n1"]}

\* Someone writes, once or twice, or calls; the user calls the same person, or writes to
\* another over the same line, but as another kwami.
TwoLines == [l \in {"sms", "voice"} |-> "k1"]
TextItem(way, kind, l, p, k) == [way |-> way, kind |-> kind, line |-> l, person |-> p, as |-> k]
SomeoneWrites == TextItem("in", "message", "sms", "p1", "")
AnyText == <<{SomeoneWrites, TextItem("in", "call", "voice", "p1", ""),
              TextItem("out", "call", "voice", "p1", "k1")},
             {SomeoneWrites, TextItem("out", "message", "sms", "p2", "k2")}>>

\* Two kwamis want one name; mail comes to it, with an id and without.
MailItem(op, k, n, to, id) == [op |-> op, kwami |-> k, name |-> n, to |-> to, id |-> id]
AnyPost == {MailItem("activate", "k1", "ann", <<>>, FALSE), MailItem("activate", "k2", "ann", <<>>, FALSE),
            MailItem("deactivate", "k1", "", <<>>, FALSE), MailItem("send", "k1", "", <<>>, FALSE),
            MailItem("mail", "", "", <<"bob", "ann">>, TRUE), MailItem("mail", "", "", <<"ann">>, FALSE)}

CommunicationsInit ==
    /\ service \in {"lines", "text", "mail"}
    /\ LineInit /\ TextInit /\ MailInit
CommunicationsNext ==
    \/ service = "lines" /\ LineNext /\ UNCHANGED <<textVars, mailVars, service>>
    \/ service = "text" /\ TextNext /\ textFaults' + removals' <= 1   \* a fault or a removal
       /\ UNCHANGED <<lineVars, mailVars, service>>
    \/ service = "mail" /\ MailNext /\ UNCHANGED <<lineVars, textVars, service>>
CommunicationsSpec ==
    CommunicationsInit /\ [][CommunicationsNext]_<<lineVars, textVars, mailVars, service>>
        /\ WF_<<textVars, mailVars>>(   (service = "text" /\ HandleNext /\ UNCHANGED mailVars)
                                     \/ (service = "mail" /\ ClerkNext /\ UNCHANGED textVars))
---------------------------------------------------------------------------
(* The properties of the services, each of which speaks of its own tables.   *)

\* The tables keep their types and their indexes, and an outbound message or call is
\* shown as it went.
TablesAreTrue == LinesTypeOK /\ TextTypeOK /\ MailTypeOK /\ ShownAsItWent

\* What Twilio or SendGrid was thanked for is stored, whatever fails or comes twice
\* (the webhooks and insert_or_existing).
ThankedIsKept == AnsweredIsStored /\ ThankedIsStored

\* Nothing gets into another person's conversation or another account's inbox.
NothingStrays == ThreadsDoNotMix /\ InboxIsOfAccount

\* A line's rows go only after its number, a request that ran alone leaves everything in
\* agreement, and who is told to have an address has one.
AnswersHold == RowsOutliveNumbers /\ AloneIsWhole /\ ToldIsHeld

\* Twilio and SendGrid get their answers.
EveryDeliveryEnds == EveryDeliveryIsAnswered /\ EveryMailIsAnswered
=============================================================================

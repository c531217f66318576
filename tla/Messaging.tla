------------------------------ MODULE Messaging ------------------------------
(* Calls and text messages (webhooks.py, routes/channels.py, channels.py,    *)
(* telephony.py, twilio_service.py, idempotency.py, migration 005): what     *)
(* Twilio delivers, until it is answered, and what the user sends is recorded*)
(* under a contact and a conversation.  Every call to the database or to a   *)
(* provider is a step of its own; requests interleave at each.               *)
(* External: Twilio, which redelivers what was not answered with 2xx, and    *)
(* LiveKit.  Ids are never used twice.                                       *)
EXTENDS Naturals, FiniteSets

CONSTANTS TextJobs,      \* messages and calls, 1..n
          TextMenu,      \* what each of them may be: [way, kind, line, person, as]
          KwamiOf,       \* the kwami of each line there is at the start
          Copies,        \* deliveries of one message that may run at once, 1..n
          MaxTextFaults, \* calls that fail, deliveries too many
          MaxRemovals    \* lines and contacts removed meanwhile
ASSUME TextAssumption ==
    /\ TextJobs \subseteq Nat \ {0} /\ IsFiniteSet(TextJobs) /\ 1 \in Copies /\ IsFiniteSet(Copies)
    /\ MaxTextFaults \in Nat /\ MaxRemovals \in Nat
    /\ \A j \in TextJobs : \A m \in TextMenu[j] : m.way \in {"in", "out"} /\ m.kind \in {"message", "call"}

VARIABLES
  lines,     \* kwami_channels that exist
  contacts,  \* kwami_contacts: [id, kwami, person]
  threads,   \* kwami_conversations: [id, line, contact, kind]
  newer,     \* of which two of them the first was written last (updated_at)
  events,    \* kwami_message_events, kwami_call_events: [job, sid, line, thread, contact, state]
  text,      \* the messages and calls, and how they stand with the providers
  handler,   \* the requests: <<job, copy>>
  textFaults, removals

textVars == <<lines, contacts, threads, newer, events, text, handler, textFaults, removals>>
textRows == <<lines, contacts, threads, newer, events>>

Handlers == TextJobs \X Copies
Idle == [at |-> "idle", seen |-> 0, contact |-> 0, thread |-> 0]     \* 0 is no row
NoText == [way |-> "", kind |-> "", line |-> "", person |-> "", as |-> "",
           sent |-> FALSE, agent |-> FALSE, answer |-> ""]

At(h, pc) == handler[h].at = pc
Resting(h) == At(h, "idle")
Item(h) == text[h[1]]
Goes(h, pc) == handler' = [handler EXCEPT ![h].at = pc]
TextFault == textFaults < MaxTextFaults /\ textFaults' = textFaults + 1

\* A refused row or a failed call ends a delivery with 5xx: Twilio will come again.
\* What the user asked for is told to have failed.
Breaks(h) ==
    /\ handler' = [handler EXCEPT ![h] = Idle]
    /\ text' = [text EXCEPT ![h[1]].answer = IF Item(h).way = "in" THEN @ ELSE "error"]
Answers(h, why) ==
    /\ handler' = [handler EXCEPT ![h] = Idle]
    /\ text' = [text EXCEPT ![h[1]].answer = why]

InUse == {c.id : c \in contacts} \cup {t.id : t \in threads}
           \cup {e.thread : e \in events} \cup {e.contact : e \in events}
           \cup {handler[h].seen : h \in Handlers} \cup {handler[h].contact : h \in Handlers}
           \cup {handler[h].thread : h \in Handlers}
Fresh == CHOOSE i \in 1..(Cardinality(InUse) + 1) : i \notin InUse

TextInit ==
    /\ lines = DOMAIN KwamiOf /\ contacts = {} /\ threads = {} /\ newer = {} /\ events = {}
    /\ text = [j \in TextJobs |-> NoText]
    /\ handler = [h \in Handlers |-> Idle]
    /\ textFaults = 0 /\ removals = 0

\* Someone writes or calls; the user asks to.
Arrive(j) ==
    /\ text[j] = NoText /\ \A i \in TextJobs : i < j => text[i] # NoText
    /\ \E m \in TextMenu[j] :
         text' = [text EXCEPT ![j] = [NoText EXCEPT !.way = m.way, !.kind = m.kind,
                                                    !.line = m.line, !.person = m.person,
                                                    !.as = m.as]]
    /\ UNCHANGED <<textRows, handler, textFaults, removals>>

\* Twilio delivers until it is answered, the user asks once.
Deliver(h) ==
    /\ Item(h).way # "" /\ Item(h).answer = ""
    /\ h[2] = 1 /\ \A c \in Copies : Resting(<<h[1], c>>)
    /\ Goes(h, "line")
    /\ UNCHANGED <<textRows, text, textFaults, removals>>

\* It delivers once more while an answer is under way, or when the answer was lost.
DeliverAgain(h) ==
    /\ Item(h).way = "in" /\ Resting(h)
    /\ Item(h).answer # "" \/ \E c \in Copies : ~Resting(<<h[1], c>>)
    /\ TextFault /\ Goes(h, "line")
    /\ UNCHANGED <<textRows, text, removals>>

---------------------------------------------------------------------------
\* find_channel_by_address and its like: a message to a number that is nobody's is
\* answered so, and does not come again.
FindChannel(h) ==
    /\ At(h, "line")
    /\ IF Item(h).line \in lines THEN Goes(h, "contact") /\ UNCHANGED text
       ELSE Answers(h, "no line")
    /\ UNCHANGED <<textRows, textFaults, removals>>

\* What comes in is the line's kwami's; a user may send as one kwami over the line of
\* another, which the routes do not compare.
Asker(j) == IF text[j].way = "in" THEN KwamiOf[text[j].line] ELSE text[j].as

\* ensure_contact: the row is looked up ...
Known(c, h) == c.kwami = Asker(h[1]) /\ c.person = Item(h).person
FindContact(h) ==
    /\ At(h, "contact")
    /\ LET ids == {c.id : c \in {d \in contacts : Known(d, h)}} IN
       handler' = [handler EXCEPT ![h].at = "save contact",
                       ![h].seen = IF ids = {} THEN 0 ELSE CHOOSE i \in ids : TRUE]
    /\ UNCHANGED <<textRows, text, textFaults, removals>>

\* ... and updated, in vain if it is gone, or inserted: a kwami knows a number once.
SaveContact(h) ==
    /\ At(h, "save contact")
    /\ LET saved(id) == handler' = [handler EXCEPT ![h].at = "thread", ![h].contact = id,
                                                    ![h].seen = 0]
       IN \/ /\ handler[h].seen # 0 /\ saved(handler[h].seen)
             /\ UNCHANGED <<contacts, text, textFaults>>
          \/ /\ handler[h].seen = 0 /\ ~\E c \in contacts : Known(c, h)
             /\ contacts' = contacts \cup {[id |-> Fresh, kwami |-> Asker(h[1]),
                                            person |-> Item(h).person]}
             /\ saved(Fresh) /\ UNCHANGED <<text, textFaults>>
          \/ /\ handler[h].seen = 0 /\ \E c \in contacts : Known(c, h)
             /\ Breaks(h) /\ UNCHANGED <<contacts, textFaults>>
          \/ TextFault /\ Breaks(h) /\ UNCHANGED contacts
    /\ UNCHANGED <<lines, threads, newer, events, removals>>

ThreadKind(h) == IF Item(h).kind = "message" THEN "whatsapp" ELSE "call"

SameThread(t, h) == t.line = Item(h).line /\ t.kind = ThreadKind(h) /\ t.contact = handler[h].contact

\* ensure_conversation: the newest with this contact, on this line, of this kind ...
FindThread(h) ==
    /\ At(h, "thread")
    /\ LET mine == {t \in threads : SameThread(t, h)}
           found(id) == handler' = [handler EXCEPT ![h].at = "save thread", ![h].seen = id]
       IN \/ mine = {} /\ found(0)
          \/ \E t \in mine : (~\E u \in mine : <<u.id, t.id>> \in newer) /\ found(t.id)
    /\ UNCHANGED <<textRows, text, textFaults, removals>>

\* A row that is written becomes the newest (the trigger of migration 005).
Others(id) == {t.id : t \in threads} \ {id}
Touched(id) ==
    newer' = IF \E t \in threads : t.id = id
             THEN {p \in newer : p[2] # id} \cup ({id} \X Others(id)) ELSE newer

\* ... is updated, or one is inserted, whose line and contact must be there.  Nothing
\* keeps two requests from inserting one each.
SaveThread(h) ==
    /\ At(h, "save thread")
    /\ LET saved(id) == handler' = [handler EXCEPT ![h].thread = id, ![h].seen = 0,
                            ![h].at = IF Item(h).way = "in" THEN "event" ELSE "send"]
           held == Item(h).line \in lines /\ \E c \in contacts : c.id = handler[h].contact
       IN \/ /\ handler[h].seen # 0 /\ Touched(handler[h].seen) /\ UNCHANGED <<threads, text, textFaults>>
             /\ saved(handler[h].seen)
          \/ /\ handler[h].seen = 0 /\ held
             /\ threads' = threads \cup {[id |-> Fresh, line |-> Item(h).line,
                                contact |-> handler[h].contact, kind |-> ThreadKind(h)]}
             /\ newer' = newer \cup ({Fresh} \X Others(Fresh))
             /\ saved(Fresh) /\ UNCHANGED <<text, textFaults>>
          \/ handler[h].seen = 0 /\ ~held /\ Breaks(h) /\ UNCHANGED <<threads, newer, textFaults>>
          \/ TextFault /\ Breaks(h) /\ UNCHANGED <<threads, newer>>
    /\ UNCHANGED <<lines, contacts, events, removals>>

---------------------------------------------------------------------------
\* send_sms_message, send_whatsapp_message, place_direct_pstn_test_call, and the SIP leg
\* of create_outbound_call.  A call that fails may have done its work.
Send(h) ==
    /\ At(h, "send")
    /\ \/ /\ text' = [text EXCEPT ![h[1]].sent = TRUE]
          /\ Goes(h, IF Item(h).kind = "call" THEN "dispatch" ELSE "event")
          /\ UNCHANGED textFaults
       \/ /\ TextFault /\ Goes(h, "failed")
          /\ \E s \in BOOLEAN : text' = [text EXCEPT ![h[1]].sent = s]
       \/ TextFault /\ Item(h).kind = "call" /\ Answers(h, "refused")     \* LiveKit says no
    /\ UNCHANGED <<textRows, removals>>

\* The agent is sent to the room of the call.
DispatchAgent(h) ==
    /\ At(h, "dispatch")
    /\ \/ text' = [text EXCEPT ![h[1]].agent = TRUE] /\ Goes(h, "event") /\ UNCHANGED textFaults
       \/ TextFault /\ Answers(h, "refused")
       \/ TextFault /\ Goes(h, "failed") /\ UNCHANGED text
    /\ UNCHANGED <<textRows, removals>>

Event(h, sid, state) ==
    [job |-> h[1], sid |-> sid, line |-> Item(h).line, thread |-> handler[h].thread,
     contact |-> IF Item(h).kind = "message" THEN handler[h].contact ELSE 0, state |-> state]
Stored(h) == \E e \in events : e.job = h[1] /\ e.sid

\* The rows an event points to, as the foreign keys demand.
Placed(h) ==
    /\ Item(h).line \in lines
    /\ \E t \in threads : t.id = handler[h].thread
    /\ Item(h).kind = "message" => \E c \in contacts : c.id = handler[h].contact

\* An exception of a request: 5xx for Twilio, a row that says so for the user.
Raises(h) == IF Item(h).way = "in" THEN Breaks(h) ELSE Goes(h, "failed") /\ UNCHANGED text

\* mutant: the row a previous delivery left is an error, as it was before.
InsertOrRaise(h) ==
    IF Stored(h) THEN Raises(h) /\ UNCHANGED events
    ELSE IF Placed(h) THEN events' = events \cup {Event(h, TRUE, "stored")} /\ Goes(h, "touch") /\ UNCHANGED text
    ELSE Raises(h) /\ UNCHANGED events
\* mutant: any refusal counts as a redelivery.
InsertOrIgnore(h) ==
    /\ events' = IF ~Stored(h) /\ Placed(h) THEN events \cup {Event(h, TRUE, "stored")} ELSE events
    /\ Goes(h, "touch") /\ UNCHANGED text

\* insert_or_existing: a second row of one id is refused, and the first one is fetched.
InsertOrExisting(h) ==
    IF Stored(h) THEN Goes(h, "existing") /\ UNCHANGED <<events, text>>
    ELSE IF Placed(h) THEN events' = events \cup {Event(h, TRUE, "stored")} /\ Goes(h, "touch") /\ UNCHANGED text
    ELSE Raises(h) /\ UNCHANGED events

\* create_message_event, create_call_event
StoreEvent(h) ==
    /\ At(h, "event")
    /\ \/ InsertOrExisting(h) /\ UNCHANGED textFaults
       \/ TextFault /\ Raises(h) /\ UNCHANGED events
    /\ UNCHANGED <<lines, contacts, threads, newer, removals>>

\* The row may be gone with its line by now.
FindExisting(h) ==
    /\ At(h, "existing")
    /\ \/ Stored(h) /\ Goes(h, "touch") /\ UNCHANGED <<text, textFaults>>
       \/ ~Stored(h) /\ Raises(h) /\ UNCHANGED textFaults
       \/ TextFault /\ Raises(h)
    /\ UNCHANGED <<textRows, removals>>

\* touch_conversation, then the answer.  A request that fails here has stored its event.
Touch(h) ==
    /\ At(h, "touch")
    /\ \/ Touched(handler[h].thread) /\ Answers(h, "ok") /\ UNCHANGED textFaults
       \/ TextFault /\ Raises(h) /\ UNCHANGED newer
    /\ UNCHANGED <<lines, contacts, threads, events, removals>>

\* mutant: the row says the message is on its way.
FailureOf(h) == Event(h, FALSE, "stored")
FailureRow(h) == Event(h, FALSE, "failed")

\* What the user sent did not go, or was not recorded: a row without an id says so.
StoreFailure(h) ==
    /\ At(h, "failed")
    /\ \/ Placed(h) /\ events' = events \cup {FailureRow(h)} /\ Answers(h, "failed") /\ UNCHANGED textFaults
       \/ ~Placed(h) /\ Answers(h, "error") /\ UNCHANGED <<events, textFaults>>
       \/ TextFault /\ Answers(h, "error") /\ UNCHANGED events
    /\ UNCHANGED <<lines, contacts, threads, newer, removals>>

---------------------------------------------------------------------------
\* update_message_event_status, update_call_event_status: a callback finds its row by
\* the id, or finds none and is answered all the same.
Carries(e, j) == e.job = j /\ e.sid
Reported(e) == [e EXCEPT !.state = "reported"]

StatusArrives(j) ==
    /\ text[j].way = "out" /\ text[j].sent
    /\ events' = {IF Carries(e, j) THEN Reported(e) ELSE e : e \in events}
    /\ UNCHANGED <<lines, contacts, threads, newer, text, handler, textFaults, removals>>

\* delete_kwami_channels: conversations and events of the line go with it.
RemoveLine(l) ==
    /\ l \in lines /\ removals < MaxRemovals /\ removals' = removals + 1
    /\ lines' = lines \ {l}
    /\ threads' = {t \in threads : t.line # l}
    /\ newer' = newer \cap ({t.id : t \in threads'} \X {t.id : t \in threads'})
    /\ events' = {e \in events : e.line # l}
    /\ UNCHANGED <<contacts, text, handler, textFaults>>

\* delete_contact: what pointed to it stays, and points to nobody.
RemoveContact(c) ==
    /\ removals < MaxRemovals /\ removals' = removals + 1
    /\ contacts' = contacts \ {c}
    /\ threads' = {IF t.contact = c.id THEN [t EXCEPT !.contact = 0] ELSE t : t \in threads}
    /\ events' = {IF e.contact = c.id THEN [e EXCEPT !.contact = 0] ELSE e : e \in events}
    /\ UNCHANGED <<lines, newer, text, handler, textFaults>>

\* create_contact, by the user.
AddContact(k, p) ==
    /\ removals < MaxRemovals /\ removals' = removals + 1
    /\ ~\E c \in contacts : c.kwami = k /\ c.person = p
    /\ contacts' = contacts \cup {[id |-> Fresh, kwami |-> k, person |-> p]}
    /\ UNCHANGED <<lines, threads, newer, events, text, handler, textFaults>>

\* The steps every route takes, and each route by them: an exception of its own ends it.
Recording(h) ==
    \/ FindChannel(h) \/ FindContact(h) \/ SaveContact(h) \/ FindThread(h) \/ SaveThread(h)
    \/ StoreEvent(h) \/ FindExisting(h) \/ Touch(h)
Handles(h, way, kind) == Item(h).way = way /\ Item(h).kind = kind

VoiceWebhook(h) == Handles(h, "in", "call") /\ Recording(h)
WhatsappWebhook(h) == Handles(h, "in", "message") /\ Recording(h)
StartOutboundCall(h) ==
    Handles(h, "out", "call") /\ (Recording(h) \/ Send(h) \/ DispatchAgent(h) \/ StoreFailure(h))
SendOutboundMessage(h) == Handles(h, "out", "message") /\ (Recording(h) \/ Send(h) \/ StoreFailure(h))

HandleNext ==
    \E h \in Handlers : \/ Deliver(h) \/ VoiceWebhook(h) \/ WhatsappWebhook(h)
                        \/ StartOutboundCall(h) \/ SendOutboundMessage(h)
TextNext ==
    \/ HandleNext \/ \E h \in Handlers : DeliverAgain(h)
    \/ \E j \in TextJobs : Arrive(j) \/ StatusArrives(j)
    \/ \E l \in lines : RemoveLine(l)
    \/ \E c \in contacts : RemoveContact(c)
    \/ \E m \in UNION {TextMenu[j] : j \in TextJobs} : AddContact(KwamiOf[m.line], m.person)
\* The server runs, and Twilio delivers what is not answered.
TextFair == WF_textVars(HandleNext)
TextSpec == TextInit /\ [][TextNext]_textVars /\ TextFair

---------------------------------------------------------------------------
(* Properties *)

\* The unique indexes of migration 005 and its foreign keys hold of the tables.
TextTypeOK ==
    /\ \A c, d \in contacts : (c.kwami = d.kwami /\ c.person = d.person) \/ c.id = d.id => c = d
    /\ \A t \in threads : t.line \in lines /\ t.contact \in {c.id : c \in contacts} \cup {0}
    /\ \A e, f \in events : e.job = f.job /\ e.sid /\ f.sid => e = f
    /\ \A e \in events : e.line \in lines /\ e.state \in {"stored", "failed", "reported"}

\* A message or call that was taken from Twilio is in the tables, once, on the line it
\* came to, unless the line was removed: no failure, redelivery or race loses one.
AnsweredIsStored ==
    \A j \in TextJobs : text[j].way = "in" /\ text[j].answer = "ok" /\ text[j].line \in lines
        => \E e \in events : e.job = j /\ e.sid /\ e.line = text[j].line

\* What one person wrote is never in a conversation with another, nor is it kept under
\* another kwami's contact of that name.
ThreadsDoNotMix ==
    \A e \in events : \A t \in threads : t.id = e.thread =>
        /\ t.line = e.line
        /\ \A c \in contacts : c.id = t.contact =>
             c.person = text[e.job].person /\ c.kwami = Asker(e.job)

\* The user is never shown as sent what no provider took, and what one took is shown,
\* when the request is answered by the route itself.
ShownAsItWent ==
    \A j \in TextJobs : text[j].way = "out" =>
        /\ (\E e \in events : e.job = j /\ e.state # "failed") => text[j].sent
        /\ text[j].answer \in {"ok", "failed"} /\ text[j].line \in lines
             => \E e \in events : e.job = j
        /\ text[j].answer = "ok" => \A e \in events : e.job = j => e.sid
        /\ text[j].answer = "ok" /\ text[j].kind = "call" => text[j].agent

\* Whatever fails or comes twice, Twilio gets its answer: time and again nothing waits
\* for one, so no message is redelivered for ever (idempotency.py insert_or_existing).
EveryDeliveryIsAnswered ==
    []<>(\A j \in TextJobs : text[j].way = "in" => text[j].answer # "")
=============================================================================

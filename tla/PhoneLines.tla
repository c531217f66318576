----------------------------- MODULE PhoneLines -----------------------------
(* Phone lines (channels.py, telephony.py, twilio_service.py, migration 005):*)
(* buying a number for a kwami and releasing it.  Both touch Twilio (the     *)
(* number and its place on the SIP trunk), the two LiveKit trunks all kwamis *)
(* share, whose list of numbers is read and written back whole, and up to    *)
(* three rows of kwami_channels.                                             *)
(* External: Twilio, which sells a number once and gives each sale its own   *)
(* id, LiveKit, which keeps the list last written, and the database.         *)
EXTENDS Naturals, FiniteSets, Sequences

CONSTANTS Kwamis, Numbers,
          LineJobs,       \* requests, 1..n, in the order they arrive
          LineMenu,       \* the requests considered: [kind, kwami, number, provider]
          Trunks,         \* the LiveKit trunks configured, of {"outbound", "inbound"}
          LinesAtStart,   \* numbers that have their line: [kwami, number]
          MaxLineFaults   \* calls that fail
ASSUME LineAssumption ==
    /\ LineJobs \subseteq Nat \ {0} /\ MaxLineFaults \in Nat
    /\ Trunks \subseteq {"outbound", "inbound"} /\ "none" \notin Numbers
    /\ \A m \in LineMenu : /\ m.kind \in {"purchase", "release"} /\ m.provider \in BOOLEAN
                           /\ m.kwami \in Kwamis /\ m.number \in Numbers
    /\ \A l \in LinesAtStart : l.kwami \in Kwamis /\ l.number \in Numbers
    /\ \A l, m \in LinesAtStart : l.number = m.number => l = m

VARIABLES
  owned,      \* the sale under which Twilio holds each number for us; NoSale
  attached,   \* sales on Twilio's SIP trunk
  trunk,      \* the numbers of each LiveKit trunk
  channels,   \* kwami_channels
  line,       \* the requests
  lineFaults  \* faults so far

lineVars == <<owned, attached, trunk, channels, line, lineFaults>>

NoSale == <<0, "none">>
ChannelKinds == <<"voice_phone", "whatsapp", "sms">>

Absent == [kind |-> "none", at |-> "absent"]
LineAt(j, pc) == line[j].at = pc
LineGo(j, pc) == line' = [line EXCEPT ![j].at = pc]
LineEnd(j, why) == line' = [line EXCEPT ![j].at = "ended", ![j].why = why]
LineFault == lineFaults < MaxLineFaults /\ lineFaults' = lineFaults + 1
Running(j) == ~LineAt(j, "absent") /\ ~LineAt(j, "ended")

Row(id, k, kind, n, sale, trunkSale, outbound) ==
    [id |-> id, kwami |-> k, kind |-> kind, number |-> n, sale |-> sale, trunkSale |-> trunkSale,
     outbound |-> outbound]

LineInit ==
    /\ owned = [n \in Numbers |-> IF \E l \in LinesAtStart : l.number = n THEN <<0, n>> ELSE NoSale]
    /\ attached = {<<0, l.number>> : l \in LinesAtStart}
    /\ trunk = [t \in Trunks |-> {l.number : l \in LinesAtStart}]
    /\ channels = {Row(<<0, l.number, i>>, l.kwami, ChannelKinds[i], l.number, <<0, l.number>>,
                       IF i = 1 THEN <<0, l.number>> ELSE NoSale, i = 1 /\ "outbound" \in Trunks)
                     : l \in LinesAtStart, i \in 1..3}
    /\ line = [j \in LineJobs |-> Absent]
    /\ lineFaults = 0

\* A request: `clean` while none of its calls failed, `alone` while no other runs.
LineArrived(m) ==
    [kind |-> m.kind, kwami |-> m.kwami, number |-> m.number, provider |-> m.provider,
     at |-> IF m.kind = "purchase" THEN "buy" ELSE "anchor", why |-> "", sale |-> NoSale,
     trunkSale |-> NoSale, rows |-> {}, left |-> <<"outbound", "inbound">>, list |-> {},
     outbound |-> FALSE, saving |-> 1, old |-> {}, clean |-> TRUE, alone |-> TRUE]

LineStart(j) ==
    /\ LineAt(j, "absent")
    /\ \A i \in LineJobs : i < j => ~LineAt(i, "absent")
    /\ \E m \in LineMenu :
         line' = [i \in LineJobs |->
             IF i = j THEN [LineArrived(m) EXCEPT !.alone = \A o \in LineJobs : ~Running(o)]
             ELSE IF Running(i) THEN [line[i] EXCEPT !.alone = FALSE] ELSE line[i]]
    /\ UNCHANGED <<owned, attached, trunk, channels, lineFaults>>

---------------------------------------------------------------------------
(* The shared LiveKit trunks: sync_shared_livekit_trunks for a purchase,     *)
(* remove_phone_from_shared_livekit_trunks for a release.                    *)

AfterTrunks(j) == IF line[j].kind = "purchase" THEN "find" ELSE "detach"

\* A purchase whose sync fails is saved as routing_pending, a release goes on.
TrunkFails(j) ==
    line' = [line EXCEPT ![j].at = AfterTrunks(j), ![j].outbound = FALSE, ![j].clean = FALSE]

ReadTrunk(j) ==
    /\ LineAt(j, "trunks")
    /\ \/ line[j].left = <<>> /\ LineGo(j, AfterTrunks(j)) /\ UNCHANGED lineFaults
       \/ /\ line[j].left # <<>> /\ Head(line[j].left) \notin Trunks
          /\ line' = [line EXCEPT ![j].left = Tail(@)] /\ UNCHANGED lineFaults
       \/ /\ line[j].left # <<>> /\ Head(line[j].left) \in Trunks
          /\ \/ /\ line' = [line EXCEPT ![j].list = trunk[Head(line[j].left)], ![j].at = "trunk"]
                /\ UNCHANGED lineFaults
             \/ LineFault /\ TrunkFails(j)
    /\ UNCHANGED <<owned, attached, trunk, channels>>

\* _merged_numbers, _numbers_without
Merged(list, n) == list \cup {n}
Without(list, n) == list \ {n}

NewList(j) == IF line[j].kind = "purchase" THEN Merged(line[j].list, line[j].number)
              ELSE Without(line[j].list, line[j].number)

\* What is written is made from what was read, whatever was written meanwhile.
WriteTrunk(j) ==
    /\ LineAt(j, "trunk")
    /\ LET t == Head(line[j].left) IN
       \/ /\ trunk' = [trunk EXCEPT ![t] = NewList(j)]
          /\ line' = [line EXCEPT ![j].at = "trunks", ![j].left = Tail(@),
                                  ![j].outbound = @ \/ (t = "outbound" /\ line[j].kind = "purchase")]
          /\ UNCHANGED lineFaults
       \/ LineFault /\ TrunkFails(j) /\ UNCHANGED trunk
    /\ UNCHANGED <<owned, attached, channels>>

---------------------------------------------------------------------------
(* purchase_kwami_phone_number *)

Buy(j) ==
    /\ LineAt(j, "buy")
    /\ LET n == line[j].number IN
       \/ /\ owned[n] = NoSale
          /\ owned' = [owned EXCEPT ![n] = <<j, n>>]
          /\ line' = [line EXCEPT ![j].at = "attach", ![j].sale = <<j, n>>]
          /\ UNCHANGED lineFaults
       \/ owned[n] # NoSale /\ LineEnd(j, "not for sale") /\ UNCHANGED <<owned, lineFaults>>
       \/ LineFault /\ LineEnd(j, "failed") /\ UNCHANGED owned
    /\ UNCHANGED <<attached, trunk, channels>>

\* A failure here is logged, and the line goes without.
Attach(j) ==
    /\ LineAt(j, "attach")
    /\ \/ /\ attached' = attached \cup {line[j].sale}
          /\ line' = [line EXCEPT ![j].at = "trunks", ![j].trunkSale = line[j].sale]
          /\ UNCHANGED lineFaults
       \/ /\ LineFault /\ UNCHANGED attached
          /\ line' = [line EXCEPT ![j].at = "trunks", ![j].clean = FALSE]
    /\ UNCHANGED <<owned, trunk, channels>>

\* upsert_channel, for each kind: the kwami's row of the kind is looked up ...
LookUpChannel(j) ==
    /\ LineAt(j, "find")
    /\ LET mine == {c \in channels : c.kwami = line[j].kwami
                                       /\ c.kind = ChannelKinds[line[j].saving]} IN
       \/ mine = {} /\ line' = [line EXCEPT ![j].at = "save", ![j].old = {}]
       \/ \E c \in mine : line' = [line EXCEPT ![j].at = "save", ![j].old = {c}]
    /\ UNCHANGED <<owned, attached, trunk, channels, lineFaults>>

\* The unique index on kind and number of migration 005.
Clashes(c, k, kind, n) == c.kind = kind /\ c.number = n

\* ... and updated, or inserted; one row for each kind and number.
SaveChannel(j) ==
    /\ LineAt(j, "save")
    /\ LET kind == ChannelKinds[line[j].saving]
           ids == {c.id : c \in line[j].old}
           id == IF ids = {} THEN <<j, line[j].number, line[j].saving>> ELSE CHOOSE i \in ids : TRUE
           new == Row(id, line[j].kwami, kind, line[j].number, line[j].sale,
                      IF kind = "voice_phone" THEN line[j].trunkSale ELSE NoSale,
                      kind = "voice_phone" /\ line[j].outbound)
           others == {c \in channels : c.id # id}
           gone == ids # {} /\ others = channels       \* the update meets no row
           clash == ~gone /\ \E c \in others : Clashes(c, line[j].kwami, kind, line[j].number)
       IN \/ /\ ~clash /\ UNCHANGED lineFaults
             /\ channels' = IF gone THEN channels ELSE others \cup {new}
             /\ IF line[j].saving = 3 THEN LineEnd(j, "ok")
                ELSE line' = [line EXCEPT ![j].at = "find", ![j].saving = @ + 1]
          \/ clash /\ LineEnd(j, "clash") /\ UNCHANGED <<channels, lineFaults>>
          \/ LineFault /\ LineEnd(j, "failed") /\ UNCHANGED channels
    /\ UNCHANGED <<owned, attached, trunk>>

---------------------------------------------------------------------------
(* release_kwami_phone_number *)

\* The row the user chose, and the rows of the kwami with the same sale.
FindLine(j) ==
    /\ LineAt(j, "anchor")
    /\ LET mine == {c \in channels : c.kwami = line[j].kwami /\ c.number = line[j].number} IN
       \/ mine = {} /\ LineEnd(j, "not found")
       \/ \E a \in mine :
            LET rows == {c \in mine : c.sale = a.sale}
                voice == {c \in rows : c.kind = "voice_phone"}
            IN line' = [line EXCEPT
                 ![j].at = IF line[j].provider THEN "trunks" ELSE "delete",
                 ![j].sale = a.sale, ![j].rows = rows,
                 ![j].trunkSale = IF voice = {} THEN NoSale
                                  ELSE (CHOOSE c \in voice : TRUE).trunkSale]
    /\ UNCHANGED <<owned, attached, trunk, channels, lineFaults>>

Detach(j) ==
    /\ LineAt(j, "detach")
    /\ \/ /\ attached' = attached \ {line[j].trunkSale}
          /\ LineGo(j, "release") /\ UNCHANGED lineFaults
       \/ /\ LineFault /\ UNCHANGED attached
          /\ line' = [line EXCEPT ![j].at = "release", ![j].clean = FALSE]
    /\ UNCHANGED <<owned, trunk, channels>>

\* mutant: a failure is logged and the rows go.
ReleaseAnyway(j) ==
    /\ LineAt(j, "release")
    /\ \/ /\ owned' = [n \in Numbers |-> IF owned[n] = line[j].sale THEN NoSale ELSE owned[n]]
          /\ UNCHANGED lineFaults
       \/ LineFault /\ UNCHANGED owned
    /\ LineGo(j, "delete")
    /\ UNCHANGED <<attached, trunk, channels>>

\* A sale that is gone already counts as released; a failure keeps the rows.
Release(j) ==
    /\ LineAt(j, "release")
    /\ \/ /\ owned' = [n \in Numbers |-> IF owned[n] = line[j].sale THEN NoSale ELSE owned[n]]
          /\ LineGo(j, "delete") /\ UNCHANGED lineFaults
       \/ LineFault /\ LineEnd(j, "not released") /\ UNCHANGED owned
    /\ UNCHANGED <<attached, trunk, channels>>

DeleteRows(j) ==
    /\ LineAt(j, "delete")
    /\ \/ channels' = {c \in channels : \A r \in line[j].rows : c.id # r.id} /\ LineEnd(j, "ok") /\ UNCHANGED lineFaults
       \/ LineFault /\ LineEnd(j, "failed") /\ UNCHANGED channels
    /\ UNCHANGED <<owned, attached, trunk>>

LineStep(j) ==
    \/ LineStart(j) \/ ReadTrunk(j) \/ WriteTrunk(j)
    \/ Buy(j) \/ Attach(j) \/ LookUpChannel(j) \/ SaveChannel(j)
    \/ FindLine(j) \/ Detach(j) \/ Release(j) \/ DeleteRows(j)

LineNext == \E j \in LineJobs : LineStep(j)
LineSpec == LineInit /\ [][LineNext]_lineVars

---------------------------------------------------------------------------
(* Properties *)

\* A number Twilio holds for us was sold to one purchase, and no two rows of a kind
\* carry one number (migration 005); a release knows the sale of the row it started from.
LinesTypeOK ==
    /\ \A n \in Numbers : owned[n] # NoSale => owned[n][2] = n
    /\ \A t \in Trunks : trunk[t] \subseteq Numbers
    /\ \A c, d \in channels : c.kind = d.kind /\ c.number = d.number => c = d
    /\ \A c \in channels : c.sale[2] = c.number
    /\ \A j \in LineJobs : Running(j) =>
         /\ line[j].sale # NoSale => line[j].sale[2] = line[j].number
         /\ line[j].saving \in 1..3 /\ line[j].left \in {<<>>, <<"inbound">>, <<"outbound", "inbound">>}

\* While no request runs beside it, a release that gives the number back takes the rows
\* away only once Twilio no longer holds it: what could not be released can still be
\* found, and released again.
RowsOutliveNumbers ==
    [][\A j \in LineJobs :
         LineAt(j, "delete") /\ channels' # channels /\ line'[j].at = "ended"
           /\ line[j].provider /\ line[j].alone
         => \A c \in channels \ channels' : owned[c.number] # c.sale]_lineVars

Whole(j) ==
    LET n == line[j].number
        rows == {c \in channels : c.number = n}
    IN IF line[j].kind = "purchase"
       THEN /\ owned[n] = line[j].sale /\ line[j].sale \in attached
            /\ \A t \in Trunks : n \in trunk[t]
            /\ {c.kind : c \in rows} = {ChannelKinds[i] : i \in 1..3}
            /\ \A c \in rows : c.kwami = line[j].kwami /\ c.sale = line[j].sale
       ELSE line[j].provider =>
            /\ owned[n] # line[j].sale /\ line[j].trunkSale \notin attached
            /\ \A t \in Trunks : n \notin trunk[t]
            /\ ~\E c \in rows : c.kwami = line[j].kwami /\ c.sale = line[j].sale

\* A request that ends well, none of whose calls failed and beside which none ran,
\* leaves the database, Twilio and the LiveKit trunks in agreement on its sale, whatever
\* earlier requests left behind: a number that was sold again meanwhile stays sold.
AloneIsWhole ==
    [][\A j \in LineJobs :
         Running(j) /\ line'[j].at = "ended" /\ line'[j].why = "ok"
           /\ line'[j].clean /\ line'[j].alone
         => Whole(j)']_lineVars
=============================================================================

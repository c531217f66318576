------------------------ MODULE CommunicationsProofs ------------------------
(***************************************************************************)
(* Proofs about PhoneLines, Messaging and Mailbox, for any requests,       *)
(* deliveries, kwamis, numbers and bounds, and about MCCommunications,     *)
(* which runs one of them beside the others: nothing thanked for is lost,  *)
(* nothing strays, and a line's rows, number and trunks go together.       *)
(***************************************************************************)
EXTENDS MCCommunications, TLAPS, FiniteSetTheorems

---------------------------------------------------------------------------
(* Phone lines: the invariant *)

LineSales == ((LineJobs \cup {0}) \X Numbers) \cup {NoSale}
LineKinds == {"voice_phone", "whatsapp", "sms"}
RowIds == (LineJobs \cup {0}) \X Numbers \X (1..3)
ChannelRow == [id : RowIds, kwami : Kwamis, kind : LineKinds, number : Numbers, sale : LineSales,
               trunkSale : LineSales, outbound : BOOLEAN]
LinePcs == {"buy", "attach", "trunks", "trunk", "find", "save", "anchor", "detach", "release",
            "delete", "ended"}
Lefts == {<<>>, <<"inbound">>, <<"outbound", "inbound">>}
LineRow == [kind : {"purchase", "release"}, kwami : Kwamis, number : Numbers, provider : BOOLEAN,
            at : LinePcs, why : {"", "ok", "not for sale", "failed", "clash", "not found", "not released"},
            sale : LineSales, trunkSale : LineSales, rows : SUBSET ChannelRow, left : Lefts,
            list : SUBSET Numbers, outbound : BOOLEAN, saving : 1..3, old : SUBSET ChannelRow,
            clean : BOOLEAN, alone : BOOLEAN]

LineTypes ==
    /\ owned \in [Numbers -> LineSales] /\ attached \in SUBSET LineSales
    /\ trunk \in [Trunks -> SUBSET Numbers] /\ channels \in SUBSET ChannelRow
    /\ line \in [LineJobs -> LineRow \cup {Absent}]

\* The number a sale is of.
SoldAs(sale, n) == sale \in (LineJobs \cup {0}) \X {n}

\* kwami_channels: a row is of a sale of its number, an id is one row's, and one number
\* and kind are.
RowsOK ==
    /\ \A n \in Numbers : owned[n] # NoSale => SoldAs(owned[n], n)
    /\ \A c \in channels : SoldAs(c.sale, c.number)
    /\ \A c, d \in channels : c.id = d.id \/ (c.kind = d.kind /\ c.number = d.number) => c = d

\* The rows of a sale that this request may have made have ids of the rounds before.
MadeBefore(j, r) ==
    \A c \in channels : c.id[1] = j =>
        r.at # "absent" /\ (r.at # "ended" => r.at \in {"find", "save"} /\ c.id[3] < r.saving)

Buying == {"buy", "attach", "trunks", "trunk", "find", "save"}
Releasing == {"anchor", "trunks", "trunk", "detach", "release", "delete"}

\* What a request knows, by how far it is.
LineOK(j, r) ==
    /\ r.kind = "purchase" =>
         /\ r.at \in Buying
         /\ r.at # "buy" => r.sale = <<j, r.number>>
         /\ r.at = "save" => \/ r.old = {}
                             \/ \E c \in r.old : r.old = {c} /\ c.kwami = r.kwami /\ c.kind = ChannelKinds[r.saving]
    /\ r.kind = "release" =>
         /\ r.at \in Releasing /\ (r.provider \/ r.at \in {"anchor", "delete"})
         /\ r.at # "anchor" =>
              /\ SoldAs(r.sale, r.number)
              /\ \A c \in r.rows : c.kwami = r.kwami /\ c.number = r.number /\ c.sale = r.sale
    /\ r.at = "trunk" => r.left # <<>> /\ Head(r.left) \in Trunks
    /\ r.at \in {"buy", "attach", "anchor"} => r.left = <<"outbound", "inbound">>
    /\ r.at \in {"buy", "anchor"} => r.sale = NoSale
    /\ r.at \notin {"find", "save"} => r.saving = 1

Pending(left) == IF left = <<>> THEN {} ELSE IF left = <<"inbound">> THEN {"inbound"} ELSE {"outbound", "inbound"}

\* What holds as well while no request runs beside it.
AlonePurchase(r) ==
    /\ r.at # "buy" => owned[r.number] = r.sale
    /\ r.at \notin {"buy", "attach"} /\ r.clean => r.sale \in attached
    /\ r.clean => \A t \in Trunks \ Pending(r.left) : r.number \in trunk[t]
    /\ r.at \in {"find", "save"} =>
         /\ r.clean => r.left = <<>>
         /\ \A i \in 1..(r.saving - 1) : \E c \in channels :
              /\ c.kind = ChannelKinds[i] /\ c.number = r.number
              /\ c.kwami = r.kwami /\ c.sale = r.sale
    /\ r.at = "save" => r.old \subseteq channels
AloneRelease(r) ==
    /\ r.at # "anchor" => r.rows = {c \in channels : c.kwami = r.kwami /\ c.number = r.number /\ c.sale = r.sale}
    /\ r.clean => \A t \in Trunks \ Pending(r.left) : r.number \notin trunk[t]
    /\ r.provider /\ r.clean /\ r.at \in {"detach", "release", "delete"} => r.left = <<>>
    /\ r.provider /\ r.clean /\ r.at \in {"release", "delete"} => r.trunkSale \notin attached
    /\ r.provider /\ r.at = "delete" => \A n \in Numbers : owned[n] # r.sale
AloneOK(j, r) ==
    /\ \A i \in LineJobs \ {j} : ~Running(i)
    /\ r.kind = "purchase" => AlonePurchase(r)
    /\ r.kind = "release" => AloneRelease(r)

LineInv ==
    /\ LineTypes /\ RowsOK
    /\ \A j \in LineJobs : /\ MadeBefore(j, line[j])
                           /\ Running(j) => LineOK(j, line[j])
                           /\ Running(j) /\ line[j].alone => AloneOK(j, line[j])

LEMMA LineInitInv == LineInit => LineInv
<1> SUFFICES ASSUME LineInit PROVE LineInv
  OBVIOUS
<1>1. \A l \in LinesAtStart : l.number \in Numbers /\ l.kwami \in Kwamis
  BY LineAssumption
<1>3. \A c \in channels : \E l \in LinesAtStart, i \in 1..3 :
         /\ c.id = <<0, l.number, i>> /\ c.kind = ChannelKinds[i] /\ c.number = l.number
         /\ c.sale = <<0, l.number>>
         /\ c = Row(<<0, l.number, i>>, l.kwami, ChannelKinds[i], l.number, <<0, l.number>>,
                    IF i = 1 THEN <<0, l.number>> ELSE NoSale, i = 1 /\ "outbound" \in Trunks)
  BY DEF LineInit, Row
<1>2. LineTypes
  <2>1. owned \in [Numbers -> LineSales]
    BY DEF LineInit, LineSales
  <2>2. attached \in SUBSET LineSales
    BY <1>1 DEF LineInit, LineSales
  <2>3. trunk \in [Trunks -> SUBSET Numbers]
    BY <1>1 DEF LineInit
  <2>4. \A i \in 1..3 : ChannelKinds[i] \in LineKinds
    BY DEF ChannelKinds, LineKinds
  <2>5. channels \in SUBSET ChannelRow
    <3> SUFFICES ASSUME NEW c \in channels PROVE c \in ChannelRow
      OBVIOUS
    <3>1. PICK l \in LinesAtStart, i \in 1..3 :
             c = Row(<<0, l.number, i>>, l.kwami, ChannelKinds[i], l.number, <<0, l.number>>,
                     IF i = 1 THEN <<0, l.number>> ELSE NoSale, i = 1 /\ "outbound" \in Trunks)
      BY <1>3
    <3>2. /\ <<0, l.number, i>> \in RowIds /\ ChannelKinds[i] \in LineKinds
          /\ <<0, l.number>> \in LineSales /\ NoSale \in LineSales
      BY <1>1, <2>4 DEF RowIds, LineSales
    <3> QED BY <1>1, <3>1, <3>2 DEF Row, ChannelRow
  <2>6. line \in [LineJobs -> LineRow \cup {Absent}]
    BY DEF LineInit
  <2> QED BY <2>1, <2>2, <2>3, <2>5, <2>6 DEF LineTypes
<1>4. RowsOK
  <2>1. \A n \in Numbers : owned[n] # NoSale => SoldAs(owned[n], n)
    BY DEF LineInit, SoldAs
  <2>2. \A c \in channels : SoldAs(c.sale, c.number)
    <3> SUFFICES ASSUME NEW c \in channels PROVE SoldAs(c.sale, c.number)
      OBVIOUS
    <3>1. PICK l \in LinesAtStart : c.sale = <<0, l.number>> /\ c.number = l.number
      BY <1>3
    <3> QED BY <3>1 DEF SoldAs
  <2>3. ASSUME NEW c \in channels, NEW d \in channels,
               c.id = d.id \/ (c.kind = d.kind /\ c.number = d.number)
        PROVE  c = d
    <3>1. PICK l \in LinesAtStart, i \in 1..3 :
             /\ c.id = <<0, l.number, i>> /\ c.kind = ChannelKinds[i] /\ c.number = l.number
             /\ c.sale = <<0, l.number>>
             /\ c = Row(<<0, l.number, i>>, l.kwami, ChannelKinds[i], l.number, <<0, l.number>>,
                        IF i = 1 THEN <<0, l.number>> ELSE NoSale, i = 1 /\ "outbound" \in Trunks)
      BY <1>3, Zenon
    <3>2. PICK m \in LinesAtStart, k \in 1..3 :
             /\ d.id = <<0, m.number, k>> /\ d.kind = ChannelKinds[k] /\ d.number = m.number
             /\ d.sale = <<0, m.number>>
             /\ d = Row(<<0, m.number, k>>, m.kwami, ChannelKinds[k], m.number, <<0, m.number>>,
                        IF k = 1 THEN <<0, m.number>> ELSE NoSale, k = 1 /\ "outbound" \in Trunks)
      BY <1>3, Zenon
    <3>3. ChannelKinds[1] = "voice_phone" /\ ChannelKinds[2] = "whatsapp" /\ ChannelKinds[3] = "sms"
      BY DEF ChannelKinds
    <3>4. l.number = m.number
      BY <2>3, <3>1, <3>2
    <3>5. l = m
      BY <3>4, LineAssumption
    <3>6. CASE c.id = d.id
      BY <3>1, <3>2, <3>5, <3>6
    <3>7. CASE c.kind = d.kind
      <4>1. i = k
        BY <3>1, <3>2, <3>3, <3>7
      <4> QED BY <3>1, <3>2, <3>5, <4>1
    <3> QED BY <2>3, <3>6, <3>7
  <2> QED BY <2>1, <2>2, <2>3 DEF RowsOK
<1>5. ASSUME NEW j \in LineJobs PROVE MadeBefore(j, line[j]) /\ ~Running(j)
  <2>0. j # 0
    BY LineAssumption
  <2>1. \A c \in channels : c.id[1] = 0
    <3> SUFFICES ASSUME NEW c \in channels PROVE c.id[1] = 0
      OBVIOUS
    <3>1. PICK l \in LinesAtStart, i \in 1..3 : c.id = <<0, l.number, i>>
      BY <1>3
    <3> QED BY <3>1
  <2>2. line[j].at = "absent"
    BY DEF LineInit, Absent
  <2> QED BY <2>0, <2>1, <2>2 DEF MadeBefore, Running, LineAt
<1> QED BY <1>2, <1>4, <1>5 DEF LineInv
---------------------------------------------------------------------------
(* Phone lines: a step of a request *)

\* A request that runs has a request's row.
LEMMA RunningFacts ==
    ASSUME LineInv, NEW j \in LineJobs, NEW pc, LineAt(j, pc), pc \notin {"absent", "ended"}
    PROVE  /\ Running(j) /\ line[j] \in LineRow /\ line[j].at = pc /\ LineOK(j, line[j])
           /\ line[j].alone => AloneOK(j, line[j])
<1>1. Running(j)
  BY DEF Running, LineAt
<1>2. line[j] \in LineRow
  BY DEF LineInv, LineTypes, LineAt, Absent
<1> QED BY <1>1, <1>2 DEF LineInv, LineAt

\* A step of a request: what others know does not depend on it, and while it runs no
\* other runs alone.
LEMMA RequestStep ==
    ASSUME LineInv, NEW j \in LineJobs, Running(j), NEW s \in LineRow, line[j] = s, NEW r \in LineRow,
           line' = [line EXCEPT ![j] = r], r.alone = s.alone,
           owned' \in [Numbers -> LineSales], attached' \in SUBSET LineSales,
           trunk' \in [Trunks -> SUBSET Numbers], channels' \in SUBSET ChannelRow, RowsOK',
           \A c \in channels' : (\E d \in channels : d.id = c.id) \/ c.id[1] = j,
           MadeBefore(j, r)',
           r.at # "ended" => LineOK(j, r),
           r.at # "ended" /\ r.alone => (r.kind = "purchase" => AlonePurchase(r)')
                                        /\ (r.kind = "release" => AloneRelease(r)')
    PROVE  LineInv'
<1>1. line \in [LineJobs -> LineRow \cup {Absent}]
  BY DEF LineInv, LineTypes
<1>2. line'[j] = r /\ \A i \in LineJobs \ {j} : line'[i] = line[i]
  BY <1>1
<1>3. LineTypes'
  BY <1>1 DEF LineTypes
<1>4. \A i \in LineJobs \ {j} : Running(i)' <=> Running(i)
  BY <1>2 DEF Running, LineAt
<1>5. ASSUME NEW i \in LineJobs PROVE MadeBefore(i, line[i])'
  <2>1. CASE i = j
    BY <1>2, <2>1 DEF MadeBefore
  <2>2. CASE i # j
    <3>1. MadeBefore(i, line[i])
      BY DEF LineInv
    <3>2. \A c \in channels' : c.id[1] = i => \E d \in channels : d.id = c.id
      BY <2>2
    <3>3. line'[i] = line[i]
      BY <1>2, <2>2
    <3> QED BY <3>1, <3>2, <3>3 DEF MadeBefore
  <2> QED BY <2>1, <2>2
<1>6. ASSUME NEW i \in LineJobs, Running(i)' PROVE LineOK(i, line[i])'
  <2>1. CASE i = j
    <3>1. r.at # "ended"
      BY <1>2, <1>6, <2>1 DEF Running, LineAt
    <3> QED BY <1>2, <2>1, <3>1 DEF LineOK
  <2>2. CASE i # j
    <3>1. LineOK(i, line[i]) /\ line'[i] = line[i]
      BY <1>2, <1>4, <1>6, <2>2 DEF LineInv
    <3> QED BY <3>1 DEF LineOK
  <2> QED BY <2>1, <2>2
<1>7. ASSUME NEW i \in LineJobs, Running(i)', line'[i].alone PROVE AloneOK(i, line[i])'
  <2>1. i = j
    <3> SUFFICES ASSUME i # j PROVE FALSE
      OBVIOUS
    <3>1. Running(i) /\ line[i].alone
      BY <1>2, <1>4, <1>7
    <3> QED BY <3>1 DEF LineInv, AloneOK
  <2>2. r.at # "ended" /\ r.alone
    BY <1>2, <1>7, <2>1 DEF Running, LineAt
  <2>3. \A k \in LineJobs \ {j} : ~Running(k)
    BY <2>2 DEF LineInv, AloneOK
  <2>4. \A k \in LineJobs \ {j} : ~Running(k)'
    BY <1>4, <2>3
  <2>5. (r.kind = "purchase" => AlonePurchase(r)') /\ (r.kind = "release" => AloneRelease(r)')
    BY <2>2
  <2>6. line'[i] = r
    BY <1>2, <2>1
  <2>7. \A k \in LineJobs \ {i} : ~Running(k)'
    BY <2>1, <2>4
  <2>8. r.kind = "purchase" => AlonePurchase(line[i])'
    BY <2>5, <2>6 DEF AlonePurchase
  <2>9. r.kind = "release" => AloneRelease(line[i])'
    BY <2>5, <2>6 DEF AloneRelease
  <2> QED BY <2>6, <2>7, <2>8, <2>9 DEF AloneOK
<1> QED BY <1>3, <1>5, <1>6, <1>7 DEF LineInv

\* The rows a request made have the same place in its rounds, if it stays in the round.
LEMMA MadeStays ==
    ASSUME LineInv, NEW j \in LineJobs, Running(j), NEW s \in LineRow, line[j] = s, NEW r \in LineRow,
           channels' = channels, s.at \in {"find", "save"} => r.at \in {"find", "save", "ended"},
           r.saving = s.saving
    PROVE  MadeBefore(j, r)'
<1>1. MadeBefore(j, s) /\ s.at # "ended"
  BY DEF LineInv, Running, LineAt
<1>2. r.at # "absent"
  BY DEF LineRow, LinePcs
<1> QED BY <1>1, <1>2 DEF MadeBefore

\* A step of a request that leaves the rows alone.
LEMMA QuietRequest ==
    ASSUME LineInv, NEW j \in LineJobs, Running(j), NEW s \in LineRow, line[j] = s, NEW r \in LineRow,
           line' = [line EXCEPT ![j] = r], r.alone = s.alone, r.saving = s.saving,
           channels' = channels,
           s.at \in {"find", "save"} => r.at \in {"find", "save", "ended"},
           owned' \in [Numbers -> LineSales],
           \A n \in Numbers : owned'[n] # NoSale => SoldAs(owned'[n], n),
           attached' \in SUBSET LineSales, trunk' \in [Trunks -> SUBSET Numbers],
           r.at # "ended" => LineOK(j, r),
           r.at # "ended" /\ r.alone => (r.kind = "purchase" => AlonePurchase(r)')
                                        /\ (r.kind = "release" => AloneRelease(r)')
    PROVE  LineInv'
<1>1. RowsOK'
  BY DEF LineInv, RowsOK
<1>2. channels' \in SUBSET ChannelRow
  BY DEF LineInv, LineTypes
<1>3. MadeBefore(j, r)'
  BY MadeStays
<1>4. \A c \in channels' : (\E d \in channels : d.id = c.id) \/ c.id[1] = j
  OBVIOUS
<1> QED BY <1>1, <1>2, <1>3, <1>4, RequestStep

\* A request that ends, with its round's rows written or not.
LEMMA EndsInv ==
    ASSUME LineInv, NEW j \in LineJobs, Running(j), NEW why, LineEnd(j, why),
           why \in {"ok", "not for sale", "failed", "clash", "not found", "not released"},
           UNCHANGED <<owned, attached, trunk, channels>>
    PROVE  LineInv'
<1>1. line \in [LineJobs -> LineRow \cup {Absent}] /\ line[j] \in LineRow
  <2>1. line \in [LineJobs -> LineRow \cup {Absent}]
    BY DEF LineInv, LineTypes
  <2>2. Absent.at = "absent"
    BY DEF Absent
  <2>3. line[j] # Absent
    BY <2>2 DEF Running, LineAt
  <2> QED BY <2>1, <2>3
<1>2. PICK s \in LineRow : s = line[j]
  BY <1>1
<1>3. PICK r : r = [s EXCEPT !.at = "ended", !.why = why]
  OBVIOUS
<1>4. r \in LineRow /\ r.at = "ended" /\ r.alone = s.alone /\ r.saving = s.saving
  BY <1>3 DEF LineRow, LinePcs
<1>5. line' = [line EXCEPT ![j] = r]
  BY <1>1, <1>2, <1>3 DEF LineEnd
<1>6. /\ owned' \in [Numbers -> LineSales] /\ attached' \in SUBSET LineSales
      /\ trunk' \in [Trunks -> SUBSET Numbers] /\ channels' = channels
      /\ \A n \in Numbers : owned'[n] # NoSale => SoldAs(owned'[n], n)
  BY DEF LineInv, LineTypes, RowsOK
<1> QED BY <1>2, <1>4, <1>5, <1>6, QuietRequest

LEMMA LeftFacts ==
    ASSUME NEW left \in Lefts
    PROVE  /\ left # <<>> => /\ Head(left) \in {"outbound", "inbound"} /\ Tail(left) \in Lefts
                             /\ Pending(left) = {Head(left)} \cup Pending(Tail(left))
           /\ left = <<>> => Pending(left) = {}
           /\ left = <<"outbound", "inbound">> => Trunks \ Pending(left) = {}
<1>1. CASE left = <<>>
  BY <1>1 DEF Pending
<1>2. CASE left = <<"inbound">>
  BY <1>2 DEF Pending, Lefts
<1>3. CASE left = <<"outbound", "inbound">>
  <2>1. Head(left) = "outbound" /\ Tail(left) = <<"inbound">> /\ left # <<>> /\ left # <<"inbound">>
    BY <1>3
  <2> QED BY <1>3, <2>1, LineAssumption DEF Pending, Lefts
<1> QED BY <1>1, <1>2, <1>3 DEF Lefts

\* A request that another joins.
LEMMA NotAlone ==
    ASSUME NEW i, NEW s \in LineRow, LineOK(i, s)
    PROVE  LET q == [s EXCEPT !.alone = FALSE]
           IN q \in LineRow /\ q.at = s.at /\ q.saving = s.saving /\ ~q.alone /\ LineOK(i, q)
<1> PICK q : q = [s EXCEPT !.alone = FALSE]
  OBVIOUS
<1>1. /\ q \in LineRow /\ q.at = s.at /\ q.saving = s.saving /\ ~q.alone /\ q.kind = s.kind
      /\ q.sale = s.sale /\ q.number = s.number /\ q.kwami = s.kwami /\ q.old = s.old /\ q.rows = s.rows
      /\ q.left = s.left /\ q.provider = s.provider
  BY DEF LineRow
<1>2. LineOK(i, q)
  BY <1>1 DEF LineOK
<1> QED BY <1>1, <1>2

---------------------------------------------------------------------------
(* Phone lines: the requests, step by step *)

LEMMA LineStartInv == ASSUME LineInv, NEW j \in LineJobs, LineStart(j) PROVE LineInv'
<1>1. PICK m \in LineMenu :
         line' = [i \in LineJobs |->
             IF i = j THEN [LineArrived(m) EXCEPT !.alone = \A o \in LineJobs : ~Running(o)]
             ELSE IF Running(i) THEN [line[i] EXCEPT !.alone = FALSE] ELSE line[i]]
  BY DEF LineStart
<1>2. UNCHANGED <<owned, attached, trunk, channels>> /\ line[j].at = "absent"
  BY DEF LineStart, LineAt
<1>0. PICK b \in BOOLEAN : b = \A o \in LineJobs : ~Running(o)
  OBVIOUS
<1>3. PICK r : r = [kind |-> m.kind, kwami |-> m.kwami, number |-> m.number, provider |-> m.provider,
                    at |-> IF m.kind = "purchase" THEN "buy" ELSE "anchor", why |-> "", sale |-> NoSale,
                    trunkSale |-> NoSale, rows |-> {}, left |-> <<"outbound", "inbound">>, list |-> {},
                    outbound |-> FALSE, saving |-> 1, old |-> {}, clean |-> TRUE, alone |-> b]
  OBVIOUS
<1>4. /\ m.kind \in {"purchase", "release"} /\ m.provider \in BOOLEAN
      /\ m.kwami \in Kwamis /\ m.number \in Numbers
  BY LineAssumption
<1>5. /\ r.kind = m.kind /\ r.at = (IF m.kind = "purchase" THEN "buy" ELSE "anchor")
      /\ r.left = <<"outbound", "inbound">> /\ (r.alone <=> \A o \in LineJobs : ~Running(o))
      /\ r.provider = m.provider /\ r.saving = 1 /\ r.sale = NoSale
  BY <1>0, <1>3
<1>6. r \in LineRow
  <2>2. NoSale \in LineSales /\ <<"outbound", "inbound">> \in Lefts
    BY DEF LineSales, Lefts
  <2>3. PICK at \in LinePcs : at = IF m.kind = "purchase" THEN "buy" ELSE "anchor"
    BY DEF LinePcs
  <2>5. PICK left \in Lefts : left = <<"outbound", "inbound">>
    BY <2>2
  <2>4. r = [kind |-> m.kind, kwami |-> m.kwami, number |-> m.number, provider |-> m.provider,
             at |-> at, why |-> "", sale |-> NoSale, trunkSale |-> NoSale, rows |-> {},
             left |-> left, list |-> {}, outbound |-> FALSE, saving |-> 1,
             old |-> {}, clean |-> TRUE, alone |-> b]
    BY <1>3, <2>3, <2>5
  <2>6. PICK none \in SUBSET ChannelRow : none = {}
    OBVIOUS
  <2>10. PICK list \in SUBSET Numbers : list = {}
    OBVIOUS
  <2>11. PICK first \in 1..3 : first = 1
    OBVIOUS
  <2>12. PICK kind \in {"purchase", "release"} : kind = m.kind
    BY <1>4
  <2>7. PICK provider \in BOOLEAN : provider = m.provider
    BY <1>4
  <2>8. PICK sale \in LineSales : sale = NoSale
    BY <2>2
  <2>9. r = [kind |-> kind, kwami |-> m.kwami, number |-> m.number, provider |-> provider,
             at |-> at, why |-> "", sale |-> sale, trunkSale |-> sale, rows |-> none,
             left |-> left, list |-> list, outbound |-> FALSE, saving |-> first,
             old |-> none, clean |-> TRUE, alone |-> b]
    BY <2>4, <2>6, <2>7, <2>8, <2>10, <2>11, <2>12
  <2>13. m.kwami \in Kwamis /\ m.number \in Numbers
    BY <1>4
  <2> QED BY <2>9, <2>13, ZenonT(40) DEF LineRow
<1>7. line \in [LineJobs -> LineRow \cup {Absent}]
  BY DEF LineInv, LineTypes
<1>8. line'[j] = r
  BY <1>0, <1>1, <1>3 DEF LineArrived
<1>9. ASSUME NEW i \in LineJobs \ {j}
      PROVE  /\ line'[i] \in LineRow \cup {Absent} /\ line'[i].at = line[i].at
             /\ Running(i) => line'[i].saving = line[i].saving /\ ~line'[i].alone /\ LineOK(i, line'[i])
             /\ ~Running(i) => line'[i] = line[i]
  <2>1. CASE Running(i)
    <3>1. line'[i] = [line[i] EXCEPT !.alone = FALSE]
      BY <1>1, <2>1
    <3>2. Absent.at = "absent"
      BY DEF Absent
    <3>3. line[i] \in LineRow
      BY <1>7, <2>1, <3>2 DEF Running, LineAt
    <3>4. LineOK(i, line[i])
      BY <2>1 DEF LineInv
    <3> QED BY <2>1, <3>1, <3>3, <3>4, NotAlone
  <2>2. CASE ~Running(i)
    <3>1. line'[i] = line[i]
      BY <1>1, <2>2
    <3> QED BY <1>7, <2>2, <3>1
  <2> QED BY <2>1, <2>2
<1>10. \A i \in LineJobs \ {j} : Running(i)' <=> Running(i)
  BY <1>9 DEF Running, LineAt
<1>11. LineTypes'
  <2>1. line' \in [LineJobs -> LineRow \cup {Absent}]
    BY <1>1, <1>6, <1>8, <1>9
  <2> QED BY <1>2, <2>1 DEF LineInv, LineTypes
<1>12. RowsOK'
  BY <1>2 DEF LineInv, RowsOK
<1>13. ASSUME NEW i \in LineJobs PROVE MadeBefore(i, line[i])'
  <2>1. MadeBefore(i, line[i])
    BY DEF LineInv
  <2>2. CASE i = j
    <3>1. \A c \in channels : c.id[1] # j
      BY <1>2, <2>1, <2>2 DEF MadeBefore
    <3> QED BY <1>2, <2>2, <3>1 DEF MadeBefore
  <2>3. CASE i # j /\ Running(i)
    <3>1. line'[i].at = line[i].at /\ line'[i].saving = line[i].saving
      BY <1>9, <2>3
    <3> QED BY <1>2, <2>1, <3>1 DEF MadeBefore
  <2>4. CASE i # j /\ ~Running(i)
    BY <1>2, <1>9, <2>1, <2>4 DEF MadeBefore
  <2> QED BY <2>2, <2>3, <2>4
<1>14. ASSUME NEW i \in LineJobs, Running(i)' PROVE LineOK(i, line[i])'
  <2>1. CASE i = j
    <3>1. LineOK(j, r)
      BY <1>5 DEF LineOK, Buying, Releasing
    <3> QED BY <1>8, <2>1, <3>1 DEF LineOK
  <2>2. CASE i # j
    <3>1. LineOK(i, line'[i])
      BY <1>9, <1>10, <1>14, <2>2
    <3> QED BY <3>1 DEF LineOK
  <2> QED BY <2>1, <2>2
<1>15. ASSUME NEW i \in LineJobs, Running(i)', line'[i].alone PROVE AloneOK(i, line[i])'
  <2>1. i = j
    BY <1>9, <1>10, <1>15
  <2>2. \A o \in LineJobs \ {i} : ~Running(o)'
    BY <1>5, <1>8, <1>10, <1>15, <2>1
  <2>3. Trunks \ Pending(r.left) = {}
    BY <1>5, <1>6, LeftFacts DEF LineRow
  <2>4. r.kind = "purchase" => AlonePurchase(r)'
    BY <1>5, <2>3 DEF AlonePurchase
  <2>5. r.kind = "release" => AloneRelease(r)'
    BY <1>5, <2>3 DEF AloneRelease
  <2>6. line'[i] = r
    BY <1>8, <2>1
  <2>7. line'[i].kind = "purchase" => AlonePurchase(line[i])'
    BY <2>4, <2>6 DEF AlonePurchase
  <2>8. line'[i].kind = "release" => AloneRelease(line[i])'
    BY <2>5, <2>6 DEF AloneRelease
  <2> QED BY <2>2, <2>7, <2>8 DEF AloneOK
<1> QED BY <1>11, <1>12, <1>13, <1>14, <1>15 DEF LineInv

\* The tables of a step that changes none of them.
LEMMA SameTables ==
    ASSUME LineInv
    PROVE  /\ owned' = owned => /\ owned' \in [Numbers -> LineSales]
                                /\ \A n \in Numbers : owned'[n] # NoSale => SoldAs(owned'[n], n)
           /\ attached' = attached => attached' \in SUBSET LineSales
           /\ trunk' = trunk => trunk' \in [Trunks -> SUBSET Numbers]
BY DEF LineInv, LineTypes, RowsOK

\* A trunk that could not be read or written: the request goes on, and not as clean.
LEMMA TrunkFailsInv ==
    ASSUME LineInv, NEW j \in LineJobs, LineAt(j, "trunks") \/ LineAt(j, "trunk"), TrunkFails(j),
           UNCHANGED <<owned, attached, trunk, channels>>
    PROVE  LineInv'
<1>1. PICK s \in LineRow : s = line[j]
  BY RunningFacts
<1>2. /\ Running(j) /\ s.at \in {"trunks", "trunk"} /\ LineOK(j, s)
      /\ s.alone => AloneOK(j, s)
  BY <1>1, RunningFacts
<1>3. PICK at \in {"find", "detach"} : at = AfterTrunks(j)
  BY DEF AfterTrunks
<1>4. PICK r : r = [s EXCEPT !.at = at, !.outbound = FALSE, !.clean = FALSE]
  OBVIOUS
<1>5. /\ r \in LineRow /\ r.at = at /\ ~r.clean /\ r.alone = s.alone /\ r.saving = s.saving
      /\ r.kind = s.kind /\ r.sale = s.sale /\ r.number = s.number /\ r.kwami = s.kwami
      /\ r.rows = s.rows /\ r.provider = s.provider /\ r.left = s.left
  BY <1>3, <1>4 DEF LineRow, LinePcs
<1>6. line' = [line EXCEPT ![j] = r]
  BY <1>1, <1>3, <1>4 DEF TrunkFails
<1>7. (s.kind = "purchase" <=> at = "find") /\ s.saving \in 1..3
  BY <1>1, <1>3 DEF AfterTrunks, LineRow
<1>8. LineOK(j, r)
  BY <1>2, <1>5, <1>7 DEF LineOK, Buying, Releasing
<1>9. ASSUME r.alone, r.kind = "purchase" PROVE AlonePurchase(r)'
  <2>1. AlonePurchase(s)
    BY <1>2, <1>5, <1>9 DEF AloneOK
  <2>2. s.saving = 1
    BY <1>2 DEF LineOK
  <2> QED BY <1>2, <1>5, <1>7, <1>9, <2>1, <2>2 DEF AlonePurchase
<1>10. ASSUME r.alone, r.kind = "release" PROVE AloneRelease(r)'
  <2>1. AloneRelease(s)
    BY <1>2, <1>5, <1>10 DEF AloneOK
  <2> QED BY <1>2, <1>3, <1>5, <1>7, <1>10, <2>1 DEF AloneRelease
<1> QED BY <1>1, <1>2, <1>5, <1>6, <1>8, <1>9, <1>10, SameTables, QuietRequest

LEMMA ReadTrunkInv == ASSUME LineInv, NEW j \in LineJobs, ReadTrunk(j) PROVE LineInv'
<1>0. LineAt(j, "trunks") /\ UNCHANGED <<owned, attached, trunk, channels>>
  BY DEF ReadTrunk
<1>1. PICK s \in LineRow : s = line[j]
  BY <1>0, RunningFacts
<1>2. /\ Running(j) /\ s.at = "trunks" /\ LineOK(j, s) /\ s.saving = 1
      /\ s.alone => AloneOK(j, s)
  BY <1>0, <1>1, RunningFacts DEF LineOK
<1>3. /\ s.left \in Lefts /\ s.kind \in {"purchase", "release"}
      /\ s.kind = "release" => s.provider
  BY <1>2 DEF LineRow, LineOK
<1>4. CASE s.left = <<>> /\ LineGo(j, AfterTrunks(j))
  <2>1. PICK at \in {"find", "detach"} : at = AfterTrunks(j)
    BY DEF AfterTrunks
  <2>2. PICK r : r = [s EXCEPT !.at = at]
    OBVIOUS
  <2>3. /\ r \in LineRow /\ r.at = at /\ r.clean = s.clean /\ r.alone = s.alone /\ r.saving = s.saving
        /\ r.kind = s.kind /\ r.sale = s.sale /\ r.number = s.number /\ r.kwami = s.kwami
        /\ r.rows = s.rows /\ r.provider = s.provider /\ r.left = s.left /\ r.trunkSale = s.trunkSale
    BY <2>1, <2>2 DEF LineRow, LinePcs
  <2>4. line' = [line EXCEPT ![j] = r]
    BY <1>1, <1>4, <2>1, <2>2 DEF LineGo
  <2>5. s.kind = "purchase" <=> at = "find"
    BY <1>1, <2>1 DEF AfterTrunks
  <2>6. LineOK(j, r)
    BY <1>2, <1>3, <2>1, <2>3, <2>5 DEF LineOK, Buying, Releasing
  <2>7. ASSUME r.alone, r.kind = "purchase" PROVE AlonePurchase(r)'
    <3>1. AlonePurchase(s)
      BY <1>2, <2>3, <2>7 DEF AloneOK
    <3> QED BY <1>0, <1>2, <1>4, <2>3, <2>5, <2>7, <3>1 DEF AlonePurchase
  <2>8. ASSUME r.alone, r.kind = "release" PROVE AloneRelease(r)'
    <3>1. AloneRelease(s)
      BY <1>2, <2>3, <2>8 DEF AloneOK
    <3> QED BY <1>0, <1>2, <1>4, <2>1, <2>3, <2>5, <2>8, <3>1 DEF AloneRelease
  <2> QED BY <1>0, <1>1, <1>2, <2>3, <2>4, <2>6, <2>7, <2>8, SameTables, QuietRequest
<1>5. CASE s.left # <<>> /\ Head(s.left) \notin Trunks /\ line' = [line EXCEPT ![j].left = Tail(@)]
  <2>1. PICK left \in Lefts : left = Tail(s.left)
    BY <1>3, <1>5, LeftFacts
  <2>2. PICK r : r = [s EXCEPT !.left = left]
    OBVIOUS
  <2>3. /\ r \in LineRow /\ r.at = s.at /\ r.clean = s.clean /\ r.alone = s.alone /\ r.saving = s.saving
        /\ r.kind = s.kind /\ r.sale = s.sale /\ r.number = s.number /\ r.kwami = s.kwami
        /\ r.rows = s.rows /\ r.provider = s.provider /\ r.left = left
    BY <2>1, <2>2 DEF LineRow
  <2>4. line' = [line EXCEPT ![j] = r]
    BY <1>1, <1>5, <2>1, <2>2
  <2>5. Trunks \ Pending(left) = Trunks \ Pending(s.left)
    BY <1>3, <1>5, <2>1, LeftFacts
  <2>6. LineOK(j, r)
    BY <1>2, <2>3 DEF LineOK
  <2>7. ASSUME r.alone, r.kind = "purchase" PROVE AlonePurchase(r)'
    <3>1. AlonePurchase(s)
      BY <1>2, <2>3, <2>7 DEF AloneOK
    <3> QED BY <1>0, <1>2, <2>3, <2>5, <2>7, <3>1 DEF AlonePurchase
  <2>8. ASSUME r.alone, r.kind = "release" PROVE AloneRelease(r)'
    <3>1. AloneRelease(s)
      BY <1>2, <2>3, <2>8 DEF AloneOK
    <3> QED BY <1>0, <1>2, <2>3, <2>5, <2>8, <3>1 DEF AloneRelease
  <2> QED BY <1>0, <1>1, <1>2, <2>3, <2>4, <2>6, <2>7, <2>8, SameTables, QuietRequest
<1>6. CASE /\ s.left # <<>> /\ Head(s.left) \in Trunks
           /\ line' = [line EXCEPT ![j].list = trunk[Head(line[j].left)], ![j].at = "trunk"]
  <2>0. trunk \in [Trunks -> SUBSET Numbers]
    BY DEF LineInv, LineTypes
  <2>1. PICK list \in SUBSET Numbers : list = trunk[Head(s.left)]
    BY <1>6, <2>0
  <2>2. PICK r : r = [s EXCEPT !.list = list, !.at = "trunk"]
    OBVIOUS
  <2>3. /\ r \in LineRow /\ r.at = "trunk" /\ r.clean = s.clean /\ r.alone = s.alone /\ r.saving = s.saving
        /\ r.kind = s.kind /\ r.sale = s.sale /\ r.number = s.number /\ r.kwami = s.kwami
        /\ r.rows = s.rows /\ r.provider = s.provider /\ r.left = s.left
    BY <2>1, <2>2 DEF LineRow, LinePcs
  <2>4. line' = [line EXCEPT ![j] = r]
    BY <1>1, <1>6, <2>1, <2>2
  <2>5. LineOK(j, r)
    BY <1>2, <1>3, <1>6, <2>3 DEF LineOK, Buying, Releasing
  <2>6. ASSUME r.alone, r.kind = "purchase" PROVE AlonePurchase(r)'
    <3>1. AlonePurchase(s)
      BY <1>2, <2>3, <2>6 DEF AloneOK
    <3> QED BY <1>0, <1>2, <2>3, <2>6, <3>1 DEF AlonePurchase
  <2>7. ASSUME r.alone, r.kind = "release" PROVE AloneRelease(r)'
    <3>1. AloneRelease(s)
      BY <1>2, <2>3, <2>7 DEF AloneOK
    <3> QED BY <1>0, <1>2, <2>3, <2>7, <3>1 DEF AloneRelease
  <2> QED BY <1>0, <1>1, <1>2, <2>3, <2>4, <2>5, <2>6, <2>7, SameTables, QuietRequest
<1>7. CASE TrunkFails(j)
  BY <1>0, <1>7, TrunkFailsInv
<1> QED BY <1>1, <1>4, <1>5, <1>6, <1>7 DEF ReadTrunk

LEMMA WriteTrunkInv == ASSUME LineInv, NEW j \in LineJobs, WriteTrunk(j) PROVE LineInv'
<1>0. LineAt(j, "trunk") /\ UNCHANGED <<owned, attached, channels>>
  BY DEF WriteTrunk
<1>1. PICK s \in LineRow : s = line[j]
  BY <1>0, RunningFacts
<1>2. /\ Running(j) /\ s.at = "trunk" /\ LineOK(j, s) /\ s.saving = 1
      /\ s.alone => AloneOK(j, s)
  BY <1>0, <1>1, RunningFacts DEF LineOK
<1>3. /\ s.left \in Lefts /\ s.left # <<>> /\ Head(s.left) \in Trunks
      /\ s.kind \in {"purchase", "release"} /\ s.number \in Numbers /\ s.list \in SUBSET Numbers
      /\ s.kind = "release" => s.provider
  BY <1>2 DEF LineRow, LineOK
<1>4. PICK t \in Trunks : t = Head(s.left)
  BY <1>3
<1>5. CASE /\ trunk' = [trunk EXCEPT ![t] = NewList(j)]
           /\ line' = [line EXCEPT ![j].at = "trunks", ![j].left = Tail(@),
                                   ![j].outbound = @ \/ (t = "outbound" /\ line[j].kind = "purchase")]
  <2>1. PICK left \in Lefts : left = Tail(s.left)
    BY <1>3, LeftFacts
  <2>2. PICK out \in BOOLEAN : out = (s.outbound \/ (t = "outbound" /\ s.kind = "purchase"))
    BY DEF LineRow
  <2>3. PICK r : r = [s EXCEPT !.at = "trunks", !.left = left, !.outbound = out]
    OBVIOUS
  <2>4. /\ r \in LineRow /\ r.at = "trunks" /\ r.clean = s.clean /\ r.alone = s.alone /\ r.saving = s.saving
        /\ r.kind = s.kind /\ r.sale = s.sale /\ r.number = s.number /\ r.kwami = s.kwami
        /\ r.rows = s.rows /\ r.provider = s.provider /\ r.left = left
    <3>1. "trunks" \in LinePcs
      BY DEF LinePcs
    <3>2. r \in LineRow /\ r.at = "trunks" /\ r.left = left
      BY <2>3, <3>1 DEF LineRow
    <3>3. r.clean = s.clean /\ r.alone = s.alone /\ r.saving = s.saving /\ r.kind = s.kind
      BY <2>3 DEF LineRow
    <3>4. r.sale = s.sale /\ r.number = s.number /\ r.kwami = s.kwami
      BY <2>3 DEF LineRow
    <3>5. r.rows = s.rows /\ r.provider = s.provider
      BY <2>3 DEF LineRow
    <3> QED BY <3>2, <3>3, <3>4, <3>5
  <2>5. line' = [line EXCEPT ![j] = r]
    BY <1>1, <1>5, <2>1, <2>2, <2>3
  <2>6. LineOK(j, r)
    BY <1>2, <1>3, <2>4 DEF LineOK, Buying, Releasing
  <2>7. PICK list \in SUBSET Numbers : /\ list = NewList(j)
                                       /\ s.kind = "purchase" => s.number \in list
                                       /\ s.kind = "release" => s.number \notin list
    <3>1. CASE s.kind = "purchase"
      <4>1. NewList(j) = s.list \cup {s.number}
        BY <1>1, <3>1 DEF NewList, Merged
      <4> QED BY <1>3, <3>1, <4>1
    <3>2. CASE s.kind = "release"
      <4>1. NewList(j) = s.list \ {s.number}
        BY <1>1, <3>2 DEF NewList, Without
      <4> QED BY <1>3, <3>2, <4>1
    <3> QED BY <1>3, <3>1, <3>2
  <2>8. trunk \in [Trunks -> SUBSET Numbers] /\ trunk' = [trunk EXCEPT ![t] = list]
    BY <1>5, <2>7 DEF LineInv, LineTypes
  <2>9. trunk' \in [Trunks -> SUBSET Numbers]
    BY <2>8
  <2>10. \A u \in Trunks \ Pending(left) : u = t \/ (u \in Trunks \ Pending(s.left) /\ trunk'[u] = trunk[u])
    BY <1>3, <1>4, <2>1, <2>8, LeftFacts
  <2>11. ASSUME r.alone, r.kind = "purchase" PROVE AlonePurchase(r)'
    <3>1. AlonePurchase(s)
      BY <1>2, <2>4, <2>11 DEF AloneOK
    <3>2. ASSUME s.clean PROVE \A u \in Trunks \ Pending(left) : s.number \in trunk'[u]
      BY <2>4, <2>7, <2>8, <2>10, <2>11, <3>1, <3>2 DEF AlonePurchase
    <3> QED BY <1>0, <1>2, <2>4, <3>1, <3>2 DEF AlonePurchase
  <2>12. ASSUME r.alone, r.kind = "release" PROVE AloneRelease(r)'
    <3>1. AloneRelease(s)
      BY <1>2, <2>4, <2>12 DEF AloneOK
    <3>2. ASSUME s.clean PROVE \A u \in Trunks \ Pending(left) : s.number \notin trunk'[u]
      BY <2>4, <2>7, <2>8, <2>10, <2>12, <3>1, <3>2 DEF AloneRelease
    <3> QED BY <1>0, <1>2, <2>4, <3>1, <3>2 DEF AloneRelease
  <2> QED BY <1>0, <1>1, <1>2, <2>4, <2>5, <2>6, <2>9, <2>11, <2>12, SameTables, QuietRequest
<1>6. CASE TrunkFails(j) /\ UNCHANGED trunk
  BY <1>0, <1>6, TrunkFailsInv
<1> QED BY <1>1, <1>4, <1>5, <1>6 DEF WriteTrunk

LEMMA BuyInv == ASSUME LineInv, NEW j \in LineJobs, Buy(j) PROVE LineInv'
<1>0. LineAt(j, "buy") /\ UNCHANGED <<attached, trunk, channels>>
  BY DEF Buy
<1>1. PICK s \in LineRow : s = line[j]
  BY <1>0, RunningFacts
<1>2. /\ Running(j) /\ s.at = "buy" /\ LineOK(j, s) /\ s.saving = 1 /\ s.kind = "purchase"
      /\ s.alone => AloneOK(j, s)
  <2>1. /\ Running(j) /\ s.at = "buy" /\ LineOK(j, s)
        /\ s.alone => AloneOK(j, s)
    BY <1>0, <1>1, RunningFacts
  <2>2. s.kind \in {"purchase", "release"}
    BY DEF LineRow
  <2> QED BY <2>1, <2>2 DEF LineOK, Releasing
<1>3. s.number \in Numbers /\ s.left = <<"outbound", "inbound">> /\ s.left \in Lefts
  BY <1>2 DEF LineRow, LineOK
<1>4. CASE /\ owned' = [owned EXCEPT ![s.number] = <<j, s.number>>]
           /\ line' = [line EXCEPT ![j].at = "attach", ![j].sale = <<j, s.number>>]
  <2>1. PICK sale \in LineSales : sale = <<j, s.number>>
    BY <1>3 DEF LineSales
  <2>2. PICK r : r = [s EXCEPT !.at = "attach", !.sale = sale]
    OBVIOUS
  <2>3. /\ r \in LineRow /\ r.at = "attach" /\ r.clean = s.clean /\ r.alone = s.alone /\ r.saving = s.saving
        /\ r.kind = s.kind /\ r.sale = sale /\ r.number = s.number /\ r.left = s.left
    BY <2>1, <2>2 DEF LineRow, LinePcs
  <2>4. line' = [line EXCEPT ![j] = r]
    BY <1>1, <1>4, <2>1, <2>2
  <2>5. LineOK(j, r)
    BY <1>2, <1>3, <2>1, <2>3 DEF LineOK, Buying
  <2>6. owned \in [Numbers -> LineSales] /\ owned' = [owned EXCEPT ![s.number] = sale]
    BY <1>4, <2>1 DEF LineInv, LineTypes
  <2>7. owned' \in [Numbers -> LineSales] /\ owned'[s.number] = sale
    BY <1>3, <2>6
  <2>8. ASSUME NEW n \in Numbers, owned'[n] # NoSale PROVE SoldAs(owned'[n], n)
    <3>1. CASE n = s.number
      BY <2>1, <2>7, <3>1 DEF SoldAs
    <3>2. CASE n # s.number
      BY <2>6, <2>8, <3>2 DEF LineInv, RowsOK
    <3> QED BY <3>1, <3>2
  <2>9. Trunks \ Pending(r.left) = {}
    BY <1>3, <2>3, LeftFacts
  <2>10. AlonePurchase(r)'
    BY <2>3, <2>7, <2>9 DEF AlonePurchase
  <2> QED BY <1>0, <1>1, <1>2, <2>3, <2>4, <2>5, <2>7, <2>8, <2>10, SameTables, QuietRequest
<1>5. CASE (LineEnd(j, "not for sale") \/ LineEnd(j, "failed")) /\ UNCHANGED owned
  BY <1>0, <1>2, <1>5, EndsInv
<1> QED BY <1>1, <1>4, <1>5 DEF Buy

LEMMA AttachInv == ASSUME LineInv, NEW j \in LineJobs, Attach(j) PROVE LineInv'
<1>0. LineAt(j, "attach") /\ UNCHANGED <<owned, trunk, channels>>
  BY DEF Attach
<1>1. PICK s \in LineRow : s = line[j]
  BY <1>0, RunningFacts
<1>2. /\ Running(j) /\ s.at = "attach" /\ LineOK(j, s) /\ s.saving = 1 /\ s.kind = "purchase"
      /\ s.alone => AloneOK(j, s)
  <2>1. /\ Running(j) /\ s.at = "attach" /\ LineOK(j, s)
        /\ s.alone => AloneOK(j, s)
    BY <1>0, <1>1, RunningFacts
  <2>2. s.kind \in {"purchase", "release"}
    BY DEF LineRow
  <2> QED BY <2>1, <2>2 DEF LineOK, Releasing
<1>3. /\ s.left = <<"outbound", "inbound">> /\ s.left \in Lefts
      /\ s.sale \in LineSales /\ s.trunkSale \in LineSales
  BY <1>2 DEF LineRow, LineOK
<1>4. PICK sale \in LineSales, clean \in BOOLEAN :
         /\ line' = [line EXCEPT ![j] = [s EXCEPT !.at = "trunks", !.trunkSale = sale, !.clean = clean]]
         /\ attached' \in SUBSET LineSales /\ (clean => s.sale \in attached')
  <2>1. attached \in SUBSET LineSales /\ s.clean \in BOOLEAN
    BY DEF LineInv, LineTypes, LineRow
  <2>2. CASE /\ attached' = attached \cup {line[j].sale}
             /\ line' = [line EXCEPT ![j].at = "trunks", ![j].trunkSale = line[j].sale]
    <3>1. [s EXCEPT !.at = "trunks", !.trunkSale = s.sale]
            = [s EXCEPT !.at = "trunks", !.trunkSale = s.sale, !.clean = s.clean]
      BY DEF LineRow
    <3>2. line' = [line EXCEPT ![j] = [s EXCEPT !.at = "trunks", !.trunkSale = s.sale, !.clean = s.clean]]
      BY <1>1, <2>2, <3>1
    <3>3. attached' \in SUBSET LineSales /\ s.sale \in attached'
      BY <1>1, <1>3, <2>1, <2>2
    <3> QED BY <1>3, <2>1, <3>2, <3>3
  <2>3. CASE attached' = attached /\ line' = [line EXCEPT ![j].at = "trunks", ![j].clean = FALSE]
    <3>1. [s EXCEPT !.at = "trunks", !.clean = FALSE]
            = [s EXCEPT !.at = "trunks", !.trunkSale = s.trunkSale, !.clean = FALSE]
      BY DEF LineRow
    <3>2. line' = [line EXCEPT ![j] = [s EXCEPT !.at = "trunks", !.trunkSale = s.trunkSale, !.clean = FALSE]]
      BY <1>1, <2>3, <3>1
    <3> QED BY <1>3, <2>1, <2>3, <3>2
  <2> QED BY <2>2, <2>3 DEF Attach
<1>5. PICK r : r = [s EXCEPT !.at = "trunks", !.trunkSale = sale, !.clean = clean]
  OBVIOUS
<1>6. /\ r \in LineRow /\ r.at = "trunks" /\ r.clean = clean /\ r.alone = s.alone /\ r.saving = s.saving
      /\ r.kind = s.kind /\ r.sale = s.sale /\ r.number = s.number /\ r.left = s.left
  BY <1>5 DEF LineRow, LinePcs
<1>7. line' = [line EXCEPT ![j] = r]
  BY <1>4, <1>5
<1>8. LineOK(j, r)
  BY <1>2, <1>6 DEF LineOK, Buying
<1>9. Trunks \ Pending(r.left) = {}
  BY <1>3, <1>6, LeftFacts
<1>10. ASSUME r.alone PROVE AlonePurchase(r)'
  <2>1. AlonePurchase(s)
    BY <1>2, <1>6, <1>10 DEF AloneOK
  <2> QED BY <1>0, <1>2, <1>4, <1>6, <1>9, <2>1 DEF AlonePurchase
<1>11. attached' \in SUBSET LineSales
  BY <1>4
<1>12. /\ owned' \in [Numbers -> LineSales] /\ trunk' \in [Trunks -> SUBSET Numbers]
       /\ \A n \in Numbers : owned'[n] # NoSale => SoldAs(owned'[n], n)
  BY <1>0, SameTables
<1>13. /\ r.kind = "purchase" /\ r.alone => AlonePurchase(r)'
       /\ r.kind # "release" /\ s.at = "attach"
  BY <1>2, <1>6, <1>10
<1> QED BY <1>0, <1>1, <1>2, <1>6, <1>7, <1>8, <1>11, <1>12, <1>13, QuietRequest

LEMMA LookUpChannelInv == ASSUME LineInv, NEW j \in LineJobs, LookUpChannel(j) PROVE LineInv'
<1>0. LineAt(j, "find") /\ UNCHANGED <<owned, attached, trunk, channels>>
  BY DEF LookUpChannel
<1>1. PICK s \in LineRow : s = line[j]
  BY <1>0, RunningFacts
<1>2. /\ Running(j) /\ s.at = "find" /\ LineOK(j, s) /\ s.kind = "purchase"
      /\ s.alone => AloneOK(j, s)
  <2>1. /\ Running(j) /\ s.at = "find" /\ LineOK(j, s)
        /\ s.alone => AloneOK(j, s)
    BY <1>0, <1>1, RunningFacts
  <2>2. s.kind \in {"purchase", "release"}
    BY DEF LineRow
  <2> QED BY <2>1, <2>2 DEF LineOK, Releasing
<1>3. PICK old \in SUBSET channels :
         /\ line' = [line EXCEPT ![j].at = "save", ![j].old = old]
         /\ old = {} \/ \E c \in old : old = {c} /\ c.kwami = s.kwami /\ c.kind = ChannelKinds[s.saving]
  <2>1. PICK mine \in SUBSET channels : mine = {c \in channels : c.kwami = s.kwami /\ c.kind = ChannelKinds[s.saving]}
    OBVIOUS
  <2>2. CASE line' = [line EXCEPT ![j].at = "save", ![j].old = {}]
    BY <2>2
  <2>3. CASE \E c \in mine : line' = [line EXCEPT ![j].at = "save", ![j].old = {c}]
    BY <2>1, <2>3
  <2> QED BY <1>1, <2>1, <2>2, <2>3 DEF LookUpChannel
<1>4. old \in SUBSET ChannelRow
  BY DEF LineInv, LineTypes
<1>5. PICK r : r = [s EXCEPT !.at = "save", !.old = old]
  OBVIOUS
<1>6. /\ r \in LineRow /\ r.at = "save" /\ r.clean = s.clean /\ r.alone = s.alone /\ r.saving = s.saving
      /\ r.kind = s.kind /\ r.sale = s.sale /\ r.number = s.number /\ r.left = s.left /\ r.old = old
      /\ r.kwami = s.kwami
  BY <1>4, <1>5 DEF LineRow, LinePcs
<1>7. line' = [line EXCEPT ![j] = r]
  BY <1>1, <1>3, <1>5
<1>8. LineOK(j, r)
  BY <1>2, <1>3, <1>6 DEF LineOK, Buying
<1>9. ASSUME r.alone PROVE AlonePurchase(r)'
  <2>1. AlonePurchase(s)
    BY <1>2, <1>6, <1>9 DEF AloneOK
  <2> QED BY <1>0, <1>2, <1>6, <2>1 DEF AlonePurchase
<1> QED BY <1>0, <1>1, <1>2, <1>6, <1>7, <1>8, <1>9, SameTables, QuietRequest

LEMMA FindLineInv == ASSUME LineInv, NEW j \in LineJobs, FindLine(j) PROVE LineInv'
<1>0. LineAt(j, "anchor") /\ UNCHANGED <<owned, attached, trunk, channels>>
  BY DEF FindLine
<1>1. PICK s \in LineRow : s = line[j]
  BY <1>0, RunningFacts
<1>2. /\ Running(j) /\ s.at = "anchor" /\ LineOK(j, s) /\ s.saving = 1 /\ s.kind = "release"
      /\ s.alone => AloneOK(j, s)
  <2>1. /\ Running(j) /\ s.at = "anchor" /\ LineOK(j, s)
        /\ s.alone => AloneOK(j, s)
    BY <1>0, <1>1, RunningFacts
  <2>2. s.kind \in {"purchase", "release"}
    BY DEF LineRow
  <2> QED BY <2>1, <2>2 DEF LineOK, Buying
<1>3. s.left = <<"outbound", "inbound">> /\ s.left \in Lefts
  BY <1>2 DEF LineRow, LineOK
<1> DEFINE mine == {c \in channels : c.kwami = line[j].kwami /\ c.number = line[j].number}
<1>4. mine = {c \in channels : c.kwami = s.kwami /\ c.number = s.number}
  BY <1>1
<1>5. CASE LineEnd(j, "not found")
  BY <1>0, <1>2, <1>5, EndsInv
<1>6. CASE \E a \in mine :
            LET rows == {c \in mine : c.sale = a.sale}
                voice == {c \in rows : c.kind = "voice_phone"}
            IN line' = [line EXCEPT
                 ![j].at = IF line[j].provider THEN "trunks" ELSE "delete",
                 ![j].sale = a.sale, ![j].rows = rows,
                 ![j].trunkSale = IF voice = {} THEN NoSale
                                  ELSE (CHOOSE c \in voice : TRUE).trunkSale]
  <2>1. PICK a \in mine :
            LET rows == {c \in mine : c.sale = a.sale}
                voice == {c \in rows : c.kind = "voice_phone"}
            IN line' = [line EXCEPT
                 ![j].at = IF line[j].provider THEN "trunks" ELSE "delete",
                 ![j].sale = a.sale, ![j].rows = rows,
                 ![j].trunkSale = IF voice = {} THEN NoSale
                                  ELSE (CHOOSE c \in voice : TRUE).trunkSale]
    BY <1>6
  <2>2. channels \in SUBSET ChannelRow
    BY DEF LineInv, LineTypes
  <2>3. PICK rows \in SUBSET ChannelRow : rows = {c \in mine : c.sale = a.sale}
    BY <1>4, <2>2
  <2>4. PICK voice \in SUBSET ChannelRow : voice = {c \in rows : c.kind = "voice_phone"}
    BY <2>3
  <2>5. PICK trunkSale \in LineSales : trunkSale = IF voice = {} THEN NoSale ELSE (CHOOSE c \in voice : TRUE).trunkSale
    <3>1. NoSale \in LineSales
      BY DEF LineSales
    <3>2. CASE voice # {}
      <4>1. (CHOOSE c \in voice : TRUE) \in ChannelRow
        BY <2>4, <3>2
      <4> QED BY <3>2, <4>1 DEF ChannelRow
    <3> QED BY <3>1, <3>2
  <2>6. PICK at \in {"trunks", "delete"} : at = IF s.provider THEN "trunks" ELSE "delete"
    OBVIOUS
  <2>7. a \in channels /\ a.kwami = s.kwami /\ a.number = s.number /\ a.sale \in LineSales /\ SoldAs(a.sale, s.number)
    BY <1>4, <2>2 DEF ChannelRow, LineInv, RowsOK
  <2>8. PICK sale \in LineSales : sale = a.sale
    BY <2>7
  <2>9. PICK r : r = [s EXCEPT !.at = at, !.sale = sale, !.rows = rows, !.trunkSale = trunkSale]
    OBVIOUS
  <2>10. /\ r \in LineRow /\ r.at = at /\ r.clean = s.clean /\ r.alone = s.alone /\ r.saving = s.saving
         /\ r.kind = s.kind /\ r.sale = sale /\ r.number = s.number /\ r.kwami = s.kwami
         /\ r.rows = rows /\ r.provider = s.provider /\ r.left = s.left /\ r.trunkSale = trunkSale
    BY <2>6, <2>9 DEF LineRow, LinePcs
  <2>11. line' = [line EXCEPT ![j] = r]
    BY <1>1, <2>1, <2>3, <2>4, <2>5, <2>6, <2>8, <2>9
  <2>12. SoldAs(r.sale, r.number)
    BY <2>7, <2>8, <2>10
  <2>13. rows = {c \in channels : c.kwami = s.kwami /\ c.number = s.number /\ c.sale = sale}
    BY <1>4, <2>3, <2>8
  <2>14. LineOK(j, r)
    BY <1>2, <1>3, <2>6, <2>10, <2>12, <2>13 DEF LineOK, Releasing
  <2>15. Trunks \ Pending(r.left) = {}
    BY <1>3, <2>10, LeftFacts
  <2>16. AloneRelease(r)'
    BY <1>0, <2>6, <2>10, <2>13, <2>15 DEF AloneRelease
  <2>17. /\ owned' \in [Numbers -> LineSales] /\ trunk' \in [Trunks -> SUBSET Numbers]
         /\ attached' \in SUBSET LineSales
         /\ \A n \in Numbers : owned'[n] # NoSale => SoldAs(owned'[n], n)
    BY <1>0, SameTables
  <2>18. r.kind # "purchase" /\ s.at = "anchor" /\ r.alone = s.alone /\ r.saving = s.saving /\ r \in LineRow
    BY <1>2, <2>10
  <2> QED BY <1>0, <1>1, <1>2, <2>11, <2>14, <2>16, <2>17, <2>18, QuietRequest
<1> QED BY <1>5, <1>6 DEF FindLine

LEMMA DetachInv == ASSUME LineInv, NEW j \in LineJobs, Detach(j) PROVE LineInv'
<1>0. LineAt(j, "detach") /\ UNCHANGED <<owned, trunk, channels>>
  BY DEF Detach
<1>1. PICK s \in LineRow : s = line[j]
  BY <1>0, RunningFacts
<1>2. /\ Running(j) /\ s.at = "detach" /\ LineOK(j, s) /\ s.saving = 1 /\ s.kind = "release" /\ s.provider
      /\ s.alone => AloneOK(j, s)
  <2>1. /\ Running(j) /\ s.at = "detach" /\ LineOK(j, s)
        /\ s.alone => AloneOK(j, s)
    BY <1>0, <1>1, RunningFacts
  <2>2. s.kind \in {"purchase", "release"}
    BY DEF LineRow
  <2> QED BY <2>1, <2>2 DEF LineOK, Buying
<1>3. attached \in SUBSET LineSales
  BY DEF LineInv, LineTypes
<1>4. PICK clean \in BOOLEAN :
         /\ line' = [line EXCEPT ![j].at = "release", ![j].clean = clean]
         /\ attached' \in SUBSET LineSales
         /\ clean => s.clean
         /\ clean => s.trunkSale \notin attached'
  <2>1. CASE attached' = attached \ {line[j].trunkSale} /\ LineGo(j, "release")
    <3>1. s.clean \in BOOLEAN /\ [s EXCEPT !.at = "release"] = [s EXCEPT !.at = "release", !.clean = s.clean]
      BY DEF LineRow
    <3>2. line' = [line EXCEPT ![j] = [s EXCEPT !.at = "release"]]
      BY <1>1, <2>1 DEF LineGo
    <3>3. line' = [line EXCEPT ![j].at = "release", ![j].clean = s.clean]
      BY <1>1, <3>1, <3>2
    <3>4. attached' \in SUBSET LineSales /\ s.trunkSale \notin attached'
      BY <1>1, <1>3, <2>1
    <3> QED BY <3>1, <3>3, <3>4
  <2>2. CASE attached' = attached /\ line' = [line EXCEPT ![j].at = "release", ![j].clean = FALSE]
    BY <1>3, <2>2
  <2> QED BY <2>1, <2>2 DEF Detach
<1>5. PICK r : r = [s EXCEPT !.at = "release", !.clean = clean]
  OBVIOUS
<1>6. /\ r \in LineRow /\ r.at = "release" /\ r.clean = clean /\ r.alone = s.alone /\ r.saving = s.saving
      /\ r.kind = s.kind /\ r.sale = s.sale /\ r.number = s.number /\ r.kwami = s.kwami
      /\ r.rows = s.rows /\ r.provider = s.provider /\ r.left = s.left /\ r.trunkSale = s.trunkSale
  BY <1>5 DEF LineRow, LinePcs
<1>7. line' = [line EXCEPT ![j] = r]
  BY <1>1, <1>4, <1>5
<1>8. LineOK(j, r)
  BY <1>2, <1>6 DEF LineOK, Releasing
<1>9. ASSUME r.alone PROVE AloneRelease(r)'
  <2>1. AloneRelease(s)
    BY <1>2, <1>6, <1>9 DEF AloneOK
  <2> QED BY <1>0, <1>2, <1>4, <1>6, <2>1 DEF AloneRelease
<1>10. attached' \in SUBSET LineSales
  BY <1>4
<1>11. /\ owned' \in [Numbers -> LineSales] /\ trunk' \in [Trunks -> SUBSET Numbers]
       /\ \A n \in Numbers : owned'[n] # NoSale => SoldAs(owned'[n], n)
  BY <1>0, SameTables
<1>12. r.kind # "purchase" /\ s.at = "detach"
  BY <1>2, <1>6
<1> QED BY <1>0, <1>1, <1>2, <1>6, <1>7, <1>8, <1>9, <1>10, <1>11, <1>12, QuietRequest

LEMMA ReleaseInv == ASSUME LineInv, NEW j \in LineJobs, Release(j) PROVE LineInv'
<1>0. LineAt(j, "release") /\ UNCHANGED <<attached, trunk, channels>>
  BY DEF Release
<1>1. PICK s \in LineRow : s = line[j]
  BY <1>0, RunningFacts
<1>2. /\ Running(j) /\ s.at = "release" /\ LineOK(j, s) /\ s.saving = 1 /\ s.kind = "release" /\ s.provider
      /\ s.alone => AloneOK(j, s)
  <2>1. /\ Running(j) /\ s.at = "release" /\ LineOK(j, s)
        /\ s.alone => AloneOK(j, s)
    BY <1>0, <1>1, RunningFacts
  <2>2. s.kind \in {"purchase", "release"}
    BY DEF LineRow
  <2> QED BY <2>1, <2>2 DEF LineOK, Buying
<1>3. CASE /\ owned' = [n \in Numbers |-> IF owned[n] = line[j].sale THEN NoSale ELSE owned[n]]
           /\ LineGo(j, "delete")
  <2>1. PICK r : r = [s EXCEPT !.at = "delete"]
    OBVIOUS
  <2>2. /\ r \in LineRow /\ r.at = "delete" /\ r.clean = s.clean /\ r.alone = s.alone /\ r.saving = s.saving
        /\ r.kind = s.kind /\ r.sale = s.sale /\ r.number = s.number /\ r.kwami = s.kwami
        /\ r.rows = s.rows /\ r.provider = s.provider /\ r.left = s.left /\ r.trunkSale = s.trunkSale
    BY <2>1 DEF LineRow, LinePcs
  <2>3. line' = [line EXCEPT ![j] = r]
    BY <1>1, <1>3, <2>1 DEF LineGo
  <2>4. LineOK(j, r)
    BY <1>2, <2>2 DEF LineOK, Releasing
  <2>5. NoSale \in LineSales /\ owned \in [Numbers -> LineSales]
    BY DEF LineInv, LineTypes, LineSales
  <2>6. owned' \in [Numbers -> LineSales]
    BY <1>3, <2>5
  <2>7. \A n \in Numbers : owned'[n] # NoSale => SoldAs(owned'[n], n)
    BY <1>3 DEF LineInv, RowsOK
  <2>8. s.sale # NoSale
    <3>1. SoldAs(s.sale, s.number) /\ s.number \in Numbers
      BY <1>2 DEF LineOK, LineRow
    <3> QED BY <3>1, LineAssumption DEF SoldAs, NoSale
  <2>9. \A n \in Numbers : owned'[n] # s.sale
    BY <1>1, <1>3, <2>8
  <2>10. ASSUME r.alone PROVE AloneRelease(r)'
    <3>1. AloneRelease(s)
      BY <1>2, <2>2, <2>10 DEF AloneOK
    <3> QED BY <1>0, <1>2, <2>2, <2>9, <3>1 DEF AloneRelease
  <2>11. attached' \in SUBSET LineSales /\ trunk' \in [Trunks -> SUBSET Numbers]
    BY <1>0, SameTables
  <2>12. r.kind # "purchase" /\ s.at = "release"
    BY <1>2, <2>2
  <2> QED BY <1>0, <1>1, <1>2, <2>2, <2>3, <2>4, <2>6, <2>7, <2>10, <2>11, <2>12, QuietRequest
<1>4. CASE LineEnd(j, "not released") /\ UNCHANGED owned
  BY <1>0, <1>2, <1>4, EndsInv
<1> QED BY <1>3, <1>4 DEF Release

\* A request that ends with rows deleted or the last one written.
LEMMA EndsWithRows ==
    ASSUME LineInv, NEW j \in LineJobs, Running(j), LineEnd(j, "ok"), UNCHANGED <<owned, attached, trunk>>,
           channels' \in SUBSET ChannelRow, RowsOK',
           \A c \in channels' : (\E d \in channels : d.id = c.id) \/ c.id[1] = j
    PROVE  LineInv'
<1>1. line \in [LineJobs -> LineRow \cup {Absent}]
  BY DEF LineInv, LineTypes
<1>2. Absent.at = "absent"
  BY DEF Absent
<1>3. PICK s \in LineRow : s = line[j]
  BY <1>1, <1>2 DEF Running, LineAt
<1>4. PICK r : r = [s EXCEPT !.at = "ended", !.why = "ok"]
  OBVIOUS
<1>5. r \in LineRow /\ r.at = "ended" /\ r.alone = s.alone
  BY <1>4 DEF LineRow, LinePcs
<1>6. line' = [line EXCEPT ![j] = r]
  BY <1>3, <1>4 DEF LineEnd
<1>7. MadeBefore(j, r)'
  BY <1>5 DEF MadeBefore
<1>8. /\ owned' \in [Numbers -> LineSales] /\ attached' \in SUBSET LineSales
      /\ trunk' \in [Trunks -> SUBSET Numbers]
  BY SameTables
<1> QED BY <1>3, <1>5, <1>6, <1>7, <1>8, RequestStep

LEMMA DeleteRowsInv == ASSUME LineInv, NEW j \in LineJobs, DeleteRows(j) PROVE LineInv'
<1>0. LineAt(j, "delete") /\ UNCHANGED <<owned, attached, trunk>> /\ Running(j)
  BY RunningFacts DEF DeleteRows
<1>1. CASE channels' = {c \in channels : \A r \in line[j].rows : c.id # r.id} /\ LineEnd(j, "ok")
  <2>1. channels' \subseteq channels
    BY <1>1
  <2>2. channels' \in SUBSET ChannelRow
    BY <2>1 DEF LineInv, LineTypes
  <2>3. RowsOK'
    BY <1>0, <2>1 DEF LineInv, RowsOK
  <2> QED BY <1>0, <1>1, <2>1, <2>2, <2>3, EndsWithRows
<1>2. CASE LineEnd(j, "failed") /\ UNCHANGED channels
  BY <1>0, <1>2, EndsInv
<1> QED BY <1>1, <1>2 DEF DeleteRows

\* What upsert_channel writes for a kind (SaveChannel): the row looked up, or a new one.
SavedId(j) ==
    LET ids == {c.id : c \in line[j].old}
    IN IF ids = {} THEN <<j, line[j].number, line[j].saving>> ELSE CHOOSE i \in ids : TRUE
SavedRow(j) ==
    LET kind == ChannelKinds[line[j].saving]
    IN Row(SavedId(j), line[j].kwami, kind, line[j].number, line[j].sale,
           IF kind = "voice_phone" THEN line[j].trunkSale ELSE NoSale,
           kind = "voice_phone" /\ line[j].outbound)
OtherRows(j) == {c \in channels : c.id # SavedId(j)}
GoneRow(j) == {c.id : c \in line[j].old} # {} /\ OtherRows(j) = channels
ClashingRow(j) ==
    /\ ~GoneRow(j)
    /\ \E c \in OtherRows(j) : Clashes(c, line[j].kwami, ChannelKinds[line[j].saving], line[j].number)

LEMMA SaveCases ==
    ASSUME NEW j \in LineJobs, SaveChannel(j)
    PROVE  /\ LineAt(j, "save") /\ UNCHANGED <<owned, attached, trunk>>
           /\ \/ /\ ~ClashingRow(j)
                 /\ channels' = IF GoneRow(j) THEN channels ELSE OtherRows(j) \cup {SavedRow(j)}
                 /\ IF line[j].saving = 3 THEN LineEnd(j, "ok")
                    ELSE line' = [line EXCEPT ![j].at = "find", ![j].saving = @ + 1]
              \/ LineEnd(j, "clash") /\ UNCHANGED channels
              \/ LineEnd(j, "failed") /\ UNCHANGED channels
BY DEF SaveChannel, ClashingRow, GoneRow, OtherRows, SavedRow, SavedId

\* The row written keeps its place; it is one of its kind and number, and while the
\* request is alone the rows of the earlier rounds are there as well.
LEMMA SavedFacts ==
    ASSUME LineInv, NEW j \in LineJobs, LineAt(j, "save"), NEW s \in LineRow, s = line[j], ~ClashingRow(j),
           channels' = IF GoneRow(j) THEN channels ELSE OtherRows(j) \cup {SavedRow(j)},
           UNCHANGED owned
    PROVE  /\ channels' \in SUBSET ChannelRow /\ RowsOK'
           /\ \A c \in channels' : (\E d \in channels : d.id = c.id) \/ c.id[1] = j
           /\ \A c \in channels' : c.id[1] = j => c.id[3] <= s.saving
           /\ s.alone => \A i \in 1..s.saving : \E c \in channels' :
                 /\ c.kind = ChannelKinds[i] /\ c.number = s.number
                 /\ c.kwami = s.kwami /\ c.sale = s.sale
<1>1. /\ s.at = "save" /\ LineOK(j, s) /\ s.kind = "purchase"
      /\ s.alone => AlonePurchase(s)
  <2>1. /\ s.at = "save" /\ LineOK(j, s)
        /\ s.alone => AloneOK(j, s)
    BY RunningFacts
  <2>2. s.kind \in {"purchase", "release"}
    BY DEF LineRow
  <2>3. s.kind = "purchase"
    BY <2>1, <2>2 DEF LineOK, Releasing
  <2> QED BY <2>1, <2>3 DEF AloneOK
<1>2. /\ s.sale = <<j, s.number>> /\ s.number \in Numbers /\ s.saving \in 1..3 /\ s.kwami \in Kwamis
      /\ s.sale \in LineSales /\ s.trunkSale \in LineSales /\ s.outbound \in BOOLEAN
      /\ s.old \in SUBSET ChannelRow
  BY <1>1 DEF LineOK, LineRow
<1>3. /\ ChannelKinds[1] = "voice_phone" /\ ChannelKinds[2] = "whatsapp" /\ ChannelKinds[3] = "sms"
      /\ ChannelKinds[s.saving] \in LineKinds
  BY <1>2 DEF ChannelKinds, LineKinds
<1>4. PICK kind \in LineKinds : kind = ChannelKinds[s.saving]
  BY <1>3
<1>5. channels \in SUBSET ChannelRow
  BY DEF LineInv, LineTypes
<1>6. \A c \in channels : c.id[1] = j => c.id[3] < s.saving
  BY <1>1 DEF LineInv, MadeBefore
<1>7. \/ SavedId(j) = <<j, s.number, s.saving>> /\ s.old = {} /\ ~GoneRow(j)
      \/ \E c \in s.old : SavedId(j) = c.id /\ s.old = {c} /\ c.kind = kind
  <2>1. CASE s.old = {}
    <3>1. {c.id : c \in line[j].old} = {}
      BY <2>1
    <3> QED BY <2>1, <3>1 DEF SavedId, GoneRow
  <2>2. CASE s.old # {}
    <3>1. PICK c \in s.old : s.old = {c} /\ c.kind = ChannelKinds[s.saving]
      BY <1>1, <2>2 DEF LineOK
    <3>2. {d.id : d \in line[j].old} = {c.id}
      BY <3>1
    <3>3. SavedId(j) = c.id
      BY <3>2 DEF SavedId
    <3> QED BY <1>4, <3>1, <3>3
  <2> QED BY <2>1, <2>2
<1>8. PICK id \in RowIds : id = SavedId(j)
  <2>1. <<j, s.number, s.saving>> \in RowIds
    BY <1>2 DEF RowIds
  <2>2. \A c \in s.old : c.id \in RowIds
    BY <1>2 DEF ChannelRow
  <2> QED BY <1>7, <2>1, <2>2
<1>9. PICK new \in ChannelRow : /\ new = SavedRow(j) /\ new.id = id /\ new.kwami = s.kwami
                               /\ new.kind = kind /\ new.number = s.number /\ new.sale = s.sale
  <2>1. PICK trunkSale \in LineSales : trunkSale = IF kind = "voice_phone" THEN s.trunkSale ELSE NoSale
    BY <1>2 DEF LineSales
  <2>2. PICK out \in BOOLEAN : out = (kind = "voice_phone" /\ s.outbound)
    BY <1>2
  <2>3. PICK new : new = [id |-> id, kwami |-> s.kwami, kind |-> kind, number |-> s.number, sale |-> s.sale,
                          trunkSale |-> trunkSale, outbound |-> out]
    OBVIOUS
  <2>4. new = SavedRow(j)
    BY <1>4, <1>8, <2>1, <2>2, <2>3 DEF SavedRow, Row
  <2>5. new \in ChannelRow
    BY <1>2, <2>3 DEF ChannelRow
  <2> QED BY <2>3, <2>4, <2>5
<1>10. PICK others \in SUBSET channels : others = OtherRows(j) /\ others = {c \in channels : c.id # id}
  BY <1>8 DEF OtherRows
<1>11. channels' = IF GoneRow(j) THEN channels ELSE others \cup {new}
  BY <1>9, <1>10
<1>12. channels' \in SUBSET ChannelRow
  BY <1>5, <1>9, <1>10, <1>11
<1>13. ~GoneRow(j) => \A c \in others : ~(c.kind = kind /\ c.number = s.number)
  BY <1>4, <1>10 DEF ClashingRow, Clashes
<1>14. RowsOK'
  <2>1. \A n \in Numbers : owned'[n] # NoSale => SoldAs(owned'[n], n)
    BY DEF LineInv, RowsOK
  <2>2. SoldAs(s.sale, s.number)
    BY <1>2 DEF SoldAs
  <2>3. \A c \in channels : SoldAs(c.sale, c.number)
    BY DEF LineInv, RowsOK
  <2>4. \A c \in channels' : SoldAs(c.sale, c.number)
    BY <1>9, <1>10, <1>11, <2>2, <2>3
  <2>5. \A c, d \in channels : c.id = d.id \/ (c.kind = d.kind /\ c.number = d.number) => c = d
    BY DEF LineInv, RowsOK
  <2>6. \A c, d \in channels' : c.id = d.id \/ (c.kind = d.kind /\ c.number = d.number) => c = d
    BY <1>9, <1>10, <1>11, <1>13, <2>5
  <2> QED BY <2>1, <2>4, <2>6 DEF RowsOK
<1>15. ~GoneRow(j) => (\E d \in channels : d.id = id) \/ id = <<j, s.number, s.saving>>
  <2> SUFFICES ASSUME ~GoneRow(j), id # <<j, s.number, s.saving>> PROVE \E d \in channels : d.id = id
    OBVIOUS
  <2>1. PICK c \in s.old : s.old = {c}
    BY <1>7, <1>8
  <2>2. c.id \in {d.id : d \in line[j].old}
    BY <2>1
  <2>3. others # channels
    BY <1>10, <2>2 DEF GoneRow
  <2> QED BY <1>10, <2>3
<1>16. \A c \in channels' : (\E d \in channels : d.id = c.id) \/ c.id[1] = j
  BY <1>9, <1>10, <1>11, <1>15
<1>17. ASSUME NEW c \in channels', c.id[1] = j PROVE c.id[3] <= s.saving
  <2>1. CASE \E d \in channels : d.id = c.id
    <3>1. PICK d \in channels : d.id = c.id
      BY <2>1
    <3>2. d.id[3] < s.saving /\ d.id \in RowIds
      BY <1>5, <1>6, <1>17, <3>1 DEF ChannelRow
    <3> QED BY <1>2, <3>1, <3>2 DEF RowIds
  <2>2. CASE c.id = <<j, s.number, s.saving>>
    BY <1>2, <2>2
  <2> QED BY <1>9, <1>10, <1>11, <1>15, <2>1, <2>2
<1>18. ASSUME s.alone
       PROVE  ~GoneRow(j) /\ \A c \in channels : c.id = id => c.kind = kind
  <2>1. s.old \subseteq channels
    BY <1>1, <1>18 DEF AlonePurchase
  <2>2. CASE SavedId(j) = <<j, s.number, s.saving>> /\ s.old = {} /\ ~GoneRow(j)
    <3>1. ASSUME NEW c \in channels, c.id = id PROVE FALSE
      <4>1. c.id[1] = j /\ c.id[3] = s.saving
        BY <1>8, <2>2, <3>1
      <4> QED BY <1>2, <1>6, <4>1
    <3> QED BY <2>2, <3>1
  <2>3. CASE \E c \in s.old : SavedId(j) = c.id /\ s.old = {c} /\ c.kind = kind
    <3>1. PICK c \in s.old : SavedId(j) = c.id /\ c.kind = kind
      BY <2>3
    <3>2. c \in channels /\ c \notin others
      BY <1>8, <1>10, <2>1, <3>1
    <3>3. ~GoneRow(j)
      BY <1>10, <3>2 DEF GoneRow
    <3> QED BY <1>8, <3>1, <3>2, <3>3 DEF LineInv, RowsOK
  <2> QED BY <1>7, <2>2, <2>3
<1>19. ASSUME s.alone, NEW i \in 1..s.saving
       PROVE  \E c \in channels' : /\ c.kind = ChannelKinds[i] /\ c.number = s.number
                                   /\ c.kwami = s.kwami /\ c.sale = s.sale
  <2>1. CASE i = s.saving
    BY <1>4, <1>9, <1>11, <1>18, <1>19, <2>1
  <2>2. CASE i # s.saving
    <3>1. i \in 1..(s.saving - 1)
      BY <1>2, <2>2
    <3>2. PICK c \in channels : /\ c.kind = ChannelKinds[i] /\ c.number = s.number
                               /\ c.kwami = s.kwami /\ c.sale = s.sale
      BY <1>1, <1>19, <3>1 DEF AlonePurchase
    <3>3. ChannelKinds[i] # kind
      <4>1. s.saving \in {1, 2, 3} /\ i \in {1, 2, 3}
        BY <1>2
      <4> QED BY <1>3, <1>4, <2>2, <4>1
    <3>4. c \in channels'
      BY <1>10, <1>11, <1>18, <1>19, <3>2, <3>3
    <3> QED BY <3>2, <3>4
  <2> QED BY <2>1, <2>2
<1> QED BY <1>12, <1>14, <1>16, <1>17, <1>19

LEMMA SaveChannelInv == ASSUME LineInv, NEW j \in LineJobs, SaveChannel(j) PROVE LineInv'
<1>0. LineAt(j, "save") /\ UNCHANGED <<owned, attached, trunk>>
  BY SaveCases
<1>1. PICK s \in LineRow : s = line[j]
  BY <1>0, RunningFacts
<1>2. /\ Running(j) /\ s.at = "save" /\ LineOK(j, s)
      /\ s.alone => AloneOK(j, s)
  BY <1>0, <1>1, RunningFacts
<1>3. s.kind = "purchase" /\ s.saving \in 1..3
  BY <1>2 DEF LineOK, LineRow, Releasing
<1>4. CASE /\ ~ClashingRow(j)
           /\ channels' = IF GoneRow(j) THEN channels ELSE OtherRows(j) \cup {SavedRow(j)}
           /\ IF line[j].saving = 3 THEN LineEnd(j, "ok")
              ELSE line' = [line EXCEPT ![j].at = "find", ![j].saving = @ + 1]
  <2>1. /\ channels' \in SUBSET ChannelRow /\ RowsOK'
        /\ \A c \in channels' : (\E d \in channels : d.id = c.id) \/ c.id[1] = j
        /\ \A c \in channels' : c.id[1] = j => c.id[3] <= s.saving
        /\ s.alone => \A i \in 1..s.saving : \E c \in channels' :
              /\ c.kind = ChannelKinds[i] /\ c.number = s.number
              /\ c.kwami = s.kwami /\ c.sale = s.sale
    <3>1. UNCHANGED owned
      BY <1>0
    <3>2. ~ClashingRow(j) /\ channels' = IF GoneRow(j) THEN channels ELSE OtherRows(j) \cup {SavedRow(j)}
      BY <1>4
    <3>3. LineAt(j, "save") /\ s = line[j]
      BY <1>0, <1>1
    <3> QED BY <3>1, <3>2, <3>3, SavedFacts
  <2>2. CASE s.saving = 3
    BY <1>0, <1>1, <1>2, <1>4, <2>1, <2>2, EndsWithRows
  <2>3. CASE s.saving # 3
    <3>1. PICK saving \in 1..3 : saving = s.saving + 1
      BY <1>3, <2>3
    <3>2. PICK r : r = [s EXCEPT !.at = "find", !.saving = saving]
      OBVIOUS
    <3>3. /\ r \in LineRow /\ r.at = "find" /\ r.clean = s.clean /\ r.alone = s.alone /\ r.saving = saving
          /\ r.kind = s.kind /\ r.sale = s.sale /\ r.number = s.number /\ r.left = s.left
          /\ r.kwami = s.kwami
      BY <3>1, <3>2 DEF LineRow, LinePcs
    <3>4. line' = [line EXCEPT ![j] = r]
      BY <1>1, <1>4, <2>3, <3>1, <3>2
    <3>5. LineOK(j, r)
      BY <1>2, <1>3, <3>3 DEF LineOK, Buying
    <3>6. MadeBefore(j, r)'
      <4>1. \A c \in channels' : c.id[3] \in Nat
        BY <2>1 DEF ChannelRow, RowIds
      <4> QED BY <1>3, <2>1, <3>1, <3>3, <4>1 DEF MadeBefore
    <3>7. ASSUME r.alone PROVE AlonePurchase(r)'
      <4>1. AlonePurchase(s)
        BY <1>2, <1>3, <3>3, <3>7 DEF AloneOK
      <4>2. saving - 1 = s.saving
        BY <1>3, <3>1
      <4>3. \A i \in 1..(r.saving - 1) : \E c \in channels' :
              /\ c.kind = ChannelKinds[i] /\ c.number = r.number
              /\ c.kwami = r.kwami /\ c.sale = r.sale
        BY <2>1, <3>3, <3>7, <4>2
      <4> QED BY <1>0, <1>2, <3>3, <4>1, <4>3 DEF AlonePurchase
    <3>8. /\ owned' \in [Numbers -> LineSales] /\ attached' \in SUBSET LineSales
          /\ trunk' \in [Trunks -> SUBSET Numbers]
      BY <1>0, SameTables
    <3> QED BY <1>1, <1>2, <1>3, <2>1, <3>3, <3>4, <3>5, <3>6, <3>7, <3>8, RequestStep
  <2> QED BY <2>2, <2>3
<1>5. CASE (LineEnd(j, "clash") \/ LineEnd(j, "failed")) /\ UNCHANGED channels
  BY <1>0, <1>2, <1>5, EndsInv
<1> QED BY <1>4, <1>5, SaveCases

LEMMA LineNextInv == LineInv /\ [LineNext]_lineVars => LineInv'
<1> SUFFICES ASSUME LineInv, [LineNext]_lineVars PROVE LineInv'
  OBVIOUS
<1>1. CASE UNCHANGED lineVars
  BY <1>1 DEF lineVars, LineInv, LineTypes, RowsOK, MadeBefore, Running, LineAt, LineOK, AloneOK, AlonePurchase,
     AloneRelease
<1>2. ASSUME NEW j \in LineJobs, LineStep(j) PROVE LineInv'
  BY <1>2, LineStartInv, ReadTrunkInv, WriteTrunkInv, BuyInv, AttachInv, LookUpChannelInv, SaveChannelInv,
     FindLineInv, DetachInv, ReleaseInv, DeleteRowsInv DEF LineStep
<1> QED BY <1>1, <1>2 DEF LineNext

---------------------------------------------------------------------------
(* Phone lines: what follows *)

LEMMA LineInvImplies == LineInv => LinesTypeOK
<1> SUFFICES ASSUME LineInv PROVE LinesTypeOK
  OBVIOUS
<1>1. \A n \in Numbers : owned[n] # NoSale => owned[n][2] = n
  BY DEF LineInv, RowsOK, SoldAs
<1>2. \A t \in Trunks : trunk[t] \subseteq Numbers
  BY DEF LineInv, LineTypes
<1>3. \A c, d \in channels : c.kind = d.kind /\ c.number = d.number => c = d
  BY DEF LineInv, RowsOK
<1>4. \A c \in channels : c.sale[2] = c.number
  BY DEF LineInv, RowsOK, SoldAs
<1>5. ASSUME NEW j \in LineJobs, Running(j)
      PROVE  /\ line[j].sale # NoSale => line[j].sale[2] = line[j].number
             /\ line[j].saving \in 1..3
             /\ line[j].left \in {<<>>, <<"inbound">>, <<"outbound", "inbound">>}
  <2>1. LineOK(j, line[j]) /\ line[j] \in LineRow
    BY <1>5, RunningFacts DEF Running, LineAt
  <2>2. line[j].left \in {<<>>, <<"inbound">>, <<"outbound", "inbound">>}
    BY <2>1 DEF LineRow, Lefts
  <2>3. line[j].saving \in 1..3 /\ line[j].kind \in {"purchase", "release"}
    BY <2>1 DEF LineRow
  <2>4. line[j].sale # NoSale => line[j].sale[2] = line[j].number
    BY <2>1, <2>3 DEF LineOK, SoldAs
  <2> QED BY <2>2, <2>3, <2>4
<1> QED BY <1>1, <1>2, <1>3, <1>4, <1>5 DEF LinesTypeOK

\* Only what the request does itself ends it.
LEMMA OthersGoOn ==
    ASSUME LineInv, NEW i \in LineJobs, LineStep(i), NEW j \in LineJobs, j # i
    PROVE  line'[j].at = line[j].at
<1>1. line \in [LineJobs -> LineRow \cup {Absent}]
  BY DEF LineInv, LineTypes
<1>2. CASE LineStart(i)
  <2>1. PICK m \in LineMenu :
         line' = [k \in LineJobs |->
             IF k = i THEN [LineArrived(m) EXCEPT !.alone = \A o \in LineJobs : ~Running(o)]
             ELSE IF Running(k) THEN [line[k] EXCEPT !.alone = FALSE] ELSE line[k]]
    BY <1>2 DEF LineStart
  <2>2. CASE Running(j)
    <3>1. line[j] \in LineRow
      BY <2>2, RunningFacts DEF Running, LineAt
    <3> QED BY <2>1, <2>2, <3>1 DEF LineRow
  <2>3. CASE ~Running(j)
    BY <2>1, <2>3
  <2> QED BY <2>2, <2>3
<1>3. /\ \A pc : LineGo(i, pc) => line'[j] = line[j]
      /\ \A why : LineEnd(i, why) => line'[j] = line[j]
      /\ TrunkFails(i) => line'[j] = line[j]
  BY <1>1 DEF LineGo, LineEnd, TrunkFails
<1>4. CASE ReadTrunk(i)
  BY <1>1, <1>3, <1>4 DEF ReadTrunk
<1>5. CASE WriteTrunk(i)
  BY <1>1, <1>3, <1>5 DEF WriteTrunk
<1>6. CASE Buy(i) \/ Attach(i)
  BY <1>1, <1>3, <1>6 DEF Buy, Attach
<1>7. CASE LookUpChannel(i)
  BY <1>1, <1>3, <1>7 DEF LookUpChannel
<1>8. CASE SaveChannel(i)
  BY <1>1, <1>3, <1>8, SaveCases
<1>9. CASE FindLine(i)
  BY <1>1, <1>3, <1>9 DEF FindLine
<1>10. CASE Detach(i) \/ Release(i) \/ DeleteRows(i)
  BY <1>1, <1>3, <1>10 DEF Detach, Release, DeleteRows
<1> QED BY <1>2, <1>4, <1>5, <1>6, <1>7, <1>8, <1>9, <1>10 DEF LineStep

\* The state of a row that is changed.
LEMMA AtOf ==
    ASSUME NEW s \in LineRow, NEW pc, NEW u, NEW v, NEW w
    PROVE  /\ [s EXCEPT !.at = pc].at = pc
           /\ [s EXCEPT !.left = u].at = s.at
           /\ [s EXCEPT !.list = u, !.at = pc].at = pc
           /\ [s EXCEPT !.at = pc, !.outbound = u, !.clean = v].at = pc
           /\ [s EXCEPT !.at = pc, !.left = u, !.outbound = v].at = pc
           /\ [s EXCEPT !.at = pc, !.sale = u].at = pc
           /\ [s EXCEPT !.at = pc, !.trunkSale = u].at = pc
           /\ [s EXCEPT !.at = pc, !.clean = u].at = pc
           /\ [s EXCEPT !.at = pc, !.old = u].at = pc
           /\ [s EXCEPT !.at = pc, !.saving = u].at = pc
           /\ [s EXCEPT !.at = pc, !.sale = u, !.rows = v, !.trunkSale = w].at = pc
           /\ [s EXCEPT !.at = "ended", !.why = u].why = u
           /\ [s EXCEPT !.at = "ended", !.why = u].clean = s.clean
           /\ [s EXCEPT !.at = "ended", !.why = u].alone = s.alone
<1>1. [s EXCEPT !.at = pc].at = pc
  BY DEF LineRow
<1>2. [s EXCEPT !.left = u].at = s.at
  BY DEF LineRow
<1>3. [s EXCEPT !.list = u, !.at = pc].at = pc
  BY DEF LineRow
<1>4. [s EXCEPT !.at = pc, !.outbound = u, !.clean = v].at = pc
  BY DEF LineRow
<1>5. [s EXCEPT !.at = pc, !.left = u, !.outbound = v].at = pc
  BY DEF LineRow
<1>6. [s EXCEPT !.at = pc, !.sale = u].at = pc
  BY DEF LineRow
<1>7. [s EXCEPT !.at = pc, !.trunkSale = u].at = pc
  BY DEF LineRow
<1>8. [s EXCEPT !.at = pc, !.clean = u].at = pc
  BY DEF LineRow
<1>9. [s EXCEPT !.at = pc, !.old = u].at = pc
  BY DEF LineRow
<1>10. [s EXCEPT !.at = pc, !.saving = u].at = pc
  BY DEF LineRow
<1>11. [s EXCEPT !.at = pc, !.sale = u, !.rows = v, !.trunkSale = w].at = pc
  BY DEF LineRow
<1>12. [s EXCEPT !.at = "ended", !.why = u].why = u
  BY DEF LineRow
<1>13. [s EXCEPT !.at = "ended", !.why = u].clean = s.clean
  BY DEF LineRow
<1>14. [s EXCEPT !.at = "ended", !.why = u].alone = s.alone
  BY DEF LineRow
<1> QED BY <1>1, <1>2, <1>3, <1>4, <1>5, <1>6, <1>7, <1>8, <1>9, <1>10, <1>11, <1>12, <1>13, <1>14

\* Where a request is after a step that does not end it, and why one that does ended.
LEMMA EndedSo ==
    ASSUME LineInv, NEW j \in LineJobs, Running(j), line'[j].at = "ended"
    PROVE  /\ \A why : LineEnd(j, why) => /\ line'[j].why = why /\ line'[j].clean = line[j].clean
                                         /\ line'[j].alone = line[j].alone
           /\ \A pc : LineGo(j, pc) => pc = "ended"
           /\ ~TrunkFails(j)
           /\ line' # [line EXCEPT ![j].at = "find", ![j].saving = @ + 1]
<1>1. line \in [LineJobs -> LineRow \cup {Absent}] /\ line[j] \in LineRow
  BY RunningFacts DEF Running, LineAt, LineInv, LineTypes
<1>2. PICK s \in LineRow : s = line[j]
  BY <1>1
<1>3. ASSUME NEW why, LineEnd(j, why)
      PROVE  line'[j].why = why /\ line'[j].clean = line[j].clean /\ line'[j].alone = line[j].alone
  <2>1. line'[j] = [s EXCEPT !.at = "ended", !.why = why]
    BY <1>1, <1>2, <1>3 DEF LineEnd
  <2> QED BY <1>2, <2>1, AtOf
<1>4. ASSUME NEW pc, LineGo(j, pc) PROVE pc = "ended"
  <2>1. line'[j] = [s EXCEPT !.at = pc]
    BY <1>1, <1>2, <1>4 DEF LineGo
  <2> QED BY <2>1, AtOf
<1>5. ~TrunkFails(j)
  <2> SUFFICES ASSUME TrunkFails(j) PROVE FALSE
    OBVIOUS
  <2>1. line'[j] = [s EXCEPT !.at = AfterTrunks(j), !.outbound = FALSE, !.clean = FALSE]
    BY <1>1, <1>2 DEF TrunkFails
  <2>2. AfterTrunks(j) # "ended"
    BY DEF AfterTrunks
  <2> QED BY <2>1, <2>2, AtOf
<1>6. line' # [line EXCEPT ![j].at = "find", ![j].saving = @ + 1]
  <2> SUFFICES ASSUME line' = [line EXCEPT ![j].at = "find", ![j].saving = @ + 1] PROVE FALSE
    OBVIOUS
  <2>1. PICK saving : saving = s.saving + 1
    OBVIOUS
  <2>2. line'[j] = [s EXCEPT !.at = "find", !.saving = saving]
    BY <1>1, <1>2, <2>1
  <2>3. [s EXCEPT !.at = "find", !.saving = saving].at = "find"
    BY <1>2, AtOf
  <2>4. line'[j].at = "find"
    BY <2>2, <2>3
  <2> QED BY <2>4
<1> QED BY <1>3, <1>4, <1>5, <1>6

\* A request ends well with its last row saved or its rows deleted.
LEMMA EndsWell ==
    ASSUME LineInv, LineNext, NEW j \in LineJobs, Running(j), line'[j].at = "ended", line'[j].why = "ok"
    PROVE  SaveChannel(j) \/ DeleteRows(j)
<1>1. PICK i \in LineJobs : LineStep(i)
  BY DEF LineNext
<1>2. i = j
  BY <1>1, OthersGoOn DEF Running, LineAt
<1>3. line \in [LineJobs -> LineRow \cup {Absent}] /\ line[j] \in LineRow
  BY RunningFacts DEF Running, LineAt, LineInv, LineTypes
<1>4. PICK s \in LineRow : s = line[j] /\ s.at # "ended"
  BY <1>3 DEF Running, LineAt
<1>5. ~LineStart(j)
  BY DEF Running, LineAt, LineStart
<1>6. /\ \A why : LineEnd(j, why) => why = "ok"
      /\ ~TrunkFails(j) /\ \A pc : LineGo(j, pc) => pc = "ended"
  BY EndedSo
<1>7. ~ReadTrunk(j)
  <2> SUFFICES ASSUME ReadTrunk(j) PROVE FALSE
    OBVIOUS
  <2>1. ~LineGo(j, AfterTrunks(j))
    BY <1>6 DEF AfterTrunks
  <2>2. CASE line' = [line EXCEPT ![j].left = Tail(@)]
    <3>1. line'[j] = [s EXCEPT !.left = Tail(s.left)]
      BY <1>3, <1>4, <2>2
    <3> QED BY <1>4, <3>1, AtOf
  <2>3. CASE line' = [line EXCEPT ![j].list = trunk[Head(line[j].left)], ![j].at = "trunk"]
    <3>1. line'[j] = [s EXCEPT !.list = trunk[Head(line[j].left)], !.at = "trunk"]
      BY <1>3, <1>4, <2>3
    <3> QED BY <3>1, AtOf
  <2> QED BY <1>6, <2>1, <2>2, <2>3 DEF ReadTrunk
<1>8. ~WriteTrunk(j)
  <2> SUFFICES ASSUME WriteTrunk(j) PROVE FALSE
    OBVIOUS
  <2>1. PICK t : line' = [line EXCEPT ![j].at = "trunks", ![j].left = Tail(@),
                             ![j].outbound = @ \/ (t = "outbound" /\ line[j].kind = "purchase")]
    BY <1>6 DEF WriteTrunk
  <2>2. line'[j] = [s EXCEPT !.at = "trunks", !.left = Tail(s.left),
                             !.outbound = s.outbound \/ (t = "outbound" /\ line[j].kind = "purchase")]
    BY <1>3, <1>4, <2>1
  <2> QED BY <2>2, AtOf
<1>9. ~Buy(j)
  <2> SUFFICES ASSUME Buy(j) PROVE FALSE
    OBVIOUS
  <2>1. ~LineEnd(j, "not for sale") /\ ~LineEnd(j, "failed")
    BY <1>6
  <2>2. line' = [line EXCEPT ![j].at = "attach", ![j].sale = <<j, line[j].number>>]
    BY <2>1 DEF Buy
  <2>3. line'[j] = [s EXCEPT !.at = "attach", !.sale = <<j, line[j].number>>]
    BY <1>3, <1>4, <2>2
  <2> QED BY <2>3, AtOf
<1>10. ~Attach(j)
  <2> SUFFICES ASSUME Attach(j) PROVE FALSE
    OBVIOUS
  <2>1. \/ line' = [line EXCEPT ![j].at = "trunks", ![j].trunkSale = line[j].sale]
        \/ line' = [line EXCEPT ![j].at = "trunks", ![j].clean = FALSE]
    BY DEF Attach
  <2>2. CASE line' = [line EXCEPT ![j].at = "trunks", ![j].trunkSale = line[j].sale]
    <3>1. PICK u : u = line[j].sale
      OBVIOUS
    <3>2. line'[j] = [s EXCEPT !.at = "trunks", !.trunkSale = u]
      BY <1>3, <1>4, <2>2, <3>1
    <3>3. line'[j].at = "trunks"
      BY <3>2, AtOf
    <3> QED BY <3>3
  <2>3. CASE line' = [line EXCEPT ![j].at = "trunks", ![j].clean = FALSE]
    <3>1. line'[j] = [s EXCEPT !.at = "trunks", !.clean = FALSE]
      BY <1>3, <1>4, <2>3
    <3>2. line'[j].at = "trunks"
      BY <3>1, AtOf
    <3> QED BY <3>2
  <2> QED BY <2>1, <2>2, <2>3
<1>11. ~LookUpChannel(j)
  <2> SUFFICES ASSUME LookUpChannel(j) PROVE FALSE
    OBVIOUS
  <2>1. PICK old : line' = [line EXCEPT ![j].at = "save", ![j].old = old]
    BY DEF LookUpChannel
  <2>2. line'[j] = [s EXCEPT !.at = "save", !.old = old]
    BY <1>3, <1>4, <2>1
  <2> QED BY <2>2, AtOf
<1>12. ~FindLine(j)
  <2>1. ~LineEnd(j, "not found")
    BY <1>6
  <2> SUFFICES ASSUME FindLine(j) PROVE FALSE
    OBVIOUS
  <2> DEFINE mine == {c \in channels : c.kwami = line[j].kwami /\ c.number = line[j].number}
             rows(a) == {c \in mine : c.sale = a.sale}
             voice(a) == {c \in rows(a) : c.kind = "voice_phone"}
             next == IF line[j].provider THEN "trunks" ELSE "delete"
  <2>2. PICK a \in mine : line' = [line EXCEPT
                 ![j].at = next, ![j].sale = a.sale, ![j].rows = rows(a),
                 ![j].trunkSale = IF voice(a) = {} THEN NoSale
                                  ELSE (CHOOSE c \in voice(a) : TRUE).trunkSale]
    BY <2>1 DEF FindLine
  <2>3. PICK u, v, w : line'[j] = [s EXCEPT !.at = next, !.sale = u, !.rows = v, !.trunkSale = w]
    BY <1>3, <1>4, <2>2
  <2>4. line'[j].at = next
    BY <2>3, AtOf
  <2> QED BY <2>4
<1>13. ~Detach(j)
  <2> SUFFICES ASSUME Detach(j) PROVE FALSE
    OBVIOUS
  <2>1. line' = [line EXCEPT ![j].at = "release", ![j].clean = FALSE]
    BY <1>6 DEF Detach
  <2>2. line'[j] = [s EXCEPT !.at = "release", !.clean = FALSE]
    BY <1>3, <1>4, <2>1
  <2> QED BY <2>2, AtOf
<1>14. ~Release(j)
  BY <1>6 DEF Release
<1> QED BY <1>1, <1>2, <1>5, <1>7, <1>8, <1>9, <1>10, <1>11, <1>12, <1>13, <1>14 DEF LineStep

\* Of two requests at work, neither is alone.
LEMMA OneAlone ==
    ASSUME LineInv, NEW j \in LineJobs, Running(j), line[j].alone, NEW i \in LineJobs, Running(i)
    PROVE  i = j
BY DEF LineInv, AloneOK

LEMMA RowsGo ==
    ASSUME LineInv, NEW j \in LineJobs, LineAt(j, "delete"), DeleteRows(j), line[j].provider, line[j].alone,
           NEW c \in channels, c \notin channels'
    PROVE  \A n \in Numbers : owned[n] # c.sale
<1>1. PICK s \in LineRow : s = line[j]
  BY RunningFacts
<1>2. s.at = "delete" /\ LineOK(j, s) /\ AloneOK(j, s) /\ s.kind \in {"purchase", "release"}
  BY <1>1, RunningFacts DEF LineRow
<1>3. s.kind = "release"
  BY <1>2 DEF LineOK, Buying
<1>4. AloneRelease(s)
  BY <1>2, <1>3 DEF AloneOK
<1>5. PICK r \in s.rows : c.id = r.id
  BY <1>1 DEF DeleteRows
<1>6. r \in channels /\ r.sale = s.sale
  BY <1>2, <1>4 DEF AloneRelease
<1>7. c = r
  BY <1>5, <1>6 DEF LineInv, RowsOK
<1> QED BY <1>1, <1>2, <1>4, <1>6, <1>7 DEF AloneRelease

LEMMA LineRowsOutlive ==
    ASSUME LineInv, [LineNext]_lineVars, NEW j \in LineJobs, LineAt(j, "delete"), channels' # channels,
           line[j].provider, line[j].alone
    PROVE  \A c \in channels \ channels' : owned[c.number] # c.sale
<1>1. LineNext
  BY DEF lineVars
<1>2. PICK i \in LineJobs : LineStep(i)
  BY <1>1 DEF LineNext
<1>3. SaveChannel(i) \/ DeleteRows(i)
  BY <1>2 DEF LineStep, LineStart, ReadTrunk, WriteTrunk, Buy, Attach, LookUpChannel, FindLine, Detach, Release
<1>4. Running(i) /\ Running(j)
  BY <1>3, RunningFacts DEF SaveChannel, DeleteRows
<1>5. i = j
  BY <1>4, OneAlone
<1>6. DeleteRows(j)
  BY <1>3, <1>5 DEF SaveChannel, LineAt
<1>7. \A c \in channels : c.number \in Numbers
  BY DEF LineInv, LineTypes, ChannelRow
<1> QED BY <1>6, <1>7, RowsGo

\* A purchase that saves its last row, alone and clean.
LEMMA PurchaseIsWhole ==
    ASSUME LineInv, NEW j \in LineJobs, SaveChannel(j), line'[j].at = "ended", line'[j].why = "ok",
           line[j].clean, line[j].alone
    PROVE  Whole(j)'
<1>0. LineAt(j, "save") /\ UNCHANGED <<owned, attached, trunk>> /\ Running(j)
  BY SaveCases, RunningFacts
<1>1. PICK s \in LineRow : s = line[j]
  BY <1>0, RunningFacts
<1>2. s.at = "save" /\ LineOK(j, s) /\ AloneOK(j, s) /\ s.kind \in {"purchase", "release"} /\ s.saving \in 1..3
  BY <1>0, <1>1, RunningFacts DEF LineRow
<1>3. s.kind = "purchase"
  BY <1>2 DEF LineOK, Releasing
<1>4. AlonePurchase(s)
  BY <1>2, <1>3 DEF AloneOK
<1>5. line \in [LineJobs -> LineRow \cup {Absent}]
  BY DEF LineInv, LineTypes
<1>6. /\ ~ClashingRow(j)
      /\ channels' = IF GoneRow(j) THEN channels ELSE OtherRows(j) \cup {SavedRow(j)}
      /\ s.saving = 3 /\ LineEnd(j, "ok")
  <2>1. \A why : LineEnd(j, why) => why = "ok"
    BY <1>0, EndedSo
  <2>2. line' # [line EXCEPT ![j].at = "find", ![j].saving = @ + 1]
    BY <1>0, EndedSo
  <2> QED BY <1>1, <2>1, <2>2, SaveCases
<1>7. /\ channels' \in SUBSET ChannelRow /\ RowsOK'
      /\ \A i \in 1..3 : \E c \in channels' :
            /\ c.kind = ChannelKinds[i] /\ c.number = s.number
            /\ c.kwami = s.kwami /\ c.sale = s.sale
  <2>1. s.alone /\ 3 = s.saving
    BY <1>1, <1>6
  <2>2. LineAt(j, "save") /\ UNCHANGED owned
    BY <1>0
  <2>3. /\ channels' \in SUBSET ChannelRow /\ RowsOK'
        /\ s.alone => \A i \in 1..s.saving : \E c \in channels' :
              /\ c.kind = ChannelKinds[i] /\ c.number = s.number
              /\ c.kwami = s.kwami /\ c.sale = s.sale
    BY <1>1, <1>6, <2>2, SavedFacts
  <2> QED BY <2>1, <2>3
<1>8. LineKinds = {ChannelKinds[i] : i \in 1..3}
  <2>1. ChannelKinds[1] = "voice_phone" /\ ChannelKinds[2] = "whatsapp" /\ ChannelKinds[3] = "sms"
    BY DEF ChannelKinds
  <2>2. 1..3 = {1, 2, 3}
    OBVIOUS
  <2> QED BY <2>1, <2>2 DEF LineKinds
<1>9. PICK r : r = [s EXCEPT !.at = "ended", !.why = "ok"]
  OBVIOUS
<1>10. line'[j] = r /\ r.kind = "purchase" /\ r.number = s.number /\ r.kwami = s.kwami /\ r.sale = s.sale
  BY <1>1, <1>3, <1>5, <1>6, <1>9 DEF LineEnd, LineRow
<1>11. /\ owned'[s.number] = s.sale /\ s.sale \in attached'
       /\ \A t \in Trunks : s.number \in trunk'[t]
  <2>1. s.left = <<>> /\ s.left \in Lefts /\ s.clean
    BY <1>1, <1>2, <1>4 DEF AlonePurchase, LineRow
  <2>2. Pending(s.left) = {}
    BY <2>1, LeftFacts
  <2> QED BY <1>0, <1>2, <1>4, <2>1, <2>2 DEF AlonePurchase
<1>12. ASSUME NEW c \in channels', c.number = s.number
       PROVE  c.kind \in LineKinds /\ c.kwami = s.kwami /\ c.sale = s.sale
  <2>1. c.kind \in LineKinds
    BY <1>7 DEF ChannelRow
  <2>2. PICK i \in 1..3 : c.kind = ChannelKinds[i]
    BY <1>8, <2>1
  <2>3. PICK d \in channels' : /\ d.kind = ChannelKinds[i] /\ d.number = s.number
                               /\ d.kwami = s.kwami /\ d.sale = s.sale
    BY <1>7
  <2>4. c = d
    BY <1>7, <1>12, <2>2, <2>3 DEF RowsOK
  <2> QED BY <2>1, <2>3, <2>4
<1>13. {c.kind : c \in {d \in channels' : d.number = s.number}} = {ChannelKinds[i] : i \in 1..3}
  BY <1>7, <1>8, <1>12
<1> QED BY <1>10, <1>11, <1>12, <1>13 DEF Whole

\* A release that deletes its rows, alone and clean.
LEMMA ReleaseIsWhole ==
    ASSUME LineInv, NEW j \in LineJobs, DeleteRows(j), line'[j].at = "ended", line'[j].why = "ok",
           line[j].clean, line[j].alone
    PROVE  Whole(j)'
<1>0. LineAt(j, "delete") /\ UNCHANGED <<owned, attached, trunk>> /\ Running(j)
  BY RunningFacts DEF DeleteRows
<1>1. PICK s \in LineRow : s = line[j]
  BY <1>0, RunningFacts
<1>2. s.at = "delete" /\ LineOK(j, s) /\ AloneOK(j, s) /\ s.kind \in {"purchase", "release"} /\ s.clean
  BY <1>0, <1>1, RunningFacts DEF LineRow
<1>3. s.kind = "release"
  BY <1>2 DEF LineOK, Buying
<1>4. AloneRelease(s)
  BY <1>2, <1>3 DEF AloneOK
<1>5. line \in [LineJobs -> LineRow \cup {Absent}]
  BY DEF LineInv, LineTypes
<1>6. channels' = {c \in channels : \A r \in line[j].rows : c.id # r.id} /\ LineEnd(j, "ok")
  <2>1. \A why : LineEnd(j, why) => why = "ok"
    BY <1>0, EndedSo
  <2> QED BY <2>1 DEF DeleteRows
<1>7. PICK r : r = [s EXCEPT !.at = "ended", !.why = "ok"]
  OBVIOUS
<1>8. /\ line'[j] = r /\ r.kind = "release" /\ r.number = s.number /\ r.kwami = s.kwami /\ r.sale = s.sale
      /\ r.provider = s.provider /\ r.trunkSale = s.trunkSale
  BY <1>1, <1>3, <1>5, <1>6, <1>7 DEF LineEnd, LineRow
<1>9. ASSUME s.provider
      PROVE  /\ owned'[s.number] # s.sale /\ s.trunkSale \notin attached'
             /\ \A t \in Trunks : s.number \notin trunk'[t]
  <2>1. s.left = <<>> /\ s.left \in Lefts /\ s.number \in Numbers
    BY <1>2, <1>4, <1>9 DEF AloneRelease, LineRow
  <2>2. Pending(s.left) = {}
    BY <2>1, LeftFacts
  <2> QED BY <1>0, <1>2, <1>4, <1>9, <2>1, <2>2 DEF AloneRelease
<1>10. ~\E c \in channels' : c.number = s.number /\ c.kwami = s.kwami /\ c.sale = s.sale
  BY <1>1, <1>2, <1>4, <1>6 DEF AloneRelease
<1> QED BY <1>8, <1>9, <1>10 DEF Whole

LEMMA LineAloneIsWhole ==
    ASSUME LineInv, [LineNext]_lineVars, NEW j \in LineJobs, Running(j), line'[j].at = "ended",
           line'[j].why = "ok", line'[j].clean, line'[j].alone
    PROVE  Whole(j)'
<1>1. line[j].at # "ended" /\ LineNext
  BY DEF Running, LineAt, lineVars
<1>2. SaveChannel(j) \/ DeleteRows(j)
  BY <1>1, EndsWell
<1>3. line'[j].clean = line[j].clean /\ line'[j].alone = line[j].alone
  <2>1. \E why : LineEnd(j, why)
    BY <1>2, EndedSo, SaveCases DEF DeleteRows
  <2> QED BY <2>1, EndedSo
<1> QED BY <1>2, <1>3, PurchaseIsWhole, ReleaseIsWhole

\* PhoneLines on its own: what the tables keep, that a number's rows outlive it, and that
\* an undisturbed request leaves its sale the same everywhere.
THEOREM LinesAreSound == LineSpec => []LinesTypeOK /\ RowsOutliveNumbers /\ AloneIsWhole
<1>1. LineInit => LineInv
  BY LineInitInv
<1>2. LineInv /\ [LineNext]_lineVars => LineInv'
  BY LineNextInv
<1>3. LineInv => LinesTypeOK
  BY LineInvImplies
<1>4. LineInv /\ [LineNext]_lineVars =>
        [\A j \in LineJobs :
           LineAt(j, "delete") /\ channels' # channels /\ line'[j].at = "ended"
             /\ line[j].provider /\ line[j].alone
           => \A c \in channels \ channels' : owned[c.number] # c.sale]_lineVars
  BY LineRowsOutlive
<1>5. LineInv /\ [LineNext]_lineVars =>
        [\A j \in LineJobs :
           Running(j) /\ line'[j].at = "ended" /\ line'[j].why = "ok"
             /\ line'[j].clean /\ line'[j].alone
           => Whole(j)']_lineVars
  BY LineAloneIsWhole
<1> QED BY <1>1, <1>2, <1>3, <1>4, <1>5, PTL DEF LineSpec, RowsOutliveNumbers, AloneIsWhole

---------------------------------------------------------------------------
(* Messages and calls: the invariant *)

TextItems == UNION {TextMenu[j] : j \in TextJobs}
TextLines == {m.line : m \in TextItems} \cup {""}
TextPeople == {m.person : m \in TextItems} \cup {""}
TextSenders == {m.as : m \in TextItems} \cup {""}

\* How far a request is.
LookingUp == {"line", "contact", "save contact", "thread", "save thread"}
Recorded == {"send", "dispatch", "event", "existing", "touch", "failed"}
WithContact == {"thread", "save thread"} \cup Recorded
HandlerPcs == {"idle"} \cup LookingUp \cup Recorded

TextRow == [way : {"", "in", "out"}, kind : {"", "message", "call"}, line : TextLines, person : TextPeople,
            as : TextSenders, sent : BOOLEAN, agent : BOOLEAN,
            answer : {"", "no line", "ok", "refused", "failed", "error"}]
HandlerRow == [at : HandlerPcs, seen : Nat, contact : Nat, thread : Nat]
ThreadRow == [id : Nat \ {0}, line : DOMAIN KwamiOf, contact : Nat, kind : {"whatsapp", "call"}]
EventRow == [job : TextJobs, sid : BOOLEAN, line : DOMAIN KwamiOf, thread : Nat \ {0}, contact : Nat,
             state : {"stored", "failed", "reported"}]

TextTypes ==
    /\ text \in [TextJobs -> TextRow] /\ handler \in [Handlers -> HandlerRow]
    /\ lines \subseteq DOMAIN KwamiOf
    /\ \A j \in TextJobs : text[j].way = "" => text[j] = NoText

\* The indexes and foreign keys, and what an event says of its message.
TextTables ==
    /\ \A c \in contacts : c.id \in Nat \ {0}
    /\ \A c, d \in contacts : (c.kwami = d.kwami /\ c.person = d.person) \/ c.id = d.id => c = d
    /\ \A t \in threads : t \in ThreadRow /\ t.line \in lines /\ t.contact \in {c.id : c \in contacts} \cup {0}
    /\ \A t, u \in threads : t.id = u.id => t = u
    /\ \A e \in events : e \in EventRow /\ e.line \in lines /\ text[e.job].way # "" /\ e.line = text[e.job].line
    /\ \A e, f \in events : e.job = f.job /\ e.sid /\ f.sid => e = f
    /\ IsFiniteSet(contacts) /\ IsFiniteSet(threads) /\ IsFiniteSet(events)

\* The conversation is on the line of the message, and with its contact or, if that is
\* gone, with nobody.
Suits(t, j, contact) == t.line = text[j].line /\ t.contact \in {contact, 0}
IsOf(c, j) == c.kwami = Asker(j) /\ c.person = text[j].person
Filed(j) == text[j].line \in lines => \E e \in events : e.job = j /\ e.sid

\* What the handler of a request relies on, when a row may be gone whose number it has.
HandlerOK(h, r) ==
    /\ r.at = "idle" => r = Idle
    /\ r.at # "idle" => text[h[1]].way # ""
    /\ r.at \in {"send", "dispatch", "failed"} => text[h[1]].way = "out"
    /\ r.at = "dispatch" => text[h[1]].kind = "call"
    /\ r.at # "idle" /\ text[h[1]].way = "out" => h[2] = 1 /\ text[h[1]].answer = ""
    /\ r.at = "save contact" => \A c \in contacts : c.id = r.seen => IsOf(c, h[1])
    /\ r.at \in WithContact <=> r.contact # 0
    /\ \A c \in contacts : c.id = r.contact => IsOf(c, h[1])
    /\ r.at = "save thread" => \A t \in threads : t.id = r.seen => Suits(t, h[1], r.contact)
    /\ r.at \in Recorded <=> r.thread # 0
    /\ \A t \in threads : t.id = r.thread => Suits(t, h[1], r.contact)
    /\ r.at = "touch" => Filed(h[1])

\* What the user sends: nothing is recorded before it goes, and all of it has an id until
\* the request gives up.
SentOK(j, p, at) ==
    p.way = "out" =>
      /\ p.answer = "" /\ at \in {"idle", "send"} \cup LookingUp =>
           ~p.sent /\ \A e \in events : e.job # j
      /\ at \in {"dispatch", "event", "existing", "touch"} => p.sent
      /\ at \in {"event", "existing", "touch"} /\ p.kind = "call" => p.agent
      /\ p.answer \in {"", "ok"} => \A e \in events : e.job = j => e.sid
      /\ p.answer = "ok" /\ p.kind = "call" => p.agent
      /\ p.answer \in {"ok", "failed"} /\ p.line \in lines => \E e \in events : e.job = j
      /\ \A e \in events : e.job = j /\ e.state # "failed" => p.sent

TextInv ==
    /\ TextTypes /\ TextTables /\ ThreadsDoNotMix /\ AnsweredIsStored
    /\ \A h \in Handlers : HandlerOK(h, handler[h])
    /\ \A j \in TextJobs : SentOK(j, text[j], handler[<<j, 1>>].at)

LEMMA TextInitInv == TextInit => TextInv
<1> SUFFICES ASSUME TextInit PROVE TextInv
  OBVIOUS
<1>1. NoText \in TextRow /\ Idle \in HandlerRow
  BY DEF NoText, TextRow, Idle, HandlerRow, HandlerPcs, TextLines, TextPeople, TextSenders
<1>2. TextTypes
  BY <1>1 DEF TextInit, TextTypes
<1>3. TextTables
  BY FS_EmptySet DEF TextInit, TextTables
<1>4. ASSUME NEW h \in Handlers PROVE HandlerOK(h, handler[h])
  <2>1. handler[h] = Idle
    BY <1>4 DEF TextInit
  <2>2. Idle.at = "idle" /\ Idle.contact = 0 /\ Idle.thread = 0
    BY DEF Idle
  <2> QED BY <2>1, <2>2 DEF TextInit, HandlerOK, WithContact, Recorded
<1>5. ASSUME NEW j \in TextJobs PROVE SentOK(j, text[j], handler[<<j, 1>>].at)
  BY <1>5 DEF TextInit, SentOK, NoText
<1>6. ThreadsDoNotMix /\ AnsweredIsStored
  BY DEF TextInit, ThreadsDoNotMix, AnsweredIsStored, NoText
<1> QED BY <1>2, <1>3, <1>4, <1>5, <1>6 DEF TextInv

---------------------------------------------------------------------------
(* Messages and calls: what steps leave as it was *)

LEMMA HandlerFacts ==
    ASSUME TextInv, NEW h \in Handlers
    PROVE  /\ h[1] \in TextJobs /\ h[2] \in Copies /\ h = <<h[1], h[2]>>
           /\ text[h[1]] \in TextRow /\ handler[h] \in HandlerRow /\ HandlerOK(h, handler[h])
<1>1. h[1] \in TextJobs /\ h[2] \in Copies /\ h = <<h[1], h[2]>>
  BY DEF Handlers
<1> QED BY <1>1 DEF TextInv, TextTypes

LEMMA EventFacts ==
    ASSUME TextInv, NEW e \in events
    PROVE  /\ e \in EventRow /\ e.job \in TextJobs /\ e.thread # 0 /\ e.line \in lines
           /\ text[e.job].way # "" /\ e.line = text[e.job].line
<1>1. e \in EventRow /\ e.line \in lines /\ text[e.job].way # "" /\ e.line = text[e.job].line
  BY DEF TextInv, TextTables
<1> QED BY <1>1 DEF EventRow

---------------------------------------------------------------------------
(* Fresh ids.                                                                *)

LEMMA ImageIsFinite ==
    ASSUME NEW S, IsFiniteSet(S), NEW f, f = [x \in S |-> f[x]]
    PROVE  IsFiniteSet({f[x] : x \in S})
<1> DEFINE T == {f[x] : x \in S}
<1>1. f \in Surjection(S, T)
  BY DEF Surjection
<1> QED BY <1>1, FS_Surjection

\* Of the numbers up to one more than there are ids, one is free.
LEMMA FreeNumber ==
    ASSUME NEW S, IsFiniteSet(S)
    PROVE  /\ Cardinality(S) \in Nat
           /\ \E i \in 1..(Cardinality(S) + 1) : i \notin S
<1>1. Cardinality(S) \in Nat
  BY FS_CardinalityType
<1>2. SUFFICES ASSUME \A i \in 1..(Cardinality(S) + 1) : i \in S PROVE FALSE
  BY <1>1
<1> DEFINE N == Cardinality(S) + 1
<1>3. Cardinality(1..N) = N
  BY <1>1, FS_Interval
<1>4. Cardinality(1..N) <= Cardinality(S)
  BY <1>2, FS_Subset
<1> QED BY <1>1, <1>3, <1>4

LEMMA InUseIsFinite == ASSUME TextInv PROVE IsFiniteSet(InUse)
<1>1. IsFiniteSet(contacts) /\ IsFiniteSet(threads) /\ IsFiniteSet(events)
  BY DEF TextInv, TextTables
<1>2. IsFiniteSet(Handlers)
  BY TextAssumption, FS_Product DEF Handlers
<1>3. IsFiniteSet({c.id : c \in contacts})
  <2> DEFINE f == [c \in contacts |-> c.id]
  <2>1. IsFiniteSet({f[c] : c \in contacts})
    BY <1>1, ImageIsFinite
  <2>2. {f[c] : c \in contacts} = {c.id : c \in contacts}
    OBVIOUS
  <2> QED BY <2>1, <2>2
<1>4. IsFiniteSet({t.id : t \in threads})
  <2> DEFINE f == [t \in threads |-> t.id]
  <2>1. IsFiniteSet({f[t] : t \in threads})
    BY <1>1, ImageIsFinite
  <2>2. {f[t] : t \in threads} = {t.id : t \in threads}
    OBVIOUS
  <2> QED BY <2>1, <2>2
<1>5. IsFiniteSet({e.thread : e \in events})
  <2> DEFINE f == [e \in events |-> e.thread]
  <2>1. IsFiniteSet({f[e] : e \in events})
    BY <1>1, ImageIsFinite
  <2>2. {f[e] : e \in events} = {e.thread : e \in events}
    OBVIOUS
  <2> QED BY <2>1, <2>2
<1>6. IsFiniteSet({e.contact : e \in events})
  <2> DEFINE f == [e \in events |-> e.contact]
  <2>1. IsFiniteSet({f[e] : e \in events})
    BY <1>1, ImageIsFinite
  <2>2. {f[e] : e \in events} = {e.contact : e \in events}
    OBVIOUS
  <2> QED BY <2>1, <2>2
<1>7. IsFiniteSet({handler[h].seen : h \in Handlers})
  <2> DEFINE f == [h \in Handlers |-> handler[h].seen]
  <2>1. IsFiniteSet({f[h] : h \in Handlers})
    BY <1>2, ImageIsFinite
  <2>2. {f[h] : h \in Handlers} = {handler[h].seen : h \in Handlers}
    OBVIOUS
  <2> QED BY <2>1, <2>2
<1>8. IsFiniteSet({handler[h].contact : h \in Handlers})
  <2> DEFINE f == [h \in Handlers |-> handler[h].contact]
  <2>1. IsFiniteSet({f[h] : h \in Handlers})
    BY <1>2, ImageIsFinite
  <2>2. {f[h] : h \in Handlers} = {handler[h].contact : h \in Handlers}
    OBVIOUS
  <2> QED BY <2>1, <2>2
<1>9. IsFiniteSet({handler[h].thread : h \in Handlers})
  <2> DEFINE f == [h \in Handlers |-> handler[h].thread]
  <2>1. IsFiniteSet({f[h] : h \in Handlers})
    BY <1>2, ImageIsFinite
  <2>2. {f[h] : h \in Handlers} = {handler[h].thread : h \in Handlers}
    OBVIOUS
  <2> QED BY <2>1, <2>2
<1> QED BY <1>3, <1>4, <1>5, <1>6, <1>7, <1>8, <1>9, FS_Union DEF InUse

\* A new row gets a number that no row and no request has or has ever seen.
LEMMA FreshIsNew ==
    ASSUME TextInv
    PROVE  /\ Fresh \in Nat \ {0} /\ Fresh \notin InUse
<1>1. /\ Cardinality(InUse) \in Nat
      /\ \E i \in 1..(Cardinality(InUse) + 1) : i \notin InUse
  BY InUseIsFinite, FreeNumber
<1>2. Fresh \in 1..(Cardinality(InUse) + 1) /\ Fresh \notin InUse
  BY <1>1, Zenon DEF Fresh
<1> QED BY <1>1, <1>2

LEMMA Used ==
    /\ \A c \in contacts : c.id \in InUse
    /\ \A t \in threads : t.id \in InUse
    /\ \A e \in events : e.thread \in InUse /\ e.contact \in InUse
    /\ \A h \in Handlers : handler[h].seen \in InUse /\ handler[h].contact \in InUse /\ handler[h].thread \in InUse
BY DEF InUse

---------------------------------------------------------------------------
(* What a step leaves to the requests it is not a step of.                   *)

AskedStays ==
    \A j \in TextJobs : text[j].way # "" =>
        /\ text'[j].way = text[j].way /\ text'[j].kind = text[j].kind /\ text'[j].line = text[j].line
        /\ text'[j].person = text[j].person /\ text'[j].as = text[j].as

\* A row that comes has a new number, one that stays keeps what it points to or points to
\* nobody, and an event goes only with its line.
RowsKept ==
    /\ lines' \subseteq lines
    /\ \A c \in contacts' : c \in contacts \/ (c.id # 0 /\ c.id \notin InUse)
    /\ \A t \in threads' :
          \/ \E u \in threads : u.id = t.id /\ u.line = t.line /\ t.contact \in {u.contact, 0}
          \/ t.id # 0 /\ t.id \notin InUse
    /\ \A e \in events : e.line \in lines' => \E f \in events' : f.job = e.job /\ f.sid = e.sid

LEMMA NothingChanged ==
    ASSUME lines' = lines, contacts' = contacts, threads' = threads, events' = events
    PROVE  RowsKept
BY DEF RowsKept

LEMMA AskedSame ==
    ASSUME AskedStays, NEW j \in TextJobs, text[j].way # ""
    PROVE  /\ \A c : IsOf(c, j)' <=> IsOf(c, j)
           /\ \A t, x : Suits(t, j, x)' <=> Suits(t, j, x)
<1>1. /\ text'[j].way = text[j].way /\ text'[j].line = text[j].line
      /\ text'[j].person = text[j].person /\ text'[j].as = text[j].as
  BY DEF AskedStays
<1> QED BY <1>1 DEF IsOf, Suits, Asker

LEMMA FiledStays ==
    ASSUME TextInv, AskedStays, RowsKept, NEW j \in TextJobs, text[j].way # "", Filed(j)
    PROVE  Filed(j)'
<1>1. text'[j].line = text[j].line
  BY DEF AskedStays
<1> SUFFICES ASSUME text[j].line \in lines' PROVE \E f \in events' : f.job = j /\ f.sid
  BY <1>1 DEF Filed
<1>2. PICK e \in events : e.job = j /\ e.sid
  BY DEF Filed, RowsKept
<1>3. e.line \in lines'
  BY <1>2, EventFacts
<1> QED BY <1>2, <1>3 DEF RowsKept

\* Whatever a request relies on, other steps leave it.
LEMMA HandlerStays ==
    ASSUME TextInv, AskedStays, RowsKept, NEW h \in Handlers, NEW r \in HandlerRow, HandlerOK(h, r),
           r.seen \in InUse, r.contact \in InUse, r.thread \in InUse,
           r.at # "idle" /\ text[h[1]].way = "out" => text'[h[1]].answer = ""
    PROVE  HandlerOK(h, r)'
<1>0. CASE text[h[1]].way = ""
  <2>1. r = Idle
    BY <1>0 DEF HandlerOK
  <2>2. r.at = "idle" /\ r.contact = 0 /\ r.thread = 0
    BY <2>1 DEF Idle
  <2>3. \A c \in contacts' : c.id # r.contact
    <3> TAKE c \in contacts'
    <3>1. c \in contacts => c.id # 0
      BY DEF TextInv, TextTables
    <3> QED BY <2>2, <3>1 DEF RowsKept
  <2>4. \A t \in threads' : t.id # r.thread
    <3> TAKE t \in threads'
    <3>1. \A u \in threads : u.id # 0
      BY DEF TextInv, TextTables, ThreadRow
    <3> QED BY <2>2, <3>1 DEF RowsKept
  <2> QED BY <2>1, <2>2, <2>3, <2>4 DEF HandlerOK, WithContact, Recorded
<1>1. CASE text[h[1]].way # ""
  <2>0. h[1] \in TextJobs
    BY HandlerFacts
  <2>1. /\ text'[h[1]].way = text[h[1]].way /\ text'[h[1]].kind = text[h[1]].kind
    BY <1>1, <2>0 DEF AskedStays
  <2>2. /\ \A c : IsOf(c, h[1])' <=> IsOf(c, h[1])
        /\ \A t, x : Suits(t, h[1], x)' <=> Suits(t, h[1], x)
    BY <1>1, <2>0, AskedSame
  <2>3. \A c \in contacts' : c.id \in {r.seen, r.contact} => c \in contacts
    BY DEF RowsKept
  <2>4. ASSUME NEW t \in threads', NEW x, t.id = x, x \in InUse,
               \A u \in threads : u.id = x => Suits(u, h[1], r.contact)
        PROVE  Suits(t, h[1], r.contact)
    <3>1. PICK u \in threads : u.id = t.id /\ u.line = t.line /\ t.contact \in {u.contact, 0}
      BY <2>4 DEF RowsKept
    <3>2. Suits(u, h[1], r.contact)
      BY <2>4, <3>1
    <3> QED BY <3>1, <3>2 DEF Suits
  <2>5. r.at = "save contact" => \A c \in contacts' : c.id = r.seen => IsOf(c, h[1])'
    BY <2>2, <2>3 DEF HandlerOK
  <2>6. \A c \in contacts' : c.id = r.contact => IsOf(c, h[1])'
    BY <2>2, <2>3 DEF HandlerOK
  <2>7. r.at = "save thread" => \A t \in threads' : t.id = r.seen => Suits(t, h[1], r.contact)'
    BY <2>2, <2>4 DEF HandlerOK
  <2>8. \A t \in threads' : t.id = r.thread => Suits(t, h[1], r.contact)'
    BY <2>2, <2>4 DEF HandlerOK
  <2>9. r.at = "touch" => Filed(h[1])'
    BY <1>1, <2>0, FiledStays DEF HandlerOK
  <2> QED BY <2>1, <2>5, <2>6, <2>7, <2>8, <2>9 DEF HandlerOK
<1> QED BY <1>0, <1>1

\* No row comes between an event that is there and its conversation, or between the
\* conversation and its contact.
LEMMA EventsStay ==
    ASSUME TextInv, AskedStays, RowsKept, NEW e \in events, NEW t \in threads', t.id = e.thread
    PROVE  t.line = e.line /\ \A c \in contacts' : c.id = t.contact => IsOf(c, e.job)'
<1>1. e.thread \in InUse
  BY Used
<1>2. PICK u \in threads : u.id = t.id /\ u.line = t.line /\ t.contact \in {u.contact, 0}
  BY <1>1 DEF RowsKept
<1>3. u.line = e.line /\ \A c \in contacts : c.id = u.contact => IsOf(c, e.job)
  BY <1>2 DEF TextInv, ThreadsDoNotMix, IsOf
<1>4. ASSUME NEW c \in contacts', c.id = t.contact PROVE c \in contacts /\ c.id = u.contact
  <2>1. \A d \in contacts : d.id # 0
    BY DEF TextInv, TextTables
  <2>2. u.contact \in {d.id : d \in contacts} \cup {0}
    BY DEF TextInv, TextTables
  <2>3. CASE u.contact # 0 /\ t.contact = u.contact
    <3>1. u.contact \in InUse
      BY <2>2, <2>3, Used
    <3> QED BY <1>4, <2>3, <3>1 DEF RowsKept
  <2>4. t.contact # 0
    BY <1>4, <2>1 DEF RowsKept
  <2> QED BY <1>2, <2>3, <2>4
<1>5. \A c : IsOf(c, e.job)' <=> IsOf(c, e.job)
  BY EventFacts, AskedSame
<1> QED BY <1>2, <1>3, <1>4, <1>5

---------------------------------------------------------------------------
(* The steps of a request.                                                   *)

SameAsk(p, q) == p.way = q.way /\ p.kind = q.kind /\ p.line = q.line /\ p.person = q.person /\ p.as = q.as

LEMMA StepTypes ==
    ASSUME TextInv, NEW h \in Handlers, NEW r \in HandlerRow, NEW p \in TextRow,
           p.way # "", SameAsk(p, text[h[1]]), lines' \subseteq lines,
           handler' = [handler EXCEPT ![h] = r], text' = [text EXCEPT ![h[1]] = p]
    PROVE  /\ TextTypes' /\ AskedStays
           /\ text'[h[1]] = p /\ handler'[h] = r
           /\ \A j \in TextJobs : j # h[1] => text'[j] = text[j]
           /\ \A g \in Handlers : g # h => handler'[g] = handler[g]
<1>1. text \in [TextJobs -> TextRow] /\ handler \in [Handlers -> HandlerRow] /\ h[1] \in TextJobs
  BY HandlerFacts DEF TextInv, TextTypes
<1>2. /\ text'[h[1]] = p /\ handler'[h] = r
      /\ \A j \in TextJobs : j # h[1] => text'[j] = text[j]
      /\ \A g \in Handlers : g # h => handler'[g] = handler[g]
  BY <1>1
<1>3. text' \in [TextJobs -> TextRow] /\ handler' \in [Handlers -> HandlerRow]
  BY <1>1
<1>4. \A j \in TextJobs : text'[j].way = "" => text'[j] = NoText
  BY <1>2 DEF TextInv, TextTypes
<1>5. AskedStays
  BY <1>2 DEF AskedStays, SameAsk
<1>6. TextTypes'
  BY <1>3, <1>4 DEF TextTypes, TextInv
<1> QED BY <1>2, <1>5, <1>6

LEMMA HandlerStep ==
    ASSUME TextInv, NEW h \in Handlers, NEW r \in HandlerRow, NEW p \in TextRow,
           p.way # "", SameAsk(p, text[h[1]]),
           p.way = "out" => h[2] = 1 /\ text[h[1]].answer = "",
           p.way = "in" /\ p.answer = "ok" => text[h[1]].answer = "ok" \/ Filed(h[1])',
           handler' = [handler EXCEPT ![h] = r], text' = [text EXCEPT ![h[1]] = p],
           RowsKept, TextTables',
           \A e \in events' : \/ e \in events
                              \/ /\ e.job = h[1]
                                 /\ \A t \in threads' : t.id = e.thread =>
                                      t.line = e.line /\ \A c \in contacts' : c.id = t.contact => IsOf(c, e.job)',
           HandlerOK(h, r)', SentOK(h[1], p, r.at)'
    PROVE  TextInv'
<1>1. h[1] \in TextJobs /\ h[2] \in Copies /\ h = <<h[1], h[2]>>
  BY HandlerFacts
<1>2. /\ TextTypes' /\ AskedStays
      /\ text'[h[1]] = p /\ handler'[h] = r
      /\ \A j \in TextJobs : j # h[1] => text'[j] = text[j]
      /\ \A g \in Handlers : g # h => handler'[g] = handler[g]
  BY StepTypes DEF RowsKept
<1>3. ThreadsDoNotMix'
  <2>1. ASSUME NEW e \in events', NEW t \in threads', t.id = e.thread
        PROVE  t.line = e.line /\ \A c \in contacts' : c.id = t.contact => IsOf(c, e.job)'
    <3>1. CASE e \in events
      BY <1>2, <2>1, <3>1, EventsStay
    <3> QED BY <2>1, <3>1
  <2> QED BY <2>1 DEF ThreadsDoNotMix, IsOf
<1>4. AnsweredIsStored'
  <2> SUFFICES ASSUME NEW j \in TextJobs, text'[j].way = "in", text'[j].answer = "ok", text'[j].line \in lines'
               PROVE  \E e \in events' : e.job = j /\ e.sid /\ e.line = text'[j].line
    BY DEF AnsweredIsStored
  <2>1. text[j].way = "in" /\ text[j].line = text'[j].line
    BY <1>2 DEF AskedStays, SameAsk
  <2>2. text[j].answer = "ok" => Filed(j)
    BY <2>1 DEF TextInv, AnsweredIsStored, Filed
  <2>3. Filed(j)'
    <3>1. CASE text[j].answer = "ok"
      BY <1>2, <2>1, <2>2, <3>1, FiledStays
    <3>2. CASE text[j].answer # "ok"
      BY <1>2, <3>2
    <3> QED BY <3>1, <3>2
  <2>4. PICK e \in events' : e.job = j /\ e.sid
    BY <2>3 DEF Filed
  <2> QED BY <2>4 DEF TextTables
<1>5. ASSUME NEW g \in Handlers PROVE HandlerOK(g, handler[g])'
  <2>1. CASE g = h
    BY <1>2, <2>1
  <2>2. CASE g # h
    <3>1. PICK s \in HandlerRow : s = handler[g] /\ HandlerOK(g, s)
      BY HandlerFacts
    <3>2. handler'[g] = s
      BY <1>2, <2>2, <3>1
    <3>3. s.at # "idle" /\ text[g[1]].way = "out" => text'[g[1]].answer = ""
      <4> SUFFICES ASSUME s.at # "idle", text[g[1]].way = "out" PROVE text'[g[1]].answer = ""
        OBVIOUS
      <4>1. g[2] = 1 /\ text[g[1]].answer = ""
        BY <3>1 DEF HandlerOK
      <4>2. g[1] \in TextJobs /\ g = <<g[1], g[2]>>
        BY HandlerFacts
      <4>3. g[1] = h[1] => h[2] = 1
        BY DEF SameAsk
      <4>4. g[1] # h[1]
        BY <1>1, <2>2, <4>1, <4>2, <4>3, Zenon
      <4> QED BY <1>2, <4>1, <4>2, <4>4
    <3>4. s.seen \in InUse /\ s.contact \in InUse /\ s.thread \in InUse
      BY <3>1, Used
    <3>5. HandlerOK(g, s)'
      BY <1>2, <3>1, <3>3, <3>4, HandlerStays
    <3> QED BY <3>2, <3>5
  <2> QED BY <2>1, <2>2
<1>6. ASSUME NEW j \in TextJobs PROVE SentOK(j, text[j], handler[<<j, 1>>].at)'
  <2>1. CASE j = h[1]
    <3>1. CASE p.way = "out"
      <4>1. h = <<j, 1>>
        BY <1>1, <2>1, <3>1, Zenon
      <4> QED BY <1>2, <2>1, <4>1
    <3>2. CASE p.way # "out"
      BY <1>2, <2>1, <3>2 DEF SentOK
    <3> QED BY <3>1, <3>2
  <2>2. CASE j # h[1]
    <3>1. <<j, 1>> \in Handlers /\ <<j, 1>> # h
      <4>1. <<j, 1>> \in Handlers
        BY TextAssumption DEF Handlers
      <4>2. <<j, 1>>[1] = j
        OBVIOUS
      <4> QED BY <2>2, <4>1, <4>2, Zenon
    <3>2. PICK q : q = text[j] /\ SentOK(j, q, handler[<<j, 1>>].at)
      BY DEF TextInv
    <3>3. PICK at : at = handler[<<j, 1>>].at
      OBVIOUS
    <3>4. text'[j] = q /\ handler'[<<j, 1>>].at = at
      BY <1>2, <2>2, <3>1, <3>2, <3>3
    <3>5. \A e \in events' : e.job = j => e \in events
      BY <2>2
    <3>6. q.line \in lines' /\ (\E e \in events : e.job = j) => \E f \in events' : f.job = j
      <4> SUFFICES ASSUME q.line \in lines', NEW e \in events, e.job = j PROVE \E f \in events' : f.job = j
        OBVIOUS
      <4>1. e.line = q.line
        BY <3>2, EventFacts
      <4> QED BY <4>1 DEF RowsKept
    <3>7. q.line \in lines' => q.line \in lines
      BY DEF RowsKept
    <3>8. SentOK(j, q, at)'
      BY <3>2, <3>3, <3>5, <3>6, <3>7 DEF SentOK
    <3> QED BY <3>4, <3>8
  <2> QED BY <2>1, <2>2
<1> QED BY <1>2, <1>3, <1>4, <1>5, <1>6 DEF TextInv

\* A request that writes no row.
LEMMA QuietStep ==
    ASSUME TextInv, NEW h \in Handlers, NEW r \in HandlerRow, NEW p \in TextRow,
           p.way # "", SameAsk(p, text[h[1]]),
           p.way = "out" => h[2] = 1 /\ text[h[1]].answer = "",
           r.at # "idle" /\ p.way = "out" => p.answer = "",
           p.way = "in" /\ p.answer = "ok" => text[h[1]].answer = "ok" \/ Filed(h[1]),
           handler' = [handler EXCEPT ![h] = r], text' = [text EXCEPT ![h[1]] = p],
           lines' = lines, contacts' = contacts, threads' = threads, events' = events,
           HandlerOK(h, r), SentOK(h[1], p, r.at)
    PROVE  TextInv'
<1>1. h[1] \in TextJobs
  BY HandlerFacts
<1>2. AskedStays /\ text'[h[1]] = p
  <2>1. lines' \subseteq lines
    OBVIOUS
  <2>2. AskedStays
    BY <2>1, StepTypes DEF SameAsk
  <2>3. text'[h[1]] = p
    BY <1>1 DEF TextInv, TextTypes
  <2> QED BY <2>2, <2>3
<1>3. RowsKept
  BY NothingChanged
<1>4. TextTables'
  <2>1. \A e \in events : text'[e.job].way # "" /\ e.line = text'[e.job].line
    BY <1>2, EventFacts DEF AskedStays
  <2> QED BY <2>1 DEF TextInv, TextTables
<1>5. HandlerOK(h, r)'
  <2>1. /\ text'[h[1]].way = text[h[1]].way /\ text'[h[1]].kind = text[h[1]].kind
        /\ text[h[1]].way # ""
    BY <1>2 DEF SameAsk
  <2>2. /\ \A c : IsOf(c, h[1])' <=> IsOf(c, h[1])
        /\ \A t, x : Suits(t, h[1], x)' <=> Suits(t, h[1], x)
    BY <1>1, <1>2, <2>1, AskedSame
  <2>3. Filed(h[1]) => Filed(h[1])'
    BY <1>1, <1>2, <1>3, <2>1, FiledStays
  <2> QED BY <1>2, <2>1, <2>2, <2>3 DEF HandlerOK
<1>6. SentOK(h[1], p, r.at)'
  BY DEF SentOK
<1>7. p.way = "in" /\ p.answer = "ok" => text[h[1]].answer = "ok" \/ Filed(h[1])'
  BY <1>1, <1>2, <1>3, FiledStays DEF SameAsk
<1> QED BY <1>3, <1>4, <1>5, <1>6, <1>7, HandlerStep

LEMMA IdleOK ==
    ASSUME TextInv, NEW h \in Handlers
    PROVE  Idle \in HandlerRow /\ Idle.at = "idle" /\ HandlerOK(h, Idle)
<1>1. Idle.at = "idle" /\ Idle.contact = 0 /\ Idle.thread = 0 /\ Idle \in HandlerRow
  BY DEF Idle, HandlerRow, HandlerPcs
<1>2. \A c \in contacts : c.id # 0
  BY DEF TextInv, TextTables
<1>3. \A t \in threads : t.id # 0
  BY DEF TextInv, TextTables, ThreadRow
<1> QED BY <1>1, <1>2, <1>3 DEF HandlerOK, WithContact, Recorded

\* What is known of a request that is under way.
LEMMA Busy ==
    ASSUME TextInv, NEW h \in Handlers, handler[h].at # "idle"
    PROVE  /\ text[h[1]].way \in {"in", "out"} /\ text[h[1]].kind \in {"", "message", "call"}
           /\ text[h[1]].way = "out" => h[2] = 1 /\ text[h[1]].answer = ""
           /\ SentOK(h[1], text[h[1]], handler[h].at)
<1>1. /\ h[1] \in TextJobs /\ h = <<h[1], h[2]>>
      /\ text[h[1]].way # ""
      /\ text[h[1]].way = "out" => h[2] = 1 /\ text[h[1]].answer = ""
      /\ text[h[1]] \in TextRow
  BY HandlerFacts DEF HandlerOK
<1>2. text[h[1]].way \in {"in", "out"} /\ text[h[1]].kind \in {"", "message", "call"}
  BY <1>1 DEF TextRow
<1>3. SentOK(h[1], text[h[1]], handler[h].at)
  <2>1. CASE text[h[1]].way = "out"
    <3>1. h = <<h[1], 1>>
      BY <1>1, <2>1, Zenon
    <3>2. SentOK(h[1], text[h[1]], handler[<<h[1], 1>>].at)
      BY <1>1 DEF TextInv
    <3> QED BY <3>1, <3>2, Zenon
  <2>2. CASE text[h[1]].way # "out"
    BY <2>2 DEF SentOK
  <2> QED BY <2>1, <2>2
<1> QED BY <1>1, <1>2, <1>3

LEMMA GoesTo ==
    ASSUME TextInv, NEW h \in Handlers, NEW pc \in HandlerPcs, Goes(h, pc)
    PROVE  \E r \in HandlerRow :
             /\ handler' = [handler EXCEPT ![h] = r] /\ r.at = pc
             /\ r.seen = handler[h].seen /\ r.contact = handler[h].contact /\ r.thread = handler[h].thread
<1>1. PICK s \in HandlerRow : s = handler[h]
  BY HandlerFacts
<1>2. PICK r : r = [s EXCEPT !.at = pc]
  OBVIOUS
<1>3. r \in HandlerRow /\ r.at = pc /\ r.seen = s.seen /\ r.contact = s.contact /\ r.thread = s.thread
  BY <1>2 DEF HandlerRow
<1>4. handler' = [handler EXCEPT ![h] = r]
  BY <1>1, <1>2 DEF Goes, TextInv, TextTypes
<1> QED BY <1>1, <1>3, <1>4

TextAnswers == {"no line", "ok", "refused", "failed", "error"}

\* A request is answered.
LEMMA AnsweredWith ==
    ASSUME TextInv, NEW h \in Handlers, NEW why \in TextAnswers, Answers(h, why)
    PROVE  \E p \in TextRow :
             /\ text' = [text EXCEPT ![h[1]] = p] /\ p.answer = why /\ SameAsk(p, text[h[1]])
             /\ p.sent = text[h[1]].sent /\ p.agent = text[h[1]].agent
             /\ handler' = [handler EXCEPT ![h] = Idle]
<1>1. h[1] \in TextJobs
  BY HandlerFacts
<1>2. PICK q \in TextRow : q = text[h[1]]
  BY HandlerFacts
<1>3. PICK p : p = [q EXCEPT !.answer = why]
  OBVIOUS
<1>4. /\ p \in TextRow /\ p.answer = why /\ SameAsk(p, q) /\ p.sent = q.sent /\ p.agent = q.agent
  BY <1>3 DEF TextRow, SameAsk, TextAnswers
<1>5. text' = [text EXCEPT ![h[1]] = p] /\ handler' = [handler EXCEPT ![h] = Idle]
  BY <1>1, <1>2, <1>3 DEF Answers, TextInv, TextTypes
<1> QED BY <1>2, <1>4, <1>5

LEMMA AnswersInv ==
    ASSUME TextInv, NEW h \in Handlers, NEW why \in {"no line", "ok", "refused", "error"}, Answers(h, why),
           handler[h].at # "idle", why = "ok" => handler[h].at = "touch",
           lines' = lines, contacts' = contacts, threads' = threads, events' = events
    PROVE  TextInv'
<1>1. why \in TextAnswers
  BY DEF TextAnswers
<1>2. PICK p \in TextRow :
        /\ text' = [text EXCEPT ![h[1]] = p] /\ p.answer = why /\ SameAsk(p, text[h[1]])
        /\ p.sent = text[h[1]].sent /\ p.agent = text[h[1]].agent
        /\ handler' = [handler EXCEPT ![h] = Idle]
  BY <1>1, AnsweredWith
<1>3. Idle \in HandlerRow /\ Idle.at = "idle" /\ HandlerOK(h, Idle)
  BY IdleOK
<1>4. /\ text[h[1]].way \in {"in", "out"}
      /\ text[h[1]].way = "out" => h[2] = 1 /\ text[h[1]].answer = ""
      /\ SentOK(h[1], text[h[1]], handler[h].at)
  BY Busy
<1>5. p.answer = "ok" => Filed(h[1])
  BY <1>2, HandlerFacts DEF HandlerOK
<1>6. SentOK(h[1], p, "idle")
  BY <1>2, <1>4, <1>5 DEF SentOK, SameAsk, Filed
<1>7. /\ p.way # ""
      /\ p.way = "out" => h[2] = 1 /\ text[h[1]].answer = ""
      /\ p.way = "in" /\ p.answer = "ok" => text[h[1]].answer = "ok" \/ Filed(h[1])
      /\ SentOK(h[1], p, Idle.at)
      /\ Idle.at # "idle" /\ p.way = "out" => p.answer = ""
  BY <1>2, <1>3, <1>4, <1>5, <1>6 DEF SameAsk
<1> QED BY <1>2, <1>3, <1>7, QuietStep

\* Nothing but the handler goes on.
LEMMA MovesInv ==
    ASSUME TextInv, NEW h \in Handlers, NEW r \in HandlerRow, text[h[1]].way # "",
           handler' = [handler EXCEPT ![h] = r], text' = text,
           text[h[1]].way = "out" => h[2] = 1 /\ text[h[1]].answer = "",
           lines' = lines, contacts' = contacts, threads' = threads, events' = events,
           HandlerOK(h, r), SentOK(h[1], text[h[1]], r.at)
    PROVE  TextInv'
<1>1. h[1] \in TextJobs
  BY HandlerFacts
<1>2. PICK p \in TextRow : p = text[h[1]]
  BY HandlerFacts
<1>3. text' = [text EXCEPT ![h[1]] = p]
  BY <1>1, <1>2 DEF TextInv, TextTypes
<1>4. SameAsk(p, text[h[1]])
  BY <1>2 DEF SameAsk
<1>5. /\ p.way # ""
      /\ p.way = "out" => h[2] = 1 /\ text[h[1]].answer = ""
      /\ p.way = "in" /\ p.answer = "ok" => text[h[1]].answer = "ok" \/ Filed(h[1])
      /\ SentOK(h[1], p, r.at)
      /\ r.at # "idle" /\ p.way = "out" => p.answer = ""
  BY <1>2
<1> QED BY <1>3, <1>4, <1>5, QuietStep

LEMMA BreaksInv ==
    ASSUME TextInv, NEW h \in Handlers, Breaks(h), handler[h].at # "idle",
           lines' = lines, contacts' = contacts, threads' = threads, events' = events
    PROVE  TextInv'
<1>1. text[h[1]].way \in {"in", "out"} /\ h[1] \in TextJobs
  BY Busy, HandlerFacts
<1>2. CASE text[h[1]].way = "in"
  <2>1. handler' = [handler EXCEPT ![h] = Idle] /\ text' = text
    BY <1>1, <1>2 DEF Breaks, Item, TextInv, TextTypes, TextRow
  <2>2. Idle \in HandlerRow /\ Idle.at = "idle" /\ HandlerOK(h, Idle)
    BY IdleOK
  <2>3. SentOK(h[1], text[h[1]], Idle.at)
    BY <1>2 DEF SentOK
  <2> QED BY <1>2, <2>1, <2>2, <2>3, MovesInv
<1>3. CASE text[h[1]].way = "out"
  <2>1. Answers(h, "error")
    BY <1>3 DEF Breaks, Answers, Item
  <2> QED BY <2>1, AnswersInv
<1> QED BY <1>1, <1>2, <1>3

LEMMA RaisesInv ==
    ASSUME TextInv, NEW h \in Handlers, Raises(h), handler[h].at \in Recorded,
           lines' = lines, contacts' = contacts, threads' = threads, events' = events
    PROVE  TextInv'
<1>0. handler[h].at # "idle"
  BY DEF Recorded
<1>1. /\ text[h[1]].way \in {"in", "out"} /\ SentOK(h[1], text[h[1]], handler[h].at)
      /\ text[h[1]].way = "out" => h[2] = 1 /\ text[h[1]].answer = ""
  BY <1>0, Busy
<1>2. CASE text[h[1]].way = "in"
  <2>1. Breaks(h)
    BY <1>2 DEF Raises, Item
  <2> QED BY <1>0, <2>1, BreaksInv
<1>3. CASE text[h[1]].way = "out"
  <2>1. Goes(h, "failed") /\ text' = text
    BY <1>3 DEF Raises, Item
  <2>2. "failed" \in HandlerPcs
    BY DEF HandlerPcs, Recorded
  <2>3. PICK r \in HandlerRow :
          /\ handler' = [handler EXCEPT ![h] = r] /\ r.at = "failed"
          /\ r.seen = handler[h].seen /\ r.contact = handler[h].contact /\ r.thread = handler[h].thread
    BY <2>1, <2>2, GoesTo
  <2>4. HandlerOK(h, r)
    <3>1. HandlerOK(h, handler[h])
      BY HandlerFacts
    <3> QED BY <1>1, <1>3, <2>3, <3>1 DEF HandlerOK, WithContact, Recorded
  <2>5. SentOK(h[1], text[h[1]], "failed")
    BY <1>1 DEF SentOK, LookingUp
  <2> QED BY <1>1, <1>3, <2>1, <2>3, <2>4, <2>5, MovesInv
<1> QED BY <1>1, <1>2, <1>3

---------------------------------------------------------------------------
(* The actions.                                                              *)

---------------------------------------------------------------------------
(* Messages and calls: the requests, step by step *)

LEMMA ArriveInv == ASSUME TextInv, NEW j \in TextJobs, Arrive(j) PROVE TextInv'
<1>1. PICK m \in TextMenu[j] :
        text' = [text EXCEPT ![j] = [NoText EXCEPT !.way = m.way, !.kind = m.kind, !.line = m.line,
                                                  !.person = m.person, !.as = m.as]]
  BY DEF Arrive
<1>2. PICK p : p = [NoText EXCEPT !.way = m.way, !.kind = m.kind, !.line = m.line, !.person = m.person,
                                  !.as = m.as]
  OBVIOUS
<1>3. /\ p.way = m.way /\ p.kind = m.kind /\ p.line = m.line /\ p.person = m.person /\ p.as = m.as
      /\ p.sent = FALSE /\ p.agent = FALSE /\ p.answer = ""
  BY <1>2 DEF NoText
<1>4. m.way \in {"in", "out"} /\ m.kind \in {"message", "call"} /\ m \in TextItems
  BY TextAssumption DEF TextItems
<1>5. p \in TextRow
  <2>1. p.line \in TextLines /\ p.person \in TextPeople /\ p.as \in TextSenders
    BY <1>3, <1>4 DEF TextLines, TextPeople, TextSenders
  <2> QED BY <1>2, <1>3, <1>4, <2>1 DEF TextRow, NoText
<1>6. /\ text[j].way = ""
      /\ lines' = lines /\ contacts' = contacts /\ threads' = threads /\ events' = events
      /\ handler' = handler
  <2>1. NoText.way = ""
    BY DEF NoText
  <2>2. text[j] = NoText /\ UNCHANGED <<textRows, handler, textFaults, removals>>
    BY DEF Arrive
  <2> QED BY <2>1, <2>2 DEF textRows
<1>7. /\ text'[j] = p /\ \A i \in TextJobs : i # j => text'[i] = text[i]
      /\ text' \in [TextJobs -> TextRow]
  BY <1>1, <1>2, <1>5 DEF TextInv, TextTypes
<1>8. AskedStays
  BY <1>6, <1>7 DEF AskedStays
<1>9. RowsKept
  BY <1>6, NothingChanged
<1>10. TextTypes'
  BY <1>3, <1>4, <1>6, <1>7 DEF TextInv, TextTypes
<1>11. \A e \in events : e.job # j
  BY <1>6, EventFacts
<1>12. TextTables'
  <2>1. \A e \in events : text'[e.job].way # "" /\ e.line = text'[e.job].line
    BY <1>8, EventFacts DEF AskedStays
  <2> QED BY <1>6, <2>1 DEF TextInv, TextTables
<1>13. ThreadsDoNotMix'
  <2>1. \A e \in events : \A t \in threads : t.id = e.thread =>
          t.line = e.line /\ \A c \in contacts : c.id = t.contact => IsOf(c, e.job)'
    BY <1>6, <1>8, <1>9, EventsStay
  <2> QED BY <1>6, <2>1 DEF ThreadsDoNotMix, IsOf
<1>14. AnsweredIsStored'
  <2> SUFFICES ASSUME NEW i \in TextJobs, text'[i].way = "in", text'[i].answer = "ok", text'[i].line \in lines'
               PROVE  \E e \in events' : e.job = i /\ e.sid /\ e.line = text'[i].line
    BY DEF AnsweredIsStored
  <2>1. text'[i] = text[i]
    BY <1>3, <1>7
  <2>2. text[i].way = "in" /\ text[i].answer = "ok" /\ text[i].line \in lines
    BY <1>6, <2>1
  <2>3. \E e \in events : e.job = i /\ e.sid /\ e.line = text[i].line
    BY <2>2 DEF TextInv, AnsweredIsStored
  <2> QED BY <1>6, <2>1, <2>3
<1>15. ASSUME NEW h \in Handlers PROVE HandlerOK(h, handler[h])'
  <2>1. PICK r \in HandlerRow : r = handler[h] /\ HandlerOK(h, r)
    BY HandlerFacts
  <2>2. handler'[h] = r
    BY <1>6, <2>1
  <2>3. r.at # "idle" /\ text[h[1]].way = "out" => text'[h[1]].answer = ""
    BY <1>3, <1>7, <2>1, HandlerFacts DEF HandlerOK
  <2>4. r.seen \in InUse /\ r.contact \in InUse /\ r.thread \in InUse
    BY <2>1, Used
  <2> QED BY <1>8, <1>9, <2>1, <2>2, <2>3, <2>4, HandlerStays
<1>16. ASSUME NEW i \in TextJobs PROVE SentOK(i, text[i], handler[<<i, 1>>].at)'
  <2>1. PICK at : at = handler[<<i, 1>>].at
    OBVIOUS
  <2>2. handler'[<<i, 1>>].at = at
    BY <1>6, <2>1
  <2>3. CASE i = j
    <3>1. <<j, 1>> \in Handlers
      BY TextAssumption DEF Handlers
    <3>2. <<j, 1>>[1] = j
      OBVIOUS
    <3>3. HandlerOK(<<j, 1>>, handler[<<j, 1>>])
      BY <3>1 DEF TextInv
    <3>4. at = "idle"
      BY <1>6, <2>1, <2>3, <3>2, <3>3 DEF HandlerOK
    <3>5. SentOK(i, p, at)'
      BY <1>3, <1>6, <1>11, <2>3, <3>4 DEF SentOK, LookingUp
    <3> QED BY <1>7, <2>2, <2>3, <3>5
  <2>4. CASE i # j
    <3>1. PICK q : q = text[i] /\ SentOK(i, q, at)
      BY <2>1 DEF TextInv
    <3>2. SentOK(i, q, at)'
      BY <1>6, <3>1 DEF SentOK
    <3> QED BY <1>7, <2>2, <2>4, <3>1, <3>2
  <2> QED BY <2>3, <2>4
<1> QED BY <1>10, <1>12, <1>13, <1>14, <1>15, <1>16 DEF TextInv

LEMMA DeliverInv ==
    ASSUME TextInv, NEW h \in Handlers, Deliver(h) \/ DeliverAgain(h)
    PROVE  TextInv'
<1>1. /\ Goes(h, "line") /\ text' = text /\ Resting(h) /\ text[h[1]].way # ""
      /\ text[h[1]].way = "out" => h[2] = 1 /\ text[h[1]].answer = ""
      /\ lines' = lines /\ contacts' = contacts /\ threads' = threads /\ events' = events
  <2>1. CASE Deliver(h)
    <3>1. Resting(<<h[1], h[2]>>)
      BY <2>1, HandlerFacts DEF Deliver
    <3>2. Resting(h)
      BY <3>1, HandlerFacts, Zenon
    <3> QED BY <2>1, <3>2 DEF Deliver, Item, textRows
  <2>2. CASE DeliverAgain(h)
    BY <2>2 DEF DeliverAgain, Item, textRows
  <2> QED BY <2>1, <2>2
<1>2. handler[h] = Idle
  BY <1>1, HandlerFacts DEF Resting, At, HandlerOK
<1>3. "line" \in HandlerPcs
  BY DEF HandlerPcs, LookingUp
<1>4. PICK r \in HandlerRow :
        /\ handler' = [handler EXCEPT ![h] = r] /\ r.at = "line"
        /\ r.seen = handler[h].seen /\ r.contact = handler[h].contact /\ r.thread = handler[h].thread
  BY <1>1, <1>3, GoesTo
<1>5. r.contact = 0 /\ r.thread = 0
  BY <1>2, <1>4 DEF Idle
<1>6. HandlerOK(h, r)
  <2>1. HandlerOK(h, Idle) /\ Idle.contact = 0 /\ Idle.thread = 0
    BY IdleOK DEF Idle
  <2> QED BY <1>1, <1>4, <1>5, <2>1 DEF HandlerOK, WithContact, Recorded
<1>7. SentOK(h[1], text[h[1]], "line")
  <2>1. CASE text[h[1]].way = "out"
    <3>1. h = <<h[1], 1>>
      BY <1>1, <2>1, HandlerFacts, Zenon
    <3>2. SentOK(h[1], text[h[1]], handler[<<h[1], 1>>].at)
      BY HandlerFacts DEF TextInv
    <3>3. SentOK(h[1], text[h[1]], handler[h].at) /\ handler[h].at = "idle"
      BY <1>1, <3>1, <3>2, Zenon DEF Resting, At
    <3> QED BY <3>3 DEF SentOK, LookingUp
  <2>2. CASE text[h[1]].way # "out"
    BY <2>2 DEF SentOK
  <2> QED BY <2>1, <2>2
<1> QED BY <1>1, <1>4, <1>6, <1>7, MovesInv

LEMMA FindChannelInv == ASSUME TextInv, NEW h \in Handlers, FindChannel(h) PROVE TextInv'
<1>1. /\ handler[h].at = "line"
      /\ lines' = lines /\ contacts' = contacts /\ threads' = threads /\ events' = events
  BY DEF FindChannel, At, textRows
<1>2. CASE Answers(h, "no line")
  BY <1>1, <1>2, AnswersInv
<1>3. CASE Goes(h, "contact") /\ text' = text
  <2>1. "contact" \in HandlerPcs
    BY DEF HandlerPcs, LookingUp
  <2>2. PICK r \in HandlerRow :
          /\ handler' = [handler EXCEPT ![h] = r] /\ r.at = "contact"
          /\ r.seen = handler[h].seen /\ r.contact = handler[h].contact /\ r.thread = handler[h].thread
    BY <1>3, <2>1, GoesTo
  <2>3. HandlerOK(h, r)
    <3>1. HandlerOK(h, handler[h])
      BY HandlerFacts
    <3> QED BY <1>1, <2>2, <3>1 DEF HandlerOK, WithContact, Recorded
  <2>4. /\ text[h[1]].way # "" /\ SentOK(h[1], text[h[1]], handler[h].at)
        /\ text[h[1]].way = "out" => h[2] = 1 /\ text[h[1]].answer = ""
    BY <1>1, Busy
  <2>5. SentOK(h[1], text[h[1]], "contact")
    BY <1>1, <2>4 DEF SentOK, LookingUp
  <2> QED BY <1>1, <1>3, <2>2, <2>3, <2>4, <2>5, MovesInv
<1> QED BY <1>2, <1>3 DEF FindChannel

LEMMA FindContactInv == ASSUME TextInv, NEW h \in Handlers, FindContact(h) PROVE TextInv'
<1>1. /\ handler[h].at = "contact" /\ text' = text
      /\ lines' = lines /\ contacts' = contacts /\ threads' = threads /\ events' = events
  BY DEF FindContact, At, textRows
<1>2. PICK id : /\ handler' = [handler EXCEPT ![h].at = "save contact", ![h].seen = id]
                /\ id = 0 \/ \E c \in contacts : Known(c, h) /\ c.id = id
  <2> DEFINE ids == {c.id : c \in {d \in contacts : Known(d, h)}}
             found == IF ids = {} THEN 0 ELSE CHOOSE i \in ids : TRUE
  <2>1. handler' = [handler EXCEPT ![h].at = "save contact", ![h].seen = found]
    BY DEF FindContact
  <2>2. found = 0 \/ \E c \in contacts : Known(c, h) /\ c.id = found
    <3>1. found = 0 \/ found \in ids
      OBVIOUS
    <3> QED BY <3>1
  <2> QED BY <2>1, <2>2
<1>3. "save contact" \in HandlerPcs /\ id \in Nat
  <2>1. \A c \in contacts : c.id \in Nat
    BY DEF TextInv, TextTables
  <2>2. id = 0 \/ \E c \in contacts : c.id = id
    BY <1>2, Zenon
  <2> QED BY <2>1, <2>2 DEF HandlerPcs, LookingUp
<1>4. PICK r \in HandlerRow :
        /\ handler' = [handler EXCEPT ![h] = r] /\ r.at = "save contact" /\ r.seen = id
        /\ r.contact = handler[h].contact /\ r.thread = handler[h].thread
  <2>1. handler' = [handler EXCEPT ![h].at = "save contact", ![h].seen = id]
    BY <1>2, Zenon
  <2>2. PICK s \in HandlerRow : s = handler[h]
    BY HandlerFacts
  <2>3. PICK r : r = [s EXCEPT !.at = "save contact", !.seen = id]
    OBVIOUS
  <2>4. r \in HandlerRow /\ r.at = "save contact" /\ r.seen = id /\ r.contact = s.contact /\ r.thread = s.thread
    BY <1>3, <2>3 DEF HandlerRow
  <2>5. handler' = [handler EXCEPT ![h] = r]
    BY <2>1, <2>2, <2>3 DEF TextInv, TextTypes
  <2> QED BY <2>2, <2>4, <2>5
<1>5. HandlerOK(h, r)
  <2>1. HandlerOK(h, handler[h])
    BY HandlerFacts
  <2>2. \A c \in contacts : c.id = r.seen => IsOf(c, h[1])
    <3>1. \A c, d \in contacts : c.id = d.id => c = d
      BY DEF TextInv, TextTables
    <3>2. \A c \in contacts : c.id # 0
      BY DEF TextInv, TextTables
    <3>3. \A c : Known(c, h) => IsOf(c, h[1])
      BY DEF IsOf, Known, Item
    <3> QED BY <1>2, <1>4, <3>1, <3>2, <3>3
  <2> QED BY <1>1, <1>4, <2>1, <2>2 DEF HandlerOK, WithContact, Recorded
<1>6. /\ text[h[1]].way # "" /\ SentOK(h[1], text[h[1]], handler[h].at)
      /\ text[h[1]].way = "out" => h[2] = 1 /\ text[h[1]].answer = ""
  BY <1>1, Busy
<1>7. SentOK(h[1], text[h[1]], "save contact")
  BY <1>1, <1>6 DEF SentOK, LookingUp
<1> QED BY <1>1, <1>4, <1>5, <1>6, <1>7, MovesInv

\* The contact is looked up and saved before anything is sent or recorded.
LEMMA BeforeSending ==
    ASSUME TextInv, NEW h \in Handlers, handler[h].at \in LookingUp, NEW pc \in LookingUp \cup {"send"}
    PROVE  SentOK(h[1], text[h[1]], pc)
<1>1. SentOK(h[1], text[h[1]], handler[h].at)
  BY Busy DEF LookingUp
<1> QED BY <1>1 DEF SentOK, LookingUp

LEMMA SaveContactInv == ASSUME TextInv, NEW h \in Handlers, SaveContact(h) PROVE TextInv'
<1>1. /\ handler[h].at = "save contact"
      /\ lines' = lines /\ threads' = threads /\ events' = events
  BY DEF SaveContact, At
<1>2. /\ text[h[1]].way # ""
      /\ text[h[1]].way = "out" => h[2] = 1 /\ text[h[1]].answer = ""
      /\ h[1] \in TextJobs
  BY <1>1, Busy, HandlerFacts
<1>3. HandlerOK(h, handler[h]) /\ handler[h].thread = 0 /\ handler[h].seen \in Nat
  BY <1>1, HandlerFacts DEF HandlerOK, Recorded, HandlerRow
<1>4. SentOK(h[1], text[h[1]], "thread")
  BY <1>1, BeforeSending DEF LookingUp
<1>5. "thread" \in HandlerPcs
  BY DEF HandlerPcs, LookingUp
<1>6. CASE Breaks(h) /\ contacts' = contacts
  BY <1>1, <1>6, BreaksInv
<1>7. CASE /\ handler[h].seen # 0 /\ contacts' = contacts /\ text' = text
           /\ handler' = [handler EXCEPT ![h].at = "thread", ![h].contact = handler[h].seen, ![h].seen = 0]
  <2>2. PICK r \in HandlerRow :
          /\ handler' = [handler EXCEPT ![h] = r] /\ r.at = "thread" /\ r.seen = 0
          /\ r.contact = handler[h].seen /\ r.thread = 0
    <3>1. PICK s \in HandlerRow : s = handler[h]
      BY HandlerFacts
    <3>2. PICK r : r = [s EXCEPT !.at = "thread", !.contact = handler[h].seen, !.seen = 0]
      OBVIOUS
    <3>3. /\ r \in HandlerRow /\ r.at = "thread" /\ r.seen = 0 /\ r.contact = handler[h].seen /\ r.thread = s.thread
      BY <1>3, <1>5, <3>1, <3>2 DEF HandlerRow
    <3>4. handler' = [handler EXCEPT ![h] = r]
      BY <1>7, <3>1, <3>2 DEF TextInv, TextTypes
    <3> QED BY <1>3, <3>1, <3>3, <3>4
  <2>3. \A t \in threads : t.id # 0
    BY DEF TextInv, TextTables, ThreadRow
  <2>4. HandlerOK(h, r)
    BY <1>1, <1>2, <1>3, <1>7, <2>2, <2>3 DEF HandlerOK, WithContact, Recorded
  <2>5. SentOK(h[1], text[h[1]], r.at)
    BY <1>4, <2>2
  <2> QED BY <1>1, <1>2, <1>7, <2>2, <2>4, <2>5, MovesInv
<1>8. CASE /\ ~\E c \in contacts : Known(c, h)
           /\ contacts' = contacts \cup {[id |-> Fresh, kwami |-> Asker(h[1]), person |-> Item(h).person]}
           /\ handler' = [handler EXCEPT ![h].at = "thread", ![h].contact = Fresh, ![h].seen = 0]
           /\ text' = text
  <2>1. PICK id \in Nat \ {0} : id = Fresh /\ id \notin InUse
    BY FreshIsNew
  <2>2. PICK n : n = [id |-> id, kwami |-> Asker(h[1]), person |-> text[h[1]].person]
    OBVIOUS
  <2>3. n.id = id /\ n.kwami = Asker(h[1]) /\ n.person = text[h[1]].person /\ IsOf(n, h[1])
    BY <2>2 DEF IsOf
  <2>4. contacts' = contacts \cup {n}
    BY <1>8, <2>1, <2>2 DEF Item
  <2>5. \A c \in contacts : c.id # id
    BY <2>1, Used
  <2>6. \A c \in contacts : ~(c.kwami = n.kwami /\ c.person = n.person)
    BY <1>8, <2>3 DEF Known, Item
  <2>7. PICK r \in HandlerRow :
          /\ handler' = [handler EXCEPT ![h] = r] /\ r.at = "thread" /\ r.seen = 0
          /\ r.contact = id /\ r.thread = 0
    <3>1. PICK s \in HandlerRow : s = handler[h]
      BY HandlerFacts
    <3>2. PICK r : r = [s EXCEPT !.at = "thread", !.contact = id, !.seen = 0]
      OBVIOUS
    <3>3. /\ r \in HandlerRow /\ r.at = "thread" /\ r.seen = 0 /\ r.contact = id /\ r.thread = s.thread
      BY <1>3, <1>5, <3>1, <3>2 DEF HandlerRow
    <3>4. handler' = [handler EXCEPT ![h] = r]
      BY <1>8, <2>1, <3>1, <3>2 DEF TextInv, TextTypes
    <3> QED BY <1>3, <3>1, <3>3, <3>4
  <2>8. PICK p \in TextRow : p = text[h[1]] /\ text' = [text EXCEPT ![h[1]] = p]
    <3>1. PICK p \in TextRow : p = text[h[1]]
      BY HandlerFacts
    <3>2. text' = [text EXCEPT ![h[1]] = p]
      BY <1>2, <1>8, <3>1 DEF TextInv, TextTypes
    <3> QED BY <3>1, <3>2
  <2>9. RowsKept
    BY <1>1, <2>1, <2>3, <2>4 DEF RowsKept
  <2>10. TextTables'
    <3>1. IsFiniteSet(contacts')
      BY <2>4, FS_AddElement DEF TextInv, TextTables
    <3>2. \A c, d \in contacts' : (c.kwami = d.kwami /\ c.person = d.person) \/ c.id = d.id => c = d
      <4>1. \A c, d \in contacts : (c.kwami = d.kwami /\ c.person = d.person) \/ c.id = d.id => c = d
        BY DEF TextInv, TextTables
      <4> QED BY <2>3, <2>4, <2>5, <2>6, <4>1
    <3>3. \A c \in contacts' : c.id \in Nat \ {0}
      BY <2>3, <2>4 DEF TextInv, TextTables
    <3>4. {c.id : c \in contacts} \subseteq {c.id : c \in contacts'}
      BY <2>4
    <3> QED BY <1>1, <1>8, <3>1, <3>2, <3>3, <3>4 DEF TextInv, TextTables
  <2>11. HandlerOK(h, r)'
    <3>1. \A c \in contacts' : c.id = id => c = n
      BY <2>4, <2>5
    <3>2. \A t \in threads : t.id # 0
      BY DEF TextInv, TextTables, ThreadRow
    <3>3. IsOf(n, h[1])'
      BY <1>8, <2>3 DEF IsOf, Asker
    <3> QED BY <1>1, <1>2, <1>8, <2>1, <2>7, <3>1, <3>2, <3>3 DEF HandlerOK, WithContact, Recorded
  <2>12. SentOK(h[1], p, r.at)'
    BY <1>1, <1>4, <2>7, <2>8 DEF SentOK
  <2>13. SameAsk(p, text[h[1]])
    BY <2>8 DEF SameAsk
  <2> QED BY <1>1, <1>2, <2>7, <2>8, <2>9, <2>10, <2>11, <2>12, <2>13, HandlerStep
<1> QED BY <1>6, <1>7, <1>8 DEF SaveContact

LEMMA FindThreadInv == ASSUME TextInv, NEW h \in Handlers, FindThread(h) PROVE TextInv'
<1>1. /\ handler[h].at = "thread" /\ text' = text
      /\ lines' = lines /\ contacts' = contacts /\ threads' = threads /\ events' = events
  BY DEF FindThread, At, textRows
<1>2. PICK id : /\ handler' = [handler EXCEPT ![h].at = "save thread", ![h].seen = id]
                /\ id = 0 \/ \E t \in threads : SameThread(t, h) /\ t.id = id
  BY DEF FindThread
<1>3. id = 0 \/ \E t \in threads : t.id = id
  BY <1>2, Zenon
<1>4. \A t \in threads : t.id \in Nat \ {0}
  BY DEF TextInv, TextTables, ThreadRow
<1>5. "save thread" \in HandlerPcs /\ id \in Nat
  BY <1>3, <1>4 DEF HandlerPcs, LookingUp
<1>6. PICK r \in HandlerRow :
        /\ handler' = [handler EXCEPT ![h] = r] /\ r.at = "save thread" /\ r.seen = id
        /\ r.contact = handler[h].contact /\ r.thread = handler[h].thread
  <2>1. handler' = [handler EXCEPT ![h].at = "save thread", ![h].seen = id]
    BY <1>2, Zenon
  <2>2. PICK s \in HandlerRow : s = handler[h]
    BY HandlerFacts
  <2>3. PICK r : r = [s EXCEPT !.at = "save thread", !.seen = id]
    OBVIOUS
  <2>4. r \in HandlerRow /\ r.at = "save thread" /\ r.seen = id /\ r.contact = s.contact /\ r.thread = s.thread
    BY <1>5, <2>3 DEF HandlerRow
  <2>5. handler' = [handler EXCEPT ![h] = r]
    BY <2>1, <2>2, <2>3 DEF TextInv, TextTypes
  <2> QED BY <2>2, <2>4, <2>5
<1>7. HandlerOK(h, r)
  <2>1. HandlerOK(h, handler[h])
    BY HandlerFacts
  <2>2. \A t \in threads : t.id = r.seen => Suits(t, h[1], r.contact)
    <3>1. \A t, u \in threads : t.id = u.id => t = u
      BY DEF TextInv, TextTables
    <3>2. \A t : SameThread(t, h) => Suits(t, h[1], r.contact)
      BY <1>6 DEF SameThread, Suits, Item
    <3> QED BY <1>2, <1>4, <1>6, <3>1, <3>2
  <2> QED BY <1>1, <1>6, <2>1, <2>2 DEF HandlerOK, WithContact, Recorded
<1>8. /\ text[h[1]].way # ""
      /\ text[h[1]].way = "out" => h[2] = 1 /\ text[h[1]].answer = ""
  BY <1>1, Busy
<1>9. SentOK(h[1], text[h[1]], r.at)
  <2>1. SentOK(h[1], text[h[1]], "save thread")
    BY <1>1, BeforeSending DEF LookingUp
  <2> QED BY <1>6, <2>1
<1> QED BY <1>1, <1>6, <1>7, <1>8, <1>9, MovesInv

LEMMA SaveThreadInv == ASSUME TextInv, NEW h \in Handlers, SaveThread(h) PROVE TextInv'
<1>1. /\ handler[h].at = "save thread"
      /\ lines' = lines /\ contacts' = contacts /\ events' = events
  BY DEF SaveThread, At
<1>2. /\ text[h[1]].way \in {"in", "out"}
      /\ text[h[1]].way = "out" => h[2] = 1 /\ text[h[1]].answer = ""
      /\ h[1] \in TextJobs
  BY <1>1, Busy, HandlerFacts
<1>3. HandlerOK(h, handler[h]) /\ handler[h].contact \in Nat \ {0} /\ handler[h].seen \in Nat
  BY <1>1, HandlerFacts DEF HandlerOK, WithContact, HandlerRow
<1>4. PICK pc \in Recorded : pc = IF Item(h).way = "in" THEN "event" ELSE "send"
  BY DEF Recorded
<1>5. SentOK(h[1], text[h[1]], pc)
  <2>1. CASE pc = "send"
    BY <1>1, <2>1, BeforeSending DEF LookingUp
  <2>2. CASE pc # "send"
    BY <1>4, <2>2 DEF SentOK, Item
  <2> QED BY <2>1, <2>2
<1>6. /\ pc \in HandlerPcs /\ pc \in {"event", "send"}
      /\ pc \in {"send", "dispatch", "failed"} => text[h[1]].way = "out"
  BY <1>2, <1>4 DEF HandlerPcs, Item
<1>7. CASE Breaks(h) /\ threads' = threads
  BY <1>1, <1>7, BreaksInv
<1>8. CASE /\ handler[h].seen # 0 /\ threads' = threads /\ text' = text
           /\ handler' = [handler EXCEPT ![h].thread = handler[h].seen, ![h].seen = 0, ![h].at = pc]
  <2>1. PICK r \in HandlerRow :
          /\ handler' = [handler EXCEPT ![h] = r] /\ r.at = pc /\ r.seen = 0
          /\ r.contact = handler[h].contact /\ r.thread = handler[h].seen
    <3>1. PICK s \in HandlerRow : s = handler[h]
      BY HandlerFacts
    <3>2. PICK r : r = [s EXCEPT !.thread = s.seen, !.seen = 0, !.at = pc]
      OBVIOUS
    <3>3. /\ r \in HandlerRow /\ r.at = pc /\ r.seen = 0 /\ r.contact = s.contact /\ r.thread = s.seen
      BY <1>6, <3>2 DEF HandlerRow
    <3>4. handler' = [handler EXCEPT ![h] = r]
      BY <1>8, <3>1, <3>2 DEF TextInv, TextTypes
    <3> QED BY <3>1, <3>3, <3>4
  <2>2. HandlerOK(h, r)
    BY <1>1, <1>2, <1>3, <1>6, <1>8, <2>1 DEF HandlerOK, WithContact, Recorded
  <2>3. SentOK(h[1], text[h[1]], r.at)
    BY <1>5, <2>1
  <2> QED BY <1>1, <1>2, <1>8, <2>1, <2>2, <2>3, MovesInv
<1>9. CASE /\ Item(h).line \in lines /\ \E c \in contacts : c.id = handler[h].contact
           /\ threads' = threads \cup {[id |-> Fresh, line |-> Item(h).line, contact |-> handler[h].contact,
                                        kind |-> ThreadKind(h)]}
           /\ handler' = [handler EXCEPT ![h].thread = Fresh, ![h].seen = 0, ![h].at = pc]
           /\ text' = text
  <2>1. PICK id \in Nat \ {0} : id = Fresh /\ id \notin InUse
    BY FreshIsNew
  <2>2. PICK contact \in Nat \ {0} : contact = handler[h].contact
    BY <1>3
  <2>3. PICK kind \in {"whatsapp", "call"} : kind = ThreadKind(h)
    BY DEF ThreadKind
  <2>4. PICK on \in lines : on = text[h[1]].line
    BY <1>9 DEF Item
  <2>5. PICK n : n = [id |-> id, line |-> on, contact |-> contact, kind |-> kind]
    OBVIOUS
  <2>6. n.id = id /\ n.line = on /\ n.contact = contact /\ n \in ThreadRow
    BY <2>5 DEF ThreadRow, TextInv, TextTypes
  <2>7. threads' = threads \cup {n}
    BY <1>9, <2>1, <2>2, <2>3, <2>4, <2>5 DEF Item
  <2>8. \A t \in threads : t.id # id
    BY <2>1, Used
  <2>9. PICK r \in HandlerRow :
          /\ handler' = [handler EXCEPT ![h] = r] /\ r.at = pc /\ r.seen = 0
          /\ r.contact = contact /\ r.thread = id
    <3>1. PICK s \in HandlerRow : s = handler[h]
      BY HandlerFacts
    <3>2. PICK r : r = [s EXCEPT !.thread = id, !.seen = 0, !.at = pc]
      OBVIOUS
    <3>3. /\ r \in HandlerRow /\ r.at = pc /\ r.seen = 0 /\ r.contact = s.contact /\ r.thread = id
      BY <1>6, <3>2 DEF HandlerRow
    <3>4. handler' = [handler EXCEPT ![h] = r]
      BY <1>9, <2>1, <3>1, <3>2 DEF TextInv, TextTypes
    <3> QED BY <2>2, <3>1, <3>3, <3>4
  <2>10. PICK p \in TextRow : p = text[h[1]] /\ text' = [text EXCEPT ![h[1]] = p]
    BY <1>2, <1>9, HandlerFacts DEF TextInv, TextTypes
  <2>11. RowsKept
    BY <1>1, <2>1, <2>6, <2>7 DEF RowsKept
  <2>12. TextTables'
    <3>1. IsFiniteSet(threads')
      BY <2>7, FS_AddElement DEF TextInv, TextTables
    <3>2. n.contact \in {c.id : c \in contacts}
      BY <1>9, <2>2, <2>6
    <3>3. \A t \in threads' : t \in ThreadRow /\ t.line \in lines /\ t.contact \in {c.id : c \in contacts} \cup {0}
      BY <2>6, <2>7, <3>2 DEF TextInv, TextTables
    <3>4. \A t, u \in threads' : t.id = u.id => t = u
      <4>1. \A t, u \in threads : t.id = u.id => t = u
        BY DEF TextInv, TextTables
      <4> QED BY <2>6, <2>7, <2>8, <4>1
    <3> QED BY <1>1, <1>9, <3>1, <3>3, <3>4 DEF TextInv, TextTables
  <2>13. HandlerOK(h, r)'
    <3>1. \A t \in threads' : t.id = id => t = n
      BY <2>7, <2>8
    <3>2. Suits(n, h[1], contact)'
      BY <1>9, <2>4, <2>6 DEF Suits
    <3>3. \A c \in contacts : c.id = contact => IsOf(c, h[1])
      BY <1>3, <2>2 DEF HandlerOK
    <3>4. \A c : IsOf(c, h[1])' <=> IsOf(c, h[1])
      BY <1>9 DEF IsOf, Asker
    <3> QED BY <1>1, <1>2, <1>6, <1>9, <2>1, <2>2, <2>9, <3>1, <3>2, <3>3, <3>4 DEF HandlerOK, WithContact, Recorded
  <2>14. SentOK(h[1], p, r.at)'
    BY <1>1, <1>5, <2>9, <2>10 DEF SentOK
  <2>15. SameAsk(p, text[h[1]])
    BY <2>10 DEF SameAsk
  <2>16. /\ p.way # ""
         /\ p.way = "out" => h[2] = 1 /\ text[h[1]].answer = ""
         /\ p.way = "in" /\ p.answer = "ok" => text[h[1]].answer = "ok" \/ Filed(h[1])'
    BY <1>2, <2>10
  <2> QED BY <1>1, <2>9, <2>10, <2>11, <2>12, <2>13, <2>14, <2>15, <2>16, HandlerStep
<1> QED BY <1>4, <1>7, <1>8, <1>9 DEF SaveThread

LEMMA SendInv == ASSUME TextInv, NEW h \in Handlers, Send(h) PROVE TextInv'
<1>1. /\ handler[h].at = "send"
      /\ lines' = lines /\ contacts' = contacts /\ threads' = threads /\ events' = events
  BY DEF Send, At, textRows
<1>2. /\ HandlerOK(h, handler[h]) /\ text[h[1]].way = "out" /\ h[1] \in TextJobs
      /\ text[h[1]] \in TextRow
  BY <1>1, HandlerFacts DEF HandlerOK
<1>3. /\ h[2] = 1 /\ text[h[1]].answer = "" /\ SentOK(h[1], text[h[1]], "send")
  BY <1>1, <1>2, Busy
<1>4. CASE Answers(h, "refused")
  BY <1>1, <1>4, AnswersInv
<1>5. ASSUME NEW sent \in BOOLEAN, NEW pc \in {"dispatch", "event", "failed"},
             text' = [text EXCEPT ![h[1]].sent = sent], Goes(h, pc),
             pc # "failed" => sent, pc = "dispatch" => text[h[1]].kind = "call",
             pc = "event" => text[h[1]].kind # "call"
      PROVE  TextInv'
  <2>1. PICK q \in TextRow : q = text[h[1]]
    BY <1>2
  <2>2. PICK p : p = [q EXCEPT !.sent = sent]
    OBVIOUS
  <2>3. /\ p \in TextRow /\ SameAsk(p, q) /\ p.answer = "" /\ p.sent = sent
    BY <1>3, <2>1, <2>2 DEF TextRow, SameAsk
  <2>4. text' = [text EXCEPT ![h[1]] = p]
    BY <1>2, <1>5, <2>1, <2>2 DEF TextInv, TextTypes
  <2>5. pc \in HandlerPcs
    BY DEF HandlerPcs, Recorded
  <2>6. PICK r \in HandlerRow :
          /\ handler' = [handler EXCEPT ![h] = r] /\ r.at = pc
          /\ r.seen = handler[h].seen /\ r.contact = handler[h].contact /\ r.thread = handler[h].thread
    BY <1>5, <2>5, GoesTo
  <2>7. HandlerOK(h, r)
    BY <1>1, <1>2, <1>3, <1>5, <2>6 DEF HandlerOK, WithContact, Recorded
  <2>8. SentOK(h[1], p, r.at)
    <3>1. \A e \in events : e.job # h[1]
      BY <1>2, <1>3 DEF SentOK
    <3> QED BY <1>5, <2>1, <2>3, <2>6, <3>1 DEF SentOK, SameAsk, LookingUp
  <2>9. /\ p.way = "out" /\ SameAsk(p, text[h[1]])
    BY <1>2, <2>1, <2>3 DEF SameAsk
  <2> QED BY <1>1, <1>3, <2>3, <2>4, <2>6, <2>7, <2>8, <2>9, QuietStep
<1>6. CASE /\ text' = [text EXCEPT ![h[1]].sent = TRUE]
           /\ Goes(h, IF Item(h).kind = "call" THEN "dispatch" ELSE "event")
  BY <1>5, <1>6 DEF Item
<1>7. CASE Goes(h, "failed") /\ \E s \in BOOLEAN : text' = [text EXCEPT ![h[1]].sent = s]
  BY <1>5, <1>7
<1> QED BY <1>4, <1>6, <1>7 DEF Send

LEMMA DispatchAgentInv == ASSUME TextInv, NEW h \in Handlers, DispatchAgent(h) PROVE TextInv'
<1>1. /\ handler[h].at = "dispatch"
      /\ lines' = lines /\ contacts' = contacts /\ threads' = threads /\ events' = events
  BY DEF DispatchAgent, At, textRows
<1>2. /\ HandlerOK(h, handler[h]) /\ text[h[1]].way = "out" /\ text[h[1]].kind = "call" /\ h[1] \in TextJobs
      /\ text[h[1]] \in TextRow
  BY <1>1, HandlerFacts DEF HandlerOK
<1>3. /\ h[2] = 1 /\ text[h[1]].answer = "" /\ SentOK(h[1], text[h[1]], "dispatch")
  BY <1>1, <1>2, Busy
<1>4. CASE Answers(h, "refused")
  BY <1>1, <1>4, AnswersInv
<1>5. ASSUME NEW pc \in {"event", "failed"}, Goes(h, pc)
      PROVE  \E r \in HandlerRow : handler' = [handler EXCEPT ![h] = r] /\ r.at = pc /\ HandlerOK(h, r)
  <2>1. pc \in HandlerPcs
    BY DEF HandlerPcs, Recorded
  <2>2. PICK r \in HandlerRow :
          /\ handler' = [handler EXCEPT ![h] = r] /\ r.at = pc
          /\ r.seen = handler[h].seen /\ r.contact = handler[h].contact /\ r.thread = handler[h].thread
    BY <1>5, <2>1, GoesTo
  <2>3. HandlerOK(h, r)
    BY <1>1, <1>2, <1>3, <1>5, <2>2 DEF HandlerOK, WithContact, Recorded
  <2> QED BY <2>2, <2>3
<1>6. CASE Goes(h, "failed") /\ text' = text
  <2>1. PICK r \in HandlerRow : handler' = [handler EXCEPT ![h] = r] /\ r.at = "failed" /\ HandlerOK(h, r)
    BY <1>5, <1>6
  <2>2. SentOK(h[1], text[h[1]], "failed")
    BY <1>3 DEF SentOK, LookingUp
  <2> QED BY <1>1, <1>2, <1>3, <1>6, <2>1, <2>2, MovesInv
<1>7. CASE text' = [text EXCEPT ![h[1]].agent = TRUE] /\ Goes(h, "event")
  <2>1. PICK r \in HandlerRow : handler' = [handler EXCEPT ![h] = r] /\ r.at = "event" /\ HandlerOK(h, r)
    BY <1>5, <1>7
  <2>2. PICK q \in TextRow : q = text[h[1]]
    BY <1>2
  <2>3. PICK p : p = [q EXCEPT !.agent = TRUE]
    OBVIOUS
  <2>4. /\ p \in TextRow /\ SameAsk(p, q) /\ p.answer = "" /\ p.sent = q.sent /\ p.agent
    BY <1>3, <2>2, <2>3 DEF TextRow, SameAsk
  <2>5. text' = [text EXCEPT ![h[1]] = p]
    BY <1>2, <1>7, <2>2, <2>3 DEF TextInv, TextTypes
  <2>6. SentOK(h[1], p, r.at)
    BY <1>2, <1>3, <2>1, <2>2, <2>4 DEF SentOK, SameAsk, LookingUp
  <2>7. p.way = "out" /\ SameAsk(p, text[h[1]])
    BY <1>2, <2>2, <2>4 DEF SameAsk
  <2> QED BY <1>1, <1>3, <2>1, <2>4, <2>5, <2>6, <2>7, QuietStep
<1> QED BY <1>4, <1>6, <1>7 DEF DispatchAgent

\* A row of what a request knows, while its line is there.
LEMMA NewEvent ==
    ASSUME TextInv, NEW h \in Handlers, handler[h].at \in Recorded, Placed(h),
           NEW sid \in BOOLEAN, NEW state \in {"stored", "failed"}
    PROVE  \E e \in EventRow :
             /\ e = Event(h, sid, state) /\ e.job = h[1] /\ e.sid = sid /\ e.state = state
             /\ e.line = text[h[1]].line /\ e.line \in lines
             /\ \A t \in threads : t.id = e.thread =>
                  t.line = e.line /\ \A c \in contacts : c.id = t.contact => IsOf(c, h[1])
<1>1. PICK s \in HandlerRow : s = handler[h] /\ HandlerOK(h, s) /\ s.thread # 0 /\ h[1] \in TextJobs
  BY HandlerFacts DEF HandlerOK
<1>2. PICK on \in lines : on = text[h[1]].line
  BY DEF Placed, Item
<1>3. PICK contact \in Nat : contact = IF Item(h).kind = "message" THEN s.contact ELSE 0
  BY <1>1 DEF HandlerRow
<1>4. PICK e : e = [job |-> h[1], sid |-> sid, line |-> on, thread |-> s.thread, contact |-> contact,
                    state |-> state]
  OBVIOUS
<1>5. e \in EventRow
  BY <1>1, <1>4 DEF EventRow, HandlerRow, TextInv, TextTypes
<1>6. e = Event(h, sid, state)
  BY <1>1, <1>2, <1>3, <1>4 DEF Event, Item
<1>7. /\ e.job = h[1] /\ e.sid = sid /\ e.state = state /\ e.line = on /\ e.thread = s.thread
  BY <1>4
<1>8. ASSUME NEW t \in threads, t.id = e.thread
      PROVE  t.line = e.line /\ \A c \in contacts : c.id = t.contact => IsOf(c, h[1])
  <2>1. Suits(t, h[1], s.contact)
    BY <1>1, <1>7, <1>8 DEF HandlerOK
  <2>2. \A c \in contacts : c.id # 0
    BY DEF TextInv, TextTables
  <2>3. \A c \in contacts : c.id = s.contact => IsOf(c, h[1])
    BY <1>1 DEF HandlerOK
  <2> QED BY <1>2, <1>7, <2>1, <2>2, <2>3 DEF Suits
<1> QED BY <1>2, <1>5, <1>6, <1>7, <1>8

\* A request writes its event.
LEMMA WritesInv ==
    ASSUME TextInv, NEW h \in Handlers, NEW e \in EventRow, NEW r \in HandlerRow, NEW p \in TextRow,
           handler[h].at \in Recorded,
           handler' = [handler EXCEPT ![h] = r], text' = [text EXCEPT ![h[1]] = p],
           lines' = lines, contacts' = contacts, threads' = threads, events' = events \cup {e},
           e.job = h[1], e.line = text[h[1]].line, e.line \in lines,
           \A t \in threads : t.id = e.thread =>
             t.line = e.line /\ \A c \in contacts : c.id = t.contact => IsOf(c, h[1]),
           e.sid => ~Stored(h),
           SameAsk(p, text[h[1]]), p.way = "in" /\ p.answer = "ok" => text[h[1]].answer = "ok",
           r.at # "idle" /\ p.way = "out" => p.answer = "",
           r.at = "touch" => Filed(h[1])',
           r.at = "touch" \/ r.at = "idle",
           r.at = "touch" => r.contact = handler[h].contact /\ r.thread = handler[h].thread,
           r.at = "idle" => r = Idle,
           SentOK(h[1], p, r.at)'
    PROVE  TextInv'
<1>0. handler[h].at # "idle"
  BY DEF Recorded
<1>1. /\ h[1] \in TextJobs /\ text[h[1]].way \in {"in", "out"}
      /\ text[h[1]].way = "out" => h[2] = 1 /\ text[h[1]].answer = ""
      /\ HandlerOK(h, handler[h])
  BY <1>0, Busy, HandlerFacts
<1>2. /\ p.way # ""
      /\ p.way = "out" => h[2] = 1 /\ text[h[1]].answer = ""
  BY <1>1 DEF SameAsk
<1>3. AskedStays /\ text'[h[1]] = p
  <2>1. lines' \subseteq lines
    OBVIOUS
  <2>2. AskedStays
    BY <1>2, <2>1, StepTypes DEF SameAsk
  <2>3. text'[h[1]] = p
    BY <1>1 DEF TextInv, TextTypes
  <2> QED BY <2>2, <2>3
<1>4. RowsKept
  BY DEF RowsKept
<1>5. TextTables'
  <2>1. IsFiniteSet(events')
    BY FS_AddElement DEF TextInv, TextTables
  <2>2. \A f \in events' : f \in EventRow /\ f.line \in lines
    BY DEF TextInv, TextTables
  <2>3. \A f \in events' : text'[f.job].way # "" /\ f.line = text'[f.job].line
    <3> TAKE f \in events'
    <3>1. CASE f = e
      BY <1>2, <1>3, <3>1 DEF SameAsk
    <3>2. CASE f \in events
      BY <1>3, <3>2, EventFacts DEF AskedStays
    <3> QED BY <3>1, <3>2
  <2>4. \A f, g \in events' : f.job = g.job /\ f.sid /\ g.sid => f = g
    <3>1. \A f, g \in events : f.job = g.job /\ f.sid /\ g.sid => f = g
      BY Zenon DEF TextInv, TextTables
    <3>2. \A f \in events : f.job = e.job /\ e.sid => ~f.sid
      BY DEF Stored
    <3> QED BY <3>1, <3>2
  <2>5. /\ \A c \in contacts : c.id \in Nat \ {0}
        /\ \A c, d \in contacts : (c.kwami = d.kwami /\ c.person = d.person) \/ c.id = d.id => c = d
        /\ \A t \in threads : t \in ThreadRow /\ t.line \in lines /\ t.contact \in {c.id : c \in contacts} \cup {0}
        /\ \A t, u \in threads : t.id = u.id => t = u
        /\ IsFiniteSet(contacts) /\ IsFiniteSet(threads)
    BY DEF TextInv, TextTables
  <2> QED BY <2>1, <2>2, <2>3, <2>4, <2>5 DEF TextTables
<1>6. /\ \A c : IsOf(c, h[1])' <=> IsOf(c, h[1])
      /\ \A t, x : Suits(t, h[1], x)' <=> Suits(t, h[1], x)
  BY <1>1, <1>3, AskedSame
<1>7. HandlerOK(h, r)'
  <2>1. CASE r.at = "idle"
    <3>1. r.contact = 0 /\ r.thread = 0
      BY <2>1 DEF Idle
    <3>2. \A c \in contacts : c.id # 0
      BY DEF TextInv, TextTables
    <3>3. \A t \in threads : t.id # 0
      BY DEF TextInv, TextTables, ThreadRow
    <3> QED BY <2>1, <3>1, <3>2, <3>3 DEF HandlerOK, WithContact, Recorded
  <2>2. CASE r.at = "touch"
    <3>1. PICK s : s = handler[h] /\ s.at \in Recorded /\ HandlerOK(h, s)
      BY <1>1
    <3>2. r.contact = s.contact /\ r.thread = s.thread
      BY <2>2, <3>1
    <3>3. s.contact # 0 /\ s.thread # 0
      BY <3>1 DEF HandlerOK, WithContact
    <3>4. \A c \in contacts : c.id = s.contact => IsOf(c, h[1])
      BY <3>1 DEF HandlerOK
    <3>5. \A t \in threads : t.id = s.thread => Suits(t, h[1], s.contact)
      BY <3>1 DEF HandlerOK
    <3>6. text'[h[1]].way # "" /\ (text'[h[1]].way = "out" => h[2] = 1 /\ text'[h[1]].answer = "")
      BY <1>2, <1>3, <2>2
    <3> QED BY <1>6, <2>2, <3>2, <3>3, <3>4, <3>5, <3>6 DEF HandlerOK, WithContact, Recorded
  <2> QED BY <2>1, <2>2
<1>8. \A f \in events' : \/ f \in events
                         \/ /\ f.job = h[1]
                            /\ \A t \in threads' : t.id = f.thread =>
                                 t.line = f.line /\ \A c \in contacts' : c.id = t.contact => IsOf(c, f.job)'
  <2> SUFFICES ASSUME NEW t \in threads', t.id = e.thread
               PROVE  t.line = e.line /\ \A c \in contacts' : c.id = t.contact => IsOf(c, e.job)'
    OBVIOUS
  <2> QED BY <1>6
<1>9. p.way = "in" /\ p.answer = "ok" => text[h[1]].answer = "ok" \/ Filed(h[1])'
  OBVIOUS
<1> QED BY <1>2, <1>4, <1>5, <1>7, <1>8, <1>9, HandlerStep

LEMMA StoreEventInv == ASSUME TextInv, NEW h \in Handlers, StoreEvent(h) PROVE TextInv'
<1>1. /\ handler[h].at = "event" /\ handler[h].at \in Recorded
      /\ lines' = lines /\ contacts' = contacts /\ threads' = threads
  BY DEF StoreEvent, At, Recorded
<1>2. /\ HandlerOK(h, handler[h]) /\ text[h[1]].way \in {"in", "out"} /\ h[1] \in TextJobs
      /\ SentOK(h[1], text[h[1]], "event")
      /\ text[h[1]].way = "out" => h[2] = 1 /\ text[h[1]].answer = ""
  BY <1>1, HandlerFacts, Busy
<1>3. CASE Raises(h) /\ events' = events
  BY <1>1, <1>3, RaisesInv
<1>4. CASE Goes(h, "existing") /\ events' = events /\ text' = text
  <2>1. "existing" \in HandlerPcs
    BY DEF HandlerPcs, Recorded
  <2>2. PICK r \in HandlerRow :
          /\ handler' = [handler EXCEPT ![h] = r] /\ r.at = "existing"
          /\ r.seen = handler[h].seen /\ r.contact = handler[h].contact /\ r.thread = handler[h].thread
    BY <1>4, <2>1, GoesTo
  <2>3. HandlerOK(h, r)
    BY <1>1, <1>2, <2>2 DEF HandlerOK, WithContact, Recorded
  <2>4. SentOK(h[1], text[h[1]], "existing")
    BY <1>2 DEF SentOK, LookingUp
  <2> QED BY <1>1, <1>2, <1>4, <2>2, <2>3, <2>4, MovesInv
<1>5. CASE /\ ~Stored(h) /\ Placed(h) /\ events' = events \cup {Event(h, TRUE, "stored")}
           /\ Goes(h, "touch") /\ text' = text
  <2>1. PICK e \in EventRow :
          /\ e = Event(h, TRUE, "stored") /\ e.job = h[1] /\ e.sid = TRUE /\ e.state = "stored"
          /\ e.line = text[h[1]].line /\ e.line \in lines
          /\ \A t \in threads : t.id = e.thread =>
               t.line = e.line /\ \A c \in contacts : c.id = t.contact => IsOf(c, h[1])
    BY <1>1, <1>5, NewEvent
  <2>2. events' = events \cup {e}
    BY <1>5, <2>1
  <2>3. "touch" \in HandlerPcs
    BY DEF HandlerPcs, Recorded
  <2>4. PICK r \in HandlerRow :
          /\ handler' = [handler EXCEPT ![h] = r] /\ r.at = "touch"
          /\ r.seen = handler[h].seen /\ r.contact = handler[h].contact /\ r.thread = handler[h].thread
    BY <1>5, <2>3, GoesTo
  <2>5. PICK p \in TextRow : p = text[h[1]] /\ text' = [text EXCEPT ![h[1]] = p]
    BY <1>2, <1>5, HandlerFacts DEF TextInv, TextTypes
  <2>6. Filed(h[1])'
    BY <2>1, <2>2 DEF Filed
  <2>7. SentOK(h[1], p, r.at)'
    BY <1>1, <1>2, <2>1, <2>2, <2>4, <2>5 DEF SentOK, LookingUp
  <2>8. /\ SameAsk(p, text[h[1]])
        /\ p.way = "in" /\ p.answer = "ok" => text[h[1]].answer = "ok"
        /\ p.way = "out" => p.answer = ""
    BY <1>2, <2>5 DEF SameAsk
  <2> QED BY <1>1, <1>5, <2>1, <2>2, <2>4, <2>5, <2>6, <2>7, <2>8, WritesInv
<1> QED BY <1>3, <1>4, <1>5 DEF StoreEvent, InsertOrExisting

LEMMA FindExistingInv == ASSUME TextInv, NEW h \in Handlers, FindExisting(h) PROVE TextInv'
<1>1. /\ handler[h].at = "existing" /\ handler[h].at \in Recorded
      /\ lines' = lines /\ contacts' = contacts /\ threads' = threads /\ events' = events
  BY DEF FindExisting, At, Recorded, textRows
<1>2. /\ HandlerOK(h, handler[h]) /\ text[h[1]].way \in {"in", "out"} /\ h[1] \in TextJobs
      /\ SentOK(h[1], text[h[1]], "existing")
      /\ text[h[1]].way = "out" => h[2] = 1 /\ text[h[1]].answer = ""
  BY <1>1, HandlerFacts, Busy
<1>3. CASE Raises(h)
  BY <1>1, <1>3, RaisesInv
<1>4. CASE Stored(h) /\ Goes(h, "touch") /\ text' = text
  <2>1. "touch" \in HandlerPcs
    BY DEF HandlerPcs, Recorded
  <2>2. PICK r \in HandlerRow :
          /\ handler' = [handler EXCEPT ![h] = r] /\ r.at = "touch"
          /\ r.seen = handler[h].seen /\ r.contact = handler[h].contact /\ r.thread = handler[h].thread
    BY <1>4, <2>1, GoesTo
  <2>3. Filed(h[1])
    BY <1>4 DEF Stored, Filed
  <2>4. HandlerOK(h, r)
    BY <1>1, <1>2, <2>2, <2>3 DEF HandlerOK, WithContact, Recorded
  <2>5. SentOK(h[1], text[h[1]], "touch")
    BY <1>2 DEF SentOK, LookingUp
  <2> QED BY <1>1, <1>2, <1>4, <2>2, <2>4, <2>5, MovesInv
<1> QED BY <1>3, <1>4 DEF FindExisting

LEMMA TouchInv == ASSUME TextInv, NEW h \in Handlers, Touch(h) PROVE TextInv'
<1>1. /\ handler[h].at = "touch" /\ handler[h].at \in Recorded /\ handler[h].at # "idle"
      /\ lines' = lines /\ contacts' = contacts /\ threads' = threads /\ events' = events
  BY DEF Touch, At, Recorded
<1>2. CASE Raises(h)
  BY <1>1, <1>2, RaisesInv
<1>3. CASE Answers(h, "ok")
  BY <1>1, <1>3, AnswersInv
<1> QED BY <1>2, <1>3 DEF Touch

LEMMA StoreFailureInv == ASSUME TextInv, NEW h \in Handlers, StoreFailure(h) PROVE TextInv'
<1>1. /\ handler[h].at = "failed" /\ handler[h].at \in Recorded /\ handler[h].at # "idle"
      /\ lines' = lines /\ contacts' = contacts /\ threads' = threads
  BY DEF StoreFailure, At, Recorded
<1>2. /\ HandlerOK(h, handler[h]) /\ text[h[1]].way = "out" /\ h[1] \in TextJobs
      /\ SentOK(h[1], text[h[1]], "failed") /\ text[h[1]].answer = ""
  BY <1>1, HandlerFacts, Busy DEF HandlerOK
<1>3. CASE Answers(h, "error") /\ events' = events
  BY <1>1, <1>3, AnswersInv
<1>4. CASE Placed(h) /\ events' = events \cup {FailureRow(h)} /\ Answers(h, "failed")
  <2>1. PICK e \in EventRow :
          /\ e = Event(h, FALSE, "failed") /\ e.job = h[1] /\ e.sid = FALSE /\ e.state = "failed"
          /\ e.line = text[h[1]].line /\ e.line \in lines
          /\ \A t \in threads : t.id = e.thread =>
               t.line = e.line /\ \A c \in contacts : c.id = t.contact => IsOf(c, h[1])
    BY <1>1, <1>4, NewEvent
  <2>2. events' = events \cup {e}
    BY <1>4, <2>1 DEF FailureRow
  <2>3. PICK p \in TextRow :
          /\ text' = [text EXCEPT ![h[1]] = p] /\ p.answer = "failed" /\ SameAsk(p, text[h[1]])
          /\ p.sent = text[h[1]].sent /\ p.agent = text[h[1]].agent
          /\ handler' = [handler EXCEPT ![h] = Idle]
    <3>1. "failed" \in TextAnswers
      BY DEF TextAnswers
    <3> QED BY <1>4, <3>1, AnsweredWith
  <2>4. Idle \in HandlerRow /\ Idle.at = "idle"
    BY IdleOK
  <2>5. SentOK(h[1], p, "idle")'
    BY <1>2, <2>1, <2>2, <2>3 DEF SentOK, LookingUp, SameAsk
  <2>6. SentOK(h[1], p, Idle.at)'
    BY <2>4, <2>5
  <2>7. p.way = "in" /\ p.answer = "ok" => text[h[1]].answer = "ok"
    BY <2>3
  <2> QED BY <1>1, <2>1, <2>2, <2>3, <2>4, <2>6, <2>7, WritesInv
<1> QED BY <1>3, <1>4 DEF StoreFailure

---------------------------------------------------------------------------
(* Steps of no request: a callback, and rows the user removes or adds.       *)

---------------------------------------------------------------------------
(* Messages and calls: callbacks and removals *)

LEMMA RowsStep ==
    ASSUME TextInv, text' = text, handler' = handler, RowsKept, TextTables',
           \A e \in events' : \E f \in events :
             /\ f.job = e.job /\ f.sid = e.sid /\ f.line = e.line /\ f.thread = e.thread
             /\ e.state # "failed" => f.state # "failed" \/ text[f.job].sent
    PROVE  TextInv'
<1>1. AskedStays
  BY DEF AskedStays
<1>2. TextTypes'
  BY DEF RowsKept, TextInv, TextTypes
<1>3. ThreadsDoNotMix'
  <2>1. ASSUME NEW e \in events', NEW t \in threads', t.id = e.thread
        PROVE  t.line = e.line /\ \A c \in contacts' : c.id = t.contact => IsOf(c, e.job)'
    <3>1. PICK f \in events : f.job = e.job /\ f.line = e.line /\ f.thread = e.thread
      OBVIOUS
    <3>2. PICK job \in TextJobs : job = f.job
      BY EventFacts
    <3>3. t.line = f.line /\ \A c \in contacts' : c.id = t.contact => IsOf(c, f.job)'
      BY <1>1, <2>1, <3>1, EventsStay
    <3> QED BY <3>1, <3>3
  <2> QED BY <2>1 DEF ThreadsDoNotMix, IsOf
<1>4. AnsweredIsStored'
  <2> SUFFICES ASSUME NEW j \in TextJobs, text[j].way = "in", text[j].answer = "ok", text[j].line \in lines'
               PROVE  \E e \in events' : e.job = j /\ e.sid /\ e.line = text[j].line
    BY DEF AnsweredIsStored
  <2>1. Filed(j)
    BY DEF TextInv, AnsweredIsStored, Filed
  <2>2. Filed(j)'
    BY <1>1, <2>1, FiledStays
  <2>3. PICK e \in events' : e.job = j /\ e.sid
    BY <2>2 DEF Filed
  <2> QED BY <2>3 DEF TextTables
<1>5. ASSUME NEW h \in Handlers PROVE HandlerOK(h, handler[h])'
  <2>1. PICK r \in HandlerRow : r = handler[h] /\ HandlerOK(h, r)
    BY HandlerFacts
  <2>2. r.at # "idle" /\ text[h[1]].way = "out" => text'[h[1]].answer = ""
    BY <2>1 DEF HandlerOK
  <2>3. r.seen \in InUse /\ r.contact \in InUse /\ r.thread \in InUse
    BY <2>1, Used
  <2>4. HandlerOK(h, r)'
    BY <1>1, <2>1, <2>2, <2>3, HandlerStays
  <2> QED BY <2>1, <2>4
<1>6. ASSUME NEW j \in TextJobs PROVE SentOK(j, text[j], handler[<<j, 1>>].at)'
  <2>1. PICK q : q = text[j] /\ SentOK(j, q, handler[<<j, 1>>].at)
    BY DEF TextInv
  <2>2. PICK at : at = handler[<<j, 1>>].at
    OBVIOUS
  <2>3. q.line \in lines' /\ (\E e \in events : e.job = j) => \E f \in events' : f.job = j
    <3> SUFFICES ASSUME q.line \in lines', NEW e \in events, e.job = j PROVE \E f \in events' : f.job = j
      OBVIOUS
    <3>1. e.line = q.line
      BY <2>1, EventFacts
    <3> QED BY <3>1 DEF RowsKept
  <2>4. q.line \in lines' => q.line \in lines
    BY DEF RowsKept
  <2>5. \A e \in events' : e.job = j => \E f \in events :
          f.job = j /\ f.sid = e.sid /\ (e.state # "failed" => f.state # "failed" \/ q.sent)
    BY <2>1
  <2>6. SentOK(j, q, at)'
    <3>1. SentOK(j, q, at)
      BY <2>1, <2>2, Zenon
    <3> QED BY <2>3, <2>4, <2>5, <3>1 DEF SentOK
  <2> QED BY <2>1, <2>2, <2>6
<1> QED BY <1>2, <1>3, <1>4, <1>5, <1>6 DEF TextInv

LEMMA StatusArrivesInv == ASSUME TextInv, NEW j \in TextJobs, StatusArrives(j) PROVE TextInv'
<1> DEFINE g == [e \in events |-> IF Carries(e, j) THEN Reported(e) ELSE e]
<1>1. /\ text' = text /\ handler' = handler /\ text[j].sent
      /\ lines' = lines /\ contacts' = contacts /\ threads' = threads
      /\ events' = {g[e] : e \in events}
  BY DEF StatusArrives
<1>2. ASSUME NEW e \in events
      PROVE  /\ g[e] \in EventRow /\ g[e].job = e.job /\ g[e].sid = e.sid /\ g[e].line = e.line
             /\ g[e].thread = e.thread
             /\ g[e].state # e.state => e.job = j
             /\ ~e.sid => g[e] = e
  <2>1. e \in EventRow
    BY EventFacts
  <2>2. CASE Carries(e, j)
    <3>1. PICK f : f = [e EXCEPT !.state = "reported"]
      OBVIOUS
    <3>2. g[e] = f /\ e.job = j /\ e.sid
      BY <2>2, <3>1 DEF Carries, Reported
    <3>3. f \in EventRow /\ f.job = e.job /\ f.sid = e.sid /\ f.line = e.line /\ f.thread = e.thread
      BY <2>1, <3>1 DEF EventRow
    <3> QED BY <3>2, <3>3
  <2>3. CASE ~Carries(e, j)
    <3>1. g[e] = e
      BY <2>3
    <3> QED BY <2>1, <3>1
  <2> QED BY <2>2, <2>3
<1> HIDE DEF g
<1>3. RowsKept
  BY <1>1, <1>2 DEF RowsKept
<1>4. TextTables'
  <2>1. IsFiniteSet(events')
    <3>1. g = [e \in events |-> g[e]]
      BY DEF g
    <3>2. IsFiniteSet(events)
      BY DEF TextInv, TextTables
    <3>3. IsFiniteSet({g[e] : e \in events})
      BY <3>1, <3>2, ImageIsFinite
    <3> QED BY <1>1, <3>3
  <2>2. \A e, f \in events' : e.job = f.job /\ e.sid /\ f.sid => e = f
    <3> SUFFICES ASSUME NEW e \in events, NEW f \in events, g[e].job = g[f].job, g[e].sid, g[f].sid
                 PROVE  g[e] = g[f]
      BY <1>1
    <3>1. e.job = f.job /\ e.sid /\ f.sid
      BY <1>2
    <3> QED BY <3>1, Zenon DEF TextInv, TextTables
  <2>3. \A e \in events' : e \in EventRow /\ e.line \in lines /\ text[e.job].way # "" /\ e.line = text[e.job].line
    <3> TAKE f \in events'
    <3>1. PICK e \in events : f = g[e]
      BY <1>1
    <3>2. f \in EventRow /\ e.job = f.job /\ e.line = f.line
      BY <1>2, <3>1
    <3>3. e.line \in lines /\ text[e.job].way # "" /\ e.line = text[e.job].line
      BY EventFacts
    <3>4. text[f.job].way # "" /\ f.line = text[f.job].line
      BY <3>2, <3>3
    <3>5. f.line \in lines
      BY <3>2, <3>3
    <3> QED BY <3>2, <3>4, <3>5
  <2> QED BY <1>1, <2>1, <2>2, <2>3 DEF TextInv, TextTables
<1>5. \A e \in events' : \E f \in events :
         /\ f.job = e.job /\ f.sid = e.sid /\ f.line = e.line /\ f.thread = e.thread
         /\ e.state # "failed" => f.state # "failed" \/ text[f.job].sent
  BY <1>1, <1>2
<1> QED BY <1>1, <1>3, <1>4, <1>5, RowsStep

LEMMA RemoveLineInv == ASSUME TextInv, NEW l \in lines, RemoveLine(l) PROVE TextInv'
<1>1. /\ text' = text /\ handler' = handler /\ contacts' = contacts
      /\ lines' = lines \ {l} /\ threads' = {t \in threads : t.line # l}
      /\ events' = {e \in events : e.line # l}
  BY DEF RemoveLine
<1>2. RowsKept
  BY <1>1 DEF RowsKept
<1>3. TextTables'
  <2>1. IsFiniteSet(events') /\ IsFiniteSet(threads')
    <3>1. events' \subseteq events /\ threads' \subseteq threads
      BY <1>1
    <3> QED BY <3>1, FS_Subset DEF TextInv, TextTables
  <2> QED BY <1>1, <2>1 DEF TextInv, TextTables
<1>4. \A e \in events' : \E f \in events :
         /\ f.job = e.job /\ f.sid = e.sid /\ f.line = e.line /\ f.thread = e.thread
         /\ e.state # "failed" => f.state # "failed" \/ text[f.job].sent
  BY <1>1
<1> QED BY <1>1, <1>2, <1>3, <1>4, RowsStep

LEMMA RemoveContactInv == ASSUME TextInv, NEW c \in contacts, RemoveContact(c) PROVE TextInv'
<1> DEFINE g == [e \in events |-> IF e.contact = c.id THEN [e EXCEPT !.contact = 0] ELSE e]
           k == [t \in threads |-> IF t.contact = c.id THEN [t EXCEPT !.contact = 0] ELSE t]
<1>1. /\ text' = text /\ handler' = handler /\ contacts' = contacts \ {c} /\ lines' = lines
      /\ threads' = {k[t] : t \in threads} /\ events' = {g[e] : e \in events}
  BY DEF RemoveContact
<1>2. ASSUME NEW e \in events
      PROVE  /\ g[e] \in EventRow /\ g[e].job = e.job /\ g[e].sid = e.sid /\ g[e].line = e.line
             /\ g[e].thread = e.thread /\ g[e].state = e.state
  <2>1. e \in EventRow
    BY EventFacts
  <2> QED BY <2>1 DEF EventRow
<1>3. ASSUME NEW t \in threads
      PROVE  /\ k[t] \in ThreadRow /\ k[t].id = t.id /\ k[t].line = t.line
             /\ k[t].contact \in {t.contact, 0} /\ k[t].contact # c.id
  <2>1. t \in ThreadRow /\ c.id # 0
    BY DEF TextInv, TextTables
  <2> QED BY <2>1 DEF ThreadRow
<1> HIDE DEF g, k
<1>4. RowsKept
  <2>1. \A t \in threads' : \E u \in threads : u.id = t.id /\ u.line = t.line /\ t.contact \in {u.contact, 0}
    BY <1>1, <1>3
  <2>2. \A e \in events : \E f \in events' : f.job = e.job /\ f.sid = e.sid
    BY <1>1, <1>2
  <2> QED BY <1>1, <2>1, <2>2 DEF RowsKept
<1>5. TextTables'
  <2>1. IsFiniteSet(events') /\ IsFiniteSet(threads') /\ IsFiniteSet(contacts')
    <3>1. g = [e \in events |-> g[e]] /\ k = [t \in threads |-> k[t]]
      BY DEF g, k
    <3>2. IsFiniteSet(contacts) /\ IsFiniteSet(threads) /\ IsFiniteSet(events)
      BY DEF TextInv, TextTables
    <3>3. IsFiniteSet({g[e] : e \in events})
      BY <3>1, <3>2, ImageIsFinite
    <3>4. IsFiniteSet({k[t] : t \in threads})
      BY <3>1, <3>2, ImageIsFinite
    <3>5. contacts' \subseteq contacts
      BY <1>1
    <3> QED BY <1>1, <3>2, <3>3, <3>4, <3>5, FS_Subset
  <2>2. \A e, f \in events' : e.job = f.job /\ e.sid /\ f.sid => e = f
    <3> SUFFICES ASSUME NEW e \in events, NEW f \in events, g[e].job = g[f].job, g[e].sid, g[f].sid
                 PROVE  g[e] = g[f]
      BY <1>1
    <3>1. e.job = f.job /\ e.sid /\ f.sid
      BY <1>2
    <3> QED BY <3>1, Zenon DEF TextInv, TextTables
  <2>3. \A e \in events' : e \in EventRow /\ e.line \in lines /\ text[e.job].way # "" /\ e.line = text[e.job].line
    <3> TAKE f \in events'
    <3>1. PICK e \in events : f = g[e]
      BY <1>1
    <3>2. f \in EventRow /\ e.job = f.job /\ e.line = f.line
      BY <1>2, <3>1
    <3>3. e.line \in lines /\ text[e.job].way # "" /\ e.line = text[e.job].line
      BY EventFacts
    <3>4. text[f.job].way # "" /\ f.line = text[f.job].line
      BY <3>2, <3>3
    <3>5. f.line \in lines
      BY <3>2, <3>3
    <3> QED BY <3>2, <3>4, <3>5
  <2>4. \A t, u \in threads' : t.id = u.id => t = u
    <3> SUFFICES ASSUME NEW t \in threads, NEW u \in threads, k[t].id = k[u].id PROVE k[t] = k[u]
      BY <1>1
    <3>1. t.id = u.id
      BY <1>3
    <3> QED BY <3>1, Zenon DEF TextInv, TextTables
  <2>5. \A t \in threads' : t \in ThreadRow /\ t.line \in lines /\ t.contact \in {d.id : d \in contacts'} \cup {0}
    <3> SUFFICES ASSUME NEW t \in threads
                 PROVE  k[t] \in ThreadRow /\ k[t].line \in lines
                        /\ k[t].contact \in {d.id : d \in contacts'} \cup {0}
      BY <1>1
    <3>1. t.line \in lines /\ t.contact \in {d.id : d \in contacts} \cup {0}
      BY DEF TextInv, TextTables
    <3> QED BY <1>1, <1>3, <3>1
  <2>6. /\ \A d \in contacts' : d.id \in Nat \ {0}
        /\ \A d, e \in contacts' : (d.kwami = e.kwami /\ d.person = e.person) \/ d.id = e.id => d = e
    BY <1>1 DEF TextInv, TextTables
  <2> QED BY <1>1, <2>1, <2>2, <2>3, <2>4, <2>5, <2>6 DEF TextTables
<1>6. \A e \in events' : \E f \in events :
         /\ f.job = e.job /\ f.sid = e.sid /\ f.line = e.line /\ f.thread = e.thread
         /\ e.state # "failed" => f.state # "failed" \/ text[f.job].sent
  BY <1>1, <1>2
<1> QED BY <1>1, <1>4, <1>5, <1>6, RowsStep

LEMMA AddContactInv == ASSUME TextInv, NEW kwami, NEW person, AddContact(kwami, person) PROVE TextInv'
<1>1. /\ text' = text /\ handler' = handler /\ lines' = lines /\ threads' = threads /\ events' = events
      /\ contacts' = contacts \cup {[id |-> Fresh, kwami |-> kwami, person |-> person]}
      /\ ~\E c \in contacts : c.kwami = kwami /\ c.person = person
  BY DEF AddContact
<1>2. PICK id \in Nat \ {0} : id = Fresh /\ id \notin InUse
  BY FreshIsNew
<1>3. PICK n : n = [id |-> id, kwami |-> kwami, person |-> person]
  OBVIOUS
<1>4. n.id = id /\ n.kwami = kwami /\ n.person = person
  BY <1>3
<1>5. contacts' = contacts \cup {n} /\ \A c \in contacts : c.id # id
  BY <1>1, <1>2, <1>3, Used
<1>6. RowsKept
  BY <1>1, <1>2, <1>4, <1>5 DEF RowsKept
<1>7. TextTables'
  <2>1. IsFiniteSet(contacts')
    BY <1>5, FS_AddElement DEF TextInv, TextTables
  <2>2. \A c, d \in contacts' : (c.kwami = d.kwami /\ c.person = d.person) \/ c.id = d.id => c = d
    <3>1. \A c, d \in contacts : (c.kwami = d.kwami /\ c.person = d.person) \/ c.id = d.id => c = d
      BY DEF TextInv, TextTables
    <3> QED BY <1>1, <1>4, <1>5, <3>1
  <2>3. \A c \in contacts' : c.id \in Nat \ {0}
    BY <1>4, <1>5 DEF TextInv, TextTables
  <2>4. {c.id : c \in contacts} \subseteq {c.id : c \in contacts'}
    BY <1>5
  <2> QED BY <1>1, <2>1, <2>2, <2>3, <2>4 DEF TextInv, TextTables
<1>8. \A e \in events' : \E f \in events :
         /\ f.job = e.job /\ f.sid = e.sid /\ f.line = e.line /\ f.thread = e.thread
         /\ e.state # "failed" => f.state # "failed" \/ text[f.job].sent
  BY <1>1
<1> QED BY <1>1, <1>6, <1>7, <1>8, RowsStep

LEMMA TextNextInv == TextInv /\ [TextNext]_textVars => TextInv'
<1> SUFFICES ASSUME TextInv, [TextNext]_textVars PROVE TextInv'
  OBVIOUS
<1>1. CASE UNCHANGED textVars
  <2>1. /\ text' = text /\ handler' = handler
        /\ lines' = lines /\ contacts' = contacts /\ threads' = threads /\ events' = events
    BY <1>1 DEF textVars
  <2>2. RowsKept
    BY <2>1, NothingChanged
  <2>3. TextTables'
    BY <2>1 DEF TextInv, TextTables
  <2> QED BY <2>1, <2>2, <2>3, RowsStep
<1>2. ASSUME NEW h \in Handlers, Recording(h) PROVE TextInv'
  BY <1>2, FindChannelInv, FindContactInv, SaveContactInv, FindThreadInv, SaveThreadInv, StoreEventInv,
     FindExistingInv, TouchInv DEF Recording
<1>3. ASSUME NEW h \in Handlers, \/ Deliver(h) \/ VoiceWebhook(h) \/ WhatsappWebhook(h)
                                 \/ StartOutboundCall(h) \/ SendOutboundMessage(h)
      PROVE  TextInv'
  BY <1>2, <1>3, DeliverInv, SendInv, DispatchAgentInv, StoreFailureInv
     DEF VoiceWebhook, WhatsappWebhook, StartOutboundCall, SendOutboundMessage
<1>4. CASE \E h \in Handlers : DeliverAgain(h)
  BY <1>4, DeliverInv
<1>5. CASE \E j \in TextJobs : Arrive(j) \/ StatusArrives(j)
  BY <1>5, ArriveInv, StatusArrivesInv
<1>6. CASE \E l \in lines : RemoveLine(l)
  BY <1>6, RemoveLineInv
<1>7. CASE \E c \in contacts : RemoveContact(c)
  BY <1>7, RemoveContactInv
<1>8. CASE \E m \in UNION {TextMenu[j] : j \in TextJobs} : AddContact(KwamiOf[m.line], m.person)
  BY <1>8, AddContactInv
<1> QED BY <1>1, <1>3, <1>4, <1>5, <1>6, <1>7, <1>8 DEF TextNext, HandleNext

---------------------------------------------------------------------------
(* Messages and calls: what follows *)

LEMMA TextInvImplies == TextInv => TextTypeOK /\ ThreadsDoNotMix /\ AnsweredIsStored /\ ShownAsItWent
<1> SUFFICES ASSUME TextInv PROVE TextTypeOK /\ ShownAsItWent
  BY DEF TextInv
<1>1. TextTypeOK
  <2>1. \A e \in events : e.line \in lines /\ e.state \in {"stored", "failed", "reported"}
    BY EventFacts DEF EventRow
  <2> QED BY <2>1 DEF TextInv, TextTables, TextTypeOK
<1>2. ShownAsItWent
  <2> SUFFICES ASSUME NEW j \in TextJobs, text[j].way = "out"
               PROVE  /\ (\E e \in events : e.job = j /\ e.state # "failed") => text[j].sent
                      /\ text[j].answer \in {"ok", "failed"} /\ text[j].line \in lines
                           => \E e \in events : e.job = j
                      /\ text[j].answer = "ok" => \A e \in events : e.job = j => e.sid
                      /\ text[j].answer = "ok" /\ text[j].kind = "call" => text[j].agent
    BY DEF ShownAsItWent
  <2>1. SentOK(j, text[j], handler[<<j, 1>>].at)
    BY DEF TextInv
  <2> QED BY <2>1 DEF SentOK
<1> QED BY <1>1, <1>2

\* Messaging on its own: the tables keep their keys, nobody's conversations mix, what
\* Twilio was thanked for is stored, and what the user sent is shown as it went.
THEOREM TextIsSound == TextSpec => [](TextTypeOK /\ ThreadsDoNotMix /\ AnsweredIsStored /\ ShownAsItWent)
<1>1. TextInit => TextInv
  BY TextInitInv
<1>2. TextInv /\ [TextNext]_textVars => TextInv'
  BY TextNextInv
<1>3. TextInv => TextTypeOK /\ ThreadsDoNotMix /\ AnsweredIsStored /\ ShownAsItWent
  BY TextInvImplies
<1> QED BY <1>1, <1>2, <1>3, PTL DEF TextSpec

---------------------------------------------------------------------------
(* Mail: the invariant *)

MailOwners == {m.kwami : m \in MailMenu} \cup {""}
MailNames == {m.name : m \in MailMenu} \cup {""}
AddressLists == {m.to : m \in MailMenu} \cup {<<>>}
MailPcs == {"off", "account", "name", "insert", "delete mails", "delete account", "address",
            "store", "existing", "send", "record"}

PostRow == [op : {"", "activate", "deactivate", "send", "mail"}, kwami : MailOwners, name : MailNames,
            to : AddressLists, id : BOOLEAN,
            answer : {"", "ok", "no account", "taken", "dropped", "error"}, sent : BOOLEAN]
ClerkRow == [at : MailPcs, account : MailJobs \cup {0}, kwami : MailOwners, next : Nat \ {0}]
AccountRow == [id : MailJobs, kwami : MailOwners, name : MailNames]
MailsRow == [job : MailJobs, copy : MailCopies \cup {0}, id : BOOLEAN, account : MailJobs,
             kwami : MailOwners, way : {"in", "out"}, read : BOOLEAN]

\* The request was told it has an account: its number may be an account's.
Opened(i) == i \in MailJobs /\ post[i].op = "activate" /\ post[i].answer = "ok"

MailRowsOK ==
    /\ accounts \subseteq AccountRow /\ mails \subseteq MailsRow
    /\ \A a, b \in accounts : a.name = b.name \/ a.kwami = b.kwami \/ a.id = b.id => a = b
    /\ \A m, n \in mails : m.job = n.job /\ m.id /\ n.id => m = n
    /\ \A a \in accounts : Opened(a.id) /\ post[a.id].kwami = a.kwami /\ post[a.id].name = a.name
    /\ \A m \in mails : /\ post[m.job].op # ""
                        /\ m.way = "in" <=> post[m.job].op = "mail"
                        /\ post[m.job].op # "mail" => post[m.job].answer # ""

\* Which calls a request makes.
Serves(op, pc) ==
    /\ pc \in {"name", "insert"} => op = "activate"
    /\ pc \in {"delete mails", "delete account"} => op = "deactivate"
    /\ pc \in {"send", "record"} => op = "send"
    /\ pc \in {"address", "store", "existing"} => op = "mail"
    /\ pc = "account" => op \in {"activate", "deactivate", "send"}

\* What a clerk in this state relies on; the account it found may be gone, but no other
\* has its number.
ClerkOK(h, c) ==
    /\ c.at = "off" => c = Off
    /\ Serves(post[h[1]].op, c.at)
    /\ c.next <= Len(post[h[1]].to) + 1
    /\ c.at # "off" /\ post[h[1]].op # "mail" => h[2] = 1 /\ post[h[1]].answer = ""
    /\ c.account # 0 => Opened(c.account)
    /\ c.at \in {"store", "existing", "send", "record", "delete mails", "delete account"} => c.account # 0
    /\ \A a \in accounts : a.id = c.account =>
         /\ a.kwami = c.kwami
         /\ c.at \in {"store", "existing"} => Addressed(h[1], a.name)
    /\ c.at \in {"delete mails", "delete account"} => c.kwami = post[h[1]].kwami

MailTypes ==
    /\ post \in [MailJobs -> PostRow] /\ clerk \in [Clerks -> ClerkRow]
    /\ \A j \in MailJobs : post[j].op = "" => post[j] = Unasked
MailInv ==
    /\ MailTypes /\ MailRowsOK
    /\ \A h \in Clerks : ClerkOK(h, clerk[h])
    /\ InboxIsOfAccount /\ ThankedIsStored

LEMMA MailInitInv == MailInit => MailInv
<1> SUFFICES ASSUME MailInit PROVE MailInv
  OBVIOUS
<1>1. MailTypes
  <2>1. Unasked \in PostRow
    BY DEF Unasked, PostRow, MailOwners, MailNames, AddressLists
  <2>2. Off \in ClerkRow
    BY DEF Off, ClerkRow, MailPcs, MailOwners
  <2> QED BY <2>1, <2>2 DEF MailInit, MailTypes
<1>2. MailRowsOK
  BY DEF MailInit, MailRowsOK
<1>3. ASSUME NEW h \in Clerks PROVE ClerkOK(h, clerk[h])
  <2>1. h[1] \in MailJobs
    BY DEF Clerks
  <2>2. clerk[h] = Off /\ post[h[1]] = Unasked
    BY <2>1 DEF MailInit
  <2>3. Unasked.to = <<>> /\ Unasked.op = ""
    BY Zenon DEF Unasked
  <2>4. Len(<<>>) = 0
    OBVIOUS
  <2>5. Serves("", "off") /\ Off.at = "off" /\ Off.account = 0 /\ Off.next = 1
    BY DEF Serves, Off
  <2>6. clerk[h].next <= Len(post[h[1]].to) + 1
    <3>1. Len(post[h[1]].to) = 0
      BY <2>2, <2>3, <2>4, Zenon
    <3>2. clerk[h].next = 1
      BY <2>2, <2>5, Zenon
    <3> QED BY <3>1, <3>2
  <2>7. \A a \in accounts : FALSE
    BY DEF MailInit
  <2> QED BY <2>2, <2>3, <2>5, <2>6, <2>7 DEF ClerkOK
<1>4. InboxIsOfAccount /\ ThankedIsStored
  BY DEF MailInit, InboxIsOfAccount, ThankedIsStored, Unasked
<1> QED BY <1>1, <1>2, <1>3, <1>4 DEF MailInv

---------------------------------------------------------------------------
(* Mail: what steps leave as it was *)

LEMMA ClerkFacts ==
    ASSUME MailInv, NEW h \in Clerks
    PROVE  /\ h[1] \in MailJobs /\ h[2] \in MailCopies /\ h = <<h[1], h[2]>>
           /\ post[h[1]] \in PostRow /\ clerk[h] \in ClerkRow /\ ClerkOK(h, clerk[h])
<1>1. h[1] \in MailJobs /\ h[2] \in MailCopies /\ h = <<h[1], h[2]>>
  BY DEF Clerks
<1> QED BY <1>1 DEF MailInv, MailTypes

\* The lists of addresses are sequences.
LEMMA Lists ==
    ASSUME NEW p \in PostRow
    PROVE  Len(p.to) \in Nat /\ DOMAIN p.to = 1..Len(p.to)
<1>1. CASE p.to = <<>>
  BY <1>1
<1>2. CASE p.to # <<>>
  BY <1>2, MailAssumption, Zenon DEF PostRow, AddressLists
<1> QED BY <1>1, <1>2

\* What was asked stays, and who has an account was told so.
AsksStay == \A j \in MailJobs : /\ post'[j].op = post[j].op /\ post'[j].kwami = post[j].kwami
                                /\ post'[j].name = post[j].name /\ post'[j].to = post[j].to
                                /\ Opened(j) => Opened(j)'
MailChanged == MailTypes' /\ AsksStay /\ \A g \in Clerks : ClerkOK(g, clerk[g])'

\* What a step of one clerk leaves to the others.
LEMMA OneClerk ==
    ASSUME MailInv, NEW h \in Clerks, NEW c \in ClerkRow, NEW p \in PostRow,
           p.op # "" /\ p.op = post[h[1]].op /\ p.kwami = post[h[1]].kwami,
           p.name = post[h[1]].name /\ p.to = post[h[1]].to,
           p.op = "mail" \/ (post[h[1]].answer = "" /\ h[2] = 1),
           clerk' = [clerk EXCEPT ![h] = c], post' = [post EXCEPT ![h[1]] = p],
           \A a \in accounts' : a \in accounts \/ (a.id = h[1] /\ p.op = "activate"),
           ClerkOK(h, c), c.at # "off" /\ p.op # "mail" => p.answer = ""
    PROVE  /\ MailChanged /\ post'[h[1]] = p
           /\ \A j \in MailJobs : j # h[1] => post'[j] = post[j]
<1>1. h[1] \in MailJobs /\ h[2] \in MailCopies /\ h = <<h[1], h[2]>>
  BY ClerkFacts
<1>2. post \in [MailJobs -> PostRow] /\ clerk \in [Clerks -> ClerkRow]
  BY DEF MailInv, MailTypes
<1>3. \A j \in MailJobs : /\ post'[j].op = post[j].op /\ post'[j].kwami = post[j].kwami
                          /\ post'[j].name = post[j].name /\ post'[j].to = post[j].to
                          /\ j # h[1] => post'[j] = post[j]
  BY <1>1, <1>2
<1>4. post'[h[1]] = p
  BY <1>1, <1>2
<1>5. \A j \in MailJobs : Opened(j) => Opened(j)'
  <2> SUFFICES ASSUME NEW j \in MailJobs, Opened(j) PROVE Opened(j)'
    OBVIOUS
  <2>1. j # h[1]
    BY DEF Opened
  <2> QED BY <2>1, <1>3 DEF Opened
<1>6. MailTypes'
  <2>1. post' \in [MailJobs -> PostRow] /\ clerk' \in [Clerks -> ClerkRow]
    BY <1>1, <1>2
  <2>2. \A j \in MailJobs : post'[j].op = "" => post'[j] = Unasked
    BY <1>1, <1>3 DEF MailInv, MailTypes
  <2> QED BY <2>1, <2>2 DEF MailTypes
<1>7. ASSUME NEW g \in Clerks PROVE ClerkOK(g, clerk[g])'
  <2>0. PICK d : d = IF g = h THEN c ELSE clerk[g]
    OBVIOUS
  <2>1. clerk'[g] = d /\ g[1] \in MailJobs /\ g[2] \in MailCopies /\ g = <<g[1], g[2]>>
    BY <1>1, <1>2, <2>0, ClerkFacts
  <2>2. ClerkOK(g, d) /\ d.account \in MailJobs \cup {0} /\ d.next \in Nat \ {0}
    BY <2>0, ClerkFacts DEF ClerkRow
  <2>3. d.at # "off" /\ post'[g[1]].op # "mail" => g[2] = 1 /\ post'[g[1]].answer = ""
    <3>1. CASE g = h
      <4>1. d = c /\ post'[g[1]] = p
        BY <3>1, <2>0, <1>4
      <4>2. p.op # "mail" => g[2] = 1
        BY <3>1, Zenon
      <4> QED BY <4>1, <4>2
    <3>2. CASE g # h
      <4> SUFFICES ASSUME d.at # "off", post'[g[1]].op # "mail"
                   PROVE  g[2] = 1 /\ post'[g[1]].answer = ""
        OBVIOUS
      <4>1. g[2] = 1 /\ post[g[1]].answer = ""
        BY <2>1, <2>2, <1>3, <3>2 DEF ClerkOK
      <4>2. g[1] # h[1]
        <5>1. g[1] = h[1] => p.op # "mail" /\ h[2] = 1
          BY <1>1, <1>4
        <5> QED BY <5>1, <4>1, <1>1, <2>1, <3>2, Zenon
      <4> QED BY <4>1, <4>2, <1>3, <2>1
    <3> QED BY <3>1, <3>2
  <2>4. d.account # 0 => Opened(d.account)'
    BY <2>2, <1>5 DEF ClerkOK, Opened
  <2>5. ASSUME NEW a \in accounts', a.id = d.account PROVE a \in accounts
    <3>1. SUFFICES ASSUME a.id = h[1], p.op = "activate" PROVE FALSE
      BY <2>5
    <3>2. Opened(h[1])
      <4>1. h[1] # 0
        BY <1>1, MailAssumption
      <4> QED BY <3>1, <4>1, <2>2, <2>5 DEF ClerkOK
    <3> QED BY <3>1, <3>2 DEF Opened
  <2>6. \A a \in accounts' : a.id = d.account =>
           /\ a.kwami = d.kwami
           /\ d.at \in {"store", "existing"} => Addressed(g[1], a.name)'
    <3>1. \A n : Addressed(g[1], n) => Addressed(g[1], n)'
      BY <2>1, <1>3, Zenon DEF Addressed
    <3> QED BY <2>2, <2>5, <3>1 DEF ClerkOK
  <2>7. post'[g[1]].to = post[g[1]].to /\ post'[g[1]].op = post[g[1]].op
         /\ post'[g[1]].kwami = post[g[1]].kwami
    BY <2>1, <1>3
  <2> QED BY <2>7, <2>1, <2>2, <2>3, <2>4, <2>6, <1>3 DEF ClerkOK
<1> QED BY <1>3, <1>4, <1>5, <1>6, <1>7 DEF MailChanged, AsksStay

LEMMA AccountFacts ==
    ASSUME MailInv, NEW a \in accounts
    PROVE  /\ a \in AccountRow /\ a.id \in MailJobs /\ a.id # 0
           /\ Opened(a.id) /\ post[a.id].kwami = a.kwami /\ post[a.id].name = a.name
BY MailAssumption DEF MailInv, MailRowsOK, AccountRow

LEMMA MailFacts ==
    ASSUME MailInv, NEW m \in mails
    PROVE  /\ m \in MailsRow /\ m.job \in MailJobs /\ post[m.job].op # ""
           /\ m.way = "in" <=> post[m.job].op = "mail"
           /\ post[m.job].op # "mail" => post[m.job].answer # ""
BY DEF MailInv, MailRowsOK, MailsRow

LEMMA AccountsStayTrue ==
    ASSUME MailInv, AsksStay, NEW a \in accounts
    PROVE  Opened(a.id)' /\ post'[a.id].kwami = a.kwami /\ post'[a.id].name = a.name
<1>1. a.id \in MailJobs /\ Opened(a.id) /\ post[a.id].kwami = a.kwami /\ post[a.id].name = a.name
  BY AccountFacts
<1> QED BY <1>1 DEF AsksStay

LEMMA MailsStayTrue ==
    ASSUME MailInv, AsksStay, NEW m \in mails, post[m.job].op # "mail" => post'[m.job].answer # ""
    PROVE  /\ post'[m.job].op # ""
           /\ m.way = "in" <=> post'[m.job].op = "mail"
           /\ post'[m.job].op # "mail" => post'[m.job].answer # ""
<1>1. post'[m.job].op = post[m.job].op
  BY MailFacts DEF AsksStay
<1> QED BY <1>1, MailFacts

LEMMA AddressesStay ==
    ASSUME AsksStay
    PROVE  /\ \A j \in MailJobs : \A n : Addressed(j, n) => Addressed(j, n)'
           /\ \A i, j \in MailJobs : GivesUp(i, j) => GivesUp(i, j)'
<1>1. \A j \in MailJobs : \A n : Addressed(j, n) => Addressed(j, n)'
  BY Zenon DEF AsksStay, Addressed
<1>2. \A i, j \in MailJobs : GivesUp(i, j) => GivesUp(i, j)'
  BY <1>1 DEF GivesUp, AsksStay
<1> QED BY <1>1, <1>2

\* The rows as they are stay true when a request goes on.
LEMMA MailRowsStay ==
    ASSUME MailInv, MailChanged, accounts' = accounts, mails' = mails,
           \A j \in MailJobs : post[j].op # "mail" /\ post[j].answer # "" => post'[j] = post[j],
           \A j \in MailJobs : post[j].op = "mail" /\ post'[j].answer = "ok"
               => post[j].answer = "ok" \/ (\E m \in mails : m.job = j)
    PROVE  MailInv'
<1>0. AsksStay
  BY DEF MailChanged
<1>1. MailRowsOK'
  <2>1. \A a \in accounts : Opened(a.id)' /\ post'[a.id].kwami = a.kwami /\ post'[a.id].name = a.name
    BY <1>0, AccountsStayTrue
  <2>2. \A m \in mails : post[m.job].op # "mail" => post'[m.job].answer # ""
    BY MailFacts
  <2>3. \A m \in mails : /\ post'[m.job].op # ""
                         /\ m.way = "in" <=> post'[m.job].op = "mail"
                         /\ post'[m.job].op # "mail" => post'[m.job].answer # ""
    BY <1>0, <2>2, MailsStayTrue
  <2> QED BY <2>1, <2>3 DEF MailInv, MailRowsOK
<1>2. InboxIsOfAccount'
  <2>1. \A m \in mails : m.job \in MailJobs
    BY MailFacts
  <2> QED BY <1>0, <2>1, AddressesStay DEF MailInv, InboxIsOfAccount
<1>3. ThankedIsStored'
  <2>1. \A i, j \in MailJobs : GivesUp(i, j) => GivesUp(i, j)'
    BY <1>0, AddressesStay
  <2>2. \A j \in MailJobs : post'[j].op = post[j].op
    BY <1>0 DEF AsksStay
  <2> QED BY <2>1, <2>2 DEF MailInv, ThankedIsStored
<1> QED BY <1>1, <1>2, <1>3 DEF MailInv, MailChanged

MailAnswers == {"", "ok", "no account", "taken", "dropped", "error"}

\* Nobody has asked: nobody is at work.
LEMMA Asked ==
    ASSUME MailInv, NEW h \in Clerks, post[h[1]].op = ""
    PROVE  clerk[h].at = "off"
<1>1. Serves("", clerk[h].at) /\ clerk[h].at \in MailPcs
  BY ClerkFacts DEF ClerkOK, ClerkRow
<1> QED BY <1>1 DEF Serves, MailPcs

\* A clerk goes to another call, with what it knows.
LEMMA Moved ==
    ASSUME MailInv, NEW h \in Clerks, NEW c \in ClerkRow,
           clerk' = [clerk EXCEPT ![h] = c], post' = post, accounts' \subseteq accounts,
           post[h[1]].op # "", post[h[1]].op = "mail" \/ (post[h[1]].answer = "" /\ h[2] = 1),
           ClerkOK(h, c)
    PROVE  MailChanged
<1>1. post' = [post EXCEPT ![h[1]] = post[h[1]]]
  BY ClerkFacts DEF MailInv, MailTypes
<1>2. PICK p \in PostRow : p = post[h[1]]
  BY ClerkFacts
<1>3. c.at # "off" /\ p.op # "mail" => p.answer = ""
  BY <1>2 DEF ClerkOK
<1>4. \A a \in accounts' : a \in accounts \/ (a.id = h[1] /\ p.op = "activate")
  OBVIOUS
<1> QED BY <1>1, <1>2, <1>3, <1>4, OneClerk

\* A clerk is done, with this answer.
LEMMA Ended ==
    ASSUME MailInv, NEW h \in Clerks, NEW why \in MailAnswers, Done(h, why), clerk[h].at # "off",
           \A a \in accounts' : a \in accounts \/ (a.id = h[1] /\ post[h[1]].op = "activate")
    PROVE  /\ MailChanged /\ post'[h[1]].answer = why
           /\ \A j \in MailJobs : j # h[1] => post'[j] = post[j]
<1>1. h[1] \in MailJobs /\ post[h[1]] \in PostRow /\ ClerkOK(h, clerk[h]) /\ post[h[1]].op # ""
  BY ClerkFacts, Asked
<1>2. PICK q \in PostRow : q = post[h[1]]
  BY <1>1
<1>3. PICK p : p = [q EXCEPT !.answer = why]
  OBVIOUS
<1>4. p \in PostRow /\ p.answer = why /\ p.op = q.op /\ p.kwami = q.kwami /\ p.name = q.name /\ p.to = q.to
  BY <1>3 DEF PostRow, MailAnswers
<1>5. post' = [post EXCEPT ![h[1]] = p]
  BY <1>1, <1>2, <1>3 DEF Done, MailInv, MailTypes
<1>6. Off \in ClerkRow
  BY DEF Off, ClerkRow, MailPcs, MailOwners
<1>7. ClerkOK(h, Off)
  <2>1. Serves(post[h[1]].op, "off")
    BY DEF Serves
  <2>2. Off.at = "off" /\ Off.account = 0 /\ Off.next = 1
    BY DEF Off
  <2>3. Len(post[h[1]].to) \in Nat
    BY <1>1, Lists
  <2>4. Off.next <= Len(post[h[1]].to) + 1
    BY <2>2, <2>3
  <2>5. \A a \in accounts : a.id # 0
    BY MailAssumption DEF MailInv, MailRowsOK, AccountRow
  <2> QED BY <2>1, <2>2, <2>4, <2>5 DEF ClerkOK
<1>8. p.op = "mail" \/ (post[h[1]].answer = "" /\ h[2] = 1)
  BY <1>1, <1>2, <1>4 DEF ClerkOK
<1>9. clerk' = [clerk EXCEPT ![h] = Off] /\ Off.at = "off"
  BY DEF Done, Off
<1>10. /\ p.op # "" /\ p.op = post[h[1]].op /\ p.kwami = post[h[1]].kwami
       /\ p.name = post[h[1]].name /\ p.to = post[h[1]].to
  BY <1>1, <1>2, <1>4
<1>11. \A a \in accounts' : a \in accounts \/ (a.id = h[1] /\ p.op = "activate")
  BY <1>10
<1>12. /\ MailChanged /\ post'[h[1]] = p
       /\ \A j \in MailJobs : j # h[1] => post'[j] = post[j]
  BY <1>4, <1>5, <1>6, <1>7, <1>8, <1>9, <1>10, <1>11, OneClerk
<1> QED BY <1>4, <1>12

\* A call that failed leaves a mail's answer as it is.
Failure(h) == IF Asks(h).op = "mail" THEN Asks(h).answer ELSE "error"

LEMMA FailsIsDone ==
    ASSUME MailInv, NEW h \in Clerks, Fails(h)
    PROVE  Done(h, Failure(h)) /\ Failure(h) \in MailAnswers
<1>1. post[h[1]].answer \in MailAnswers
  BY ClerkFacts DEF PostRow, MailAnswers
<1> QED BY <1>1 DEF Fails, Done, Failure, Asks, MailAnswers

\* No row changes.
LEMMA EndedInv ==
    ASSUME MailInv, NEW h \in Clerks, NEW why \in MailAnswers, Done(h, why), clerk[h].at # "off",
           accounts' = accounts, mails' = mails,
           post[h[1]].op = "mail" /\ why = "ok" => post[h[1]].answer = "ok" \/ \E m \in mails : m.job = h[1]
    PROVE  MailInv'
<1>1. MailChanged /\ post'[h[1]].answer = why /\ \A j \in MailJobs : j # h[1] => post'[j] = post[j]
  BY Ended
<1>2. ClerkOK(h, clerk[h])
  BY ClerkFacts
<1>3. \A j \in MailJobs : post[j].op # "mail" /\ post[j].answer # "" => post'[j] = post[j]
  BY <1>1, <1>2 DEF ClerkOK
<1>4. \A j \in MailJobs : post[j].op = "mail" /\ post'[j].answer = "ok"
               => post[j].answer = "ok" \/ (\E m \in mails : m.job = j)
  BY <1>1
<1> QED BY <1>1, <1>3, <1>4, MailRowsStay

LEMMA FailsInv ==
    ASSUME MailInv, NEW h \in Clerks, Fails(h), clerk[h].at # "off", accounts' = accounts, mails' = mails
    PROVE  MailInv'
<1>1. PICK why \in MailAnswers : why = Failure(h) /\ Done(h, why)
  BY FailsIsDone
<1>2. post[h[1]].op = "mail" /\ why = "ok" => post[h[1]].answer = "ok"
  BY <1>1 DEF Failure, Asks
<1> QED BY <1>1, <1>2, EndedInv

LEMMA MovedInv ==
    ASSUME MailInv, NEW h \in Clerks, NEW c \in ClerkRow,
           clerk' = [clerk EXCEPT ![h] = c], post' = post, accounts' = accounts, mails' = mails,
           post[h[1]].op # "", post[h[1]].op = "mail" \/ (post[h[1]].answer = "" /\ h[2] = 1),
           ClerkOK(h, c)
    PROVE  MailInv'
BY Moved, MailRowsStay

\* A clerk at work.
LEMMA AtWork ==
    ASSUME MailInv, NEW h \in Clerks, clerk[h].at # "off"
    PROVE  post[h[1]].op # "" /\ (post[h[1]].op = "mail" \/ (post[h[1]].answer = "" /\ h[2] = 1))
BY ClerkFacts, Asked DEF ClerkOK

\* It goes to another call that needs no more of it.
LEMMA MovesOn ==
    ASSUME MailInv, NEW h \in Clerks, NEW pc \in MailPcs \ {"off"}, Moves(h, pc),
           clerk[h].at = "off" => clerk[h] = Off,
           post[h[1]].op # "", post[h[1]].op = "mail" \/ (post[h[1]].answer = "" /\ h[2] = 1),
           Serves(post[h[1]].op, pc),
           pc \in {"store", "existing", "send", "record", "delete mails", "delete account"}
               => clerk[h].account # 0,
           pc \in {"store", "existing"} => clerk[h].at \in {"store", "existing"},
           pc \in {"delete mails", "delete account"} => clerk[h].at \in {"delete mails", "delete account"}
    PROVE  \E c \in ClerkRow : clerk' = [clerk EXCEPT ![h] = c] /\ ClerkOK(h, c)
<1>1. PICK b \in ClerkRow : b = clerk[h]
  BY ClerkFacts
<1>2. PICK c : c = [b EXCEPT !.at = pc]
  OBVIOUS
<1>3. c \in ClerkRow /\ c.at = pc /\ c.account = b.account /\ c.kwami = b.kwami /\ c.next = b.next
  BY <1>2 DEF ClerkRow
<1>4. clerk' = [clerk EXCEPT ![h] = c]
  BY <1>1, <1>2 DEF Moves, MailInv, MailTypes
<1>5. ClerkOK(h, b)
  BY <1>1, ClerkFacts
<1>6. ClerkOK(h, c)
  BY <1>1, <1>3, <1>5 DEF ClerkOK
<1> QED BY <1>3, <1>4, <1>6

---------------------------------------------------------------------------
(* Mail: the requests, step by step *)

LEMMA AskInv == ASSUME MailInv, NEW j \in MailJobs, Ask(j) PROVE MailInv'
<1>1. PICK m \in MailMenu : post' = [post EXCEPT ![j] = [Unasked EXCEPT !.op = m.op, !.kwami = m.kwami,
                                        !.name = m.name, !.to = m.to, !.id = m.id]]
  BY DEF Ask
<1>2. PICK p : p = [Unasked EXCEPT !.op = m.op, !.kwami = m.kwami, !.name = m.name, !.to = m.to, !.id = m.id]
  OBVIOUS
<1>3. p \in PostRow /\ p.op = m.op /\ p.answer = "" /\ m.op # ""
  <2>1. m.op \in {"activate", "deactivate", "send", "mail"} /\ m.id \in BOOLEAN
    BY MailAssumption
  <2>2. m.kwami \in MailOwners /\ m.name \in MailNames /\ m.to \in AddressLists
    BY DEF MailOwners, MailNames, AddressLists
  <2> QED BY <1>2, <2>1, <2>2 DEF Unasked, PostRow
<1>4. /\ post[j].op = "" /\ post[j] = Unasked
      /\ accounts' = accounts /\ mails' = mails /\ clerk' = clerk
  BY DEF Ask, MailInv, MailTypes
<1>5. post' \in [MailJobs -> PostRow] /\ post'[j] = p /\ \A i \in MailJobs : i # j => post'[i] = post[i]
  BY <1>1, <1>2, <1>3 DEF MailInv, MailTypes
<1>6. MailTypes'
  BY <1>3, <1>4, <1>5 DEF MailInv, MailTypes
<1>7. \A i \in MailJobs : Opened(i) => i # j /\ Opened(i)'
  BY <1>4, <1>5 DEF Opened
<1>8. MailRowsOK'
  <2>1. \A a \in accounts : a.id \in MailJobs /\ Opened(a.id)
    BY DEF MailInv, MailRowsOK, AccountRow
  <2>2. \A a \in accounts : Opened(a.id)' /\ post'[a.id].kwami = a.kwami /\ post'[a.id].name = a.name
    BY <2>1, <1>5, <1>7 DEF MailInv, MailRowsOK
  <2>3. \A m1 \in mails : m1.job \in MailJobs /\ m1.job # j
    BY <1>4 DEF MailInv, MailRowsOK, MailsRow
  <2>4. \A m1 \in mails : /\ post'[m1.job].op # ""
                          /\ m1.way = "in" <=> post'[m1.job].op = "mail"
                          /\ post'[m1.job].op # "mail" => post'[m1.job].answer # ""
    BY <2>3, <1>5 DEF MailInv, MailRowsOK
  <2> QED BY <1>4, <2>2, <2>4 DEF MailInv, MailRowsOK
<1>9. ASSUME NEW h \in Clerks PROVE ClerkOK(h, clerk[h])'
  <2>1. PICK d \in ClerkRow : d = clerk[h] /\ d = clerk'[h] /\ ClerkOK(h, d) /\ h[1] \in MailJobs
    BY <1>4, ClerkFacts
  <2>2. CASE h[1] # j
    <3>1. post'[h[1]] = post[h[1]]
      BY <2>1, <2>2, <1>5
    <3>2. d.account # 0 => Opened(d.account)'
      BY <2>1, <1>7 DEF ClerkOK, Opened
    <3>3. \A n : Addressed(h[1], n) => Addressed(h[1], n)'
      BY <3>1, Zenon DEF Addressed
    <3> QED BY <2>1, <3>1, <3>2, <3>3, <1>4 DEF ClerkOK
  <2>3. CASE h[1] = j
    <3>1. d.at = "off" /\ d = Off
      BY <2>1, <2>3, <1>4, Asked DEF ClerkOK
    <3>2. Serves(post'[j].op, "off")
      BY DEF Serves
    <3>3. Off.at = "off" /\ Off.account = 0 /\ Off.next = 1
      BY DEF Off
    <3>4. Len(p.to) \in Nat
      BY <1>3, Lists
    <3>5. Off.next <= Len(post'[j].to) + 1
      BY <3>3, <3>4, <1>5
    <3>6. \A a \in accounts : a.id # 0
      BY MailAssumption DEF MailInv, MailRowsOK, AccountRow
    <3> QED BY <2>1, <2>3, <3>1, <3>2, <3>3, <3>5, <3>6, <1>4 DEF ClerkOK
  <2> QED BY <2>2, <2>3
<1>10. \A i \in MailJobs : \A n : i # j /\ Addressed(i, n) => Addressed(i, n)'
  BY <1>5, Zenon DEF Addressed
<1>11. InboxIsOfAccount'
  <2>1. \A m1 \in mails : m1.job \in MailJobs /\ m1.job # j
    BY <1>4 DEF MailInv, MailRowsOK, MailsRow
  <2> QED BY <2>1, <1>4, <1>10 DEF MailInv, InboxIsOfAccount
<1>12. ThankedIsStored'
  <2>1. \A i, k \in MailJobs : k # j /\ GivesUp(i, k) => GivesUp(i, k)'
    BY <1>4, <1>5, <1>10 DEF GivesUp
  <2> QED BY <2>1, <1>3, <1>4, <1>5 DEF MailInv, ThankedIsStored
<1> QED BY <1>6, <1>8, <1>9, <1>11, <1>12 DEF MailInv

LEMMA BeginInv == ASSUME MailInv, NEW h \in Clerks, Begin(h) PROVE MailInv'
<1>1. PICK pc : pc = FirstStep(h)
  OBVIOUS
<1>2. /\ Moves(h, pc) /\ post[h[1]].op # "" /\ post[h[1]].answer = "" /\ h[2] = 1
      /\ accounts' = accounts /\ mails' = mails /\ post' = post
  BY <1>1 DEF Begin, Asks
<1>3. clerk[h] = Off
  <2>1. Does(<<h[1], h[2]>>, "off")
    BY ClerkFacts DEF Begin
  <2> QED BY <2>1, ClerkFacts DEF ClerkOK, Does
<1>4. pc \in {"address", "account"} /\ Serves(post[h[1]].op, pc)
  <2>1. post[h[1]].op \in {"activate", "deactivate", "send", "mail"}
    BY <1>2, ClerkFacts DEF PostRow
  <2> QED BY <2>1, <1>1 DEF FirstStep, Asks, Serves
<1>5. pc \in MailPcs \ {"off"}
  BY <1>4 DEF MailPcs
<1> QED BY <1>2, <1>3, <1>4, <1>5, MovesOn, MovedInv

LEMMA BeginAgainInv == ASSUME MailInv, NEW h \in Clerks, BeginAgain(h) PROVE MailInv'
<1>1. /\ Moves(h, "address") /\ post[h[1]].op = "mail" /\ clerk[h] = Off
      /\ accounts' = accounts /\ mails' = mails /\ post' = post
  BY ClerkFacts DEF BeginAgain, Asks, Does, FirstStep, ClerkOK
<1>2. Serves("mail", "address") /\ "address" \in MailPcs \ {"off"}
  BY DEF Serves, MailPcs
<1> QED BY <1>1, <1>2, MovesOn, MovedInv

LEMMA GetAccountInv == ASSUME MailInv, NEW h \in Clerks, GetAccount(h) PROVE MailInv'
<1> DEFINE mine == {a \in accounts : a.kwami = Asks(h).kwami}
<1>1. /\ clerk[h].at = "account" /\ accounts' = accounts /\ mails' = mails
      /\ post[h[1]].op \in {"activate", "deactivate", "send"}
      /\ post[h[1]].answer = "" /\ h[2] = 1
  <2>1. clerk[h].at = "account" /\ ClerkOK(h, clerk[h])
    BY ClerkFacts DEF GetAccount, Does
  <2> QED BY <2>1 DEF GetAccount, ClerkOK, Serves
<1>2. CASE \E why \in {"ok", "no account"} : Done(h, why)
  <2>1. PICK why \in MailAnswers : Done(h, why)
    BY <1>2 DEF MailAnswers
  <2> QED BY <2>1, <1>1, EndedInv
<1>3. CASE Moves(h, "name") /\ post' = post /\ post[h[1]].op = "activate"
  <2>1. Serves("activate", "name") /\ "name" \in MailPcs \ {"off"}
    BY DEF Serves, MailPcs
  <2> QED BY <1>1, <1>3, <2>1, MovesOn, MovedInv
<1>4. ASSUME post[h[1]].op # "activate", post' = post, NEW a \in mine, NEW pc \in {"send", "delete mails"},
             pc = IF post[h[1]].op = "send" THEN "send" ELSE "delete mails",
             clerk' = [clerk EXCEPT ![h].account = a.id, ![h].kwami = a.kwami, ![h].at = pc]
      PROVE  MailInv'
  <2>1. a \in AccountRow /\ Opened(a.id) /\ a.kwami = post[h[1]].kwami
    BY DEF MailInv, MailRowsOK, Asks
  <2>2. PICK b \in ClerkRow : b = clerk[h] /\ ClerkOK(h, b)
    BY ClerkFacts
  <2>3. PICK c : c = [b EXCEPT !.account = a.id, !.kwami = a.kwami, !.at = pc]
    OBVIOUS
  <2>4. c.at = pc /\ c.account = a.id /\ c.kwami = a.kwami /\ c.next = b.next
    BY <2>2, <2>3 DEF ClerkRow
  <2>5. c \in ClerkRow
    <3>1. pc \in MailPcs /\ a.id \in MailJobs \cup {0} /\ a.kwami \in MailOwners
      BY <2>1 DEF MailPcs, AccountRow
    <3> QED BY <3>1, <2>2, <2>3 DEF ClerkRow
  <2>6. clerk' = [clerk EXCEPT ![h] = c]
    BY <1>4, <2>2, <2>3 DEF MailInv, MailTypes
  <2>7. ClerkOK(h, c)
    <3>1. Serves(post[h[1]].op, pc)
      BY <1>1, <1>4 DEF Serves
    <3>2. \A d \in accounts : d.id = a.id => d = a
      BY DEF MailInv, MailRowsOK
    <3>3. a.id # 0
      BY <2>1, MailAssumption DEF AccountRow
    <3> QED BY <1>1, <2>1, <2>2, <2>4, <3>1, <3>2, <3>3 DEF ClerkOK
  <2> QED BY <1>1, <1>4, <2>5, <2>6, <2>7, MovedInv
<1> QED
  <2>1. CASE Asks(h).op = "activate"
    BY <2>1, <1>2, <1>3 DEF GetAccount, Asks
  <2>2. CASE Asks(h).op # "activate"
    <3>1. CASE mine = {}
      BY <2>2, <3>1, <1>2 DEF GetAccount
    <3>2. CASE mine # {}
      <4>1. PICK pc \in {"send", "delete mails"} : pc = IF post[h[1]].op = "send" THEN "send" ELSE "delete mails"
        OBVIOUS
      <4> QED BY <4>1, <2>2, <3>2, <1>4 DEF GetAccount, Asks
    <3> QED BY <3>1, <3>2
  <2> QED BY <2>1, <2>2

LEMMA CheckUsernameAvailableInv ==
    ASSUME MailInv, NEW h \in Clerks, CheckUsernameAvailable(h) PROVE MailInv'
<1>1. /\ clerk[h].at = "name" /\ accounts' = accounts /\ mails' = mails
      /\ post[h[1]].op = "activate" /\ post[h[1]].answer = "" /\ h[2] = 1
  <2>1. clerk[h].at = "name" /\ ClerkOK(h, clerk[h])
    BY ClerkFacts DEF CheckUsernameAvailable, Does
  <2> QED BY <2>1 DEF CheckUsernameAvailable, ClerkOK, Serves
<1>2. CASE Done(h, "taken")
  <2>1. "taken" \in MailAnswers
    BY DEF MailAnswers
  <2> QED BY <1>1, <1>2, <2>1, EndedInv
<1>3. CASE Moves(h, "insert") /\ post' = post
  <2>1. Serves("activate", "insert") /\ "insert" \in MailPcs \ {"off"}
    BY DEF Serves, MailPcs
  <2> QED BY <1>1, <1>3, <2>1, MovesOn, MovedInv
<1> QED BY <1>2, <1>3 DEF CheckUsernameAvailable

LEMMA InsertAccountInv == ASSUME MailInv, NEW h \in Clerks, InsertAccount(h) PROVE MailInv'
<1>1. /\ clerk[h].at = "insert" /\ mails' = mails
      /\ post[h[1]].op = "activate" /\ post[h[1]].answer = "" /\ h[2] = 1 /\ h[1] \in MailJobs
      /\ post[h[1]] \in PostRow
  <2>1. clerk[h].at = "insert" /\ ClerkOK(h, clerk[h])
    BY ClerkFacts DEF InsertAccount, Does
  <2> QED BY <2>1, ClerkFacts DEF InsertAccount, ClerkOK, Serves
<1>2. CASE Fails(h) /\ accounts' = accounts
  BY <1>1, <1>2, FailsInv
<1> DEFINE new == [id |-> h[1], kwami |-> Asks(h).kwami, name |-> Asks(h).name]
<1>3. ASSUME ~\E a \in accounts : a.name = Asks(h).name \/ a.kwami = Asks(h).kwami,
             Done(h, "ok"), accounts' = accounts \cup {new}
      PROVE  MailInv'
  <2>1. PICK n : n = new /\ n.id = h[1] /\ n.kwami = post[h[1]].kwami /\ n.name = post[h[1]].name
    <3>1. PICK n : n = new
      OBVIOUS
    <3> QED BY <3>1 DEF Asks
  <2>a. n \in AccountRow
    <3>1. post[h[1]].kwami \in MailOwners /\ post[h[1]].name \in MailNames
      BY <1>1 DEF PostRow
    <3> QED BY <1>1, <2>1, <3>1 DEF AccountRow, Asks
  <2>2. accounts' = accounts \cup {n}
    BY <1>3, <2>1
  <2>3. "ok" \in MailAnswers
    BY DEF MailAnswers
  <2>4. MailChanged /\ AsksStay /\ post'[h[1]].answer = "ok" /\ \A j \in MailJobs : j # h[1] => post'[j] = post[j]
    BY <1>1, <1>3, <2>1, <2>2, <2>3, Ended DEF MailChanged
  <2>5. MailRowsOK'
    <3>1. \A a \in accounts : a.id \in MailJobs /\ a.id # h[1] /\ a.kwami # n.kwami /\ a.name # n.name
      BY <1>1, <1>3, <2>1 DEF MailInv, MailRowsOK, AccountRow, Opened, Asks
    <3>2. \A a, b \in accounts' : a.name = b.name \/ a.kwami = b.kwami \/ a.id = b.id => a = b
      <4>1. \A a, b \in accounts : a.name = b.name \/ a.kwami = b.kwami \/ a.id = b.id => a = b
        BY DEF MailInv, MailRowsOK
      <4> QED BY <2>1, <2>2, <3>1, <4>1
    <3>3. \A a \in accounts' : Opened(a.id)' /\ post'[a.id].kwami = a.kwami /\ post'[a.id].name = a.name
      <4>1. ASSUME NEW a \in accounts PROVE Opened(a.id)' /\ post'[a.id].kwami = a.kwami /\ post'[a.id].name = a.name
        BY <2>4, AccountsStayTrue
      <4>2. Opened(n.id)' /\ post'[n.id].kwami = n.kwami /\ post'[n.id].name = n.name
        BY <1>1, <2>1, <2>4 DEF AsksStay, Opened
      <4> QED BY <2>2, <4>1, <4>2
    <3>4. \A m \in mails : post[m.job].op # "mail" => post'[m.job].answer # ""
      BY <1>1, <2>4, MailFacts
    <3>5. \A m \in mails : /\ post'[m.job].op # ""
                           /\ m.way = "in" <=> post'[m.job].op = "mail"
                           /\ post'[m.job].op # "mail" => post'[m.job].answer # ""
      BY <2>4, <3>4, MailsStayTrue
    <3> QED BY <1>1, <2>a, <2>2, <3>2, <3>3, <3>5 DEF MailInv, MailRowsOK
  <2>7. InboxIsOfAccount'
    <3>1. \A m \in mails : m.job \in MailJobs
      BY MailFacts
    <3> QED BY <1>1, <2>2, <2>4, <3>1, AddressesStay DEF MailInv, InboxIsOfAccount
  <2>8. ThankedIsStored'
    <3>1. \A i, j \in MailJobs : GivesUp(i, j) => GivesUp(i, j)'
      BY <2>4, AddressesStay
    <3>2. \A j \in MailJobs : post'[j].op = "mail" /\ post'[j].answer = "ok" => post[j].op = "mail" /\ post[j].answer = "ok"
      BY <1>1, <2>4 DEF AsksStay
    <3> QED BY <1>1, <3>1, <3>2 DEF MailInv, ThankedIsStored
  <2> QED BY <2>4, <2>5, <2>7, <2>8 DEF MailInv, MailChanged
<1> QED BY <1>2, <1>3 DEF InsertAccount

\* Mails go, with an account or before it: those of the account h gives up.
LEMMA MailsGone ==
    ASSUME MailInv, NEW h \in Clerks, clerk[h].at \in {"delete mails", "delete account"}, MailChanged,
           \/ accounts' = accounts
           \/ accounts' = {a \in accounts : a.id # clerk[h].account},
           mails' = {m \in mails : m.account # clerk[h].account},
           \A j \in MailJobs : j # h[1] => post'[j] = post[j]
    PROVE  MailInv'
<1>1. /\ post[h[1]].op = "deactivate" /\ post[h[1]].answer = "" /\ ClerkOK(h, clerk[h]) /\ h[1] \in MailJobs
      /\ clerk[h].account # 0
  BY ClerkFacts DEF ClerkOK, Serves
<1>2. accounts' \subseteq accounts /\ mails' \subseteq mails
  OBVIOUS
<1>3. AsksStay
  BY DEF MailChanged
<1>4. \A m \in mails : m.job \in MailJobs /\ m.job # h[1]
  BY <1>1, MailFacts
<1>5. MailRowsOK'
  <2>1. \A a \in accounts' : Opened(a.id)' /\ post'[a.id].kwami = a.kwami /\ post'[a.id].name = a.name
    BY <1>2, <1>3, AccountsStayTrue
  <2>2. \A m \in mails' : /\ post'[m.job].op # ""
                          /\ m.way = "in" <=> post'[m.job].op = "mail"
                          /\ post'[m.job].op # "mail" => post'[m.job].answer # ""
    BY <1>2, <1>3, <1>4, MailFacts, MailsStayTrue
  <2>3. \A a, b \in accounts' : a.name = b.name \/ a.kwami = b.kwami \/ a.id = b.id => a = b
    BY <1>2 DEF MailInv, MailRowsOK
  <2>4. \A m, n \in mails' : m.job = n.job /\ m.id /\ n.id => m = n
    BY <1>2, Zenon DEF MailInv, MailRowsOK
  <2>5. accounts' \subseteq AccountRow /\ mails' \subseteq MailsRow
    BY <1>2 DEF MailInv, MailRowsOK
  <2> QED BY <2>1, <2>2, <2>3, <2>4, <2>5 DEF MailRowsOK
<1>6. \A j \in MailJobs : \A n : Addressed(j, n) => Addressed(j, n)'
  BY <1>3, AddressesStay
<1>7. InboxIsOfAccount'
  <2> SUFFICES ASSUME NEW m \in mails'
               PROVE  \E a \in accounts' : /\ a.id = m.account /\ a.kwami = m.kwami
                                           /\ m.way = "in" => Addressed(m.job, a.name)'
    BY DEF InboxIsOfAccount
  <2>1. m \in mails /\ m.account # clerk[h].account
    OBVIOUS
  <2>2. PICK a \in accounts : /\ a.id = m.account /\ a.kwami = m.kwami
                              /\ m.way = "in" => Addressed(m.job, a.name)
    BY <2>1 DEF MailInv, InboxIsOfAccount
  <2>3. a \in accounts'
    <3>1. CASE accounts' = accounts
      BY <3>1, <2>2
    <3>2. CASE accounts' = {b \in accounts : b.id # clerk[h].account}
      BY <3>2, <2>1, <2>2
    <3> QED BY <3>1, <3>2
  <2>4. m.job \in MailJobs
    BY <2>1, <1>4
  <2>5. a.id = m.account /\ a.kwami = m.kwami /\ (m.way = "in" => Addressed(m.job, a.name)')
    BY <2>2, <2>4, <1>6
  <2> QED BY <2>3, <2>5
<1>8. ThankedIsStored'
  <2> SUFFICES ASSUME NEW j \in MailJobs, post'[j].op = "mail", post'[j].answer = "ok",
                      ~\E m \in mails' : m.job = j
               PROVE  \E i \in MailJobs : GivesUp(i, j)'
    BY DEF ThankedIsStored
  <2>1. \A i \in MailJobs : GivesUp(i, j) => GivesUp(i, j)'
    BY <1>1, <1>3, AddressesStay
  <2>2. post[j].op = "mail" /\ post[j].answer = "ok"
    BY <1>1, <1>3 DEF AsksStay
  <2>3. CASE \E i \in MailJobs : GivesUp(i, j)
    BY <2>1, <2>3
  <2>4. CASE \E m \in mails : m.job = j
    <3>1. PICK m \in mails : m.job = j /\ m.account = clerk[h].account
      BY <2>4
    <3>2. PICK a \in accounts : /\ a.id = m.account /\ (m.way = "in" => Addressed(m.job, a.name))
      BY DEF MailInv, InboxIsOfAccount
    <3>3. Addressed(j, a.name)
      BY <3>1, <3>2, <2>2 DEF MailInv, MailRowsOK
    <3>4. /\ post[a.id].op = "activate" /\ post[a.id].kwami = a.kwami /\ post[a.id].name = a.name
          /\ a.id \in MailJobs
      BY AccountFacts DEF Opened
    <3>5. a.kwami = post[h[1]].kwami
      BY <1>1, <3>1, <3>2 DEF ClerkOK
    <3>6. GivesUp(h[1], j)
      BY <1>1, <3>3, <3>4, <3>5 DEF GivesUp
    <3> QED BY <1>1, <2>1, <3>6
  <2> QED BY <2>2, <2>3, <2>4 DEF MailInv, ThankedIsStored
<1> QED BY <1>5, <1>7, <1>8 DEF MailInv, MailChanged

LEMMA DeleteMailsInv == ASSUME MailInv, NEW h \in Clerks, DeleteMails(h) PROVE MailInv'
<1>1. clerk[h].at = "delete mails" /\ accounts' = accounts /\ ClerkOK(h, clerk[h])
  BY ClerkFacts DEF DeleteMails, Does
<1>2. CASE mails' = mails /\ Fails(h)
  BY <1>1, <1>2, FailsInv
<1>3. CASE mails' = {m \in mails : m.account # clerk[h].account} /\ Moves(h, "delete account") /\ post' = post
  <2>1. Serves(post[h[1]].op, "delete account") /\ "delete account" \in MailPcs \ {"off"}
    BY <1>1 DEF Serves, MailPcs, ClerkOK
  <2>2. PICK c \in ClerkRow : clerk' = [clerk EXCEPT ![h] = c] /\ ClerkOK(h, c)
    BY <1>1, <1>3, <2>1, AtWork, MovesOn DEF ClerkOK
  <2>3. MailChanged
    BY <1>1, <1>3, <2>2, AtWork, Moved
  <2> QED BY <1>1, <1>3, <2>3, MailsGone
<1> QED BY <1>2, <1>3 DEF DeleteMails

LEMMA DeleteAccountInv == ASSUME MailInv, NEW h \in Clerks, DeleteAccount(h) PROVE MailInv'
<1>1. clerk[h].at = "delete account"
  BY DEF DeleteAccount, Does
<1>2. CASE accounts' = accounts /\ mails' = mails /\ Fails(h)
  BY <1>1, <1>2, FailsInv
<1>3. CASE /\ accounts' = {a \in accounts : a.id # clerk[h].account}
           /\ mails' = {m \in mails : LeftAfter(m, clerk[h].account)} /\ Done(h, "ok")
  <2>1. "ok" \in MailAnswers
    BY DEF MailAnswers
  <2>2. MailChanged /\ \A j \in MailJobs : j # h[1] => post'[j] = post[j]
    BY <1>1, <1>3, <2>1, Ended
  <2> QED BY <1>1, <1>3, <2>2, MailsGone DEF LeftAfter
<1> QED BY <1>2, <1>3 DEF DeleteAccount

\* A mail comes, or is recorded.
LEMMA MailComes ==
    ASSUME MailInv, MailChanged, NEW m \in MailsRow, accounts' = accounts, mails' = mails \cup {m},
           post[m.job].op # "", m.way = "in" <=> post[m.job].op = "mail",
           post[m.job].op # "mail" => post'[m.job].answer # "",
           m.id => \A n \in mails : ~(n.job = m.job /\ n.id),
           \E a \in accounts : a.id = m.account /\ a.kwami = m.kwami /\ (m.way = "in" => Addressed(m.job, a.name)),
           \A j \in MailJobs : j # m.job => post'[j] = post[j],
           post[m.job].op # "mail" => post[m.job].answer = ""
    PROVE  MailInv'
<1>0. m.job \in MailJobs
  BY DEF MailsRow
<1>1. AsksStay
  BY DEF MailChanged
<1>2. \A n \in mails : n.job \in MailJobs /\ (n.job = m.job => post[m.job].op = "mail")
  BY MailFacts
<1>3. MailRowsOK'
  <2>1. \A a \in accounts : Opened(a.id)' /\ post'[a.id].kwami = a.kwami /\ post'[a.id].name = a.name
    BY <1>1, AccountsStayTrue
  <2>2. \A n \in mails : /\ post'[n.job].op # ""
                         /\ n.way = "in" <=> post'[n.job].op = "mail"
                         /\ post'[n.job].op # "mail" => post'[n.job].answer # ""
    BY <1>1, <1>2, MailFacts, MailsStayTrue
  <2>3. /\ post'[m.job].op # ""
        /\ m.way = "in" <=> post'[m.job].op = "mail"
        /\ post'[m.job].op # "mail" => post'[m.job].answer # ""
    BY <1>0, <1>1 DEF AsksStay
  <2>4. \A n, k \in mails' : n.job = k.job /\ n.id /\ k.id => n = k
    <3>1. \A n, k \in mails : n.job = k.job /\ n.id /\ k.id => n = k
      BY Zenon DEF MailInv, MailRowsOK
    <3> QED BY <3>1
  <2> QED BY <2>1, <2>2, <2>3, <2>4 DEF MailInv, MailRowsOK
<1>4. \A j \in MailJobs : \A n : Addressed(j, n) => Addressed(j, n)'
  BY <1>1, AddressesStay
<1>5. InboxIsOfAccount'
  BY <1>0, <1>2, <1>4 DEF MailInv, InboxIsOfAccount
<1>6. ThankedIsStored'
  <2>1. \A i, j \in MailJobs : GivesUp(i, j) => GivesUp(i, j)'
    BY <1>1, AddressesStay
  <2> SUFFICES ASSUME NEW j \in MailJobs, j # m.job, post'[j].op = "mail", post'[j].answer = "ok"
               PROVE  (\E n \in mails' : n.job = j) \/ \E i \in MailJobs : GivesUp(i, j)'
    BY <1>0, <1>1 DEF ThankedIsStored, AsksStay
  <2> QED BY <1>1, <2>1 DEF MailInv, ThankedIsStored, AsksStay
<1> QED BY <1>3, <1>5, <1>6 DEF MailInv, MailChanged

LEMMA FindAccountByAddressInv ==
    ASSUME MailInv, NEW h \in Clerks, FindAccountByAddress(h) PROVE MailInv'
<1>1. PICK b \in ClerkRow : b = clerk[h] /\ ClerkOK(h, b) /\ b.at = "address"
  BY ClerkFacts DEF FindAccountByAddress, Does
<1>2. /\ accounts' = accounts /\ mails' = mails /\ post[h[1]].op = "mail"
      /\ Len(post[h[1]].to) \in Nat /\ DOMAIN post[h[1]].to = 1..Len(post[h[1]].to)
  BY <1>1, ClerkFacts, Lists DEF FindAccountByAddress, ClerkOK, Serves
<1>3. CASE Done(h, "dropped")
  <2>1. "dropped" \in MailAnswers
    BY DEF MailAnswers
  <2> QED BY <1>1, <1>2, <1>3, <2>1, EndedInv
<1>4. CASE post' = post /\ b.next <= Len(post[h[1]].to) /\ clerk' = [clerk EXCEPT ![h].next = b.next + 1]
  <2>1. PICK c : c = [b EXCEPT !.next = b.next + 1]
    OBVIOUS
  <2>2. c.at = b.at /\ c.account = b.account /\ c.kwami = b.kwami /\ c.next = b.next + 1
    BY <2>1 DEF ClerkRow
  <2>3. c \in ClerkRow
    BY <2>1 DEF ClerkRow
  <2>4. clerk' = [clerk EXCEPT ![h] = c]
    BY <1>1, <1>4, <2>1 DEF MailInv, MailTypes
  <2>5. c.next <= Len(post[h[1]].to) + 1
    BY <1>2, <1>4, <2>2 DEF ClerkRow
  <2>6. ClerkOK(h, c)
    BY <1>1, <1>2, <2>2, <2>5 DEF ClerkOK
  <2> QED BY <1>2, <1>4, <2>3, <2>4, <2>6, MovedInv
<1>5. ASSUME NEW a \in accounts, a.name = post[h[1]].to[b.next], b.next <= Len(post[h[1]].to), post' = post,
             clerk' = [clerk EXCEPT ![h].at = "store", ![h].account = a.id, ![h].kwami = a.kwami]
      PROVE  MailInv'
  <2>1. PICK c : c = [b EXCEPT !.at = "store", !.account = a.id, !.kwami = a.kwami]
    OBVIOUS
  <2>2. c.at = "store" /\ c.account = a.id /\ c.kwami = a.kwami /\ c.next = b.next
    BY <2>1 DEF ClerkRow
  <2>3. a \in AccountRow /\ Opened(a.id) /\ \A d \in accounts : d.id = a.id => d = a
    BY DEF MailInv, MailRowsOK
  <2>4. c \in ClerkRow
    <3>1. a.id \in MailJobs /\ a.kwami \in MailOwners
      BY <2>3 DEF AccountRow
    <3> QED BY <2>1, <3>1 DEF ClerkRow, MailPcs
  <2>5. clerk' = [clerk EXCEPT ![h] = c]
    BY <1>1, <1>5, <2>1 DEF MailInv, MailTypes
  <2>6. Addressed(h[1], a.name)
    <3>1. b.next \in 1..Len(post[h[1]].to)
      BY <1>2, <1>5 DEF ClerkRow
    <3> QED BY <3>1, <1>2, <1>5 DEF Addressed
  <2>7. ClerkOK(h, c)
    <3>1. Serves("mail", "store")
      BY DEF Serves
    <3>2. a.id # 0
      BY <2>3, MailAssumption DEF AccountRow
    <3> QED BY <1>1, <1>2, <2>2, <2>3, <2>6, <3>1, <3>2 DEF ClerkOK
  <2> QED BY <1>2, <1>5, <2>4, <2>5, <2>7, MovedInv
<1> QED
  <2>1. CASE b.next > Len(Asks(h).to)
    BY <1>1, <1>3, <2>1 DEF FindAccountByAddress
  <2>2. CASE ~(b.next > Len(Asks(h).to))
    <3>1. b.next <= Len(post[h[1]].to)
      BY <1>2, <2>2 DEF Asks, ClerkRow
    <3>2. \/ post' = post /\ clerk' = [clerk EXCEPT ![h].next = b.next + 1]
          \/ /\ post' = post
             /\ \E a \in {d \in accounts : d.name = post[h[1]].to[b.next]} :
                   clerk' = [clerk EXCEPT ![h].at = "store", ![h].account = a.id, ![h].kwami = a.kwami]
      BY <1>1, <2>2 DEF FindAccountByAddress, Asks
    <3> QED BY <3>1, <3>2, <1>4, <1>5
  <2> QED BY <2>1, <2>2

\* A row of the clerk's account, while that is there.
LEMMA NewRow ==
    ASSUME MailInv, NEW h \in Clerks, NEW way \in {"in", "out"}, NEW id \in BOOLEAN, HasAccount(h),
           way = "in" => clerk[h].at \in {"store", "existing"}
    PROVE  /\ MailRow(h, way, id) \in MailsRow
           /\ MailRow(h, way, id).job = h[1] /\ MailRow(h, way, id).way = way /\ MailRow(h, way, id).id = id
           /\ \E a \in accounts : /\ a.id = MailRow(h, way, id).account /\ a.kwami = MailRow(h, way, id).kwami
                                  /\ way = "in" => Addressed(h[1], a.name)
<1>1. PICK a \in accounts : a.id = clerk[h].account
  BY DEF HasAccount
<1>2. a \in AccountRow /\ a.kwami = clerk[h].kwami /\ (way = "in" => Addressed(h[1], a.name))
  BY <1>1, ClerkFacts DEF ClerkOK, MailInv, MailRowsOK
<1>3. clerk[h].account \in MailJobs /\ clerk[h].kwami \in MailOwners /\ h[1] \in MailJobs /\ h[2] \in MailCopies
  BY <1>1, <1>2, ClerkFacts DEF AccountRow
<1>4. PICK m : m = MailRow(h, way, id)
  OBVIOUS
<1>5. /\ m.job = h[1] /\ m.way = way /\ m.id = id /\ m.account = clerk[h].account
      /\ m.kwami = clerk[h].kwami
  BY <1>4 DEF MailRow
<1>6. m \in MailsRow
  BY <1>3, <1>4 DEF MailRow, MailsRow
<1> QED BY <1>1, <1>2, <1>4, <1>5, <1>6

LEMMA StoreMailInv == ASSUME MailInv, NEW h \in Clerks, StoreMail(h) PROVE MailInv'
<1>1. /\ clerk[h].at = "store" /\ accounts' = accounts /\ post[h[1]].op = "mail"
      /\ post[h[1]].id \in BOOLEAN /\ h[1] \in MailJobs
  <2>1. clerk[h].at = "store" /\ ClerkOK(h, clerk[h])
    BY ClerkFacts DEF StoreMail, Does
  <2> QED BY <2>1, ClerkFacts DEF StoreMail, ClerkOK, Serves, PostRow
<1>2. CASE Fails(h) /\ mails' = mails
  BY <1>1, <1>2, FailsInv
<1>3. CASE Moves(h, "existing") /\ mails' = mails /\ post' = post
  <2>1. Serves("mail", "existing") /\ "existing" \in MailPcs \ {"off"}
    BY DEF Serves, MailPcs
  <2>2. clerk[h].account # 0
    BY <1>1, ClerkFacts DEF ClerkOK
  <2> QED BY <1>1, <1>3, <2>1, <2>2, MovesOn, MovedInv
<1>4. ASSUME NEW why \in MailAnswers, Done(h, why), HasAccount(h), ~(Asks(h).id /\ Kept(h)),
             mails' = mails \cup {MailRow(h, "in", Asks(h).id)}
      PROVE  MailInv'
  <2>1. PICK m \in MailsRow : /\ m = MailRow(h, "in", post[h[1]].id) /\ m.job = h[1] /\ m.way = "in"
                              /\ m.id = post[h[1]].id
                              /\ \E a \in accounts : a.id = m.account /\ a.kwami = m.kwami /\ Addressed(h[1], a.name)
    BY <1>1, <1>4, NewRow
  <2>2. MailChanged /\ \A j \in MailJobs : j # h[1] => post'[j] = post[j]
    BY <1>1, <1>4, Ended
  <2>3. m.id => \A n \in mails : ~(n.job = m.job /\ n.id)
    BY <1>4, <2>1 DEF Kept, Asks
  <2>4. mails' = mails \cup {m}
    BY <1>4, <2>1 DEF Asks
  <2> QED BY <1>1, <2>1, <2>2, <2>3, <2>4, MailComes
<1>5. CASE /\ ~(Asks(h).id /\ Kept(h)) /\ HasAccount(h)
           /\ mails' = mails \cup {MailRow(h, "in", Asks(h).id)} /\ Done(h, "ok")
  BY <1>4, <1>5 DEF MailAnswers
<1>6. CASE Fails(h) /\ HasAccount(h) /\ ~Kept(h) /\ mails' = mails \cup {MailRow(h, "in", Asks(h).id)}
  BY <1>4, <1>6, FailsIsDone
<1> QED BY <1>2, <1>3, <1>5, <1>6 DEF StoreMail

LEMMA ExistingMailInv == ASSUME MailInv, NEW h \in Clerks, ExistingMail(h) PROVE MailInv'
<1>1. clerk[h].at = "existing" /\ accounts' = accounts /\ mails' = mails
  BY DEF ExistingMail, Does
<1>2. CASE Fails(h)
  BY <1>1, <1>2, FailsInv
<1>3. CASE Done(h, IF Kept(h) THEN "ok" ELSE "dropped")
  <2>1. PICK why \in MailAnswers : why = IF Kept(h) THEN "ok" ELSE "dropped"
    BY DEF MailAnswers
  <2>2. why = "ok" => \E m \in mails : m.job = h[1]
    BY <2>1 DEF Kept
  <2> QED BY <1>1, <1>3, <2>1, <2>2, EndedInv
<1> QED BY <1>2, <1>3 DEF ExistingMail

LEMMA SendMailInv == ASSUME MailInv, NEW h \in Clerks, SendMail(h) PROVE MailInv'
<1>1. /\ clerk[h].at = "send" /\ accounts' = accounts /\ mails' = mails /\ ClerkOK(h, clerk[h])
      /\ post[h[1]].op = "send" /\ post[h[1]].answer = "" /\ h[2] = 1 /\ h[1] \in MailJobs
      /\ post[h[1]] \in PostRow /\ clerk[h].account # 0
  <2>1. clerk[h].at = "send" /\ ClerkOK(h, clerk[h])
    BY ClerkFacts DEF SendMail, Does
  <2> QED BY <2>1, ClerkFacts DEF SendMail, ClerkOK, Serves
<1>2. CASE Fails(h)
  BY <1>1, <1>2, FailsInv
<1>3. ASSUME Moves(h, "record") PROVE \E c \in ClerkRow : /\ clerk' = [clerk EXCEPT ![h] = c] /\ ClerkOK(h, c)
  <2>1. Serves("send", "record") /\ "record" \in MailPcs \ {"off"}
    BY DEF Serves, MailPcs
  <2> QED BY <1>1, <1>3, <2>1, MovesOn
<1>4. CASE Moves(h, "record") /\ post' = post
  BY <1>1, <1>3, <1>4, MovedInv
<1>5. CASE Moves(h, "record") /\ post' = [post EXCEPT ![h[1]].sent = TRUE]
  <2>1. PICK c \in ClerkRow : clerk' = [clerk EXCEPT ![h] = c] /\ ClerkOK(h, c)
    BY <1>3, <1>5
  <2>2. PICK q \in PostRow : q = post[h[1]]
    BY <1>1
  <2>3. PICK p : p = [q EXCEPT !.sent = TRUE]
    OBVIOUS
  <2>4. /\ p \in PostRow /\ p.op = "send" /\ p.kwami = q.kwami /\ p.name = q.name /\ p.to = q.to /\ p.answer = ""
    BY <1>1, <2>2, <2>3 DEF PostRow
  <2>5. post' = [post EXCEPT ![h[1]] = p]
    BY <1>1, <1>5, <2>2, <2>3 DEF MailInv, MailTypes
  <2>6. /\ MailChanged /\ post'[h[1]] = p /\ \A j \in MailJobs : j # h[1] => post'[j] = post[j]
    <3>1. /\ p.op # "" /\ p.op = post[h[1]].op /\ p.kwami = post[h[1]].kwami
          /\ p.name = post[h[1]].name /\ p.to = post[h[1]].to
      BY <1>1, <2>2, <2>4
    <3>2. \A a \in accounts' : a \in accounts \/ (a.id = h[1] /\ p.op = "activate")
      BY <1>1
    <3> QED BY <1>1, <2>1, <2>4, <2>5, <3>1, <3>2, OneClerk
  <2>7. \A j \in MailJobs : post[j].op # "mail" /\ post[j].answer # "" => post'[j] = post[j]
    BY <1>1, <2>6
  <2>8. \A j \in MailJobs : post[j].op = "mail" => post'[j] = post[j]
    BY <1>1, <2>6
  <2> QED BY <1>1, <2>6, <2>7, <2>8, MailRowsStay
<1> QED BY <1>2, <1>4, <1>5 DEF SendMail

LEMMA RecordMailInv == ASSUME MailInv, NEW h \in Clerks, RecordMail(h) PROVE MailInv'
<1>1. /\ clerk[h].at = "record" /\ accounts' = accounts
      /\ post[h[1]].op = "send" /\ post[h[1]].answer = "" /\ h[1] \in MailJobs /\ post[h[1]].sent \in BOOLEAN
  <2>1. clerk[h].at = "record" /\ ClerkOK(h, clerk[h])
    BY ClerkFacts DEF RecordMail, Does
  <2> QED BY <2>1, ClerkFacts DEF RecordMail, ClerkOK, Serves, PostRow
<1>2. CASE Fails(h) /\ mails' = mails
  BY <1>1, <1>2, FailsInv
<1>3. CASE HasAccount(h) /\ mails' = mails \cup {MailRow(h, "out", Asks(h).sent)} /\ Done(h, "ok")
  <2>1. PICK m \in MailsRow : /\ m = MailRow(h, "out", post[h[1]].sent) /\ m.job = h[1] /\ m.way = "out"
                              /\ \E a \in accounts : a.id = m.account /\ a.kwami = m.kwami
    BY <1>1, <1>3, NewRow
  <2>2. "ok" \in MailAnswers
    BY DEF MailAnswers
  <2>3. MailChanged /\ post'[h[1]].answer = "ok" /\ \A j \in MailJobs : j # h[1] => post'[j] = post[j]
    BY <1>1, <1>3, <2>2, Ended
  <2>4. \A n \in mails : n.job # h[1]
    BY <1>1 DEF MailInv, MailRowsOK
  <2>5. mails' = mails \cup {m}
    BY <1>3, <2>1 DEF Asks
  <2> QED BY <1>1, <2>1, <2>3, <2>4, <2>5, MailComes
<1> QED BY <1>2, <1>3 DEF RecordMail

LEMMA MarkReadInv == ASSUME MailInv, NEW m \in mails, MarkRead(m) PROVE MailInv'
<1>1. PICK r : r = [m EXCEPT !.read = ~@]
  OBVIOUS
<1>2. m \in MailsRow
  BY DEF MailInv, MailRowsOK
<1>3. /\ r \in MailsRow /\ r.job = m.job /\ r.id = m.id /\ r.account = m.account /\ r.kwami = m.kwami
      /\ r.way = m.way
  BY <1>1, <1>2 DEF MailsRow
<1>4. /\ mails' = (mails \ {m}) \cup {r} /\ accounts' = accounts /\ post' = post /\ clerk' = clerk
  BY <1>1 DEF MarkRead
<1>5. MailTypes'
  BY <1>4 DEF MailInv, MailTypes
<1>6. MailRowsOK'
  <2>1. \A n, k \in mails : n.job = k.job /\ n.id /\ k.id => n = k
    BY Zenon DEF MailInv, MailRowsOK
  <2>2. \A n, k \in mails' : n.job = k.job /\ n.id /\ k.id => n = k
    BY <1>3, <1>4, <2>1
  <2>3. \A a \in accounts : Opened(a.id)'
    BY <1>4 DEF MailInv, MailRowsOK, Opened
  <2>4. mails' \subseteq MailsRow
    BY <1>3, <1>4 DEF MailInv, MailRowsOK
  <2>5. \A n \in mails' : /\ post'[n.job].op # ""
                          /\ n.way = "in" <=> post'[n.job].op = "mail"
                          /\ post'[n.job].op # "mail" => post'[n.job].answer # ""
    <3> TAKE n \in mails'
    <3>1. PICK k \in mails : n.job = k.job /\ n.way = k.way
      BY <1>3, <1>4
    <3>2. /\ post[k.job].op # ""
          /\ k.way = "in" <=> post[k.job].op = "mail"
          /\ post[k.job].op # "mail" => post[k.job].answer # ""
      BY MailFacts
    <3> QED BY <1>4, <3>1, <3>2
  <2> QED BY <1>4, <2>2, <2>3, <2>4, <2>5 DEF MailInv, MailRowsOK
<1>7. \A h \in Clerks : ClerkOK(h, clerk[h])'
  BY <1>4 DEF MailInv, ClerkOK, Opened, Addressed
<1>8. InboxIsOfAccount'
  BY <1>3, <1>4 DEF MailInv, InboxIsOfAccount, Addressed
<1>9. ThankedIsStored'
  <2>1. \A j \in MailJobs : (\E n \in mails : n.job = j) => \E n \in mails' : n.job = j
    BY <1>3, <1>4
  <2>2. \A i, j : GivesUp(i, j) => GivesUp(i, j)'
    BY <1>4 DEF GivesUp, Addressed
  <2> QED BY <1>4, <2>1, <2>2 DEF MailInv, ThankedIsStored
<1> QED BY <1>5, <1>6, <1>7, <1>8, <1>9 DEF MailInv

LEMMA MailNextInv == MailInv /\ [MailNext]_mailVars => MailInv'
<1> SUFFICES ASSUME MailInv, [MailNext]_mailVars PROVE MailInv'
  OBVIOUS
<1>1. CASE UNCHANGED mailVars
  <2>1. accounts' = accounts /\ mails' = mails /\ post' = post /\ clerk' = clerk
    BY <1>1 DEF mailVars
  <2>2. MailTypes' /\ MailRowsOK'
    BY <2>1 DEF MailInv, MailTypes, MailRowsOK, Opened
  <2>3. \A h \in Clerks : ClerkOK(h, clerk[h])'
    BY <2>1 DEF MailInv, ClerkOK, Opened, Addressed
  <2>4. InboxIsOfAccount' /\ ThankedIsStored'
    BY <2>1 DEF MailInv, InboxIsOfAccount, ThankedIsStored, GivesUp, Addressed
  <2> QED BY <2>2, <2>3, <2>4 DEF MailInv
<1>2. ASSUME NEW h \in Clerks, ClerkStep(h) PROVE MailInv'
  BY <1>2, GetAccountInv, CheckUsernameAvailableInv, InsertAccountInv, DeleteMailsInv, DeleteAccountInv,
     FindAccountByAddressInv, StoreMailInv, ExistingMailInv, SendMailInv, RecordMailInv DEF ClerkStep
<1> QED BY <1>1, <1>2, AskInv, BeginInv, BeginAgainInv, MarkReadInv DEF MailNext, ClerkNext

---------------------------------------------------------------------------
(* Mail: what follows *)

LEMMA MailInvImplies == MailInv => MailTypeOK /\ InboxIsOfAccount /\ ThankedIsStored
<1> SUFFICES ASSUME MailInv PROVE MailTypeOK
  BY DEF MailInv
<1>1. ASSUME NEW h \in Clerks PROVE clerk[h].next \in 1..(Len(Asks(h).to) + 1)
  <2>1. clerk[h].next <= Len(post[h[1]].to) + 1 /\ clerk[h] \in ClerkRow /\ Len(post[h[1]].to) \in Nat
    BY ClerkFacts, Lists DEF ClerkOK
  <2> QED BY <2>1 DEF ClerkRow, Asks
<1> QED BY <1>1 DEF MailInv, MailRowsOK, MailTypeOK

LEMMA OthersUnanswered ==
    ASSUME NEW h \in Clerks, ClerkStep(h), NEW j, j # h[1], MailInv
    PROVE  j \in MailJobs => post'[j] = post[j]
<1>1. post \in [MailJobs -> PostRow]
  BY DEF MailInv, MailTypes
<1>2. \A why : Done(h, why) => (j \in MailJobs => post'[j] = post[j])
  BY <1>1 DEF Done
<1>3. Fails(h) => (j \in MailJobs => post'[j] = post[j])
  BY <1>1 DEF Fails
<1>4. CASE GetAccount(h)
  BY <1>2, <1>4 DEF GetAccount
<1>5. CASE CheckUsernameAvailable(h)
  BY <1>2, <1>5 DEF CheckUsernameAvailable
<1>6. CASE InsertAccount(h)
  BY <1>2, <1>3, <1>6 DEF InsertAccount
<1>7. CASE DeleteMails(h) \/ DeleteAccount(h)
  BY <1>2, <1>3, <1>7 DEF DeleteMails, DeleteAccount
<1>8. CASE FindAccountByAddress(h)
  BY <1>2, <1>8 DEF FindAccountByAddress
<1>9. CASE StoreMail(h) \/ ExistingMail(h)
  BY <1>2, <1>3, <1>9 DEF StoreMail, ExistingMail
<1>10. CASE SendMail(h) \/ RecordMail(h)
  BY <1>1, <1>2, <1>3, <1>10 DEF SendMail, RecordMail
<1> QED BY <1>4, <1>5, <1>6, <1>7, <1>8, <1>9, <1>10 DEF ClerkStep

LEMMA MailToldIsHeld ==
    ASSUME MailInv, [MailNext]_mailVars, NEW j \in MailJobs,
           post[j].op = "activate", post[j].answer = "", post'[j].answer = "ok"
    PROVE  \E a \in accounts' : a.kwami = post[j].kwami
<1>1. post'[j] # post[j]
  OBVIOUS
<1>2. ASSUME NEW h \in Clerks, ClerkStep(h) PROVE \E a \in accounts' : a.kwami = post[j].kwami
  <2>1. h[1] = j
    BY <1>1, <1>2, OthersUnanswered
  <2>2. clerk[h].at \notin {"delete mails", "delete account", "send", "record", "address", "store", "existing"}
    BY <2>1, ClerkFacts DEF ClerkOK, Serves
  <2>3. post \in [MailJobs -> PostRow]
    BY DEF MailInv, MailTypes
  <2>4. \A why : Done(h, why) => why = "ok"
    BY <2>1, <2>3 DEF Done, PostRow
  <2>5. ~Fails(h)
    <3>1. Failure(h) = "error"
      BY <2>1 DEF Failure, Asks
    <3> QED BY <2>4, <3>1, FailsIsDone
  <2>6. CASE GetAccount(h)
    <3>1. {a \in accounts : a.kwami = Asks(h).kwami} # {} /\ accounts' = accounts
      BY <1>1, <2>1, <2>4, <2>6 DEF GetAccount, Asks
    <3> QED BY <2>1, <3>1 DEF Asks
  <2>7. ~CheckUsernameAvailable(h)
    BY <1>1, <2>4 DEF CheckUsernameAvailable
  <2>8. CASE InsertAccount(h)
    <3>1. [id |-> h[1], kwami |-> Asks(h).kwami, name |-> Asks(h).name] \in accounts'
      BY <2>5, <2>8 DEF InsertAccount
    <3> QED BY <2>1, <3>1 DEF Asks
  <2> QED BY <1>2, <2>2, <2>6, <2>7, <2>8 DEF ClerkStep, DeleteMails, DeleteAccount, FindAccountByAddress,
             StoreMail, ExistingMail, SendMail, RecordMail, Does
<1>3. CASE \E h \in Clerks : Begin(h) \/ BeginAgain(h)
  BY <1>1, <1>3 DEF Begin, BeginAgain
<1>4. CASE \E i \in MailJobs : Ask(i)
  <2>1. PICK i \in MailJobs : Ask(i)
    BY <1>4
  <2>2. i # j
    BY <2>1 DEF Ask
  <2> QED BY <1>1, <2>1, <2>2 DEF Ask, MailInv, MailTypes
<1>5. CASE \E m \in mails : MarkRead(m)
  BY <1>1, <1>5 DEF MarkRead
<1>6. CASE UNCHANGED mailVars
  BY <1>1, <1>6 DEF mailVars
<1> QED BY <1>2, <1>3, <1>4, <1>5, <1>6 DEF MailNext, ClerkNext

\* Mailbox on its own: an address and a mail have one row each, a mail is in the inbox of
\* the account it came to, and none that SendGrid was thanked for is lost.
THEOREM MailIsSound == MailSpec => [](MailTypeOK /\ InboxIsOfAccount /\ ThankedIsStored)
<1>1. MailInit => MailInv
  BY MailInitInv
<1>2. MailInv /\ [MailNext]_mailVars => MailInv'
  BY MailNextInv
<1>3. MailInv => MailTypeOK /\ InboxIsOfAccount /\ ThankedIsStored
  BY MailInvImplies
<1> QED BY <1>1, <1>2, <1>3, PTL DEF MailSpec

---------------------------------------------------------------------------
(* The three services *)

CommunicationsInv == LineInv /\ TextInv /\ MailInv

\* A step of one service is a stutter of the others.
LEMMA OneServiceSteps ==
    ASSUME [CommunicationsNext]_<<lineVars, textVars, mailVars, service>>
    PROVE  [LineNext]_lineVars /\ [TextNext]_textVars /\ [MailNext]_mailVars
BY DEF CommunicationsNext

LEMMA CommunicationsInitInv == CommunicationsInit => CommunicationsInv
BY LineInitInv, TextInitInv, MailInitInv DEF CommunicationsInit, CommunicationsInv

LEMMA CommunicationsNextInv ==
    CommunicationsInv /\ [CommunicationsNext]_<<lineVars, textVars, mailVars, service>> => CommunicationsInv'
BY OneServiceSteps, LineNextInv, TextNextInv, MailNextInv DEF CommunicationsInv

\* The tables keep their types, their unique indexes and their foreign keys, and what a
\* user sent is shown as it went (migrations 005 and 007, routes/channels.py).
THEOREM TablesStayTrue == CommunicationsSpec => []TablesAreTrue
<1>1. CommunicationsInv => TablesAreTrue
  BY LineInvImplies, TextInvImplies, MailInvImplies DEF CommunicationsInv, TablesAreTrue
<1> QED BY <1>1, CommunicationsInitInv, CommunicationsNextInv, PTL DEF CommunicationsSpec

\* What Twilio or SendGrid was thanked for is stored, whatever fails, comes twice or is
\* removed meanwhile, however many deliveries there are (webhooks.py, idempotency.py).
THEOREM ThankedStaysKept == CommunicationsSpec => []ThankedIsKept
<1>1. CommunicationsInv => ThankedIsKept
  BY TextInvImplies, MailInvImplies DEF CommunicationsInv, ThankedIsKept
<1> QED BY <1>1, CommunicationsInitInv, CommunicationsNextInv, PTL DEF CommunicationsSpec

\* No message gets into another person's conversation, under another kwami's contact or
\* into another account's inbox (ensure_contact, ensure_conversation, deactivate_account).
THEOREM NothingEverStrays == CommunicationsSpec => []NothingStrays
<1>1. CommunicationsInv => NothingStrays
  BY TextInvImplies, MailInvImplies DEF CommunicationsInv, NothingStrays
<1> QED BY <1>1, CommunicationsInitInv, CommunicationsNextInv, PTL DEF CommunicationsSpec

\* A line's rows go only after its number, a request that ran alone leaves its sale the
\* same in the tables, at Twilio and on the trunks, and who is told to have an address has
\* one (channels.py, telephony.py, email_service.py).
THEOREM AnswersAlwaysHold == CommunicationsSpec => AnswersHold
<1>1. CommunicationsInv /\ [CommunicationsNext]_<<lineVars, textVars, mailVars, service>> =>
        [\A j \in LineJobs :
           LineAt(j, "delete") /\ channels' # channels /\ line'[j].at = "ended"
             /\ line[j].provider /\ line[j].alone
           => \A c \in channels \ channels' : owned[c.number] # c.sale]_lineVars
  BY OneServiceSteps, LineRowsOutlive DEF CommunicationsInv
<1>2. CommunicationsInv /\ [CommunicationsNext]_<<lineVars, textVars, mailVars, service>> =>
        [\A j \in LineJobs :
           Running(j) /\ line'[j].at = "ended" /\ line'[j].why = "ok"
             /\ line'[j].clean /\ line'[j].alone
           => Whole(j)']_lineVars
  BY OneServiceSteps, LineAloneIsWhole DEF CommunicationsInv
<1>3. CommunicationsInv /\ [CommunicationsNext]_<<lineVars, textVars, mailVars, service>> =>
        [\A j \in MailJobs : post[j].op = "activate" /\ post[j].answer = "" /\ post'[j].answer = "ok"
           => \E a \in accounts' : a.kwami = post[j].kwami]_mailVars
  BY OneServiceSteps, MailToldIsHeld DEF CommunicationsInv
<1> QED BY <1>1, <1>2, <1>3, CommunicationsInitInv, CommunicationsNextInv, PTL
        DEF CommunicationsSpec, AnswersHold, RowsOutliveNumbers, AloneIsWhole, ToldIsHeld
=============================================================================

--------------------------- MODULE ServicesProofs ---------------------------
(* Proofs about five services that share no row: Rooms, PcWork, Profiles,     *)
(* Pricing and GoogleLink, for any users, rooms, requests, processes, orders, *)
(* vendors, sessions, usage, markups and accounts; the sums are counted by    *)
(* the lemmas of CreditLedgerProofs.                                          *)
(* Rooms: once past claim_room the room's row names the request's user, and   *)
(* nothing takes a row away.  PcWork: the rows a process saw are still those  *)
(* of its user, and a row that is held is queued and held by no other.        *)
(* Profiles: a handle made for one owner at one vendor is with the session    *)
(* about to save it, in the one row of that owner and vendor, or cleared, and *)
(* never in two of these places.  Pricing: the catalogue's rates are positive *)
(* and its cached rates no higher, what is rounded is off by less than one,   *)
(* and the rows that were written keep both.  GoogleLink: every grant a link, *)
(* a cache or a request holds is its user's and to the account asked for;     *)
(* while an account is cut off, no grant of it that anybody holds is          *)
(* honoured; and what a request has made of its calls is what its place in    *)
(* them says.                                                                 *)
EXTENDS MCServices, GoogleLink, CreditLedgerProofs, TLAPS, FiniteSetTheorems, SequenceTheorems

---------------------------------------------------------------------------
(* Rooms                                                                  *)

(* What a request has been through *)

\* the kwami was resolved
Checked == {"room", "claim", "again", "forbidden", "balance", "token"}
\* the row of the room was seen, or inserted
RowSeen == {"again", "forbidden", "balance", "token"}
Claimed == {"balance", "token"}

RequestIsSound(t) ==
    /\ ~Is(t, "absent") => ask[t].user \in Guests /\ ask[t].room \in Rooms
    /\ ask[t].at \in Checked => Owned(ask[t].user, ask[t].kwami)
    /\ ask[t].at \in RowSeen => owner[ask[t].room] \in Guests
    /\ ask[t].at \in Claimed => owner[ask[t].room] = ask[t].user
    /\ Is(t, "forbidden") => owner[ask[t].room] # ask[t].user

RoomInv ==
    /\ RoomTypeOK
    /\ \A t \in Tokens : RequestIsSound(t)
    /\ \A a \in tokens : Owned(a.user, a.kwami)

\* A row, once inserted, keeps its user.
RowsStay == \A r \in Rooms : owner[r] \in Guests => owner'[r] = owner[r]

---------------------------------------------------------------------------
(* Lemmas *)

LEMMA InvImplies == RoomInv => RoomsAreOwned
<1> SUFFICES ASSUME RoomInv PROVE RoomsAreOwned
  OBVIOUS
<1>1. RoomHasOneOwner
  <2>1. \A a, b \in tokens : a.room = b.room => a.user = b.user
    BY DEF RoomInv, RoomTypeOK
  <2> QED  BY <2>1 DEF RoomInv, RoomHasOneOwner, Owned
<1>2. OwnerIsNotRefused
  BY DEF RoomInv, RequestIsSound, OwnerIsNotRefused
<1> QED  BY <1>1, <1>2 DEF RoomsAreOwned, RoomInv

LEMMA InitInv == RoomInit => RoomInv
<1> SUFFICES ASSUME RoomInit PROVE RoomInv
  OBVIOUS
<1> USE RoomAssumption DEF RoomInit
<1>1. RoomTypeOK
  <2>1. NotAsked \in [at : Stages, user : Guests \cup {Nobody}, kwami : AllKwamis,
                      room : Rooms \cup {<<"", 0>>}]
    <3>1. "absent" \in Stages /\ NoKwami \in AllKwamis /\ Nobody \in Guests \cup {Nobody}
      <4>1. "absent" \in Stages
        BY DEF Stages
      <4>2. NoKwami \in AllKwamis
        BY Zenon DEF AllKwamis
      <4> QED  BY <4>1, <4>2
    <3> DEFINE e == <<"", 0>>
    <3>2. NotAsked = [at |-> "absent", user |-> Nobody, room |-> e, kwami |-> NoKwami]
      BY DEF NotAsked
    <3> HIDE DEF e
    <3>3. NotAsked \in [at : Stages, user : Guests \cup {Nobody}, kwami : AllKwamis, room : Rooms \cup {e}]
      BY <3>1, <3>2
    <3> QED  BY <3>3 DEF e
  <2>2. owner \in [Rooms -> Guests \cup {Nobody}]
    OBVIOUS
  <2>3. 0 \in 0..MaxRoomFaults
    OBVIOUS
  <2> QED  BY <2>1, <2>2, <2>3 DEF RoomTypeOK
<1>2. \A t \in Tokens : RequestIsSound(t)
  BY DEF RequestIsSound, Is, NotAsked, Checked, RowSeen, Claimed
<1> QED  BY <1>1, <1>2 DEF RoomInv

\* A request that is where it was stays sound while rows only come.
LEMMA OthersStaySound ==
    ASSUME RoomInv, RowsStay, NEW t \in Tokens, ask'[t] = ask[t]
    PROVE  RequestIsSound(t)'
<1>1. RequestIsSound(t)
  BY DEF RoomInv
<1>2. ~Is(t, "absent") => ask[t].room \in Rooms
  BY <1>1 DEF RequestIsSound
<1>3. ask[t].at \in RowSeen => owner'[ask[t].room] = owner[ask[t].room]
  BY <1>1, <1>2 DEF RequestIsSound, RowsStay, RowSeen, Is
<1> QED  BY <1>1, <1>3 DEF RequestIsSound, Is, RowSeen, Claimed, Checked, Owned

\* One request moves on, no row goes and no token comes: what is left to show is
\* that the request is sound where it stands now.
LEMMA OneMoves ==
    ASSUME RoomInv, RowsStay, owner' \in [Rooms -> Guests \cup {Nobody}],
           tokens' = tokens, solvent' = solvent, roomFaults' \in 0..MaxRoomFaults,
           NEW t \in Tokens, NEW v \in [at : Stages, user : Guests \cup {Nobody},
                                        kwami : AllKwamis, room : Rooms \cup {<<"", 0>>}],
           ask' = [ask EXCEPT ![t] = v], RequestIsSound(t)'
    PROVE  RoomInv'
<1>1. RoomTypeOK'
  <2>1. ask' \in [Tokens -> [at : Stages, user : Guests \cup {Nobody}, kwami : AllKwamis,
                             room : Rooms \cup {<<"", 0>>}]]
    BY DEF RoomInv, RoomTypeOK
  <2>2. \A a \in tokens' : owner'[a.room] = a.user
    BY DEF RoomInv, RoomTypeOK, RowsStay
  <2> QED  BY <2>1, <2>2 DEF RoomInv, RoomTypeOK
<1>2. ASSUME NEW s \in Tokens PROVE RequestIsSound(s)'
  <2>1. CASE s = t
    BY <2>1
  <2>2. CASE s # t
    <3>1. ask'[s] = ask[s]
      BY <2>2 DEF RoomInv, RoomTypeOK
    <3> QED  BY <3>1, OthersStaySound
  <2> QED  BY <2>1, <2>2
<1>3. \A a \in tokens' : Owned(a.user, a.kwami)'
  BY DEF RoomInv, Owned
<1> QED  BY <1>1, <1>2, <1>3 DEF RoomInv

---------------------------------------------------------------------------
(* The steps *)

\* What is left of a request when only its stage moves on.
LEMMA Typed ==
    ASSUME RoomInv, NEW t \in Tokens, NEW pc \in Stages
    PROVE  LET v == [ask[t] EXCEPT !.at = pc] IN
           /\ v \in [at : Stages, user : Guests \cup {Nobody}, kwami : AllKwamis,
                     room : Rooms \cup {<<"", 0>>}]
           /\ v.at = pc /\ v.user = ask[t].user /\ v.room = ask[t].room /\ v.kwami = ask[t].kwami
  BY DEF RoomInv, RoomTypeOK

\* A request moves to a stage it has earned, while no row is written.
LEMMA Moves ==
    ASSUME RoomInv, owner' = owner, tokens' = tokens, solvent' = solvent,
           roomFaults' = roomFaults \/ RoomFault,
           NEW t \in Tokens, NEW pc \in Stages, Becomes(t, pc), ~Is(t, "absent"),
           pc \in Checked => Owned(ask[t].user, ask[t].kwami),
           pc \in RowSeen => owner[ask[t].room] \in Guests,
           pc \in Claimed => owner[ask[t].room] = ask[t].user,
           pc = "forbidden" => owner[ask[t].room] # ask[t].user
    PROVE  RoomInv'
<1> DEFINE v == [ask[t] EXCEPT !.at = pc]
<1>1. ask' = [ask EXCEPT ![t] = v]
  BY DEF Becomes
<1>2. ask'[t] = v
  BY <1>1 DEF RoomInv, RoomTypeOK
<1>3. RequestIsSound(t)
  BY DEF RoomInv
<1>4. RequestIsSound(t)'
  BY <1>2, <1>3, Typed DEF RequestIsSound, Is, Owned
<1>5. roomFaults' \in 0..MaxRoomFaults
  <2>1. roomFaults \in 0..MaxRoomFaults /\ MaxRoomFaults \in Nat
    BY RoomAssumption DEF RoomInv, RoomTypeOK
  <2> QED  BY <2>1 DEF RoomFault
<1>6. RowsStay /\ owner' \in [Rooms -> Guests \cup {Nobody}]
  BY DEF RowsStay, RoomInv, RoomTypeOK
<1> HIDE DEF v
<1>7. v \in [at : Stages, user : Guests \cup {Nobody}, kwami : AllKwamis,
             room : Rooms \cup {<<"", 0>>}]
  BY Typed DEF v
<1> QED  BY <1>1, <1>4, <1>5, <1>6, <1>7, OneMoves

LEMMA AskTokenInv == ASSUME RoomInv, NEW t \in Tokens, AskToken(t) PROVE RoomInv'
<1>1. PICK u \in Guests, k \in AllKwamis, r \in Rooms :
         ask' = [ask EXCEPT ![t] = [at |-> "kwami", user |-> u, room |-> r, kwami |-> k]]
  BY DEF AskToken, Rooms
<1> DEFINE v == [at |-> "kwami", user |-> u, room |-> r, kwami |-> k]
<1>2. v \in [at : Stages, user : Guests \cup {Nobody}, kwami : AllKwamis,
             room : Rooms \cup {<<"", 0>>}]
  BY DEF Stages
<1>3. ask'[t] = v
  BY <1>1 DEF RoomInv, RoomTypeOK
<1>4. RequestIsSound(t)'
  BY <1>3 DEF RequestIsSound, Is, Checked, RowSeen, Claimed
<1>5. RowsStay /\ owner' \in [Rooms -> Guests \cup {Nobody}] /\ roomFaults' \in 0..MaxRoomFaults
  BY DEF AskToken, RowsStay, RoomInv, RoomTypeOK
<1> HIDE DEF v
<1>6. ask' = [ask EXCEPT ![t] = v]
  BY <1>1 DEF v
<1> QED  BY <1>2, <1>4, <1>5, <1>6, OneMoves DEF AskToken

LEMMA RequireKwamiOwnedInv == ASSUME RoomInv, NEW t \in Tokens, RequireKwamiOwned(t) PROVE RoomInv'
<1> DEFINE pc == IF Owned(ask[t].user, ask[t].kwami) THEN "room" ELSE "not found"
<1>1. ~Is(t, "absent")
  BY DEF RequireKwamiOwned, Is
<1>2. CASE Becomes(t, pc) /\ UNCHANGED roomFaults
  <2>1. pc \in Stages /\ pc \notin RowSeen
    BY DEF Stages, RowSeen
  <2> QED  BY <1>1, <1>2, <2>1, Moves DEF RequireKwamiOwned, Checked, RowSeen, Claimed
<1>3. CASE RoomFault /\ Becomes(t, "error")
  BY <1>1, <1>3, Moves DEF RequireKwamiOwned, Stages, Checked, RowSeen, Claimed
<1> QED  BY <1>2, <1>3 DEF RequireKwamiOwned

LEMMA GetSessionInv == ASSUME RoomInv, NEW t \in Tokens, GetSession(t) PROVE RoomInv'
<1> DEFINE o == owner[ask[t].room]
           pc == IF o = Nobody THEN "claim" ELSE IF o = ask[t].user THEN "balance" ELSE "forbidden"
<1>1. ~Is(t, "absent") /\ Is(t, "room") /\ Owned(ask[t].user, ask[t].kwami)
  BY DEF GetSession, Is, RoomInv, RequestIsSound, Checked
<1>2. o \in Guests \cup {Nobody}
  BY <1>1 DEF RoomInv, RoomTypeOK, RequestIsSound
<1>3. CASE Becomes(t, pc) /\ UNCHANGED roomFaults
  <2>1. /\ pc \in Stages /\ (pc \in RowSeen => o \in Guests)
        /\ (pc \in Claimed => o = ask[t].user) /\ (pc = "forbidden" => o # ask[t].user)
    BY <1>2 DEF Stages, RowSeen, Claimed
  <2> HIDE DEF pc
  <2> QED  BY <1>1, <1>3, <2>1, Moves DEF GetSession
<1>4. CASE RoomFault /\ Becomes(t, "error")
  BY <1>1, <1>4, Moves DEF GetSession, Stages, Checked, RowSeen, Claimed
<1> QED  BY <1>3, <1>4 DEF GetSession

\* The one step that writes a row, and only where there is none.
LEMMA ClaimRoomInv == ASSUME RoomInv, NEW t \in Tokens, ClaimRoom(t) PROVE RoomInv'
<1>1. /\ ~Is(t, "absent") /\ Owned(ask[t].user, ask[t].kwami)
      /\ ask[t].user \in Guests /\ ask[t].room \in Rooms
  BY DEF ClaimRoom, Is, RoomInv, RequestIsSound, Checked
<1>2. owner[ask[t].room] \in Guests \cup {Nobody}
  BY <1>1 DEF RoomInv, RoomTypeOK
<1>3. CASE /\ owner[ask[t].room] = Nobody /\ owner' = [owner EXCEPT ![ask[t].room] = ask[t].user]
           /\ Becomes(t, "balance") /\ UNCHANGED roomFaults
  <2> DEFINE v == [ask[t] EXCEPT !.at = "balance"]
  <2>1. "balance" \in Stages
    BY DEF Stages
  <2>2. /\ v \in [at : Stages, user : Guests \cup {Nobody}, kwami : AllKwamis,
                   room : Rooms \cup {<<"", 0>>}]
        /\ v.at = "balance" /\ v.user = ask[t].user /\ v.room = ask[t].room /\ v.kwami = ask[t].kwami
    BY <2>1, Typed
  <2>3. owner' \in [Rooms -> Guests \cup {Nobody}] /\ owner'[ask[t].room] = ask[t].user
    BY <1>1, <1>3 DEF RoomInv, RoomTypeOK
  <2>4. RowsStay
    BY <1>3, RoomAssumption DEF RowsStay, RoomInv, RoomTypeOK, Nobody
  <2> HIDE DEF v
  <2>5. ask' = [ask EXCEPT ![t] = v]
    BY <1>3 DEF Becomes, v
  <2>6. ask'[t] = v
    BY <2>5 DEF RoomInv, RoomTypeOK
  <2>7. RequestIsSound(t)'
    BY <1>1, <2>2, <2>3, <2>6 DEF RequestIsSound, Is, Owned
  <2>8. tokens' = tokens /\ solvent' = solvent /\ roomFaults' \in 0..MaxRoomFaults
    BY <1>3 DEF ClaimRoom, RoomInv, RoomTypeOK
  <2> QED  BY <2>2, <2>3, <2>4, <2>5, <2>7, <2>8, OneMoves
<1>4. CASE owner[ask[t].room] # Nobody /\ Becomes(t, "again") /\ UNCHANGED <<owner, roomFaults>>
  BY <1>1, <1>2, <1>4, Moves DEF ClaimRoom, Stages, Checked, RowSeen, Claimed
<1>5. CASE RoomFault /\ Becomes(t, "error") /\ UNCHANGED owner
  BY <1>1, <1>5, Moves DEF ClaimRoom, Stages, Checked, RowSeen, Claimed
<1> QED  BY <1>3, <1>4, <1>5 DEF ClaimRoom

LEMMA RereadSessionInv == ASSUME RoomInv, NEW t \in Tokens, RereadSession(t) PROVE RoomInv'
<1> DEFINE pc == IF Admits(t) THEN "balance" ELSE "forbidden"
<1>1. /\ ~Is(t, "absent") /\ Owned(ask[t].user, ask[t].kwami) /\ owner[ask[t].room] \in Guests
  BY DEF RereadSession, Is, RoomInv, RequestIsSound, Checked, RowSeen
<1>2. CASE Becomes(t, pc) /\ UNCHANGED roomFaults
  <2>1. /\ pc \in Stages
        /\ (pc \in Claimed => owner[ask[t].room] = ask[t].user)
        /\ (pc = "forbidden" => owner[ask[t].room] # ask[t].user)
    BY DEF Stages, Claimed, Admits
  <2> HIDE DEF pc
  <2> QED  BY <1>1, <1>2, <2>1, Moves DEF RereadSession
<1>3. CASE RoomFault /\ Becomes(t, "error")
  BY <1>1, <1>3, Moves DEF RereadSession, Stages, Checked, RowSeen, Claimed
<1> QED  BY <1>2, <1>3 DEF RereadSession

LEMMA CheckBalanceInv == ASSUME RoomInv, NEW t \in Tokens, CheckBalance(t) PROVE RoomInv'
<1>1. /\ ~Is(t, "absent") /\ Owned(ask[t].user, ask[t].kwami)
      /\ owner[ask[t].room] = ask[t].user /\ owner[ask[t].room] \in Guests
  BY DEF CheckBalance, Is, RoomInv, RequestIsSound, Checked, RowSeen, Claimed
<1>2. PICK pc \in {"token", "unpaid", "unavailable"} :
         Becomes(t, pc) /\ (roomFaults' = roomFaults \/ RoomFault)
  BY DEF CheckBalance, OnCheckError
<1> QED  BY <1>1, <1>2, Moves DEF CheckBalance, Stages, Checked, RowSeen, Claimed

\* A token is made of a request that has its row and its kwami.
LEMMA CreateTokenInv == ASSUME RoomInv, NEW t \in Tokens, CreateToken(t) PROVE RoomInv'
<1> DEFINE a == [user |-> ask[t].user, room |-> ask[t].room, kwami |-> ask[t].kwami]
           v == [ask[t] EXCEPT !.at = "issued"]
<1>1. /\ ask[t].user \in Guests /\ ask[t].room \in Rooms /\ Owned(ask[t].user, ask[t].kwami)
      /\ owner[ask[t].room] = ask[t].user /\ ask[t].kwami \in AllKwamis
  BY DEF CreateToken, Is, RoomInv, RoomTypeOK, RequestIsSound, Checked, Claimed
<1>2. "issued" \in Stages /\ "issued" \notin Checked \cup RowSeen \cup Claimed
  BY DEF Stages, Checked, RowSeen, Claimed
<1>3. /\ v \in [at : Stages, user : Guests \cup {Nobody}, kwami : AllKwamis,
                 room : Rooms \cup {<<"", 0>>}]
      /\ v.at = "issued" /\ v.user = ask[t].user /\ v.room = ask[t].room
  BY <1>2, Typed
<1>4. RowsStay
  BY DEF CreateToken, RowsStay
<1> HIDE DEF v
<1>5. ask' = [ask EXCEPT ![t] = v]
  BY DEF CreateToken, Becomes, v
<1>6. \A s \in Tokens : RequestIsSound(s)'
  <2> TAKE s \in Tokens
  <2>1. CASE s = t
    <3>1. ask'[s] = v
      BY <1>5, <2>1 DEF RoomInv, RoomTypeOK
    <3> QED  BY <1>1, <1>2, <1>3, <3>1 DEF RequestIsSound, Is
  <2>2. CASE s # t
    <3>1. ask'[s] = ask[s]
      BY <1>5, <2>2 DEF RoomInv, RoomTypeOK
    <3> QED  BY <1>4, <3>1, OthersStaySound
  <2> QED  BY <2>1, <2>2
<1>t. /\ a \in [user : Guests, room : Rooms, kwami : AllKwamis]
      /\ owner[a.room] = a.user /\ Owned(a.user, a.kwami)
  BY <1>1
<1>o. tokens' = tokens \cup {a} /\ owner' = owner
  BY DEF CreateToken
<1> HIDE DEF a
<1>7. tokens' \subseteq [user : Guests, room : Rooms, kwami : AllKwamis]
  BY <1>t, <1>o DEF RoomInv, RoomTypeOK
<1>8. \A b \in tokens' : owner'[b.room] = b.user /\ Owned(b.user, b.kwami)
  BY <1>t, <1>o DEF RoomInv, RoomTypeOK
<1>9. ask' \in [Tokens -> [at : Stages, user : Guests \cup {Nobody}, kwami : AllKwamis,
                           room : Rooms \cup {<<"", 0>>}]]
  BY <1>3, <1>5 DEF RoomInv, RoomTypeOK
<1> QED  BY <1>6, <1>7, <1>8, <1>9 DEF CreateToken, RoomInv, RoomTypeOK, Owned

LEMMA NextInv == RoomInv /\ [RoomNext]_roomVars => RoomInv'
<1> SUFFICES ASSUME RoomInv, [RoomNext]_roomVars PROVE RoomInv'
  OBVIOUS
<1>1. CASE \E t \in Tokens : AskToken(t) \/ RequireKwamiOwned(t) \/ GetSession(t) \/ ClaimRoom(t)
                              \/ RereadSession(t) \/ CheckBalance(t) \/ CreateToken(t)
  BY <1>1, AskTokenInv, RequireKwamiOwnedInv, GetSessionInv, ClaimRoomInv, RereadSessionInv,
     CheckBalanceInv, CreateTokenInv
<1>2. CASE \E u \in Guests : BalanceMoves(u)
  <2>1. UNCHANGED <<owner, ask, tokens, roomFaults>> /\ solvent' \subseteq Guests
    BY <1>2 DEF BalanceMoves, RoomInv, RoomTypeOK
  <2>2. RoomTypeOK'
    BY <2>1 DEF RoomInv, RoomTypeOK
  <2>3. \A t \in Tokens : RequestIsSound(t)'
    BY <2>1, OthersStaySound DEF RowsStay
  <2> QED  BY <2>1, <2>2, <2>3 DEF RoomInv, Owned
<1>3. CASE UNCHANGED roomVars
  <2>1. RoomTypeOK'
    BY <1>3 DEF RoomInv, RoomTypeOK, roomVars
  <2>2. \A t \in Tokens : RequestIsSound(t)'
    BY <1>3, OthersStaySound DEF RowsStay, roomVars
  <2> QED  BY <1>3, <2>1, <2>2 DEF RoomInv, Owned, roomVars
<1> QED  BY <1>1, <1>2, <1>3 DEF RoomNext

---------------------------------------------------------------------------
(* The theorems *)

\* However many users ask for however many rooms at once, and wherever their requests
\* fail, a room's tokens are all of the one user its row names, each brings a kwami of
\* its own, and the owner is never told the room is another's (claim_room).
THEOREM RoomsAreOwnedByOne == RoomSpec => []RoomsAreOwned
<1>1. RoomSpec => []RoomInv
  BY InitInv, NextInv, PTL DEF RoomSpec
<1> QED  BY <1>1, InvImplies, PTL

\* The row of a room is never given to another user, by any request.
THEOREM RoomsKeepTheirOwner == RoomSpec => [][RowsStay]_roomVars
<1>1. ASSUME RoomInv, RoomNext PROVE RowsStay
  <2>1. CASE \E t \in Tokens : ClaimRoom(t)
    <3>1. PICK t \in Tokens : ClaimRoom(t)
      BY <2>1
    <3>2. CASE owner[ask[t].room] = Nobody /\ owner' = [owner EXCEPT ![ask[t].room] = ask[t].user]
      BY <3>2, RoomAssumption DEF RowsStay, Nobody, RoomInv, RoomTypeOK
    <3>3. CASE owner' = owner
      BY <3>3 DEF RowsStay
    <3> QED  BY <3>1, <3>2, <3>3 DEF ClaimRoom
  <2>2. CASE owner' = owner
    BY <2>2 DEF RowsStay
  <2> QED  BY <1>1, <2>1, <2>2 DEF RoomNext, AskToken, RequireKwamiOwned, GetSession, RereadSession,
              CheckBalance, CreateToken, BalanceMoves
<1>2. RoomInv /\ [RoomNext]_roomVars => [RowsStay]_roomVars
  BY <1>1
<1> QED  BY <1>2, InitInv, NextInv, PTL DEF RoomSpec

\* A token is issued on a balance nobody could read only where the setting says so
\* (credits_fail_open_on_check_error).
THEOREM RoomsOpenOnBalance == RoomSpec => NoBlindTokens
<1>1. ASSUME RoomNext, NEW t \in Tokens, Is(t, "balance"), ask'[t].at = "token", ~FailOpen,
             RoomInv
      PROVE  ask[t].user \in solvent
  <2>1. ask'[t] # ask[t]
    BY <1>1 DEF Is
  <2>2. ASSUME NEW s \in Tokens, s # t, NEW v, ask' = [ask EXCEPT ![s] = v] PROVE FALSE
    BY <2>1, <2>2 DEF RoomInv, RoomTypeOK
  <2>3. CheckBalance(t)
    <3>1. \A s \in Tokens : s # t =>
             ~(AskToken(s) \/ RequireKwamiOwned(s) \/ GetSession(s) \/ ClaimRoom(s)
               \/ RereadSession(s) \/ CheckBalance(s) \/ CreateToken(s))
      BY <2>2 DEF AskToken, RequireKwamiOwned, GetSession, ClaimRoom, RereadSession, CheckBalance,
                  CreateToken, Becomes
    <3>2. ~(AskToken(t) \/ RequireKwamiOwned(t) \/ GetSession(t) \/ ClaimRoom(t)
            \/ RereadSession(t) \/ CreateToken(t))
      BY <1>1 DEF AskToken, RequireKwamiOwned, GetSession, ClaimRoom, RereadSession, CreateToken, Is
    <3>3. \A u \in Guests : ~BalanceMoves(u)
      BY <2>1 DEF BalanceMoves
    <3> QED  BY <1>1, <3>1, <3>2, <3>3 DEF RoomNext
  <2>4. ask'[t].at = "token" /\ \A pc \in Stages : Becomes(t, pc) => ask'[t].at = pc
    <3>1. ask[t] = [ask[t] EXCEPT !.at = ask[t].at] /\ DOMAIN ask = Tokens
      BY <1>1, Typed DEF RoomInv, RoomTypeOK
    <3>2. ASSUME NEW pc \in Stages, Becomes(t, pc) PROVE ask'[t].at = pc
      BY <1>1, <3>1, <3>2, Typed DEF Becomes
    <3> QED  BY <1>1, <3>2
  <2> QED  BY <1>1, <2>3, <2>4 DEF CheckBalance, OnCheckError, Stages
<1>2. RoomInv /\ [RoomNext]_roomVars =>
         [\A t \in Tokens : Is(t, "balance") /\ ask'[t].at = "token"
            => ask[t].user \in solvent \/ FailOpen]_roomVars
  BY <1>1
<1> QED  BY <1>2, InitInv, NextInv, PTL DEF RoomSpec, NoBlindTokens

---------------------------------------------------------------------------
(* Work for the PC                                                        *)

(* The inductive invariant *)

OrderRows == [status : {"absent", "queued", "running", "done"}, user : PcUsers \cup {""},
              mode : Modes, host : {m.host : m \in OrderMenu} \cup {""}]
Requests == {"absent", "insert", "refused", "list", "ok", "error"}
Claims == [at : {"idle", "looked", "locked"}, saw : SUBSET Orders, holds : Orders \cup {0}]

PcTypes ==
    /\ jobs \in [Orders -> OrderRows] /\ request \in [Orders -> Requests]
    /\ claim \in [Runners -> Claims] /\ took \subseteq Runners \X Orders

\* An order is written by its one request, and only then told of.
OrderIsSound(o) ==
    /\ request[o] \in {"absent", "insert"} => ~Written(o)
    /\ request[o] = "list" => Written(o) /\ jobs[o].mode = "site"

ClaimIsSound(r) ==
    /\ claim[r].at = "idle" => claim[r] = NoClaim
    /\ \A o \in claim[r].saw : Written(o) /\ jobs[o].user = RunnerOf[r]
    /\ claim[r].at = "looked" => claim[r].holds = 0
    /\ claim[r].at = "locked" => claim[r].holds \in claim[r].saw /\ jobs[claim[r].holds].status = "queued"

HeldByOne == \A r, q \in Runners : claim[r].holds = claim[q].holds /\ claim[r].holds # 0 => r = q

PcInv ==
    /\ PcTypes
    /\ \A o \in Orders : OrderIsSound(o)
    /\ \A r \in Runners : ClaimIsSound(r)
    /\ HeldByOne
    /\ WorkRunsOnce

---------------------------------------------------------------------------
(* Lemmas *)

LEMMA PcInitInv == PcInit => PcInv
<1> SUFFICES ASSUME PcInit PROVE PcInv
  OBVIOUS
<1>1. NotThere \in OrderRows /\ NotThere.status = "absent" /\ NotThere.mode = "work"
  BY DEF NotThere, OrderRows, Modes
<1>2. NoClaim \in Claims /\ NoClaim.holds = 0 /\ NoClaim.saw = {} /\ NoClaim.at = "idle"
  BY DEF NoClaim, Claims
<1>3. PcTypes
  BY <1>1, <1>2 DEF PcInit, PcTypes, Requests
<1>4. \A o \in Orders : OrderIsSound(o)
  BY <1>1 DEF PcInit, OrderIsSound, Written
<1>5. (\A r \in Runners : ClaimIsSound(r)) /\ HeldByOne
  BY <1>2 DEF PcInit, ClaimIsSound, HeldByOne
<1>6. WorkRunsOnce
  BY <1>1 DEF PcInit, WorkRunsOnce, PcTypeOK, JobRunsOnce, WorkStaysOnOwnPc, ListedIsOrdered, Modes
<1> QED  BY <1>3, <1>4, <1>5, <1>6 DEF PcInv

LEMMA TookPairs ==
    ASSUME PcTypes, NEW t \in took
    PROVE  t[1] \in Runners /\ t[2] \in Orders /\ t = <<t[1], t[2]>>
  BY DEF PcTypes

\* While no process moves, an order that was written only keeps what it says, and one
\* that was not may come: what processes saw stays true.
LEMMA ClaimsStaySound ==
    ASSUME PcInv, claim' = claim,
           \A o \in Orders : Written(o) => jobs'[o] = jobs[o]
    PROVE  (\A r \in Runners : ClaimIsSound(r)') /\ HeldByOne'
<1>1. ASSUME NEW r \in Runners PROVE ClaimIsSound(r)'
  <2>1. ClaimIsSound(r) /\ claim[r].saw \subseteq Orders
    BY DEF PcInv, PcTypes, Claims
  <2> QED  BY <2>1 DEF ClaimIsSound, Written
<1> QED  BY <1>1 DEF PcInv, HeldByOne

LEMMA AskOrderInv == ASSUME PcInv, NEW o \in Orders, AskOrder(o) PROVE PcInv'
<1>1. PICK m \in OrderMenu :
         /\ jobs' = [jobs EXCEPT ![o] = [NotThere EXCEPT !.user = m.user, !.mode = m.mode, !.host = m.host]]
         /\ request' = [request EXCEPT ![o] =
                          IF m.mode = "work" THEN "insert" ELSE IF Online(m.user) THEN "insert" ELSE "refused"]
  BY DEF AskOrder
<1> DEFINE v == [NotThere EXCEPT !.user = m.user, !.mode = m.mode, !.host = m.host]
<1>2. v \in OrderRows /\ v.status = "absent" /\ v.mode \in Modes
  BY PcAssumption DEF OrderRows, NotThere, Modes
<1> HIDE DEF v
<1>3. jobs' = [jobs EXCEPT ![o] = v]
  BY <1>1 DEF v
<1>4. ~Written(o) /\ UNCHANGED <<fresh, sites, claim, took>> /\ request[o] = "absent"
  BY DEF AskOrder
<1>5. PcTypes'
  BY <1>1, <1>2, <1>3, <1>4 DEF PcInv, PcTypes, Requests
<1>6. \A p \in Orders : /\ p # o => jobs'[p] = jobs[p] /\ request'[p] = request[p]
                        /\ p = o => jobs'[p] = v /\ request'[p] \in {"insert", "refused"}
  BY <1>1, <1>3 DEF PcInv, PcTypes
<1>7. \A p \in Orders : OrderIsSound(p)'
  BY <1>2, <1>6 DEF PcInv, OrderIsSound, Written
<1>8. (\A r \in Runners : ClaimIsSound(r)') /\ HeldByOne'
  BY <1>4, <1>6, ClaimsStaySound
<1>9. WorkRunsOnce'
  <2>1. jobs[o].status = "absent" /\ \A t \in took : t[2] # o
    <3>1. \A r \in Runners : <<r, o>> \notin took
      BY <1>4 DEF PcInv, WorkRunsOnce, PcTypeOK, Written
    <3> QED  BY <1>4, <3>1, TookPairs DEF PcInv, Written
  <2>2. PcTypeOK' /\ JobRunsOnce'
    BY <1>2, <1>4, <1>6, <2>1 DEF PcInv, WorkRunsOnce, PcTypeOK, JobRunsOnce
  <2>3. WorkStaysOnOwnPc'
    BY <1>4, <1>6, <2>1 DEF PcInv, PcTypes, WorkRunsOnce, WorkStaysOnOwnPc
  <2>4. ListedIsOrdered'
    BY <1>4, <1>6 DEF PcInv, WorkRunsOnce, ListedIsOrdered, Written
  <2> QED  BY <2>2, <2>3, <2>4 DEF WorkRunsOnce
<1> QED  BY <1>5, <1>7, <1>8, <1>9 DEF PcInv

LEMMA InsertJobInv == ASSUME PcInv, NEW o \in Orders, InsertJob(o) PROVE PcInv'
<1>1. ~Written(o) /\ UNCHANGED <<fresh, sites, claim, took>> /\ request[o] = "insert"
  BY DEF InsertJob, PcInv, OrderIsSound
<1>2. /\ \A p \in Orders : p # o => jobs'[p] = jobs[p] /\ request'[p] = request[p]
      /\ jobs'[o].user = jobs[o].user /\ jobs'[o].mode = jobs[o].mode /\ jobs'[o].host = jobs[o].host
      /\ jobs'[o].status \in {"absent", "queued"}
      /\ request'[o] \in {"list", "ok", "refused"}
      /\ request'[o] = "list" => jobs'[o].status = "queued" /\ jobs[o].mode = "site"
  <2>1. jobs[o] \in OrderRows /\ jobs[o].status = "absent"
    BY <1>1 DEF PcInv, PcTypes, Written
  <2>2. CASE /\ jobs' = [jobs EXCEPT ![o].status = "queued"]
             /\ request' = [request EXCEPT ![o] = IF jobs[o].mode = "site" THEN "list" ELSE "ok"]
    BY <2>1, <2>2 DEF PcInv, PcTypes, OrderRows
  <2>3. CASE request' = [request EXCEPT ![o] = "refused"] /\ UNCHANGED jobs
    BY <2>1, <2>3 DEF PcInv, PcTypes
  <2> QED  BY <2>2, <2>3 DEF InsertJob
<1>3. PcTypes'
  <2>1. jobs' \in [Orders -> OrderRows]
    <3>1. jobs[o] \in OrderRows
      BY DEF PcInv, PcTypes
    <3>2. [jobs[o] EXCEPT !.status = "queued"] \in OrderRows
      BY <3>1 DEF OrderRows
    <3> QED  BY <3>2 DEF InsertJob, PcInv, PcTypes
  <2>2. request' \in [Orders -> Requests]
    BY DEF InsertJob, PcInv, PcTypes, Requests
  <2> QED  BY <1>1, <2>1, <2>2 DEF PcInv, PcTypes
<1>4. \A p \in Orders : OrderIsSound(p)'
  BY <1>2 DEF PcInv, OrderIsSound, Written
<1>5. (\A r \in Runners : ClaimIsSound(r)') /\ HeldByOne'
  BY <1>1, <1>2, ClaimsStaySound
<1>6. WorkRunsOnce'
  <2>1. PcTypeOK' /\ JobRunsOnce'
    BY <1>1, <1>2 DEF PcInv, WorkRunsOnce, PcTypeOK, JobRunsOnce, Written
  <2>2. WorkStaysOnOwnPc'
    BY <1>1, <1>2 DEF PcInv, PcTypes, WorkRunsOnce, WorkStaysOnOwnPc
  <2>3. ListedIsOrdered'
    BY <1>1, <1>2 DEF PcInv, WorkRunsOnce, ListedIsOrdered, Written
  <2> QED  BY <2>1, <2>2, <2>3 DEF WorkRunsOnce
<1> QED  BY <1>3, <1>4, <1>5, <1>6 DEF PcInv

LEMMA ListSiteInv == ASSUME PcInv, NEW o \in Orders, ListSite(o) PROVE PcInv'
<1>1. Written(o) /\ jobs[o].mode = "site" /\ UNCHANGED <<jobs, fresh, claim, took>>
  BY DEF ListSite, PcInv, OrderIsSound
<1>2. /\ PcTypes' /\ \A p \in Orders : p # o => request'[p] = request[p]
      /\ request'[o] \in {"ok", "error"}
  BY <1>1 DEF ListSite, PcInv, PcTypes, Requests
<1>3. \A p \in Orders : OrderIsSound(p)'
  BY <1>1, <1>2 DEF PcInv, OrderIsSound, Written
<1>4. (\A r \in Runners : ClaimIsSound(r)') /\ HeldByOne'
  BY <1>1, ClaimsStaySound
<1>5. sites' \subseteq sites \cup {<<jobs[o].user, jobs[o].host>>}
  BY DEF ListSite
<1>6. ListedIsOrdered'
  BY <1>1, <1>5 DEF PcInv, WorkRunsOnce, ListedIsOrdered, Written
<1>7. PcTypeOK' /\ JobRunsOnce' /\ WorkStaysOnOwnPc'
  BY <1>1 DEF PcInv, WorkRunsOnce, PcTypeOK, JobRunsOnce, WorkStaysOnOwnPc
<1> QED  BY <1>2, <1>3, <1>4, <1>6, <1>7 DEF PcInv, WorkRunsOnce

\* A site less, and a process seen or not: nothing of the orders moves.
LEMMA OrdersStay ==
    ASSUME PcInv, UNCHANGED <<jobs, request, claim, took>>, sites' \subseteq sites
    PROVE  PcInv'
<1>1. PcTypes' /\ (\A o \in Orders : OrderIsSound(o)')
  BY DEF PcInv, PcTypes, OrderIsSound, Written
<1>2. (\A r \in Runners : ClaimIsSound(r)') /\ HeldByOne'
  BY ClaimsStaySound
<1>3. WorkRunsOnce'
  BY DEF PcInv, WorkRunsOnce, PcTypeOK, JobRunsOnce, WorkStaysOnOwnPc, ListedIsOrdered, Written
<1> QED  BY <1>1, <1>2, <1>3 DEF PcInv

\* One process moves, and holds what no other does; the orders stay.
LEMMA OneClaims ==
    ASSUME PcInv, UNCHANGED <<jobs, sites, request, took>>, NEW r \in Runners, NEW c \in Claims,
           claim' = [claim EXCEPT ![r] = c], ClaimIsSound(r)',
           c.holds # 0 => \A q \in Runners : claim[q].holds # c.holds
    PROVE  PcInv'
<1>1. PcTypes' /\ (\A o \in Orders : OrderIsSound(o)')
  BY DEF PcInv, PcTypes, OrderIsSound, Written
<1>2. claim'[r] = c /\ \A q \in Runners : q # r => claim'[q] = claim[q]
  BY DEF PcInv, PcTypes
<1>3. \A q \in Runners : ClaimIsSound(q)'
  BY <1>2 DEF PcInv, ClaimIsSound, Written
<1>4. HeldByOne'
  BY <1>2 DEF PcInv, HeldByOne
<1>5. WorkRunsOnce'
  BY DEF PcInv, WorkRunsOnce, PcTypeOK, JobRunsOnce, WorkStaysOnOwnPc, ListedIsOrdered, Written
<1> QED  BY <1>1, <1>3, <1>4, <1>5 DEF PcInv

LEMMA LookForJobInv == ASSUME PcInv, NEW r \in Runners, LookForJob(r) PROVE PcInv'
<1>1. PICK thinking \in BOOLEAN :
         claim' = [claim EXCEPT ![r] = [at |-> "looked", holds |-> 0,
                      saw |-> {o \in Orders : QueuedFor(o, RunnerOf[r], thinking)}]]
  BY DEF LookForJob
<1> DEFINE S == {o \in Orders : QueuedFor(o, RunnerOf[r], thinking)}
           c == [at |-> "looked", holds |-> 0, saw |-> S]
<1>2. S \subseteq Orders /\ \A o \in S : Written(o) /\ jobs[o].user = RunnerOf[r]
  BY DEF QueuedFor, Written
<1> HIDE DEF S
<1>3. c \in Claims /\ c.holds = 0 /\ claim' = [claim EXCEPT ![r] = c]
  BY <1>1, <1>2 DEF Claims, S
<1>4. claim'[r] = c
  BY <1>3 DEF PcInv, PcTypes
<1>5. ClaimIsSound(r)'
  BY <1>2, <1>4 DEF ClaimIsSound, Written, LookForJob
<1> HIDE DEF c
<1> QED  BY <1>3, <1>5, OneClaims DEF LookForJob

LEMMA LockJobInv == ASSUME PcInv, NEW r \in Runners, LockJob(r) PROVE PcInv'
<1>1. CASE claim' = [claim EXCEPT ![r] = NoClaim]
  <2>1. NoClaim \in Claims /\ NoClaim.holds = 0 /\ NoClaim.saw = {} /\ NoClaim.at = "idle"
    BY DEF NoClaim, Claims
  <2>2. claim'[r] = NoClaim
    BY <1>1 DEF PcInv, PcTypes
  <2>3. ClaimIsSound(r)'
    BY <2>1, <2>2 DEF ClaimIsSound
  <2> QED  BY <1>1, <2>1, <2>3, OneClaims DEF LockJob
<1>2. CASE \E o \in claim[r].saw :
              Free(o) /\ claim' = [claim EXCEPT ![r].at = "locked", ![r].holds = o]
  <2>1. PICK o \in claim[r].saw :
              Free(o) /\ claim' = [claim EXCEPT ![r].at = "locked", ![r].holds = o]
    BY <1>2
  <2> DEFINE c == [claim[r] EXCEPT !.at = "locked", !.holds = o]
  <2>2. claim[r] \in Claims /\ o \in Orders
    BY DEF PcInv, PcTypes, Claims
  <2>3. c \in Claims /\ c.at = "locked" /\ c.holds = o /\ c.saw = claim[r].saw
    BY <2>2 DEF Claims
  <2>4. claim' = [claim EXCEPT ![r] = c]
    BY <2>1
  <2> HIDE DEF c
  <2>5. claim'[r] = c
    BY <2>4 DEF PcInv, PcTypes
  <2>6. ClaimIsSound(r)'
    <3>1. \A p \in claim[r].saw : Written(p) /\ jobs[p].user = RunnerOf[r]
      BY DEF PcInv, ClaimIsSound
    <3>2. jobs' = jobs /\ jobs[o].status = "queued"
      BY <2>1 DEF LockJob, Free
    <3> QED  BY <2>1, <2>3, <2>5, <3>1, <3>2 DEF ClaimIsSound, Written
  <2> QED  BY <2>1, <2>3, <2>4, <2>6, OneClaims DEF LockJob, Free
<1> QED  BY <1>1, <1>2 DEF LockJob

\* The order becomes its taker's: it was held by no other, and taken by none before.
LEMMA TakeJobInv == ASSUME PcInv, NEW r \in Runners, TakeJob(r) PROVE PcInv'
<1> DEFINE o == claim[r].holds
<1>1. /\ o \in claim[r].saw /\ o \in Orders /\ o # 0 /\ jobs[o].status = "queued"
      /\ jobs[o].user = RunnerOf[r]
  <2>1. claim[r] \in Claims /\ ClaimIsSound(r) /\ claim[r].at = "locked"
    BY DEF PcInv, PcTypes, TakeJob
  <2> QED  BY <2>1, PcAssumption DEF ClaimIsSound, Claims
<1> HIDE DEF o
<1>2. /\ jobs' = [jobs EXCEPT ![o].status = "running"] /\ took' = took \cup {<<r, o>>}
      /\ claim' = [claim EXCEPT ![r] = NoClaim] /\ UNCHANGED <<fresh, sites, request>>
  BY DEF TakeJob, o
<1>3. \A q \in Runners : <<q, o>> \notin took
  BY <1>1 DEF PcInv, WorkRunsOnce, PcTypeOK
<1>4. /\ jobs'[o].status = "running" /\ jobs'[o].user = jobs[o].user
      /\ jobs'[o].mode = jobs[o].mode /\ jobs'[o].host = jobs[o].host
      /\ \A p \in Orders : p # o => jobs'[p] = jobs[p]
  BY <1>1, <1>2 DEF PcInv, PcTypes, OrderRows
<1>5. NoClaim \in Claims /\ NoClaim.holds = 0 /\ NoClaim.saw = {} /\ NoClaim.at = "idle"
  BY DEF NoClaim, Claims
<1>6. claim'[r] = NoClaim /\ \A q \in Runners : q # r => claim'[q] = claim[q]
  BY <1>2 DEF PcInv, PcTypes
<1>7. PcTypes'
  <2>1. [jobs[o] EXCEPT !.status = "running"] \in OrderRows
    BY <1>1 DEF PcInv, PcTypes, OrderRows
  <2> QED  BY <1>1, <1>2, <1>5, <2>1 DEF PcInv, PcTypes
<1>8. \A p \in Orders : OrderIsSound(p)'
  BY <1>1, <1>2, <1>4 DEF PcInv, OrderIsSound, Written
<1>9. \A q \in Runners : ClaimIsSound(q)'
  <2> TAKE q \in Runners
  <2>1. CASE q = r
    BY <1>5, <1>6, <2>1 DEF ClaimIsSound
  <2>2. CASE q # r
    <3>1. claim[q].holds # o /\ ClaimIsSound(q) /\ claim[q].saw \subseteq Orders
      BY <1>1, <2>2 DEF PcInv, PcTypes, Claims, HeldByOne, o
    <3>2. \A p \in claim[q].saw : Written(p)' /\ jobs'[p].user = RunnerOf[q]
      BY <1>4, <3>1 DEF ClaimIsSound, Written
    <3>3. claim[q].at = "locked" => jobs'[claim[q].holds].status = "queued"
      BY <1>4, <3>1 DEF ClaimIsSound
    <3> QED  BY <1>6, <2>2, <3>1, <3>2, <3>3 DEF ClaimIsSound
  <2> QED  BY <2>1, <2>2
<1>10. HeldByOne'
  BY <1>5, <1>6 DEF PcInv, HeldByOne
<1>11. WorkRunsOnce'
  <2>1. PcTypeOK'
    <3>1. ASSUME NEW p \in Orders, p # o
          PROVE  (\E q \in Runners : <<q, p>> \in took') <=> \E q \in Runners : <<q, p>> \in took
      BY <1>2, <3>1
    <3>2. <<r, o>> \in took'
      BY <1>2
    <3> QED  BY <1>4, <3>1, <3>2 DEF PcInv, WorkRunsOnce, PcTypeOK
  <2>2. JobRunsOnce'
    <3>1. \A t \in took : t[2] # o
      BY <1>3, TookPairs DEF PcInv
    <3> QED  BY <1>2, <3>1 DEF PcInv, WorkRunsOnce, JobRunsOnce
  <2>3. WorkStaysOnOwnPc'
    <3>1. ASSUME NEW t \in took PROVE RunnerOf[t[1]] = jobs'[t[2]].user
      BY <1>4, TookPairs DEF PcInv, WorkRunsOnce, WorkStaysOnOwnPc
    <3> QED  BY <1>1, <1>2, <1>4, <3>1 DEF WorkStaysOnOwnPc
  <2>4. ListedIsOrdered'
    BY <1>2, <1>4 DEF PcInv, WorkRunsOnce, ListedIsOrdered, Written
  <2> QED  BY <2>1, <2>2, <2>3, <2>4 DEF WorkRunsOnce
<1> QED  BY <1>7, <1>8, <1>9, <1>10, <1>11 DEF PcInv

LEMMA EndJobInv == ASSUME PcInv, NEW r \in Runners, EndJob(r) PROVE PcInv'
<1>1. PICK o \in Orders : /\ <<r, o>> \in took /\ jobs[o].status = "running"
                          /\ jobs' = [jobs EXCEPT ![o].status = "done"]
  BY DEF EndJob
<1>2. UNCHANGED <<fresh, sites, request, claim, took>>
  BY DEF EndJob
<1>3. /\ jobs'[o].status = "done" /\ jobs'[o].user = jobs[o].user
      /\ jobs'[o].mode = jobs[o].mode /\ jobs'[o].host = jobs[o].host
      /\ \A p \in Orders : p # o => jobs'[p] = jobs[p]
  BY <1>1 DEF PcInv, PcTypes, OrderRows
<1>4. PcTypes'
  <2>1. [jobs[o] EXCEPT !.status = "done"] \in OrderRows
    BY DEF PcInv, PcTypes, OrderRows
  <2> QED  BY <1>1, <1>2, <2>1 DEF PcInv, PcTypes
<1>5. \A p \in Orders : OrderIsSound(p)'
  BY <1>1, <1>2, <1>3 DEF PcInv, OrderIsSound, Written
<1>6. \A q \in Runners : ClaimIsSound(q)'
  <2> TAKE q \in Runners
  <2>1. ClaimIsSound(q) /\ claim[q].saw \subseteq Orders
    BY DEF PcInv, PcTypes, Claims
  <2>2. \A p \in claim[q].saw : Written(p)' /\ jobs'[p].user = RunnerOf[q]
    BY <1>3, <2>1 DEF ClaimIsSound, Written
  <2>3. claim[q].at = "locked" => jobs'[claim[q].holds].status = "queued"
    BY <1>1, <1>3, <2>1 DEF ClaimIsSound
  <2> QED  BY <1>2, <2>1, <2>2, <2>3 DEF ClaimIsSound
<1>7. HeldByOne'
  BY <1>2 DEF PcInv, HeldByOne
<1>8. WorkRunsOnce'
  <2>1. PcTypeOK' /\ JobRunsOnce'
    BY <1>1, <1>2, <1>3 DEF PcInv, WorkRunsOnce, PcTypeOK, JobRunsOnce
  <2>2. WorkStaysOnOwnPc'
    <3>1. ASSUME NEW t \in took PROVE RunnerOf[t[1]] = jobs'[t[2]].user
      BY <1>3, TookPairs DEF PcInv, WorkRunsOnce, WorkStaysOnOwnPc
    <3> QED  BY <1>2, <3>1 DEF WorkStaysOnOwnPc
  <2>3. ListedIsOrdered'
    BY <1>2, <1>3 DEF PcInv, WorkRunsOnce, ListedIsOrdered, Written
  <2> QED  BY <2>1, <2>2, <2>3 DEF WorkRunsOnce
<1> QED  BY <1>4, <1>5, <1>6, <1>7, <1>8 DEF PcInv

LEMMA PcNextInv == PcInv /\ [PcNext]_pcVars => PcInv'
<1> SUFFICES ASSUME PcInv, [PcNext]_pcVars PROVE PcInv'
  OBVIOUS
<1>1. CASE \E o \in Orders : AskOrder(o) \/ InsertJob(o) \/ ListSite(o)
  BY <1>1, AskOrderInv, InsertJobInv, ListSiteInv
<1>2. CASE \E u \in PcUsers, o \in Orders : ForgetSite(u, jobs[o].host)
  BY <1>2, OrdersStay DEF ForgetSite
<1>3. CASE \E r \in Runners : Seen(r)
  BY <1>3, OrdersStay DEF Seen
<1>4. CASE \E r \in Runners : LookForJob(r) \/ LockJob(r) \/ TakeJob(r) \/ EndJob(r)
  BY <1>4, LookForJobInv, LockJobInv, TakeJobInv, EndJobInv
<1>5. CASE UNCHANGED pcVars
  BY <1>5, OrdersStay DEF pcVars
<1> QED  BY <1>1, <1>2, <1>3, <1>4, <1>5 DEF PcNext

---------------------------------------------------------------------------
(* The theorems *)

\* However many processes of however many users ask for work at the same moment, an order
\* is given to one of them (brain_claim_job), on the PC of the user it came from, and
\* every site that is listed has its order.
THEOREM WorkRunsOnceAlways == PcSpec => []WorkRunsOnce
<1>1. PcInv => WorkRunsOnce
  BY DEF PcInv
<1> QED  BY <1>1, PcInitInv, PcNextInv, PTL DEF PcSpec

\* A row is passed over only if it is taken, being taken, or written after the process
\* looked: work is given out oldest first.
THEOREM WorkIsTakenOldestFirst == PcSpec => OldestFirst
<1>1. ASSUME PcInv, PcNext, NEW r \in Runners, claim[r].at = "looked", claim'[r].at = "locked"
      PROVE  \A o \in claim[r].saw : o < claim'[r].holds
               => jobs[o].status # "queued" \/ \E q \in Runners : claim[q].holds = o
  <2>1. ASSUME NEW s \in Runners, s # r, LookForJob(s) \/ LockJob(s) \/ TakeJob(s) \/ EndJob(s)
        PROVE  claim'[r] = claim[r]
    <3>1. CASE \E v : claim' = [claim EXCEPT ![s] = v]
      BY <1>1, <2>1, <3>1 DEF PcInv, PcTypes
    <3>2. CASE \E o : claim' = [claim EXCEPT ![s].at = "locked", ![s].holds = o]
      BY <1>1, <2>1, <3>2 DEF PcInv, PcTypes
    <3>3. CASE claim' = claim
      BY <3>3
    <3> QED  BY <2>1, <3>1, <3>2, <3>3 DEF LookForJob, LockJob, TakeJob, EndJob
  <2>2. LockJob(r)
    <3>1. ~(claim' = claim)
      BY <1>1
    <3> QED  BY <1>1, <2>1, <3>1 DEF PcNext, AskOrder, InsertJob, ListSite, ForgetSite, Seen,
                LookForJob, TakeJob, EndJob
  <2>3. claim' # [claim EXCEPT ![r] = NoClaim]
    BY <1>1 DEF PcInv, PcTypes, NoClaim
  <2>4. PICK p \in {o \in claim[r].saw : Free(o)} :
           /\ \A o \in {x \in claim[r].saw : Free(x)} \ {p} : Before(p, o)
           /\ claim' = [claim EXCEPT ![r].at = "locked", ![r].holds = p]
    BY <2>2, <2>3 DEF LockJob
  <2>5. claim'[r].holds = p /\ claim[r].saw \subseteq Orders /\ p \in Orders
    <3>1. claim[r] \in Claims
      BY <1>1 DEF PcInv, PcTypes
    <3>2. claim'[r] = [claim[r] EXCEPT !.at = "locked", !.holds = p]
      BY <1>1, <2>4 DEF PcInv, PcTypes
    <3> QED  BY <2>4, <3>1, <3>2 DEF Claims
  <2> SUFFICES ASSUME NEW o \in claim[r].saw, o < p, Free(o) PROVE FALSE
    BY <2>5 DEF Free
  <2>6. o \in Nat /\ p \in Nat /\ o # p
    BY <2>5, PcAssumption
  <2> QED  BY <2>4, <2>6 DEF Before
<1>2. PcInv /\ [PcNext]_pcVars =>
        [\A r \in Runners : claim[r].at = "looked" /\ claim'[r].at = "locked"
           => \A o \in claim[r].saw : o < claim'[r].holds
                => jobs[o].status # "queued" \/ \E q \in Runners : claim[q].holds = o]_pcVars
  BY <1>1
<1> QED  BY <1>2, PcInitInv, PcNextInv, PTL DEF PcSpec, OldestFirst

---------------------------------------------------------------------------
(* Browser profiles                                                       *)

(* The inductive invariant *)

Sessions == [at : {"closed", "open", "made"}, owner : Owners \cup {""},
             vendor : Vendors \cup {""}, handle : Nat]
Rows == [owner : Owners, vendor : Vendors, handle : Nat]

ProfileTypes ==
    /\ browsing \in [Browsings -> Sessions] /\ contexts \subseteq Rows /\ cleared \subseteq Nat
    /\ \E n \in Nat : DOMAIN handles = 1..n

Made(b) == browsing[b].at = "made"

SavedByOne ==
    /\ \A b, d \in Browsings : Made(b) /\ Made(d) /\ browsing[b].handle = browsing[d].handle => b = d
    /\ \A b \in Browsings : Made(b) =>
         browsing[b].handle \notin cleared /\ \A c \in contexts : c.handle # browsing[b].handle

RowsAreOwn ==
    \A c \in contexts : /\ c.handle \in DOMAIN handles /\ handles[c.handle] = <<c.owner, c.vendor>>
                        /\ c.handle \notin cleared

SessionsAreOwn ==
    \A b \in Browsings : browsing[b].at # "closed" =>
        /\ browsing[b].handle \in DOMAIN handles
        /\ browsing[b].owner \in Owners /\ browsing[b].vendor \in Vendors

ProfilesInv ==
    /\ ProfileTypes /\ SavedByOne /\ RowsAreOwn /\ SessionsAreOwn
    /\ cleared \subseteq DOMAIN handles
    /\ ProfilesAreOwn

---------------------------------------------------------------------------
(* Lemmas *)

LEMMA ProfilesInitInv == ProfilesInit => ProfilesInv
<1> SUFFICES ASSUME ProfilesInit PROVE ProfilesInv
  OBVIOUS
<1>1. Closed \in Sessions /\ Closed.at = "closed"
  BY DEF Closed, Sessions
<1>2. DOMAIN handles = 1..0 /\ DOMAIN handles = {}
  BY DEF ProfilesInit
<1>3. ProfileTypes
  BY <1>1, <1>2 DEF ProfilesInit, ProfileTypes
<1>4. SavedByOne /\ RowsAreOwn /\ SessionsAreOwn
  BY <1>1 DEF ProfilesInit, SavedByOne, RowsAreOwn, SessionsAreOwn, Made
<1>5. ProfilesAreOwn
  BY <1>1, <1>2 DEF ProfilesInit, ProfilesAreOwn, OneProfileEach, OwnProfile
<1> QED  BY <1>3, <1>4, <1>5 DEF ProfilesInv, ProfilesInit

\* A new handle is one the vendors never gave out.
LEMMA NewHandle ==
    ASSUME ProfileTypes
    PROVE  LET new == Cardinality(DOMAIN handles) + 1 IN
           /\ new \in Nat /\ new \notin DOMAIN handles
           /\ 1..new = DOMAIN handles \cup {new}
<1>1. PICK n \in Nat : DOMAIN handles = 1..n
  BY DEF ProfileTypes
<1>2. Cardinality(DOMAIN handles) = n
  BY <1>1, FS_Interval
<1> QED  BY <1>1, <1>2

\* A session opens the profile of a row.
LEMMA OpenFoundInv ==
    ASSUME ProfilesInv, NEW b \in Browsings, browsing[b].at = "closed", NEW c \in contexts,
           browsing' = [browsing EXCEPT ![b] = [at |-> "open", owner |-> c.owner,
                                                vendor |-> c.vendor, handle |-> c.handle]],
           UNCHANGED <<handles, contexts, cleared>>
    PROVE  ProfilesInv'
<1> DEFINE s == [at |-> "open", owner |-> c.owner, vendor |-> c.vendor, handle |-> c.handle]
<1>1. c \in Rows /\ c.handle \in DOMAIN handles /\ handles[c.handle] = <<c.owner, c.vendor>>
  BY DEF ProfilesInv, ProfileTypes, RowsAreOwn
<1>2. s \in Sessions
  BY <1>1 DEF Sessions, Rows
<1>3. browsing'[b] = s /\ \A d \in Browsings : d # b => browsing'[d] = browsing[d]
  BY DEF ProfilesInv, ProfileTypes
<1>4. ProfileTypes'
  BY <1>2 DEF ProfilesInv, ProfileTypes
<1>5. SavedByOne' /\ RowsAreOwn'
  BY <1>3 DEF ProfilesInv, SavedByOne, RowsAreOwn, Made
<1>6. SessionsAreOwn' /\ OwnProfile'
  BY <1>1, <1>3 DEF ProfilesInv, SessionsAreOwn, ProfilesAreOwn, OwnProfile, Rows
<1>7. OneProfileEach'
  BY <1>3 DEF ProfilesInv, ProfilesAreOwn, OneProfileEach
<1> QED  BY <1>4, <1>5, <1>6, <1>7 DEF ProfilesInv, ProfilesAreOwn

\* A session has a profile made.
LEMMA OpenMadeInv ==
    ASSUME ProfilesInv, NEW b \in Browsings, NEW o \in Owners, NEW v \in Vendors,
           NEW new, new = Cardinality(DOMAIN handles) + 1,
           handles' = [i \in 1..new |-> IF i = new THEN <<o, v>> ELSE handles[i]],
           browsing' = [browsing EXCEPT ![b] = [at |-> "made", owner |-> o, vendor |-> v, handle |-> new]],
           UNCHANGED <<contexts, cleared>>, browsing[b].at = "closed"
    PROVE  ProfilesInv'
<1> DEFINE s == [at |-> "made", owner |-> o, vendor |-> v, handle |-> new]
<1>1. new \in Nat /\ new \notin DOMAIN handles /\ 1..new = DOMAIN handles \cup {new}
  BY NewHandle DEF ProfilesInv
<1>2. /\ DOMAIN handles' = DOMAIN handles \cup {new} /\ handles'[new] = <<o, v>>
      /\ \A i \in DOMAIN handles : handles'[i] = handles[i]
  BY <1>1
<1>3. s \in Sessions
  BY <1>1 DEF Sessions
<1>4. browsing'[b] = s /\ \A d \in Browsings : d # b => browsing'[d] = browsing[d]
  BY DEF ProfilesInv, ProfileTypes
<1>5. ProfileTypes'
  BY <1>1, <1>2, <1>3 DEF ProfilesInv, ProfileTypes
<1>6. RowsAreOwn' /\ cleared' \subseteq DOMAIN handles'
  BY <1>1, <1>2 DEF ProfilesInv, RowsAreOwn
<1>7. SavedByOne'
  <2>1. \A d \in Browsings : d # b /\ Made(d)' => Made(d) /\ browsing'[d].handle = browsing[d].handle
                                                  /\ browsing[d].handle # new
    BY <1>1, <1>4 DEF ProfilesInv, SessionsAreOwn, Made
  <2>2. new \notin cleared /\ \A c \in contexts : c.handle # new
    BY <1>1 DEF ProfilesInv, RowsAreOwn
  <2> QED  BY <1>4, <2>1, <2>2 DEF ProfilesInv, SavedByOne
<1>8. SessionsAreOwn' /\ OwnProfile'
  BY <1>1, <1>2, <1>4 DEF ProfilesInv, SessionsAreOwn, ProfilesAreOwn, OwnProfile
<1>9. OneProfileEach'
  BY <1>2, <1>4 DEF ProfilesInv, ProfilesAreOwn, OneProfileEach
<1> QED  BY <1>5, <1>6, <1>7, <1>8, <1>9 DEF ProfilesInv, ProfilesAreOwn

LEMMA OpenBrowserInv == ASSUME ProfilesInv, NEW b \in Browsings, OpenBrowser(b) PROVE ProfilesInv'
<1>1. PICK o \in Owners, v \in Vendors :
         \/ \E c \in contexts : /\ c.owner = o /\ c.vendor = v
                                /\ browsing' = [browsing EXCEPT ![b] =
                                      [at |-> "open", owner |-> o, vendor |-> v, handle |-> c.handle]]
                                /\ UNCHANGED handles
         \/ LET new == Cardinality(DOMAIN handles) + 1 IN
            /\ handles' = [i \in 1..new |-> IF i = new THEN <<o, v>> ELSE handles[i]]
            /\ browsing' = [browsing EXCEPT ![b] = [at |-> "made", owner |-> o, vendor |-> v, handle |-> new]]
  BY DEF OpenBrowser, Key
<1>2. browsing[b].at = "closed" /\ UNCHANGED <<contexts, cleared>>
  BY DEF OpenBrowser
<1> QED  BY <1>1, <1>2, OpenFoundInv, OpenMadeInv

LEMMA SaveBrowserContextInv ==
    ASSUME ProfilesInv, NEW b \in Browsings, SaveBrowserContext(b) PROVE ProfilesInv'
<1> DEFINE mine == browsing[b]
           over == {c \in contexts : Overwritten(c, mine.owner, mine.vendor)}
           row  == [owner |-> mine.owner, vendor |-> mine.vendor, handle |-> mine.handle]
<1>1. /\ mine.at = "made" /\ browsing' = [browsing EXCEPT ![b].at = "open"]
      /\ contexts' = (contexts \ over) \cup {row}
      /\ cleared' = cleared \cup {c.handle : c \in over} /\ UNCHANGED handles
  BY DEF SaveBrowserContext
<1>2. /\ mine \in Sessions /\ mine.handle \in DOMAIN handles /\ mine.handle \notin cleared
      /\ handles[mine.handle] = <<mine.owner, mine.vendor>>
      /\ \A c \in contexts : c.handle # mine.handle
      /\ mine.owner \in Owners /\ mine.vendor \in Vendors
  BY <1>1 DEF ProfilesInv, ProfileTypes, SavedByOne, SessionsAreOwn, ProfilesAreOwn, OwnProfile, Made
<1>3. row \in Rows /\ row.owner = mine.owner /\ row.vendor = mine.vendor /\ row.handle = mine.handle
  BY <1>2 DEF Rows, Sessions
<1>4. \A c \in contexts : c \in over <=> c.owner = mine.owner /\ c.vendor = mine.vendor
  BY DEF Overwritten
<1>5. over \subseteq contexts
  OBVIOUS
<1>6. /\ browsing'[b].at = "open" /\ browsing'[b].owner = mine.owner
      /\ browsing'[b].vendor = mine.vendor /\ browsing'[b].handle = mine.handle
      /\ \A d \in Browsings : d # b => browsing'[d] = browsing[d]
  BY <1>1, <1>2 DEF ProfilesInv, ProfileTypes, Sessions
<1>7. [mine EXCEPT !.at = "open"] \in Sessions
  BY <1>2 DEF Sessions
<1>t. browsing' \in [Browsings -> Sessions]
  BY <1>1, <1>7 DEF ProfilesInv, ProfileTypes
<1> HIDE DEF mine, over, row
<1>8. ProfileTypes'
  <2>1. {c.handle : c \in over} \subseteq Nat
    BY <1>5 DEF ProfilesInv, ProfileTypes, Rows
  <2> QED  BY <1>1, <1>3, <1>t, <2>1 DEF ProfilesInv, ProfileTypes
<1>9. RowsAreOwn'
  <2>1. \A c \in contexts \ over : c.handle \notin {d.handle : d \in over}
    <3> SUFFICES ASSUME NEW c \in contexts \ over, NEW d \in over, c.handle = d.handle PROVE FALSE
      OBVIOUS
    <3>1. <<c.owner, c.vendor>> = <<d.owner, d.vendor>>
      BY <1>5 DEF ProfilesInv, RowsAreOwn
    <3> QED  BY <1>4, <1>5, <3>1
  <2>2. row.handle \notin cleared'
    BY <1>1, <1>2, <1>3, <1>5
  <2> QED  BY <1>1, <1>2, <1>3, <2>1, <2>2 DEF ProfilesInv, RowsAreOwn
<1>10. SavedByOne'
  <2>1. ASSUME NEW d \in Browsings, Made(d)'
        PROVE  /\ d # b /\ Made(d) /\ browsing'[d] = browsing[d]
               /\ browsing[d].handle # mine.handle
    BY <1>1, <1>6, <2>1 DEF ProfilesInv, SavedByOne, Made, mine
  <2>2. ASSUME NEW d \in Browsings, Made(d)'
        PROVE  browsing'[d].handle \notin cleared' /\ \A c \in contexts' : c.handle # browsing'[d].handle
    BY <1>1, <1>3, <1>5, <2>1, <2>2 DEF ProfilesInv, SavedByOne
  <2> QED  BY <2>1, <2>2 DEF ProfilesInv, SavedByOne
<1>11. SessionsAreOwn' /\ OwnProfile'
  BY <1>1, <1>2, <1>6 DEF ProfilesInv, SessionsAreOwn, ProfilesAreOwn, OwnProfile
<1>12. cleared' \subseteq DOMAIN handles'
  BY <1>1, <1>5 DEF ProfilesInv, RowsAreOwn
<1>13. OneProfileEach'
  <2>1. \A c, d \in contexts' : c.owner = d.owner /\ c.vendor = d.vendor => c = d
    BY <1>1, <1>3, <1>4 DEF ProfilesInv, ProfilesAreOwn, OneProfileEach
  <2>2. ASSUME NEW i \in DOMAIN handles
        PROVE  \/ i \in cleared' \/ \E c \in contexts' : c.handle = i
               \/ \E d \in Browsings : browsing'[d].at = "made" /\ browsing'[d].handle = i
    <3>1. CASE i \in cleared
      BY <1>1, <3>1
    <3>2. CASE \E c \in contexts : c.handle = i
      BY <1>1, <3>2
    <3>3. CASE \E d \in Browsings : browsing[d].at = "made" /\ browsing[d].handle = i
      BY <1>1, <1>3, <1>6, <3>3 DEF mine
    <3> QED  BY <3>1, <3>2, <3>3 DEF ProfilesInv, ProfilesAreOwn, OneProfileEach
  <2> QED  BY <1>1, <2>1, <2>2 DEF OneProfileEach
<1> QED  BY <1>8, <1>9, <1>10, <1>11, <1>12, <1>13 DEF ProfilesInv, ProfilesAreOwn

\* Rows only go: what is left still has its own handle, and no cleared one.
LEMMA DeleteBrowserContextInv ==
    ASSUME ProfilesInv, NEW o \in Owners, NEW vs, DeleteBrowserContext(o, vs) PROVE ProfilesInv'
<1> DEFINE gone == {c \in contexts : c.owner = o /\ c.vendor \in vs}
<1>1. /\ contexts' = contexts \ gone /\ cleared' = cleared \cup {c.handle : c \in gone}
      /\ UNCHANGED <<browsing, handles>>
  BY DEF DeleteBrowserContext
<1>2. gone \subseteq contexts /\ \A c \in contexts : c \in gone <=> c.owner = o /\ c.vendor \in vs
  OBVIOUS
<1> HIDE DEF gone
<1>3. ProfileTypes'
  <2>1. {c.handle : c \in gone} \subseteq Nat
    BY <1>2 DEF ProfilesInv, ProfileTypes, Rows
  <2> QED  BY <1>1, <2>1 DEF ProfilesInv, ProfileTypes
<1>4. RowsAreOwn'
  <2>1. \A c \in contexts \ gone : c.handle \notin {d.handle : d \in gone}
    <3> SUFFICES ASSUME NEW c \in contexts \ gone, NEW d \in gone, c.handle = d.handle PROVE FALSE
      OBVIOUS
    <3>1. <<c.owner, c.vendor>> = <<d.owner, d.vendor>>
      BY <1>2 DEF ProfilesInv, RowsAreOwn
    <3> QED  BY <1>2, <3>1
  <2> QED  BY <1>1, <2>1 DEF ProfilesInv, RowsAreOwn
<1>5. SavedByOne'
  BY <1>1, <1>2 DEF ProfilesInv, SavedByOne, Made
<1>6. SessionsAreOwn' /\ OwnProfile' /\ cleared' \subseteq DOMAIN handles'
  BY <1>1, <1>2 DEF ProfilesInv, SessionsAreOwn, ProfilesAreOwn, OwnProfile, RowsAreOwn
<1>7. OneProfileEach'
  BY <1>1 DEF ProfilesInv, ProfilesAreOwn, OneProfileEach
<1> QED  BY <1>3, <1>4, <1>5, <1>6, <1>7 DEF ProfilesInv, ProfilesAreOwn

LEMMA CloseBrowserInv == ASSUME ProfilesInv, NEW b \in Browsings, CloseBrowser(b) PROVE ProfilesInv'
<1>1. Closed \in Sessions /\ Closed.at = "closed"
  BY DEF Closed, Sessions
<1>2. /\ browsing'[b] = Closed /\ browsing[b].at = "open" /\ UNCHANGED <<contexts, handles, cleared>>
      /\ \A d \in Browsings : d # b => browsing'[d] = browsing[d]
  BY DEF CloseBrowser, ProfilesInv, ProfileTypes
<1>3. ProfileTypes'
  BY <1>1 DEF CloseBrowser, ProfilesInv, ProfileTypes
<1>4. SavedByOne' /\ RowsAreOwn' /\ SessionsAreOwn' /\ OwnProfile'
  BY <1>1, <1>2 DEF ProfilesInv, SavedByOne, RowsAreOwn, SessionsAreOwn, Made, ProfilesAreOwn, OwnProfile
<1>5. OneProfileEach'
  BY <1>1, <1>2 DEF ProfilesInv, ProfilesAreOwn, OneProfileEach
<1> QED  BY <1>2, <1>3, <1>4, <1>5 DEF ProfilesInv, ProfilesAreOwn

LEMMA ProfilesNextInv == ProfilesInv /\ [ProfilesNext]_profileVars => ProfilesInv'
<1> SUFFICES ASSUME ProfilesInv, [ProfilesNext]_profileVars PROVE ProfilesInv'
  OBVIOUS
<1>1. CASE \E b \in Browsings : OpenBrowser(b) \/ SaveBrowserContext(b) \/ CloseBrowser(b)
  BY <1>1, OpenBrowserInv, SaveBrowserContextInv, CloseBrowserInv
<1>2. CASE \E o \in Owners, v \in Vendors : DeleteBrowserContext(o, {v}) \/ DeleteBrowserContext(o, Vendors)
  BY <1>2, DeleteBrowserContextInv
<1>3. CASE UNCHANGED profileVars
  BY <1>3 DEF profileVars, ProfilesInv, ProfileTypes, SavedByOne, RowsAreOwn, SessionsAreOwn, Made,
     ProfilesAreOwn, OneProfileEach, OwnProfile
<1> QED  BY <1>1, <1>2, <1>3 DEF ProfilesNext

---------------------------------------------------------------------------
(* The theorems *)

\* However the sessions of an owner start, save and clear beside each other, there is one
\* row for an owner at a vendor, no handle is lost that was not cleared or replaced, and a
\* session browses with its owner's (browser_contexts).
THEOREM ProfilesAreOwnAlways == ProfilesSpec => []ProfilesAreOwn
<1>1. ProfilesInv => ProfilesAreOwn
  BY DEF ProfilesInv
<1> QED  BY <1>1, ProfilesInitInv, ProfilesNextInv, PTL DEF ProfilesSpec

\* A session to come never gets a handle that was cleared or replaced.
THEOREM ClearedStaysClosed == ProfilesSpec => ClearedIsNotOpened
<1>1. ASSUME ProfilesInv, ProfilesNext, NEW b \in Browsings,
             browsing[b].at = "closed", browsing'[b].at = "open"
      PROVE  browsing'[b].handle \notin cleared
  <2>1. PICK d \in Browsings : OpenBrowser(d) \/ SaveBrowserContext(d) \/ CloseBrowser(d)
    BY <1>1 DEF ProfilesNext, DeleteBrowserContext
  <2>2. ASSUME NEW s, d # b, browsing' = [browsing EXCEPT ![d] = s] PROVE FALSE
    BY <1>1, <2>2 DEF ProfilesInv, ProfileTypes
  <2>3. CASE OpenBrowser(d)
    <3>1. d = b
      BY <2>2, <2>3 DEF OpenBrowser
    <3>2. PICK o \in Owners, v \in Vendors :
             \/ \E c \in contexts : browsing' = [browsing EXCEPT ![b] =
                    [at |-> "open", owner |-> o, vendor |-> v, handle |-> c.handle]]
             \/ \E n : browsing' = [browsing EXCEPT ![b] =
                    [at |-> "made", owner |-> o, vendor |-> v, handle |-> n]]
      BY <2>3, <3>1 DEF OpenBrowser
    <3>3. CASE \E c \in contexts : browsing' = [browsing EXCEPT ![b] =
                    [at |-> "open", owner |-> o, vendor |-> v, handle |-> c.handle]]
      BY <1>1, <3>3 DEF ProfilesInv, ProfileTypes, RowsAreOwn
    <3>4. CASE \E n : browsing' = [browsing EXCEPT ![b] =
                    [at |-> "made", owner |-> o, vendor |-> v, handle |-> n]]
      BY <1>1, <3>4 DEF ProfilesInv, ProfileTypes
    <3> QED  BY <3>2, <3>3, <3>4
  <2>4. CASE SaveBrowserContext(d) \/ CloseBrowser(d)
    BY <1>1, <2>2, <2>4 DEF SaveBrowserContext, CloseBrowser, ProfilesInv, ProfileTypes, Closed
  <2> QED  BY <2>1, <2>3, <2>4
<1>2. ProfilesInv /\ [ProfilesNext]_profileVars =>
        [\A b \in Browsings : browsing[b].at = "closed" /\ browsing'[b].at = "open"
           => browsing'[b].handle \notin cleared]_profileVars
  BY <1>1
<1> QED  BY <1>2, ProfilesInitInv, ProfilesNextInv, PTL DEF ProfilesSpec, ClearedIsNotOpened

---------------------------------------------------------------------------
(* GoogleLink                                                               *)

(* The invariant *)

Grants == [email : Emails, by : LinkUsers, n : Jobs \cup {0}]
LinkRow == [email : Emails, grant : Grants, flagged : BOOLEAN]
Plain == {"get", "change", "touch", "put", "send", "refuse", "check"}
CallNames == Plain \cup {"copy", "export", "delete"}
Whys == {"ok", "none", "refused", "failed", "turned away", "not linked", "no answer", "reconnect", "unlinked",
         "rejected", "died"}
Hits == [what : CallNames, email : Emails, by : LinkUsers, shared : BOOLEAN]
Consenting == {"exchange", "whose", "upsert"}
Cutting == {"find", "revoke", "delete"}
Calling == {"call", "read", "refresh", "flag", "store", "send"}
Pcs == {"absent", "ended", "forget"} \cup Consenting \cup Cutting \cup Calling
JobRow == [kind : {"complete", "disconnect", "app", "work"}, user : LinkUsers, by : LinkUsers,
           worker : Workers, asked : Asked, calls : Seq(CallNames), at : Pcs \ {"absent"},
           why : Whys \cup {None}, i : Nat \ {0}, row : LinkRow \cup {None},
           token : Grants \cup {None}, hits : Seq(Hits), sawPrivate : BOOLEAN,
           failing : BOOLEAN, revoked : BOOLEAN]

LinkTypes ==
    /\ rows \in [LinkUsers -> Seq(LinkRow)] /\ live \in SUBSET Grants
    /\ cache \in [Workers -> [CacheKeys -> Grants \cup {None}]]
    /\ job \in [Jobs -> JobRow \cup {NoJob}]
    /\ shared \in BOOLEAN /\ copies \in SUBSET [job : Jobs, email : Emails]
    /\ faults \in 0..MaxFaults
    /\ cut \in SUBSET (LinkUsers \X Emails) /\ excused \in SUBSET (Workers \X Grants)

\* A grant this user may use for what they asked.
Fits(g, u, asked) == g.by = u /\ (asked # None => g.email = asked)

\* One row per address, each with a grant of its user to that account.
RowsFit ==
    \A u \in LinkUsers :
        /\ \A i \in DOMAIN rows[u] : /\ rows[u][i].grant.by = u
                                     /\ rows[u][i].grant.email = rows[u][i].email
        /\ \A i, k \in DOMAIN rows[u] : rows[u][i].email = rows[u][k].email => i = k

CacheFits ==
    \A w \in Workers, k \in CacheKeys : cache[w][k] # None => Fits(cache[w][k], k[1], k[2])

\* What a request that is past this point has in its hands.
HoldsRow == {"revoke", "delete", "refresh", "flag"}
HoldsToken == {"store", "send"}

JobFits(j, s) ==
    /\ s.at \in Consenting => s.kind = "complete" /\ s.by = s.user /\ s.asked \in Emails
    /\ s.at \in {"whose", "upsert"} => s.token = GrantOf(s.asked, s.user, j)
    /\ s.at \in Cutting => s.kind = "disconnect"
    /\ s.at \in Calling => s.kind \in {"app", "work"}
    /\ s.at \in HoldsRow => s.row \in LinkRow /\ s.row # None
    /\ s.row # None => /\ Fits(s.row.grant, s.user, s.asked)
                       /\ s.row.grant.email = s.row.email
    /\ s.at \in HoldsToken => s.token \in Grants /\ Fits(s.token, s.user, s.asked)
    /\ \A i \in DOMAIN s.hits : /\ s.hits[i].by = s.user
                                /\ s.asked # None => s.hits[i].email = s.asked
    /\ s.i \in 1..(Len(s.calls) + 1)
    /\ s.at # "ended" /\ ~s.failing => s.why = None
    /\ s.revoked => s.at \in {"delete", "forget", "ended"}
    /\ s.failing => s.at \in Calling \cup {"ended"}
    /\ s.at = "forget" => s.kind \in {"complete", "disconnect"}

FitInv ==
    /\ LinkTypes /\ RowsFit /\ CacheFits
    /\ \A j \in Jobs : job[j] \in JobRow => JobFits(j, job[j])

\* A temporary document is read and then deleted, as one.
Whole(p) ==
    \A i \in DOMAIN p :
        /\ p[i] = "copy" => i + 1 \in DOMAIN p /\ p[i + 1] = "export"
        /\ p[i] = "export" => i + 1 \in DOMAIN p /\ p[i + 1] = "delete"

\* Before what reaches others the work thread is refused, or has looked.
Guarded(p) ==
    \A i \in DOMAIN p :
        p[i] \in {"send", "put"} =>
            \E k \in 1..(i - 1) : p[k] = "refuse" \/ (p[k] = "check" /\ p[i] = "put")

\* Which calls a request has made, and what it has seen by them.
JobCalls(s) ==
    /\ s.at \in Calling /\ ~s.failing =>
         Len(s.hits) = s.i - 1 /\ \A k \in 1..(s.i - 1) : s.hits[k].what = s.calls[k]
    /\ s.at \in Calling \ {"call"} => s.i \in DOMAIN s.calls /\ s.calls[s.i] # "refuse"
    /\ s.at = "ended" /\ s.why = "ok" /\ s.kind \in {"app", "work"} =>
         Len(s.hits) = Len(s.calls) /\ \A k \in DOMAIN s.calls : s.hits[k].what = s.calls[k]
    /\ s.failing => s.why # "ok"
    /\ Whole(s.calls) /\ (s.kind = "work" => Guarded(s.calls))
    /\ s.at \in Calling =>
         \A k \in 1..(s.i - 1) : /\ s.calls[k] # "refuse"
                                 /\ s.calls[k] = "check" => s.sawPrivate
    /\ s.kind = "work" => \A k \in DOMAIN s.hits :
         /\ s.hits[k].what # "send"
         /\ s.hits[k].what = "put" /\ s.hits[k].shared => s.sawPrivate

\* A temporary document there is, is about to be read or deleted, or could not be.
CopyFits(s) ==
    /\ s.at \in Calling \cup {"ended"}
    /\ s.at # "ended" => s.i \in DOMAIN s.calls /\ s.calls[s.i] \in {"export", "delete"}
    /\ s.at = "ended" =>
         s.why # "ok" /\ (s.why = "died" \/ s.calls[s.i] \in {"copy", "delete"})

CallInv ==
    /\ \A j \in Jobs : job[j] \in JobRow => JobCalls(job[j])
    /\ \A c \in copies : job[c.job] \in JobRow /\ CopyFits(job[c.job])

\* The grants somebody has a use for: a link's, a process's, a request's.
Holds(s, g) ==
    \/ s.row # None /\ g = s.row.grant
    \/ s.at \in HoldsToken /\ g = s.token

Held(g) ==
    \/ g \in GrantsIn(rows)
    \/ \E w \in Workers, k \in CacheKeys : cache[w][k] # None /\ g = cache[w][k]
    \/ \E j \in Jobs : job[j] \in JobRow /\ Holds(job[j], g)

\* A grant that was given, and of whose link a row has been written, or tried to be.
Known(g) == g.n \in Jobs => job[g.n].at \notin Consenting \cup {"absent"}

\* No grant somebody holds of this user to this account is honoured.
Gone(u, e) == \A g \in Grants : Held(g) /\ g.by = u /\ g.email = e => g \notin live

\* Once Google has ended a grant, its row, while it stays, is of no use to anyone.
RevokedOK(s) ==
    s.at = "delete" /\ s.revoked =>
        \A i \in DOMAIN rows[s.user] :
            rows[s.user][i].grant = s.row.grant => Gone(s.user, s.row.email)

HeldInv ==
    /\ \A g \in Grants : Held(g) => Known(g)
    /\ \A u \in LinkUsers, e \in Emails : <<u, e>> \in cut =>
         Gone(u, e) /\ \A i \in DOMAIN rows[u] : rows[u][i].email # e
    /\ \A j \in Jobs : job[j] \in JobRow => RevokedOK(job[j])

Refused(s) ==
    s.at = "ended" /\ s.why = "reconnect" /\ ~s.failing =>
        /\ s.row # None
        /\ \A i \in DOMAIN rows[s.user] :
             rows[s.user][i].grant = s.row.grant => rows[s.user][i].flagged

TokenExcused(w, k, g) ==
    \/ g \in GrantsIn(rows)
    \/ <<w, g>> \in excused
    \/ \E j \in Jobs : At(j, "forget") /\ job[j].worker = w /\ job[j].user = k[1]

ExcuseInv ==
    /\ \A j \in Jobs : job[j] \in JobRow => Refused(job[j])
    /\ \A w \in Workers, k \in CacheKeys : cache[w][k] # None => TokenExcused(w, k, cache[w][k])

LinkInv == FitInv /\ CallInv /\ HeldInv /\ ExcuseInv

(* What the programs are *)

\* What is neither sent nor put.
Ordinary == {"get", "change", "touch", "refuse", "check", "copy", "export", "delete"}

LEMMA Joined == \A S : \A p, q \in Seq(S) : p \o q \in Seq(S)
BY ConcatProperties

LEMMA PlainIsWhole == \A p \in Seq(Plain) : p \in Seq(CallNames) /\ Whole(p)
<1> SUFFICES ASSUME NEW p \in Seq(Plain) PROVE p \in Seq(CallNames) /\ Whole(p)
  OBVIOUS
<1>1. \A i \in DOMAIN p : p[i] \in Plain
  OBVIOUS
<1>2. p \in Seq(CallNames)
  BY DEF CallNames
<1> QED BY <1>1, <1>2 DEF Whole, Plain

\* The operations: all but a conversion are plain.
LEMMA PlainCalls ==
    /\ {Get, Change, Touch, Put, Send, Refuse, IsShared, <<>>} \subseteq Seq(Plain)
    /\ \A b \in BOOLEAN : Compose(b) \in Seq(Plain)
    /\ \A b \in BOOLEAN : CreateDraft(b) \in Seq(Plain) /\ SendMessage(b) \in Seq(Plain)
    /\ \A b \in BOOLEAN : DriveAttachments(b) \in Seq(Plain)
    /\ Get \o Get \in Seq(Plain) /\ Get \o Change \in Seq(Plain)
    /\ \A b \in BOOLEAN : Upload(b) \in Seq(Plain) /\ SaveAttachment(b) \in Seq(Plain)
    /\ \A b \in BOOLEAN : CreateDocument(b) \in Seq(Plain)
<1>1. {Get, Change, Touch, Put, Send, Refuse, IsShared, <<>>} \subseteq Seq(Plain)
  BY DEF Get, Change, Touch, Put, Send, Refuse, IsShared, Plain
<1>2. \A p, q \in Seq(Plain) : p \o q \in Seq(Plain)
  BY Joined
<1>3. \A b \in BOOLEAN : Compose(b) \in Seq(Plain)
  BY <1>1 DEF Compose, Which
<1>4. \A b \in BOOLEAN : CreateDraft(b) \in Seq(Plain) /\ SendMessage(b) \in Seq(Plain)
  BY <1>1, <1>2, <1>3 DEF CreateDraft, SendMessage
<1>5. Get \o Get \in Seq(Plain) /\ Get \o Change \in Seq(Plain)
  BY <1>1, <1>2
<1>6. \A b \in BOOLEAN : DriveAttachments(b) \in Seq(Plain)
  <2> TAKE b \in BOOLEAN
  <2>1. Which(b, Refuse, <<>>) \in Seq(Plain)
    BY <1>1 DEF Which
  <2>2. Get \in Seq(Plain)
    BY <1>1
  <2>3. (Get \o Get) \o Get \in Seq(Plain)
    BY <1>2, <1>5, <2>2
  <2>4. ((Get \o Get) \o Get) \o Get \in Seq(Plain)
    BY <1>2, <2>2, <2>3
  <2> QED BY <1>2, <2>1, <2>4 DEF DriveAttachments
<1>7. \A b \in BOOLEAN : Upload(b) \in Seq(Plain)
  BY <1>1 DEF Upload, Which
<1>8. \A b \in BOOLEAN : SaveAttachment(b) \in Seq(Plain)
  BY <1>1, <1>2, <1>7 DEF SaveAttachment, AttachmentBytes
<1>9. \A b \in BOOLEAN : CreateDocument(b) \in Seq(Plain)
  <2> TAKE b \in BOOLEAN
  <2>1. Which(b, Change, <<>>) \in Seq(Plain)
    BY <1>1 DEF Which
  <2> QED BY <1>1, <1>2, <2>1 DEF CreateDocument
<1> QED BY <1>1, <1>3, <1>4, <1>5, <1>6, <1>7, <1>8, <1>9

\* Reading a file by conversion: four calls, in this order.
LEMMA ConversionIsWhole ==
    /\ ReadFile("convertible") = <<"get", "copy", "export", "delete">>
    /\ ReadFile("convertible") \in Seq(CallNames) /\ Whole(ReadFile("convertible"))
    /\ \A m \in {"google", "text", "other"} : ReadFile(m) \in Seq(Plain)
<1>1. ReadFile("convertible") = <<"get", "copy", "export", "delete">>
  <2>1. ReadFile("convertible") = Get \o TextByConversion
    BY DEF ReadFile
  <2> QED BY <2>1 DEF Get, TextByConversion
<1>2. /\ <<"get", "copy", "export", "delete">> \in Seq(CallNames)
      /\ Whole(<<"get", "copy", "export", "delete">>)
  BY DEF Whole, CallNames, Plain
<1>3. ASSUME NEW m \in {"google", "text", "other"} PROVE ReadFile(m) \in Seq(Plain)
  <2>1. CASE m = "other"
    <3>1. ReadFile(m) = Get \o <<>>
      BY <2>1 DEF ReadFile
    <3> QED BY <3>1, PlainCalls, Joined
  <2>2. CASE m # "other"
    <3>1. ReadFile(m) = Get \o Get
      BY <2>2 DEF ReadFile
    <3> QED BY <3>1, PlainCalls
  <2> QED BY <2>1, <2>2
<1> QED BY <1>1, <1>2, <1>3

LEMMA MailIsPlain == SendRoute \subseteq Seq(Plain) /\ DraftRoute \subseteq Seq(Plain)
<1> DEFINE files == EachOf(DriveAttachments) \cup {<<>>}
<1>1. \A f \in files : f \in Seq(Plain)
  BY PlainCalls DEF EachOf
<1>2. SendRoute = {f \o SendMessage(r) : f \in files, r \in BOOLEAN}
  BY DEF SendRoute
<1>3. DraftRoute = {f \o CreateDraft(r) : f \in files, r \in BOOLEAN}
  BY DEF DraftRoute
<1> HIDE DEF files
<1>4. ASSUME NEW f \in files, NEW r \in BOOLEAN
      PROVE  f \o SendMessage(r) \in Seq(Plain) /\ f \o CreateDraft(r) \in Seq(Plain)
  BY <1>1, Joined, PlainCalls
<1>5. ASSUME NEW p \in SendRoute PROVE p \in Seq(Plain)
  <2>1. PICK f \in files, r \in BOOLEAN : p = f \o SendMessage(r)
    BY <1>2
  <2> QED BY <1>4, <2>1
<1>6. ASSUME NEW p \in DraftRoute PROVE p \in Seq(Plain)
  <2>1. PICK f \in files, r \in BOOLEAN : p = f \o CreateDraft(r)
    BY <1>3
  <2> QED BY <1>4, <2>1
<1> QED BY <1>5, <1>6

LEMMA AppIsWhole == \A p \in AppPrograms : p \in Seq(CallNames) /\ Whole(p)
<1> USE PlainCalls DEF EachOf
<1>3. GmailRoutes \subseteq Seq(Plain)
  BY MailIsPlain DEF GmailRoutes, ListMessages, ReadMessage, ListDrafts, SendDraft, ReadAttachment, AttachmentBytes,
     ListLabels, CreateLabel, ModifyLabels, TrashMessage, UntrashMessage, ListFilters, DeleteFilter,
     ArchiveMessage, CreateFilter, Which
<1>4. CalendarRoutes \subseteq Seq(Plain)
  BY DEF CalendarRoutes, ListEvents, DeleteEvent, CreateEvent, UpdateEvent, Which
<1>5. \A p \in DriveRoutes : p \in Seq(Plain) \/ p = ReadFile("convertible")
  BY ConversionIsWhole DEF DriveRoutes, SearchFiles, WriteFile, CopyFile, SetTrashed, ListPermissions, UnshareFile,
     CreateFile, CreateFolder, UpdateFile, ShareFile, Which
<1>6. DocsRoutes \subseteq Seq(Plain)
  BY DEF DocsRoutes, AppendToDocument, ReplaceInDocument, CreateSpreadsheet, CreatePresentation, AddSlide,
     ReadRange, WriteRange, AppendRows, Which
<1>7. PeopleRoutes \subseteq Seq(Plain)
  BY DEF PeopleRoutes, SearchContacts, CreateContact, ListTaskLists, ListTasks, CreateTask, UpdateTask,
     UpdateContact, Which
<1> QED BY <1>3, <1>4, <1>5, <1>6, <1>7, PlainIsWhole, ConversionIsWhole DEF AppPrograms

Sendless == Ordinary \cup {"put"}

\* The actions the work thread may name, by what stands in their programs.
Inviting == {"calendar_create", "calendar_update"}
Writing == {"sheets_write", "sheets_append"}

LEMMA OrdinaryCalls ==
    /\ Seq(Ordinary) \subseteq Seq(Sendless)
    /\ {Get, Change, Touch, <<>>} \subseteq Seq(Ordinary) /\ Put \in Seq(Sendless)
    /\ \A p, q \in Seq(Ordinary) : p \o q \in Seq(Ordinary)
    /\ \A p, q \in Seq(Sendless) : p \o q \in Seq(Sendless)
    /\ Get \o Get \in Seq(Ordinary) /\ Get \o Change \in Seq(Ordinary)
    /\ \A b \in BOOLEAN : CreateDraft(b) \in Seq(Ordinary) /\ CreateDocument(b) \in Seq(Ordinary)
    /\ \A m \in {"google", "text", "convertible", "other"} : ReadFile(m) \in Seq(Ordinary)
    /\ \A b \in BOOLEAN : Upload(b) \in Seq(Sendless) /\ SaveAttachment(b) \in Seq(Sendless)
<1>1. Seq(Ordinary) \subseteq Seq(Sendless)
  BY DEF Sendless
<1>2. {Get, Change, Touch, Refuse, <<>>} \subseteq Seq(Ordinary) /\ Put \in Seq(Sendless)
  BY DEF Get, Change, Touch, Put, Refuse, Ordinary, Sendless
<1>3. \A S : \A p, q \in Seq(S) : p \o q \in Seq(S)
  BY Joined
<1>4. Get \o Get \in Seq(Ordinary) /\ Get \o Change \in Seq(Ordinary)
  BY <1>2, <1>3
<1>5. ASSUME NEW b \in BOOLEAN PROVE CreateDraft(b) \in Seq(Ordinary) /\ CreateDocument(b) \in Seq(Ordinary)
  <2>1. Compose(b) \in Seq(Ordinary) /\ Which(b, Change, <<>>) \in Seq(Ordinary)
    BY <1>2 DEF Compose, Which
  <2> QED BY <1>2, <1>3, <2>1 DEF CreateDraft, CreateDocument
<1>6. ASSUME NEW m \in {"google", "text", "convertible", "other"} PROVE ReadFile(m) \in Seq(Ordinary)
  <2>1. CASE m = "convertible"
    <3>1. <<"get", "copy", "export", "delete">> \in Seq(Ordinary)
      BY DEF Ordinary
    <3> QED BY <2>1, <3>1, ConversionIsWhole
  <2>2. CASE m = "other"
    <3>1. ReadFile(m) = Get \o <<>>
      BY <2>2 DEF ReadFile
    <3> QED BY <1>2, <1>3, <3>1
  <2>3. CASE m \in {"google", "text"}
    <3>1. ReadFile(m) = Get \o Get
      BY <2>3 DEF ReadFile
    <3> QED BY <1>4, <3>1
  <2> QED BY <2>1, <2>2, <2>3
<1>7. ASSUME NEW b \in BOOLEAN PROVE Upload(b) \in Seq(Sendless) /\ SaveAttachment(b) \in Seq(Sendless)
  <2>1. Upload(b) \in Seq(Sendless) /\ AttachmentBytes \in Seq(Sendless)
    BY <1>1, <1>2 DEF Upload, Which, AttachmentBytes
  <2> QED BY <1>3, <2>1 DEF SaveAttachment
<1> QED BY <1>1, <1>2, <1>3, <1>4, <1>5, <1>6, <1>7


\* What the actions of the table come to: most neither send nor put.
Everyday == {"gmail_search", "gmail_read", "gmail_attachment", "gmail_labels",
            "gmail_create_label", "gmail_label", "gmail_archive", "gmail_trash",
            "gmail_untrash", "gmail_drafts", "gmail_filters", "calendar_list",
            "calendar_delete", "drive_search", "drive_copy", "drive_trash",
            "drive_permissions", "sheets_create", "slides_create", "contacts_search",
            "contacts_create", "tasks_lists", "tasks_list", "tasks_create",
            "tasks_update"}
Putting == {"drive_write", "docs_append", "docs_replace", "slides_add"}
Placing == {"drive_create", "drive_folder", "drive_update"}
Refusing == {"sheets_read", "contacts_update"}

LEMMA TableOfActions ==
    DOMAIN ALLOWED = Everyday \cup Putting \cup Placing \cup Refusing \cup Inviting \cup Writing
        \cup {"gmail_save_attachment", "gmail_draft", "docs_create", "drive_read"}
BY DEF ALLOWED, Everyday, Putting, Placing, Refusing, Inviting, Writing

\* No action has a program that reaches others, but to write a formula or invite somebody.
LEMMA AllowedCalls ==
    ASSUME NEW a \in DOMAIN ALLOWED, NEW p \in ALLOWED[a]
    PROVE  /\ a \in Inviting => p \in {Send, Change, Touch}
           /\ a \in Writing => p \in {Send, Put}
           /\ a \notin Inviting \cup Writing => p \in Seq(Sendless)
           /\ a \notin Inviting \cup PUTS_INTO => p \in Seq(Ordinary)
           /\ p \in Seq(Plain) \/ p = ReadFile("convertible")
<1>1. CASE a \in Everyday
  <2>1. p \in {Get, Change, Touch, Get \o Get}
    <3>1. CASE a \in {"gmail_search", "gmail_read", "gmail_attachment", "gmail_labels",
                      "gmail_create_label"}
      BY <3>1 DEF ALLOWED, CreateLabel, ListLabels, ListMessages, ReadAttachment,
         ReadMessage, AttachmentBytes
    <3>2. CASE a \in {"gmail_label", "gmail_archive", "gmail_trash", "gmail_untrash",
                      "gmail_drafts"}
      BY <3>2 DEF ALLOWED, ArchiveMessage, ListDrafts, ModifyLabels, TrashMessage,
         UntrashMessage
    <3>3. CASE a \in {"gmail_filters", "calendar_list", "calendar_delete",
                      "drive_search", "drive_copy"}
      BY <3>3 DEF ALLOWED, CopyFile, DeleteEvent, ListEvents, ListFilters, SearchFiles
    <3>4. CASE a \in {"drive_trash", "drive_permissions", "sheets_create",
                      "slides_create", "contacts_search"}
      BY <3>4 DEF ALLOWED, CreatePresentation, CreateSpreadsheet, ListPermissions,
         SearchContacts, SetTrashed
    <3>5. CASE a \in {"contacts_create", "tasks_lists", "tasks_list", "tasks_create",
                      "tasks_update"}
      BY <3>5 DEF ALLOWED, CreateContact, CreateTask, ListTaskLists, ListTasks, UpdateTask
    <3> QED BY <1>1, <3>1, <3>2, <3>3, <3>4, <3>5 DEF Everyday
  <2>2. a \notin Inviting \cup Writing
    BY <1>1 DEF Everyday, Inviting, Writing
  <2> QED BY <2>1, <2>2, OrdinaryCalls, PlainCalls
<1>2. CASE a \in Putting
  <2>1. p = Put
    BY <1>2 DEF ALLOWED, AddSlide, AppendToDocument, ReplaceInDocument, WriteFile, Putting
  <2>2. a \notin Inviting \cup Writing /\ a \in PUTS_INTO
    BY <1>2 DEF Putting, Inviting, Writing, PUTS_INTO
  <2> QED BY <2>1, <2>2, OrdinaryCalls, PlainCalls
<1>3. CASE a \in Placing
  <2>1. p \in {Put, Change, Touch}
    BY <1>3 DEF ALLOWED, CreateFile, CreateFolder, UpdateFile, Placing, EachOf, Upload,
       Which
  <2>2. a \notin Inviting \cup Writing /\ a \in PUTS_INTO
    BY <1>3 DEF Placing, Inviting, Writing, PUTS_INTO
  <2> QED BY <2>1, <2>2, OrdinaryCalls, PlainCalls
<1>4. CASE a \in Refusing
  <2>1. p \in {Get, Refuse, Get \o Change}
    BY <1>4 DEF ALLOWED, Refusing, EachOf, ReadRange, UpdateContact, Which
  <2>2. a \notin Inviting \cup Writing /\ Refuse \in Seq(Ordinary)
    BY <1>4 DEF Refusing, Inviting, Writing, Refuse, Ordinary
  <2> QED BY <2>1, <2>2, OrdinaryCalls, PlainCalls
<1>5. CASE a \in Inviting
  <2>1. p \in {Send, Change, Touch}
    BY <1>5 DEF ALLOWED, Inviting, EachOf, CreateEvent, UpdateEvent, Which
  <2>2. a \notin Writing
    BY <1>5 DEF Inviting, Writing
  <2> QED BY <1>5, <2>1, <2>2, PlainCalls
<1>6. CASE a \in Writing
  <2>1. p \in {Send, Put}
    BY <1>6 DEF ALLOWED, Writing, EachOf, WriteRange, AppendRows, Which
  <2>2. a \notin Inviting /\ a \in PUTS_INTO
    BY <1>6 DEF Inviting, Writing, PUTS_INTO
  <2> QED BY <1>6, <2>1, <2>2, PlainCalls
<1>7. CASE a = "gmail_save_attachment"
  <2>1. p \in {SaveAttachment(b) : b \in BOOLEAN}
    BY <1>7 DEF ALLOWED, EachOf
  <2>2. a \notin Inviting \cup Writing /\ a \in PUTS_INTO
    BY <1>7 DEF Inviting, Writing, PUTS_INTO
  <2> QED BY <2>1, <2>2, OrdinaryCalls, PlainCalls
<1>8. CASE a \in {"gmail_draft", "docs_create"}
  <2>1. p \in {CreateDraft(b) : b \in BOOLEAN} \cup {CreateDocument(b) : b \in BOOLEAN}
    BY <1>8 DEF ALLOWED, EachOf
  <2>2. a \notin Inviting \cup Writing
    BY <1>8 DEF Inviting, Writing
  <2> QED BY <2>1, <2>2, OrdinaryCalls, PlainCalls
<1>9. CASE a = "drive_read"
  <2>1. PICK m \in {"google", "text", "convertible", "other"} : p = ReadFile(m)
    BY <1>9 DEF ALLOWED
  <2>2. a \notin Inviting \cup Writing
    BY <1>9 DEF Inviting, Writing
  <2> QED BY <2>1, <2>2, OrdinaryCalls, ConversionIsWhole
<1> QED BY <1>1, <1>2, <1>3, <1>4, <1>5, <1>6, <1>7, <1>8, <1>9, TableOfActions

\* What a check or a refusal stands before, what is neither sent nor put, and what is refused.
LEMMA GuardedCalls ==
    /\ \A p \in Seq(Ordinary) : Guarded(p) /\ Guarded(<<>> \o p)
    /\ \A p \in Seq(Sendless) : Guarded(IsShared \o p) /\ (~Contains(p, "put") => Guarded(<<>> \o p))
    /\ \A p \in Seq(CallNames) : Guarded(Refuse \o p)
    /\ Guarded(Refuse)
<1>1. ASSUME NEW p \in Seq(Ordinary) PROVE Guarded(p) /\ Guarded(<<>> \o p)
  <2>1. \A i \in DOMAIN p : p[i] \in Ordinary
    OBVIOUS
  <2>2. <<>> \o p = p
    BY ConcatEmptySeq
  <2> QED BY <2>1, <2>2 DEF Guarded, Ordinary
<1>2. ASSUME NEW p \in Seq(Sendless)
      PROVE  Guarded(IsShared \o p) /\ (~Contains(p, "put") => Guarded(<<>> \o p))
  <2>1. \A i \in 1..Len(p) : p[i] \in Ordinary \/ p[i] = "put"
    BY DEF Sendless
  <2>2. <<>> \o p = p /\ DOMAIN p = 1..Len(p)
    BY ConcatEmptySeq
  <2>3. ~Contains(p, "put") => Guarded(<<>> \o p)
    BY <2>1, <2>2 DEF Guarded, Ordinary, Contains
  <2>4. /\ Len(IsShared \o p) = Len(p) + 1 /\ (IsShared \o p)[1] = "check"
        /\ \A i \in 2..(Len(p) + 1) : (IsShared \o p)[i] = p[i - 1]
    BY ConcatProperties DEF IsShared
  <2>5. DOMAIN (IsShared \o p) = 1..(Len(p) + 1)
    BY <2>4 DEF IsShared
  <2>6. \A i \in 2..(Len(p) + 1) : i - 1 \in 1..Len(p) /\ 1 \in 1..(i - 1)
    OBVIOUS
  <2>7. \A i \in DOMAIN (IsShared \o p) : i = 1 \/ i \in 2..(Len(p) + 1)
    BY <2>5
  <2>8. Guarded(IsShared \o p)
    <3> DEFINE q == IsShared \o p
    <3>1. ASSUME NEW i \in DOMAIN q, q[i] \in {"send", "put"}
          PROVE  i # 1 /\ q[i] = "put"
      <4>1. i # 1
        BY <2>4, <3>1
      <4>2. q[i] = p[i - 1] /\ i - 1 \in 1..Len(p)
        BY <2>4, <2>6, <2>7, <4>1
      <4>3. p[i - 1] # "send"
        BY <2>1, <4>2 DEF Ordinary
      <4> QED BY <3>1, <4>1, <4>2, <4>3
    <3>2. \A i \in DOMAIN q : i # 1 => 1 \in 1..(i - 1)
      BY <2>6, <2>7
    <3>3. q[1] = "check"
      BY <2>4
    <3> HIDE DEF q
    <3>4. Guarded(q)
      BY <3>1, <3>2, <3>3 DEF Guarded
    <3> QED BY <3>4 DEF q
  <2> QED BY <2>3, <2>8
<1>3. ASSUME NEW p \in Seq(CallNames) PROVE Guarded(Refuse \o p)
  <2>1. /\ Len(Refuse \o p) = Len(p) + 1 /\ (Refuse \o p)[1] = "refuse"
        /\ DOMAIN (Refuse \o p) = 1..(Len(p) + 1)
    BY ConcatProperties DEF Refuse
  <2>2. \A i \in 1..(Len(p) + 1) : i = 1 \/ 1 \in 1..(i - 1)
    OBVIOUS
  <2> QED BY <2>1, <2>2 DEF Guarded
<1>4. Guarded(Refuse)
  BY DEF Guarded, Refuse
<1> QED BY <1>1, <1>2, <1>3, <1>4

LEMMA WorkCalls == \A p \in WorkPrograms : p \in Seq(CallNames) /\ Whole(p) /\ Guarded(p)
<1> SUFFICES ASSUME NEW a \in DOMAIN ALLOWED, NEW p \in ALLOWED[a]
             PROVE  LET q == WorkerCall(a, p) IN q \in Seq(CallNames) /\ Whole(q) /\ Guarded(q)
  BY DEF WorkPrograms
<1>1. Refuse \in Seq(Plain) /\ IsShared \in Seq(Plain) /\ <<>> \in Seq(Plain)
  BY PlainCalls
<1>2. PICK before \in {Refuse, IsShared, <<>>} : before = RefuseWhatReachesOthers(a, p)
  BY DEF RefuseWhatReachesOthers
<1>3. WorkerCall(a, p) = Refuse \/ WorkerCall(a, p) = before \o p
  BY <1>2 DEF WorkerCall
<1>4. CASE WorkerCall(a, p) = Refuse
  BY <1>1, <1>4, PlainIsWhole, GuardedCalls
<1>5. CASE p = ReadFile("convertible")
  <2>1. ~Contains(p, "send") /\ ~Contains(p, "put")
    <3>1. p = <<"get", "copy", "export", "delete">>
      BY <1>5, ConversionIsWhole
    <3> QED BY <3>1 DEF Contains
  <2>2. WorkerCall(a, p) = <<>> \o p
    BY <2>1 DEF WorkerCall, RefuseWhatReachesOthers
  <2>3. p \in Seq(CallNames) /\ p \in Seq(Ordinary) /\ Whole(p)
    BY <1>5, ConversionIsWhole, OrdinaryCalls
  <2>4. <<>> \o p = p
    BY <2>3, ConcatEmptySeq
  <2> QED BY <2>2, <2>3, <2>4, GuardedCalls
<1>6. CASE p \in Seq(Plain) /\ WorkerCall(a, p) = before \o p
  <2>1. before \o p \in Seq(Plain)
    BY <1>1, <1>6, Joined
  <2>2. WorkerCall(a, p) \in Seq(CallNames) /\ Whole(WorkerCall(a, p))
    BY <1>6, <2>1, PlainIsWhole
  <2>3. CASE a \in Inviting
    <3>1. p \in {Send, Change, Touch}
      BY <2>3, AllowedCalls
    <3>2. CASE p = Send
      <4>1. Contains(p, "send")
        BY <3>2 DEF Contains, Send
      <4>2. WorkerCall(a, p) = Refuse
        BY <2>3, <4>1 DEF WorkerCall, Inviting
      <4> QED BY <2>2, <4>2, GuardedCalls
    <3>3. CASE p \in {Change, Touch}
      <4>1. before = <<>>
        BY <1>2, <2>3 DEF RefuseWhatReachesOthers, Inviting, PUTS_INTO
      <4> QED BY <1>6, <2>2, <3>3, <4>1, GuardedCalls, OrdinaryCalls
    <3> QED BY <3>1, <3>2, <3>3
  <2>4. CASE a \in Writing
    <3>1. p = Put \/ p = Send
      BY <2>4, AllowedCalls
    <3>2. a \in PUTS_INTO
      BY <2>4 DEF Writing, PUTS_INTO
    <3>3. CASE p = Send
      <4>1. Contains(p, "send") /\ ~Contains(p, "put")
        BY <3>3 DEF Contains, Send
      <4>2. before = Refuse
        BY <1>2, <2>4, <4>1 DEF RefuseWhatReachesOthers, Writing
      <4>3. p \in Seq(CallNames)
        BY <1>6, PlainIsWhole
      <4> QED BY <1>6, <2>2, <4>2, <4>3, GuardedCalls
    <3>4. CASE p = Put
      <4>1. Contains(p, "put") /\ ~Contains(p, "send")
        BY <3>4 DEF Contains, Put
      <4>2. before = IsShared
        BY <1>2, <3>2, <4>1 DEF RefuseWhatReachesOthers
      <4> QED BY <1>6, <2>2, <3>4, <4>2, GuardedCalls, OrdinaryCalls
    <3> QED BY <3>1, <3>3, <3>4
  <2>5. CASE a \in PUTS_INTO /\ a \notin Inviting \cup Writing
    <3>1. p \in Seq(Sendless)
      BY <2>5, AllowedCalls
    <3>2. before = IF Contains(p, "put") THEN IsShared ELSE <<>>
      BY <1>2, <2>5 DEF RefuseWhatReachesOthers, Writing
    <3> QED BY <1>6, <2>2, <3>1, <3>2, GuardedCalls
  <2>6. CASE a \notin PUTS_INTO \cup Inviting \cup Writing
    <3>1. p \in Seq(Ordinary)
      BY <2>6, AllowedCalls
    <3>2. before = <<>>
      BY <1>2, <2>6 DEF RefuseWhatReachesOthers, Writing
    <3> QED BY <1>6, <2>2, <3>1, <3>2, GuardedCalls
  <2> QED BY <2>3, <2>4, <2>5, <2>6
<1> QED BY <1>3, <1>4, <1>5, <1>6, AllowedCalls

\* What a request of the menu asks of Google.
LEMMA MenuCalls ==
    \A m \in Menu : /\ m.calls \in Seq(CallNames) /\ Whole(m.calls)
                    /\ m.kind = "work" => Guarded(m.calls)
<1> TAKE m \in Menu
<1>1. m.calls \in AppPrograms \cup WorkPrograms \cup {<<>>}
      /\ (m.kind = "work" => m.calls \in WorkPrograms)
  BY GoogleAssumption
<1>2. <<>> \in Seq(CallNames) /\ Whole(<<>>)
  BY DEF Whole
<1> QED BY <1>1, <1>2, AppIsWhole, WorkCalls

(* How a request moves *)

Alike(s, r) ==
    /\ r.kind = s.kind /\ r.user = s.user /\ r.by = s.by /\ r.worker = s.worker
    /\ r.asked = s.asked /\ r.calls = s.calls

Turn(s, r, pc, row, token) ==
    /\ r \in JobRow /\ Alike(s, r) /\ r.at = pc /\ r.row = row /\ r.token = token
    /\ r.why = s.why /\ r.i = s.i /\ r.hits = s.hits /\ r.sawPrivate = s.sawPrivate
    /\ r.failing = s.failing /\ r.revoked = s.revoked

Stop(s, r, why) ==
    /\ r \in JobRow /\ Alike(s, r) /\ r.at = "ended" /\ r.why = why
    /\ r.row = s.row /\ r.token = s.token /\ r.i = s.i /\ r.hits = s.hits
    /\ r.sawPrivate = s.sawPrivate /\ r.failing = s.failing /\ r.revoked = s.revoked

\* The call that failed was a reading of a copy: on to its deletion.
Skip(s, r, why) ==
    /\ r \in JobRow /\ Alike(s, r) /\ r.at = "call" /\ r.why = why /\ r.i = s.i + 1 /\ r.failing
    /\ s.i \in DOMAIN s.calls /\ s.calls[s.i] = "export"
    /\ r.row = s.row /\ r.token = s.token /\ r.hits = s.hits
    /\ r.sawPrivate = s.sawPrivate /\ r.revoked = s.revoked

\* A call was made: what it did, and what the request knows of it.
CallMade(s, r) ==
    /\ r \in JobRow /\ Alike(s, r) /\ r.row = s.row /\ r.token = s.token /\ r.revoked = s.revoked
    /\ \/ /\ s.calls[s.i] = "check" /\ shared /\ r.at = "ended" /\ r.why = "turned away"
          /\ r.i = s.i /\ r.sawPrivate = s.sawPrivate /\ r.failing = s.failing
       \/ /\ ~(s.calls[s.i] = "check" /\ shared)
          /\ r.at = "call" /\ r.why = s.why /\ r.i = s.i + 1 /\ r.failing = s.failing
          /\ r.sawPrivate = (s.sawPrivate \/ s.calls[s.i] = "check")
       \/ /\ s.calls[s.i] = "export" /\ r.at = "call" /\ r.why = "no answer" /\ r.i = s.i + 1
          /\ r.failing /\ r.sawPrivate = s.sawPrivate
       \/ /\ s.calls[s.i] # "export" /\ r.at = "ended" /\ r.why = "no answer" /\ r.i = s.i
          /\ r.sawPrivate = s.sawPrivate /\ r.failing = s.failing

Moved(j, r) == job' = [job EXCEPT ![j] = r]

LEMMA InGrants ==
    \A g : g \in GrantsIn(rows) <=> \E u \in LinkUsers : \E i \in DOMAIN rows[u] : g = rows[u][i].grant
BY DEF GrantsIn

LEMMA TurnTo ==
    ASSUME NEW s \in JobRow, NEW pc \in Pcs \ {"absent"}
    PROVE  Turn(s, [s EXCEPT !.at = pc], pc, s.row, s.token)
BY DEF Turn, Alike, JobRow

LEMMA TurnWithToken ==
    ASSUME NEW s \in JobRow, NEW pc \in Pcs \ {"absent"}, NEW g \in Grants
    PROVE  /\ Turn(s, [s EXCEPT !.at = pc, !.token = g], pc, s.row, g)
           /\ Turn(s, [s EXCEPT !.token = g, !.at = pc], pc, s.row, g)
BY DEF Turn, Alike, JobRow

LEMMA TurnWithRow ==
    ASSUME NEW s \in JobRow, NEW pc \in Pcs \ {"absent"}, NEW x \in LinkRow
    PROVE  Turn(s, [s EXCEPT !.row = x, !.at = pc], pc, x, s.token)
BY DEF Turn, Alike, JobRow

LEMMA StopFor ==
    ASSUME NEW s \in JobRow, NEW why \in Whys \cup {None}
    PROVE  Stop(s, [s EXCEPT !.at = "ended", !.why = why], why)
BY DEF Stop, Alike, JobRow, Pcs

LEMMA SkipFor ==
    ASSUME NEW s \in JobRow, NEW why \in Whys, s.i \in DOMAIN s.calls, s.calls[s.i] = "export"
    PROVE  Skip(s, [s EXCEPT !.at = "call", !.i = @ + 1, !.failing = TRUE, !.why = why], why)
<1> DEFINE r == [s EXCEPT !.at = "call", !.i = @ + 1, !.failing = TRUE, !.why = why]
<1>1. s.i \in Nat \ {0} /\ s.i + 1 \in Nat \ {0} /\ "call" \in Pcs \ {"absent"}
  BY DEF JobRow, Pcs, Calling
<1>2. r \in JobRow
  BY <1>1 DEF JobRow
<1>3. Alike(s, r) /\ r.at = "call" /\ r.why = why /\ r.i = s.i + 1 /\ r.failing
  BY DEF Alike, JobRow
<1>4. /\ r.row = s.row /\ r.token = s.token /\ r.hits = s.hits
      /\ r.sawPrivate = s.sawPrivate /\ r.revoked = s.revoked
  BY DEF JobRow
<1> QED BY <1>2, <1>3, <1>4 DEF Skip

\* The row of a request that is somewhere.
LEMMA Present ==
    ASSUME LinkTypes, NEW j \in Jobs, job[j].at # "absent"
    PROVE  job[j] \in JobRow
BY DEF LinkTypes, NoJob

LEMMA Goes ==
    ASSUME LinkTypes, NEW j \in Jobs, job[j] \in JobRow, NEW pc \in Pcs \ {"absent"}, Go(j, pc)
    PROVE  \E r : Moved(j, r) /\ Turn(job[j], r, pc, job[j].row, job[j].token)
<1>1. Moved(j, [job[j] EXCEPT !.at = pc])
  BY DEF Moved, Go, LinkTypes
<1>2. Turn(job[j], [job[j] EXCEPT !.at = pc], pc, job[j].row, job[j].token)
  BY TurnTo
<1> QED BY <1>1, <1>2

LEMMA Ends ==
    ASSUME LinkTypes, NEW j \in Jobs, job[j] \in JobRow, NEW why \in Whys \cup {None}, End(j, why)
    PROVE  \E r : Moved(j, r) /\ Stop(job[j], r, why)
<1>1. Moved(j, [job[j] EXCEPT !.at = "ended", !.why = why])
  BY DEF Moved, End, LinkTypes
<1>2. Stop(job[j], [job[j] EXCEPT !.at = "ended", !.why = why], why)
  BY StopFor
<1> QED BY <1>1, <1>2

LEMMA Fails ==
    ASSUME LinkTypes, NEW j \in Jobs, job[j] \in JobRow, NEW why \in Whys, Fail(j, why)
    PROVE  \E r : /\ Moved(j, r)
                  /\ \/ Skip(job[j], r, why)
                     \/ /\ Stop(job[j], r, why)
                        /\ job[j].i \in DOMAIN job[j].calls => job[j].calls[job[j].i] # "export"
<1>1. CASE job[j].i \in DOMAIN job[j].calls /\ job[j].calls[job[j].i] = "export"
  <2>1. Moved(j, [job[j] EXCEPT !.at = "call", !.i = @ + 1, !.failing = TRUE, !.why = why])
    BY <1>1 DEF Moved, Fail, What, LinkTypes
  <2> QED BY <1>1, <2>1, SkipFor
<1>2. CASE ~(job[j].i \in DOMAIN job[j].calls /\ job[j].calls[job[j].i] = "export")
  <2>1. Moved(j, [job[j] EXCEPT !.at = "ended", !.why = why])
    BY <1>2 DEF Moved, Fail, What, LinkTypes
  <2> QED BY <1>2, <2>1, StopFor
<1> QED BY <1>1, <1>2

(* What a move of one request leaves as it was *)

FewerLinks ==
    \A u \in LinkUsers : \A i \in DOMAIN rows'[u] : \E k \in DOMAIN rows[u] :
        /\ rows'[u][i].email = rows[u][k].email /\ rows'[u][i].grant = rows[u][k].grant
        /\ rows[u][k].flagged => rows'[u][i].flagged

LEMMA NobodyIsNoJob == NoJob \notin JobRow
BY DEF NoJob, JobRow

LEMMA NobodyIsNone == None \notin LinkRow
<1>1. LinkRow \subseteq [email : Emails, flagged : BOOLEAN,
                        grant : [email : Emails, by : LinkUsers, n : Nat]]
  <2>1. Jobs \cup {0} \subseteq Nat
    BY GoogleAssumption
  <2> QED BY <2>1 DEF LinkRow, Grants
<1> QED BY <1>1, GoogleAssumption

LEMMA FitMoves ==
    ASSUME FitInv, NEW j \in Jobs, NEW r \in JobRow, Moved(j, r), JobFits(j, r),
           rows' \in [LinkUsers -> Seq(LinkRow)], live' \in SUBSET Grants,
           cache' \in [Workers -> [CacheKeys -> Grants \cup {None}]],
           shared' \in BOOLEAN, copies' \in SUBSET [job : Jobs, email : Emails],
           faults' \in 0..MaxFaults,
           cut' \in SUBSET (LinkUsers \X Emails), excused' \in SUBSET (Workers \X Grants),
           RowsFit', CacheFits'
    PROVE  FitInv'
<1>1. job' \in [Jobs -> JobRow \cup {NoJob}]
  BY DEF FitInv, LinkTypes, Moved
<1>2. LinkTypes'
  BY <1>1 DEF LinkTypes
<1>3. ASSUME NEW x \in Jobs, job'[x] \in JobRow PROVE JobFits(x, job'[x])
  <2>1. job'[x] = IF x = j THEN r ELSE job[x]
    BY DEF FitInv, LinkTypes, Moved
  <2> QED BY <1>3, <2>1 DEF FitInv
<1> QED BY <1>2, <1>3 DEF FitInv

LEMMA CallMoves ==
    ASSUME LinkTypes, CallInv, NEW j \in Jobs, NEW r \in JobRow, Moved(j, r), JobCalls(r),
           copies' \in SUBSET [job : Jobs, email : Emails],
           \A c \in copies' : (c.job # j /\ c \in copies) \/ (c.job = j /\ CopyFits(r))
    PROVE  CallInv'
<1>1. \A x \in Jobs : job'[x] = IF x = j THEN r ELSE job[x]
  BY DEF LinkTypes, Moved
<1>2. \A x \in Jobs : job'[x] \in JobRow => JobCalls(job'[x])
  BY <1>1 DEF CallInv
<1>3. ASSUME NEW c \in copies' PROVE job'[c.job] \in JobRow /\ CopyFits(job'[c.job])
  <2>1. c.job \in Jobs
    OBVIOUS
  <2> QED BY <1>1, <2>1 DEF CallInv
<1> QED BY <1>2, <1>3 DEF CallInv

LEMMA KnownStays ==
    ASSUME LinkTypes, NEW j \in Jobs, NEW r \in JobRow, Moved(j, r),
           job[j].at \in Consenting \cup {"absent"} \/ r.at \notin Consenting,
           NEW g \in Grants, Known(g)
    PROVE  Known(g)'
<1>1. \A x \in Jobs : job'[x] = IF x = j THEN r ELSE job[x]
  BY DEF LinkTypes, Moved
<1> QED BY <1>1 DEF Known, JobRow

LEMMA HeldMoves ==
    ASSUME LinkTypes, HeldInv, NEW j \in Jobs, NEW r \in JobRow, Moved(j, r),
           job[j].at \in Consenting \cup {"absent"} \/ r.at \notin Consenting,
           \A g \in Grants : Held(g)' => Held(g),
           \A g \in Grants : g \in live' /\ Held(g) => g \in live,
           FewerLinks, RevokedOK(r)',
           \A u \in LinkUsers, e \in Emails : <<u, e>> \in cut' =>
               <<u, e>> \in cut \/ (Gone(u, e) /\ \A i \in DOMAIN rows'[u] : rows'[u][i].email # e)
    PROVE  HeldInv'
<1>1. \A x \in Jobs : job'[x] = IF x = j THEN r ELSE job[x]
  BY DEF LinkTypes, Moved
<1>2. \A g \in Grants : Held(g)' => Known(g)'
  BY KnownStays DEF HeldInv
<1>3. ASSUME NEW u, NEW e, Gone(u, e) PROVE Gone(u, e)'
  BY <1>3 DEF Gone
<1>4. ASSUME NEW u \in LinkUsers, NEW e \in Emails, <<u, e>> \in cut'
      PROVE  Gone(u, e)' /\ \A i \in DOMAIN rows'[u] : rows'[u][i].email # e
  BY <1>3, <1>4 DEF HeldInv, FewerLinks
<1>5. ASSUME NEW x \in Jobs, job'[x] \in JobRow PROVE RevokedOK(job[x])'
  <2>1. CASE x = j
    BY <1>1, <2>1
  <2>2. CASE x # j
    <3>1. PICK s \in JobRow : s = job[x] /\ s = job'[x] /\ RevokedOK(s)
      BY <1>1, <1>5, <2>2 DEF HeldInv
    <3>2. s.user \in LinkUsers
      BY DEF JobRow
    <3>3. RevokedOK(s)'
      BY <1>3, <3>1, <3>2 DEF RevokedOK, FewerLinks
    <3> QED BY <3>1, <3>3
  <2> QED BY <2>1, <2>2
<1> QED BY <1>2, <1>4, <1>5 DEF HeldInv

LEMMA ExcuseMoves ==
    ASSUME LinkTypes, ExcuseInv, NEW j \in Jobs, NEW r \in JobRow, Moved(j, r),
           FewerLinks, Refused(r)',
           \A w \in Workers, k \in CacheKeys : cache'[w][k] # None => TokenExcused(w, k, cache[w][k])'
    PROVE  ExcuseInv'
<1>1. \A x \in Jobs : job'[x] = IF x = j THEN r ELSE job[x]
  BY DEF LinkTypes, Moved
<1>2. ASSUME NEW x \in Jobs, job'[x] \in JobRow PROVE Refused(job[x])'
  <2>1. CASE x = j
    BY <1>1, <2>1
  <2>2. CASE x # j
    <3>1. PICK s \in JobRow : s = job[x] /\ s = job'[x] /\ Refused(s)
      BY <1>1, <1>2, <2>2 DEF ExcuseInv
    <3>2. s.user \in LinkUsers
      BY DEF JobRow
    <3>3. Refused(s)'
      BY <3>1, <3>2 DEF Refused, FewerLinks
    <3> QED BY <3>1, <3>3
  <2> QED BY <2>1, <2>2
<1> QED BY <1>2 DEF ExcuseInv

LEMMA HeldBack ==
    ASSUME LinkTypes, NEW j \in Jobs, NEW r \in JobRow, Moved(j, r), FewerLinks,
           \A w \in Workers, k \in CacheKeys : cache'[w][k] # None => Held(cache'[w][k]),
           \A g \in Grants : Holds(r, g) => Held(g)
    PROVE  \A g \in Grants : Held(g)' => Held(g)
<1> TAKE g \in Grants
<1> SUFFICES ASSUME Held(g)' PROVE Held(g)
  OBVIOUS
<1>1. \A x \in Jobs : job'[x] = IF x = j THEN r ELSE job[x]
  BY DEF LinkTypes, Moved
<1>2. CASE (g \in GrantsIn(rows))'
  <2>0. PICK u \in LinkUsers : \E i \in DOMAIN rows'[u] : g = rows'[u][i].grant
    BY <1>2 DEF GrantsIn
  <2>1. PICK i \in DOMAIN rows'[u] : g = rows'[u][i].grant
    BY <2>0
  <2>2. PICK k \in DOMAIN rows[u] : rows'[u][i].grant = rows[u][k].grant
    BY DEF FewerLinks
  <2> QED BY <2>1, <2>2, InGrants DEF Held
<1>3. CASE \E w \in Workers, k \in CacheKeys : cache'[w][k] # None /\ g = cache'[w][k]
  BY <1>3
<1>4. ASSUME NEW x \in Jobs, job'[x] \in JobRow, Holds(job'[x], g) PROVE Held(g)
  BY <1>1, <1>4 DEF Held
<1> QED BY <1>2, <1>3, <1>4 DEF Held

LEMMA SameRowsFewerLinks == ASSUME rows' = rows PROVE FewerLinks
BY DEF FewerLinks

\* What the row of a request may be after it moved.
Fresh(j, r) ==
    /\ r \in JobRow /\ JobFits(j, r) /\ JobCalls(r)
    /\ job[j].at \in Consenting \cup {"absent"} \/ r.at \notin Consenting
    /\ \A g \in Grants : Holds(r, g) => Held(g)

\* The caches, when nothing but tokens that are held goes into them.
CachesKept ==
    /\ cache' \in [Workers -> [CacheKeys -> Grants \cup {None}]]
    /\ \A w \in Workers, k \in CacheKeys : cache'[w][k] # None =>
         Fits(cache'[w][k], k[1], k[2]) /\ Held(cache'[w][k]) /\ TokenExcused(w, k, cache[w][k])'

\* A step that leaves the rows alone.
LEMMA Quiet ==
    ASSUME LinkInv, NEW j \in Jobs, NEW r, Moved(j, r), Fresh(j, r),
           rows' = rows, cut' = cut, CachesKept,
           live' \in SUBSET Grants, \A g \in Grants : g \in live' /\ Held(g) => g \in live,
           shared' \in BOOLEAN, faults' \in 0..MaxFaults,
           excused' \in SUBSET (Workers \X Grants),
           copies' \in SUBSET [job : Jobs, email : Emails],
           \A c \in copies' : (c.job # j /\ c \in copies) \/ (c.job = j /\ CopyFits(r)),
           RevokedOK(r)', Refused(r)'
    PROVE  LinkInv'
<1>1. r \in JobRow /\ JobFits(j, r) /\ JobCalls(r) /\ LinkTypes
  BY DEF Fresh, LinkInv, FitInv
<1>2. FewerLinks
  BY SameRowsFewerLinks
<1>3. RowsFit' /\ CacheFits'
  BY DEF LinkInv, FitInv, RowsFit, CacheFits, CachesKept
<1>4. FitInv'
  BY <1>1, <1>3, FitMoves DEF LinkInv, FitInv, LinkTypes, CachesKept
<1>5. CallInv'
  BY <1>1, CallMoves DEF LinkInv
<1>6. \A g \in Grants : Held(g)' => Held(g)
  BY <1>1, <1>2, HeldBack DEF CachesKept, Fresh
<1>7. HeldInv'
  BY <1>1, <1>2, <1>6, HeldMoves DEF LinkInv, Fresh
<1>8. ExcuseInv'
  BY <1>1, <1>2, ExcuseMoves DEF LinkInv, CachesKept
<1> QED BY <1>4, <1>5, <1>7, <1>8 DEF LinkInv

\* Tokens of the caches that stay, stay for the same reason.
LEMMA ExcusesStay ==
    ASSUME LinkInv, NEW j \in Jobs, NEW r, Moved(j, r), rows' = rows, excused \subseteq excused',
           job[j].at # "forget",
           NEW w \in Workers, NEW k \in CacheKeys, cache'[w][k] # None, cache'[w][k] = cache[w][k]
    PROVE  Fits(cache'[w][k], k[1], k[2]) /\ Held(cache'[w][k]) /\ TokenExcused(w, k, cache[w][k])'
<1>1. \A x \in Jobs : x # j => job'[x] = job[x]
  BY DEF LinkInv, FitInv, LinkTypes, Moved
<1>2. Fits(cache[w][k], k[1], k[2]) /\ TokenExcused(w, k, cache[w][k]) /\ Held(cache[w][k])
  BY DEF LinkInv, FitInv, CacheFits, ExcuseInv, Held
<1> QED BY <1>1, <1>2 DEF TokenExcused, At

\* A step that moves one request and nothing else.
LEMMA Still ==
    ASSUME LinkInv, NEW j \in Jobs, NEW r, Moved(j, r), Fresh(j, r),
           UNCHANGED <<rows, google, cache, ghosts>>, faults' \in 0..MaxFaults,
           job[j].at # "forget",
           \A c \in copies : c.job = j => CopyFits(r),
           RevokedOK(r)', Refused(r)'
    PROVE  LinkInv'
<1>1. CachesKept
  BY ExcusesStay DEF CachesKept, ghosts, LinkInv, FitInv, LinkTypes
<1>2. /\ live' \in SUBSET Grants /\ shared' \in BOOLEAN
      /\ excused' \in SUBSET (Workers \X Grants) /\ copies' \in SUBSET [job : Jobs, email : Emails]
  BY DEF LinkInv, FitInv, LinkTypes, google, ghosts
<1> QED BY <1>1, <1>2, Quiet DEF google, ghosts

(* The moves of a request *)

\* A move after which the request's row is as it should be.
Sound(j, r) ==
    /\ Moved(j, r) /\ Fresh(j, r)
    /\ \A c \in copies : c.job = j => CopyFits(r)

LEMMA Facts ==
    ASSUME LinkInv, NEW j \in Jobs, job[j] \in JobRow
    PROVE  /\ JobFits(j, job[j]) /\ JobCalls(job[j]) /\ RevokedOK(job[j]) /\ Refused(job[j])
           /\ \A c \in copies : c.job = j => CopyFits(job[j])
           /\ \A g \in Grants : Holds(job[j], g) => Held(g)
           /\ LinkTypes
BY DEF LinkInv, FitInv, CallInv, HeldInv, ExcuseInv, Held

LEMMA StopIsSound ==
    ASSUME LinkInv, NEW j \in Jobs, NEW s \in JobRow, s = job[j], s.at # "ended",
           NEW why, why # "ok", NEW r, Moved(j, r), Stop(s, r, why),
           s.i \in DOMAIN s.calls => s.calls[s.i] # "export"
    PROVE  Sound(j, r) /\ RevokedOK(r)'
<1>1. /\ JobFits(j, s) /\ JobCalls(s)
      /\ \A c \in copies : c.job = j => CopyFits(s)
      /\ \A g \in Grants : Holds(s, g) => Held(g)
  BY Facts
<1>2. JobFits(j, r)
  BY <1>1 DEF JobFits, Stop, Alike, Consenting, Cutting, Calling, HoldsRow, HoldsToken
<1>3. JobCalls(r)
  BY <1>1 DEF JobCalls, Stop, Alike, Calling
<1>4. \A c \in copies : c.job = j => CopyFits(r)
  BY <1>1 DEF CopyFits, Stop, Alike
<1>5. \A g \in Grants : Holds(r, g) => Held(g)
  BY <1>1 DEF Holds, Stop, HoldsToken
<1>6. RevokedOK(r)' /\ r.at \notin Consenting /\ r \in JobRow
  BY DEF RevokedOK, Stop, Consenting
<1> QED BY <1>2, <1>3, <1>4, <1>5, <1>6 DEF Sound, Fresh

LEMMA SkipIsSound ==
    ASSUME LinkInv, NEW j \in Jobs, NEW s \in JobRow, s = job[j], s.at \in Calling,
           NEW why \in Whys \ {"ok"}, NEW r, Moved(j, r), Skip(s, r, why)
    PROVE  Sound(j, r) /\ RevokedOK(r)'
<1>1. /\ JobFits(j, s) /\ JobCalls(s)
      /\ \A c \in copies : c.job = j => CopyFits(s)
      /\ \A g \in Grants : Holds(s, g) => Held(g)
  BY Facts
<1>2. /\ s.calls \in Seq(CallNames) /\ s.i \in Nat \ {0} /\ r.i = s.i + 1 /\ r.calls = s.calls
      /\ s.i \in DOMAIN s.calls
  BY DEF Skip, Alike, JobRow
<1>3. JobFits(j, r)
  BY <1>1, <1>2 DEF JobFits, Skip, Alike, Consenting, Cutting, Calling, HoldsRow, HoldsToken
<1>4. JobCalls(r)
  <2>1. \A k \in 1..(r.i - 1) : k \in 1..(s.i - 1) \/ k = s.i
    BY <1>2
  <2>2. \A k \in 1..(r.i - 1) : /\ r.calls[k] # "refuse"
                                /\ r.calls[k] = "check" => r.sawPrivate
    BY <1>1, <1>2, <2>1 DEF JobCalls, Skip
  <2> QED BY <1>1, <2>2 DEF JobCalls, Skip, Alike, Calling
<1>5. \A c \in copies : c.job = j => CopyFits(r)
  BY <1>1, <1>2 DEF CopyFits, Skip, Alike, JobCalls, Whole, Calling
<1>6. \A g \in Grants : Holds(r, g) => Held(g)
  BY <1>1 DEF Holds, Skip, HoldsToken
<1>7. RevokedOK(r)' /\ r.at \notin Consenting /\ r \in JobRow
  BY DEF RevokedOK, Skip, Consenting
<1> QED BY <1>3, <1>4, <1>5, <1>6, <1>7 DEF Sound, Fresh

\* The request was told of the error, or has the copy to delete first.
FailedFor(j, s, r, why) ==
    /\ Sound(j, r) /\ RevokedOK(r)' /\ r.why = why /\ r.at \in {"ended", "call"}
    /\ r.row = s.row /\ r.user = s.user /\ r.token = s.token /\ r.asked = s.asked

LEMMA FailIsSound ==
    ASSUME LinkInv, NEW j \in Jobs, job[j].at \in Calling, NEW why \in Whys \ {"ok"}, Fail(j, why)
    PROVE  \E r : FailedFor(j, job[j], r, why)
<1>1. PICK s \in JobRow : s = job[j]
  BY Present DEF LinkInv, FitInv, Calling
<1>2. PICK r : /\ Moved(j, r)
               /\ \/ Skip(s, r, why)
                  \/ /\ Stop(s, r, why)
                     /\ s.i \in DOMAIN s.calls => s.calls[s.i] # "export"
  BY <1>1, Fails DEF LinkInv, FitInv
<1>3. s.at # "ended"
  BY <1>1 DEF Calling
<1>4. Sound(j, r) /\ RevokedOK(r)'
  BY <1>1, <1>2, <1>3, StopIsSound, SkipIsSound
<1>5. /\ r.why = why /\ r.row = s.row /\ r.user = s.user /\ r.at \in {"ended", "call"}
      /\ r.token = s.token /\ r.asked = s.asked
  BY <1>2 DEF Skip, Stop, Alike
<1> QED BY <1>1, <1>4, <1>5 DEF FailedFor

\* A failure that leaves everything else as it was.
LEMMA FailKeeps ==
    ASSUME LinkInv, NEW j \in Jobs, job[j].at \in Calling, NEW why \in Whys \ {"ok", "reconnect"},
           Fail(j, why), UNCHANGED <<rows, google, cache, ghosts>>, faults' \in 0..MaxFaults
    PROVE  LinkInv'
<1>1. why \in Whys \ {"ok"} /\ job[j].at # "forget"
  BY DEF Calling
<1>2. PICK r : FailedFor(j, job[j], r, why)
  BY <1>1, FailIsSound
<1>3. Refused(r)'
  BY <1>2 DEF Refused, FailedFor
<1> QED BY <1>1, <1>2, <1>3, Still DEF Sound, FailedFor

\* The next point of the same call.
LEMMA TurnIsSound ==
    ASSUME LinkInv, NEW j \in Jobs, NEW s \in JobRow, s = job[j], s.at \in Calling,
           NEW pc \in Calling, NEW row \in LinkRow \cup {None}, NEW token \in Grants \cup {None},
           NEW r, Moved(j, r), Turn(s, r, pc, row, token),
           s.i \in DOMAIN s.calls, s.calls[s.i] # "refuse",
           pc \in HoldsRow => row \in LinkRow /\ row # None,
           row # None => /\ row.grant \in Grants => Held(row.grant)
                         /\ Fits(row.grant, s.user, s.asked) /\ row.grant.email = row.email,
           pc \in HoldsToken => token \in Grants /\ Fits(token, s.user, s.asked) /\ Held(token)
    PROVE  Sound(j, r) /\ RevokedOK(r)' /\ Refused(r)'
<1>1. /\ JobFits(j, s) /\ JobCalls(s)
      /\ \A c \in copies : c.job = j => CopyFits(s)
  BY Facts
<1>2. JobFits(j, r)
  BY <1>1 DEF JobFits, Turn, Alike, Consenting, Cutting, Calling
<1>3. JobCalls(r)
  BY <1>1 DEF JobCalls, Turn, Alike, Calling
<1>4. \A c \in copies : c.job = j => CopyFits(r)
  BY <1>1 DEF CopyFits, Turn, Alike, Calling
<1>5. \A g \in Grants : Holds(r, g) => Held(g)
  BY DEF Holds, Turn
<1>6. RevokedOK(r)' /\ Refused(r)' /\ r.at \notin Consenting /\ r \in JobRow
  BY DEF RevokedOK, Refused, Turn, Consenting, Calling
<1> QED BY <1>2, <1>3, <1>4, <1>5, <1>6 DEF Sound, Fresh

(* The steps, one by one: the calls *)

LEMMA AtIsPresent ==
    ASSUME LinkInv, NEW j \in Jobs, NEW pc, At(j, pc), pc # "absent"
    PROVE  \E s \in JobRow : s = job[j] /\ s.at = pc
BY Present DEF LinkInv, FitInv, At

LEMMA FaultsCount ==
    ASSUME LinkTypes, Fault \/ UNCHANGED faults
    PROVE  faults' \in 0..MaxFaults
BY GoogleAssumption DEF LinkTypes, Fault

\* A link that is found is one of what was asked for.
LEMMA FoundFits ==
    ASSUME LinkInv, NEW u \in LinkUsers, NEW asked \in Asked, NEW i \in Found(u, asked)
    PROVE  /\ rows[u][i] \in LinkRow /\ Fits(rows[u][i].grant, u, asked)
           /\ rows[u][i].grant.email = rows[u][i].email /\ Held(rows[u][i].grant)
           /\ rows[u][i].grant \in Grants
<1>1. i \in DOMAIN rows[u] /\ (asked # None => rows[u][i].email = asked)
  BY DEF Found, Means
<1>2. rows[u][i] \in LinkRow
  BY <1>1 DEF LinkInv, FitInv, LinkTypes
<1>3. rows[u][i].grant.by = u /\ rows[u][i].grant.email = rows[u][i].email
  BY <1>1 DEF LinkInv, FitInv, RowsFit
<1>4. Held(rows[u][i].grant)
  BY <1>1, InGrants DEF Held
<1>5. rows[u][i].grant \in Grants
  BY <1>2 DEF LinkRow
<1> QED BY <1>1, <1>2, <1>3, <1>4, <1>5 DEF Fits

LEMMA CallKeeps == ASSUME LinkInv, NEW j \in Jobs, Call(j) PROVE LinkInv'
<1>1. PICK s \in JobRow : s = job[j] /\ s.at = "call" /\ s.i \in DOMAIN s.calls /\ s.calls[s.i] # "refuse"
  <2>1. At(j, "call") /\ job[j].i \in DOMAIN job[j].calls /\ job[j].calls[job[j].i] # "refuse"
    BY DEF Call, What
  <2> QED BY <2>1, AtIsPresent
<1> DEFINE w == s.worker
           k == <<s.user, s.asked>>
<1>2. w \in Workers /\ k \in CacheKeys /\ k = CacheKey(j) /\ k[1] = s.user /\ k[2] = s.asked
  BY <1>1 DEF JobRow, CacheKeys, CacheKey
<1>3. LinkTypes /\ JobFits(j, s) /\ s.at \in Calling
  BY <1>1, Facts DEF LinkInv, FitInv, Calling
<1>4. faults' \in 0..MaxFaults
  BY <1>3 DEF Call, LinkTypes
<1>5. s.row \in LinkRow \cup {None} /\ s.token \in Grants \cup {None}
  BY DEF JobRow
<1>6. s.row # None => /\ s.row.grant \in Grants => Held(s.row.grant)
                      /\ Fits(s.row.grant, s.user, s.asked) /\ s.row.grant.email = s.row.email
  BY <1>1, <1>3, Facts DEF JobFits, Holds
<1> HIDE DEF w, k
<1>7. CASE /\ cache[w][k] # None
           /\ job' = [job EXCEPT ![j].token = cache[w][k], ![j].at = "send"]
           /\ UNCHANGED cache
  <2>1. PICK g \in Grants : g = cache[w][k] /\ Fits(g, s.user, s.asked) /\ Held(g)
    BY <1>2, <1>7 DEF LinkInv, FitInv, LinkTypes, CacheFits, Held
  <2>2. PICK r : Moved(j, r) /\ Turn(s, r, "send", s.row, g)
    <3>1. Moved(j, [s EXCEPT !.token = g, !.at = "send"])
      BY <1>1, <1>3, <1>7, <2>1 DEF Moved, LinkTypes
    <3> QED BY <3>1, TurnWithToken DEF Pcs, Calling
  <2>3. Sound(j, r) /\ RevokedOK(r)' /\ Refused(r)'
    <3>1. "send" \in Calling /\ "send" \notin HoldsRow
      BY DEF Calling, HoldsRow
    <3> QED BY <1>1, <1>3, <1>5, <1>6, <2>1, <2>2, <3>1, TurnIsSound
  <2>4. UNCHANGED <<rows, google, cache, ghosts>>
    BY <1>7 DEF Call
  <2> QED BY <1>1, <1>4, <2>2, <2>3, <2>4, Still DEF Sound
<1>8. CASE Go(j, "read") /\ cache' = [cache EXCEPT ![w][k] = None]
  <2>1. PICK r : Moved(j, r) /\ Turn(s, r, "read", s.row, s.token)
    BY <1>1, <1>3, <1>8, Goes DEF Pcs, Calling
  <2>2. Sound(j, r) /\ RevokedOK(r)' /\ Refused(r)'
    <3>1. "read" \in Calling /\ "read" \notin HoldsRow /\ "read" \notin HoldsToken
      BY DEF Calling, HoldsRow, HoldsToken
    <3> QED BY <1>1, <1>3, <1>5, <1>6, <2>1, <3>1, TurnIsSound
  <2>3. UNCHANGED <<rows, google, ghosts>>
    BY DEF Call
  <2>4. /\ cache' \in [Workers -> [CacheKeys -> Grants \cup {None}]]
        /\ \A x \in Workers, y \in CacheKeys : cache'[x][y] = None \/ cache'[x][y] = cache[x][y]
    BY <1>2, <1>3, <1>8 DEF LinkTypes
  <2>5. CachesKept
    BY <1>1, <2>1, <2>3, <2>4, ExcusesStay DEF CachesKept, ghosts
  <2> QED BY <1>1, <1>3, <1>4, <2>1, <2>2, <2>3, <2>5, Quiet DEF Sound, google, ghosts, LinkTypes
<1> QED BY <1>1, <1>2, <1>7, <1>8 DEF Call, w

LEMMA FinishKeeps == ASSUME LinkInv, NEW j \in Jobs, Finish(j) PROVE LinkInv'
<1>1. PICK s \in JobRow : s = job[j] /\ s.at = "call"
  <2>1. At(j, "call")
    BY DEF Finish
  <2> QED BY <2>1, AtIsPresent
<1>2. LinkTypes /\ JobFits(j, s) /\ JobCalls(s) /\ s.at \in Calling
  BY <1>1, Facts DEF LinkInv, FitInv, Calling
<1>3. UNCHANGED <<rows, google, cache, ghosts>> /\ faults' \in 0..MaxFaults
  BY <1>2 DEF Finish, LinkTypes
<1>4. CASE s.i \in DOMAIN s.calls /\ Fail(j, "turned away")
  <2>1. "turned away" \in Whys \ {"ok", "reconnect"}
    BY DEF Whys
  <2> QED BY <1>1, <1>2, <1>3, <1>4, <2>1, FailKeeps
<1>5. CASE s.i \notin DOMAIN s.calls /\ End(j, IF s.failing THEN s.why ELSE "ok")
  <2> DEFINE why == IF s.failing THEN s.why ELSE "ok"
  <2>1. why \in Whys \cup {None}
    <3>1. s.why \in Whys \cup {None}
      BY DEF JobRow
    <3> QED BY <3>1 DEF Whys
  <2>2. PICK r : Moved(j, r) /\ Stop(s, r, why)
    BY <1>1, <1>2, <1>5, <2>1, Ends
  <2>3. CASE s.failing
    <3>1. why # "ok" /\ why = s.why
      BY <1>2, <2>3 DEF JobCalls
    <3>2. Sound(j, r) /\ RevokedOK(r)'
      BY <1>1, <1>5, <2>1, <2>2, <3>1, StopIsSound
    <3>3. Refused(r)'
      BY <2>2, <2>3 DEF Refused, Stop
    <3> QED BY <1>1, <1>3, <3>2, <3>3, Still DEF Sound
  <2>4. CASE ~s.failing
    <3>1. \A c \in copies : c.job # j
      BY <1>1, <1>5, Facts DEF CopyFits
    <3>2. Stop(s, r, "ok")
      BY <2>2, <2>4
    <3>3. s.i = Len(s.calls) + 1 /\ s.calls \in Seq(CallNames) /\ s.hits \in Seq(Hits)
      BY <1>2, <1>5 DEF JobFits, JobRow
    <3>4. JobCalls(r)
      BY <1>2, <2>4, <3>2, <3>3 DEF JobCalls, Stop, Alike, Calling
    <3>5. JobFits(j, r)
      BY <1>2, <3>2 DEF JobFits, Stop, Alike, Consenting, Cutting, Calling, HoldsRow, HoldsToken
    <3>6. \A g \in Grants : Holds(r, g) => Held(g)
      BY <1>1, <3>2, Facts DEF Holds, Stop, HoldsToken
    <3>7. Fresh(j, r) /\ RevokedOK(r)' /\ Refused(r)'
      BY <3>2, <3>4, <3>5, <3>6 DEF Fresh, RevokedOK, Refused, Stop, Consenting
    <3> QED BY <1>1, <1>3, <2>2, <3>1, <3>7, Still
  <2> QED BY <2>3, <2>4
<1> QED BY <1>1, <1>4, <1>5 DEF Finish

LEMMA ReadRowKeeps == ASSUME LinkInv, NEW j \in Jobs, ReadRow(j) PROVE LinkInv'
<1>1. PICK s \in JobRow : s = job[j] /\ s.at = "read"
  <2>1. At(j, "read")
    BY DEF ReadRow
  <2> QED BY <2>1, AtIsPresent
<1>2. LinkTypes /\ JobCalls(s) /\ s.at \in Calling /\ s.i \in DOMAIN s.calls /\ s.calls[s.i] # "refuse"
  BY <1>1, Facts DEF LinkInv, FitInv, Calling, JobCalls
<1>3. UNCHANGED <<rows, google, cache, ghosts>> /\ faults' \in 0..MaxFaults
  BY <1>2 DEF ReadRow, LinkTypes
<1>4. CASE Fail(j, "not linked")
  <2>1. "not linked" \in Whys \ {"ok", "reconnect"}
    BY DEF Whys
  <2> QED BY <1>1, <1>2, <1>3, <1>4, <2>1, FailKeeps
<1>5. ASSUME NEW i \in Found(s.user, s.asked),
             job' = [job EXCEPT ![j].row = rows[s.user][i], ![j].at = "refresh"]
      PROVE  LinkInv'
  <2>1. s.user \in LinkUsers /\ s.asked \in Asked /\ s.token \in Grants \cup {None}
    BY DEF JobRow
  <2>2. PICK x \in LinkRow : /\ x = rows[s.user][i] /\ Fits(x.grant, s.user, s.asked)
                             /\ x.grant.email = x.email /\ Held(x.grant)
    BY <2>1, FoundFits
  <2>3. PICK r : Moved(j, r) /\ Turn(s, r, "refresh", x, s.token)
    <3>1. Moved(j, [s EXCEPT !.row = x, !.at = "refresh"])
      BY <1>1, <1>2, <1>5, <2>2 DEF Moved, LinkTypes
    <3> QED BY <3>1, TurnWithRow DEF Pcs, Calling
  <2>4. "refresh" \in Calling /\ "refresh" \notin HoldsToken
    BY DEF Calling, HoldsToken
  <2>5. x # None
    BY NobodyIsNone
  <2>6. Sound(j, r) /\ RevokedOK(r)' /\ Refused(r)'
    BY <1>1, <1>2, <2>1, <2>2, <2>3, <2>4, <2>5, TurnIsSound
  <2> QED BY <1>1, <1>3, <2>6, Still DEF Sound
<1> QED BY <1>1, <1>4, <1>5 DEF ReadRow

LEMMA RowIsHeld ==
    ASSUME LinkInv, NEW j \in Jobs, NEW s \in JobRow, s = job[j]
    PROVE  /\ s.row \in LinkRow \cup {None} /\ s.token \in Grants \cup {None}
           /\ s.row # None => /\ s.row \in LinkRow /\ s.row.grant \in Grants /\ Held(s.row.grant)
                              /\ Fits(s.row.grant, s.user, s.asked)
                              /\ s.row.grant.email = s.row.email
<1>1. s.row \in LinkRow \cup {None} /\ s.token \in Grants \cup {None}
  BY DEF JobRow
<1>2. s.row # None => s.row \in LinkRow /\ s.row.grant \in Grants
  BY <1>1 DEF LinkRow
<1> QED BY <1>1, <1>2, Facts DEF JobFits, Holds

LEMMA RefreshKeeps == ASSUME LinkInv, NEW j \in Jobs, Refresh(j) PROVE LinkInv'
<1>1. PICK s \in JobRow : s = job[j] /\ s.at = "refresh"
  <2>1. At(j, "refresh")
    BY DEF Refresh
  <2> QED BY <2>1, AtIsPresent
<1>2. /\ LinkTypes /\ JobCalls(s) /\ s.at \in Calling /\ s.i \in DOMAIN s.calls /\ s.calls[s.i] # "refuse"
      /\ s.row \in LinkRow /\ s.row # None
  BY <1>1, Facts DEF Calling, JobCalls, JobFits, HoldsRow
<1>3. UNCHANGED <<rows, google, cache, ghosts>> /\ faults' \in 0..MaxFaults
  BY <1>2, FaultsCount DEF Refresh
<1>4. CASE job' = [job EXCEPT ![j].token = job[j].row.grant, ![j].at = "store"]
  <2>1. PICK g \in Grants : g = s.row.grant /\ Held(g) /\ Fits(g, s.user, s.asked)
    BY <1>1, <1>2, RowIsHeld
  <2>2. PICK r : Moved(j, r) /\ Turn(s, r, "store", s.row, g)
    <3>1. Moved(j, [s EXCEPT !.token = g, !.at = "store"])
      BY <1>1, <1>2, <1>4, <2>1 DEF Moved, LinkTypes
    <3> QED BY <3>1, TurnWithToken DEF Pcs, Calling
  <2>3. "store" \in Calling /\ "store" \notin HoldsRow
    BY DEF Calling, HoldsRow
  <2>4. Sound(j, r) /\ RevokedOK(r)' /\ Refused(r)'
    BY <1>1, <1>2, <2>1, <2>2, <2>3, RowIsHeld, TurnIsSound
  <2> QED BY <1>1, <1>3, <2>4, Still DEF Sound
<1>5. CASE Go(j, "flag")
  <2>1. PICK r : Moved(j, r) /\ Turn(s, r, "flag", s.row, s.token)
    BY <1>1, <1>2, <1>5, Goes DEF Pcs, Calling
  <2>2. "flag" \in Calling /\ "flag" \notin HoldsToken
    BY DEF Calling, HoldsToken
  <2>3. Sound(j, r) /\ RevokedOK(r)' /\ Refused(r)'
    BY <1>1, <1>2, <2>1, <2>2, RowIsHeld, TurnIsSound
  <2> QED BY <1>1, <1>3, <2>3, Still DEF Sound
<1>6. CASE Fail(j, "no answer")
  <2>1. "no answer" \in Whys \ {"ok", "reconnect"}
    BY DEF Whys
  <2> QED BY <1>1, <1>2, <1>3, <1>6, <2>1, FailKeeps
<1> QED BY <1>4, <1>5, <1>6 DEF Refresh

LEMMA FlagKeeps == ASSUME LinkInv, NEW j \in Jobs, Flag(j) PROVE LinkInv'
<1>1. PICK s \in JobRow : s = job[j] /\ s.at = "flag"
  <2>1. At(j, "flag")
    BY DEF Flag
  <2> QED BY <2>1, AtIsPresent
<1>2. /\ LinkTypes /\ JobCalls(s) /\ s.at \in Calling /\ s.at # "forget"
      /\ s.row \in LinkRow /\ s.row # None /\ s.user \in LinkUsers
  BY <1>1, Facts DEF Calling, JobCalls, JobFits, HoldsRow, JobRow
<1>3. UNCHANGED <<google, cache, ghosts>> /\ faults' \in 0..MaxFaults
  BY <1>2, FaultsCount DEF Flag
<1>4. CASE Fail(j, "failed") /\ UNCHANGED rows
  <2>1. "failed" \in Whys \ {"ok", "reconnect"}
    BY DEF Whys
  <2> QED BY <1>1, <1>2, <1>3, <1>4, <2>1, FailKeeps
<1>5. CASE rows' = Flagged(j) /\ Fail(j, "reconnect")
  <2>1. PICK r : FailedFor(j, s, r, "reconnect")
    <3>1. "reconnect" \in Whys \ {"ok"}
      BY DEF Whys
    <3> QED BY <1>1, <1>2, <1>5, <3>1, FailIsSound
  <2>2. /\ r \in JobRow /\ JobFits(j, r) /\ JobCalls(r) /\ Moved(j, r) /\ RevokedOK(r)'
        /\ r.row = s.row /\ r.user = s.user
    BY <2>1 DEF FailedFor, Sound, Fresh
  <2>3. \A u \in LinkUsers : \A i \in DOMAIN rows[u] : rows[u][i] \in LinkRow
    BY <1>2 DEF LinkTypes
  <2> DEFINE seen(u) == [i \in DOMAIN rows[u] |->
                          [rows[u][i] EXCEPT !.flagged = @ \/ i \in Found(u, s.row.email)]]
  <2>0. rows' = [rows EXCEPT ![s.user] = seen(s.user)]
    BY <1>1, <1>5 DEF Flagged
  <2>4. /\ rows'[s.user] = seen(s.user)
        /\ \A u \in LinkUsers : u # s.user => rows'[u] = rows[u]
    <3> HIDE DEF seen
    <3> QED BY <1>2, <2>0 DEF LinkTypes
  <2>5. ASSUME NEW x \in LinkRow, NEW f \in BOOLEAN
        PROVE  LET y == [x EXCEPT !.flagged = @ \/ f]
               IN y \in LinkRow /\ y.email = x.email /\ y.grant = x.grant /\ y.flagged = (x.flagged \/ f)
    BY DEF LinkRow
  <2>6. ASSUME NEW u \in LinkUsers
        PROVE  /\ DOMAIN rows'[u] = DOMAIN rows[u] /\ rows'[u] \in Seq(LinkRow)
               /\ \A i \in DOMAIN rows[u] :
                    /\ rows'[u][i].email = rows[u][i].email /\ rows'[u][i].grant = rows[u][i].grant
                    /\ rows[u][i].flagged => rows'[u][i].flagged
                    /\ u = s.user /\ i \in Found(u, s.row.email) => rows'[u][i].flagged
    <3>1. rows[u] \in Seq(LinkRow)
      BY <1>2 DEF LinkTypes
    <3>2. CASE u = s.user
      <4>1. \A i \in DOMAIN rows[u] :
              rows'[u][i] = [rows[u][i] EXCEPT !.flagged = @ \/ i \in Found(u, s.row.email)]
        BY <2>4, <3>2
      <4>2. DOMAIN rows'[u] = DOMAIN rows[u]
        BY <2>4, <3>2
      <4>3. \A i \in DOMAIN rows[u] :
              /\ rows'[u][i] \in LinkRow
              /\ rows'[u][i].email = rows[u][i].email /\ rows'[u][i].grant = rows[u][i].grant
              /\ rows'[u][i].flagged = (rows[u][i].flagged \/ i \in Found(u, s.row.email))
        <5> TAKE i \in DOMAIN rows[u]
        <5>1. (i \in Found(u, s.row.email)) \in BOOLEAN
          OBVIOUS
        <5>2. PICK x \in LinkRow, f \in BOOLEAN : x = rows[u][i] /\ f = (i \in Found(u, s.row.email))
          BY <2>3, <5>1
        <5>3. rows'[u][i] = [x EXCEPT !.flagged = @ \/ f]
          BY <4>1, <5>2
        <5>4. /\ rows'[u][i] \in LinkRow /\ rows'[u][i].email = x.email
              /\ rows'[u][i].grant = x.grant /\ rows'[u][i].flagged = (x.flagged \/ f)
          BY <2>5, <5>3
        <5> QED BY <5>2, <5>4
      <4>4. rows'[u] \in Seq(LinkRow)
        <5>0. DOMAIN rows[u] = 1..Len(rows[u]) /\ Len(rows[u]) \in Nat
          BY <3>1
        <5>1. rows'[u] = [i \in 1..Len(rows[u]) |-> rows'[u][i]]
          BY <2>4, <3>2, <5>0
        <5>2. \A i \in 1..Len(rows[u]) : rows'[u][i] \in LinkRow
          BY <4>3, <5>0
        <5> QED BY <5>0, <5>1, <5>2
      <4> QED BY <4>2, <4>3, <4>4
    <3>3. CASE u # s.user
      BY <2>4, <3>1, <3>3
    <3> QED BY <3>2, <3>3
  <2>7. FewerLinks
    BY <2>6 DEF FewerLinks
  <2>8. GrantsIn(rows)' = GrantsIn(rows)
    BY <2>6 DEF GrantsIn
  <2>9. rows' \in [LinkUsers -> Seq(LinkRow)]
    <3>1. rows' = [u \in LinkUsers |-> rows'[u]]
      BY <1>2, <1>5 DEF Flagged, LinkTypes
    <3> QED BY <2>6, <3>1
  <2>10. RowsFit'
    BY <2>6 DEF LinkInv, FitInv, RowsFit
  <2>11. CacheFits'
    BY <1>3 DEF LinkInv, FitInv, CacheFits
  <2>12. FitInv'
    BY <1>3, <2>2, <2>9, <2>10, <2>11, FitMoves DEF LinkInv, FitInv, LinkTypes, google, ghosts
  <2>13. CallInv'
    BY <1>2, <1>3, <2>1, <2>2, CallMoves DEF LinkInv, LinkTypes, google, FailedFor, Sound
  <2>14. \A g \in Grants : Held(g)' => Held(g)
    BY <1>2, <1>3, <2>1, <2>2, <2>7, HeldBack DEF FailedFor, Sound, Fresh, Held
  <2>15. HeldInv'
    BY <1>2, <1>3, <2>1, <2>2, <2>7, <2>14, HeldMoves DEF LinkInv, google, ghosts, FailedFor, Sound, Fresh
  <2>16. Refused(r)'
    <3>1. ASSUME NEW i \in DOMAIN rows'[r.user], rows'[r.user][i].grant = r.row.grant
          PROVE  rows'[r.user][i].flagged
      <4>1. i \in DOMAIN rows[s.user] /\ rows[s.user][i].grant = s.row.grant
        BY <1>2, <2>2, <2>6, <3>1
      <4>2. rows[s.user][i].email = s.row.email /\ s.row.email \in Emails
        BY <1>1, <1>2, <4>1, RowIsHeld DEF LinkInv, FitInv, RowsFit, LinkRow
      <4>3. i \in Found(s.user, s.row.email)
        BY <4>1, <4>2, GoogleAssumption DEF Found, Means
      <4> QED BY <1>2, <2>2, <2>6, <4>1, <4>3
    <3> QED BY <1>2, <2>2, <3>1 DEF Refused
  <2>17. ASSUME NEW w \in Workers, NEW k \in CacheKeys, cache'[w][k] # None
         PROVE  TokenExcused(w, k, cache[w][k])'
    <3>1. \A x \in Jobs : x # j => job'[x] = job[x]
      BY <1>2, <2>2 DEF LinkTypes, Moved
    <3>2. TokenExcused(w, k, cache[w][k])
      BY <1>3, <2>17 DEF LinkInv, ExcuseInv
    <3> QED BY <1>1, <1>3, <2>8, <3>1, <3>2 DEF TokenExcused, At, ghosts
  <2>18. ExcuseInv'
    BY <1>2, <2>2, <2>7, <2>16, <2>17, ExcuseMoves DEF LinkInv
  <2> QED BY <2>12, <2>13, <2>15, <2>18 DEF LinkInv
<1> QED BY <1>4, <1>5 DEF Flag

LEMMA StoreKeeps == ASSUME LinkInv, NEW j \in Jobs, Store(j) PROVE LinkInv'
<1>1. PICK s \in JobRow : s = job[j] /\ s.at = "store"
  <2>1. At(j, "store")
    BY DEF Store
  <2> QED BY <2>1, AtIsPresent
<1>2. /\ LinkTypes /\ JobCalls(s) /\ s.at \in Calling /\ s.i \in DOMAIN s.calls /\ s.calls[s.i] # "refuse"
      /\ s.at # "forget"
      /\ s.token \in Grants /\ Fits(s.token, s.user, s.asked) /\ Held(s.token)
  BY <1>1, Facts DEF Calling, JobCalls, JobFits, HoldsToken, Holds
<1>3. PICK g \in Grants : g = s.token
  BY <1>2
<1> DEFINE w == s.worker
           k == <<s.user, s.asked>>
<1>4. w \in Workers /\ k \in CacheKeys /\ k = CacheKey(j) /\ k[1] = s.user /\ k[2] = s.asked
  BY <1>1 DEF JobRow, CacheKeys, CacheKey
<1>5. UNCHANGED <<rows, google, faults, cut>> /\ faults' \in 0..MaxFaults
  BY <1>2, FaultsCount DEF Store
<1> HIDE DEF w, k
<1>6. /\ cache' = [cache EXCEPT ![w][k] = g] /\ Go(j, "send")
      /\ excused' = IF g \in GrantsIn(rows) THEN excused ELSE excused \cup {<<w, g>>}
  BY <1>1, <1>3, <1>4 DEF Store, w
<1>7. PICK r : Moved(j, r) /\ Turn(s, r, "send", s.row, s.token)
  BY <1>1, <1>2, <1>6, Goes DEF Pcs, Calling
<1>8. Sound(j, r) /\ RevokedOK(r)' /\ Refused(r)'
  <2>1. "send" \in Calling /\ "send" \notin HoldsRow
    BY DEF Calling, HoldsRow
  <2> QED BY <1>1, <1>2, <1>7, <2>1, RowIsHeld, TurnIsSound
<1>9. /\ cache' \in [Workers -> [CacheKeys -> Grants \cup {None}]]
      /\ cache'[w][k] = g
      /\ \A x \in Workers, y \in CacheKeys : (x = w /\ y = k) \/ cache'[x][y] = cache[x][y]
  BY <1>2, <1>4, <1>6 DEF LinkTypes
<1>10. excused \subseteq excused' /\ excused' \in SUBSET (Workers \X Grants)
  BY <1>2, <1>4, <1>6 DEF LinkTypes
<1>11. TokenExcused(w, k, cache[w][k])'
  BY <1>5, <1>6, <1>9 DEF TokenExcused
<1>12. CachesKept
  <2>1. ASSUME NEW x \in Workers, NEW y \in CacheKeys, cache'[x][y] # None
        PROVE  /\ Fits(cache'[x][y], y[1], y[2]) /\ Held(cache'[x][y])
               /\ TokenExcused(x, y, cache[x][y])'
    <3>1. CASE x = w /\ y = k
      BY <1>2, <1>3, <1>4, <1>9, <1>11, <3>1
    <3>2. CASE cache'[x][y] = cache[x][y]
      BY <1>1, <1>2, <1>5, <1>7, <1>10, <2>1, <3>2, ExcusesStay
    <3> QED BY <1>9, <3>1, <3>2
  <2> QED BY <1>9, <2>1 DEF CachesKept
<1> QED BY <1>1, <1>2, <1>5, <1>7, <1>8, <1>10, <1>12, Quiet DEF Sound, google, LinkTypes

\* Google takes the call, or has taken it and its answer is lost.
LEMMA Makes ==
    ASSUME LinkTypes, NEW j \in Jobs, NEW s \in JobRow, s = job[j], Accepted(j), NEW h \in Hits, h = Hit(j)
    PROVE  \E r : Moved(j, r) /\ CallMade(s, r) /\ r.hits = Append(s.hits, h)
<1> DEFINE after == [s EXCEPT !.hits = Append(@, h)]
<1>1. /\ after \in JobRow /\ Alike(s, after) /\ after.at = s.at /\ after.why = s.why /\ after.i = s.i
      /\ after.row = s.row /\ after.token = s.token /\ after.hits = Append(s.hits, h)
      /\ after.sawPrivate = s.sawPrivate /\ after.failing = s.failing /\ after.revoked = s.revoked
  <2>1. Append(s.hits, h) \in Seq(Hits)
    BY DEF JobRow
  <2> QED BY <2>1 DEF JobRow, Alike
<1>2. \/ job' = [job EXCEPT ![j] =
              IF s.calls[s.i] = "check" /\ shared
              THEN [after EXCEPT !.at = "ended", !.why = "turned away"]
              ELSE [after EXCEPT !.at = "call", !.i = @ + 1,
                                 !.sawPrivate = @ \/ s.calls[s.i] = "check"]]
      \/ job' = [job EXCEPT ![j] =
              IF s.calls[s.i] = "export"
              THEN [after EXCEPT !.at = "call", !.i = @ + 1, !.failing = TRUE, !.why = "no answer"]
              ELSE [after EXCEPT !.at = "ended", !.why = "no answer"]]
  BY DEF Accepted, What
<1> HIDE DEF after
<1>3. PICK t \in JobRow :
        /\ t = after /\ Alike(s, t) /\ t.why = s.why /\ t.i = s.i
        /\ t.row = s.row /\ t.token = s.token /\ t.hits = Append(s.hits, h)
        /\ t.sawPrivate = s.sawPrivate /\ t.failing = s.failing /\ t.revoked = s.revoked
  BY <1>1
<1>4. "turned away" \in Whys /\ "no answer" \in Whys /\ "call" \in Pcs \ {"absent"}
  BY DEF Whys, Pcs, Calling
<1>5. CASE job' = [job EXCEPT ![j] = [t EXCEPT !.at = "ended", !.why = "turned away"]]
           /\ s.calls[s.i] = "check" /\ shared
  <2> DEFINE r == [t EXCEPT !.at = "ended", !.why = "turned away"]
  <2>1. Stop(t, r, "turned away")
    BY <1>4, StopFor
  <2> HIDE DEF r
  <2>2. CallMade(s, r) /\ r.hits = Append(s.hits, h)
    BY <1>3, <1>5, <2>1 DEF CallMade, Stop, Alike
  <2> QED BY <1>5, <2>2 DEF Moved, r
<1>6. CASE job' = [job EXCEPT ![j] = [t EXCEPT !.at = "ended", !.why = "no answer"]]
           /\ s.calls[s.i] # "export"
  <2> DEFINE r == [t EXCEPT !.at = "ended", !.why = "no answer"]
  <2>1. Stop(t, r, "no answer")
    BY <1>4, StopFor
  <2> HIDE DEF r
  <2>2. CallMade(s, r) /\ r.hits = Append(s.hits, h)
    BY <1>3, <1>6, <2>1 DEF CallMade, Stop, Alike
  <2> QED BY <1>6, <2>2 DEF Moved, r
<1>7. CASE job' = [job EXCEPT ![j] = [t EXCEPT !.at = "call", !.i = @ + 1, !.failing = TRUE, !.why = "no answer"]]
           /\ s.calls[s.i] = "export"
  <2> DEFINE r == [t EXCEPT !.at = "call", !.i = @ + 1, !.failing = TRUE, !.why = "no answer"]
  <2>1. t.i \in Nat \ {0} /\ t.i + 1 \in Nat \ {0}
    BY DEF JobRow
  <2>2. r \in JobRow
    BY <1>4, <2>1 DEF JobRow
  <2>3. /\ Alike(t, r) /\ r.at = "call" /\ r.why = "no answer" /\ r.i = t.i + 1 /\ r.failing
        /\ r.row = t.row /\ r.token = t.token /\ r.hits = t.hits
        /\ r.sawPrivate = t.sawPrivate /\ r.revoked = t.revoked
    BY DEF JobRow, Alike
  <2> HIDE DEF r
  <2>4. CallMade(s, r) /\ r.hits = Append(s.hits, h)
    <3>1. Alike(s, r)
      BY <1>3, <2>3 DEF Alike
    <3>2. r.hits = Append(s.hits, h)
      BY <1>3, <2>3
    <3> QED BY <1>3, <1>7, <2>2, <2>3, <3>1, <3>2 DEF CallMade
  <2> QED BY <1>7, <2>4 DEF Moved, r
<1>8. CASE job' = [job EXCEPT ![j] = [t EXCEPT !.at = "call", !.i = @ + 1,
                                        !.sawPrivate = @ \/ s.calls[s.i] = "check"]]
           /\ ~(s.calls[s.i] = "check" /\ shared)
  <2>0. PICK b \in BOOLEAN : b = (t.sawPrivate \/ s.calls[s.i] = "check")
    OBVIOUS
  <2> DEFINE r == [t EXCEPT !.at = "call", !.i = @ + 1, !.sawPrivate = b]
  <2>1. t.i \in Nat \ {0} /\ t.i + 1 \in Nat \ {0}
    BY DEF JobRow
  <2>2. r \in JobRow
    BY <1>4, <2>1 DEF JobRow
  <2>3. /\ Alike(t, r) /\ r.at = "call" /\ r.why = t.why /\ r.i = t.i + 1 /\ r.failing = t.failing
        /\ r.row = t.row /\ r.token = t.token /\ r.hits = t.hits
        /\ r.sawPrivate = b /\ r.revoked = t.revoked
    BY DEF JobRow, Alike
  <2>4. job' = [job EXCEPT ![j] = r]
    BY <1>8, <2>0
  <2> HIDE DEF r
  <2>5. CallMade(s, r) /\ r.hits = Append(s.hits, h)
    BY <1>1, <1>3, <1>8, <2>0, <2>2, <2>3 DEF CallMade, Alike
  <2> QED BY <2>4, <2>5 DEF Moved
<1> QED BY <1>2, <1>3, <1>5, <1>6, <1>7, <1>8

\* What a call that Google took leaves behind.
LEMMA MadeFits ==
    ASSUME LinkInv, NEW j \in Jobs, NEW s \in JobRow, s = job[j], s.at = "send", NEW r, CallMade(s, r),
           NEW h \in Hits, h = Hit(j), r.hits = Append(s.hits, h)
    PROVE  JobFits(j, r) /\ JobCalls(r)
<1>1. /\ JobFits(j, s) /\ JobCalls(s) /\ s.token \in Grants /\ Fits(s.token, s.user, s.asked)
      /\ s.at \in Calling /\ s.i \in DOMAIN s.calls /\ s.calls[s.i] # "refuse"
      /\ s.kind \in {"app", "work"} /\ ~s.revoked
  BY Facts DEF JobFits, JobCalls, HoldsToken, Calling
<1>2. /\ s.calls \in Seq(CallNames) /\ s.hits \in Seq(Hits) /\ s.i \in Nat \ {0}
      /\ r \in JobRow /\ Alike(s, r) /\ s.i <= Len(s.calls)
      /\ Len(s.calls) \in Nat /\ Len(s.hits) \in Nat
  <2>1. s.calls \in Seq(CallNames) /\ s.hits \in Seq(Hits) /\ s.i \in Nat \ {0}
    BY DEF JobRow
  <2>2. r \in JobRow /\ Alike(s, r)
    BY DEF CallMade
  <2> QED BY <1>1, <2>1, <2>2
<1>3. h.what = s.calls[s.i] /\ h.email = s.token.email /\ h.by = s.token.by
  BY DEF Hit, What
<1>4. /\ Len(r.hits) = Len(s.hits) + 1 /\ DOMAIN r.hits = 1..(Len(s.hits) + 1)
      /\ r.hits[Len(s.hits) + 1] = h /\ \A k \in 1..Len(s.hits) : r.hits[k] = s.hits[k]
  BY <1>2
<1>5. \A k \in DOMAIN r.hits : k \in DOMAIN s.hits \/ k = Len(s.hits) + 1
  BY <1>2, <1>4
<1>6. /\ r.at \in {"call", "ended"} /\ r.i \in {s.i, s.i + 1} /\ (r.at = "call" => r.i = s.i + 1)
      /\ r.why \in {s.why, "no answer", "turned away"} /\ (s.sawPrivate => r.sawPrivate)
      /\ r.row = s.row /\ r.token = s.token /\ r.revoked = s.revoked
      /\ (r.at = "ended" => r.why \in {"no answer", "turned away"})
  BY DEF CallMade
<1>7. JobFits(j, r)
  <2>1. \A k \in DOMAIN r.hits : /\ r.hits[k].by = s.user
                                 /\ s.asked # None => r.hits[k].email = s.asked
    BY <1>1, <1>3, <1>4, <1>5 DEF JobFits, Fits
  <2>2. r.i \in 1..(Len(r.calls) + 1)
    <3>1. Len(r.calls) = Len(s.calls) /\ (r.i = s.i \/ r.i = s.i + 1)
      BY <1>2, <1>6 DEF Alike
    <3>2. Len(s.calls) \in Nat /\ s.i \in Nat /\ s.i >= 1 /\ s.i <= Len(s.calls)
      BY <1>2
    <3> QED BY <3>1, <3>2
  <2>3. r.at # "ended" /\ ~r.failing => r.why = None
    BY <1>1 DEF CallMade, JobFits
  <2> QED BY <1>1, <1>2, <1>6, <2>1, <2>2, <2>3
          DEF JobFits, Alike, Consenting, Cutting, Calling, HoldsRow, HoldsToken
<1>8. JobCalls(r)
  <2>1. r.at \in Calling /\ ~r.failing =>
          Len(r.hits) = r.i - 1 /\ \A k \in 1..(r.i - 1) : r.hits[k].what = r.calls[k]
    <3>1. SUFFICES ASSUME r.at = "call", ~r.failing
                   PROVE  Len(r.hits) = r.i - 1 /\ \A k \in 1..(r.i - 1) : r.hits[k].what = r.calls[k]
      BY <1>6 DEF Calling
    <3>2. ~s.failing
      BY <3>1 DEF CallMade
    <3>3. Len(s.hits) = s.i - 1 /\ \A k \in 1..(s.i - 1) : s.hits[k].what = s.calls[k]
      BY <1>1, <3>2 DEF JobCalls
    <3>4. \A k \in 1..s.i : k \in 1..(s.i - 1) \/ k = s.i
      BY <1>2
    <3>5. r.i = s.i + 1 /\ r.calls = s.calls
      BY <1>2, <1>6, <3>1 DEF Alike
    <3>6. r.i - 1 = s.i /\ Len(r.hits) = s.i /\ r.hits[s.i] = h
          /\ \A k \in 1..(s.i - 1) : r.hits[k] = s.hits[k]
      BY <1>2, <1>4, <3>3, <3>5
    <3> QED BY <1>3, <3>3, <3>4, <3>5, <3>6
  <2>2. r.failing => r.why # "ok"
    BY <1>1 DEF CallMade, JobCalls
  <2>3. r.at \in Calling => \A k \in 1..(r.i - 1) : /\ r.calls[k] # "refuse"
                                                    /\ r.calls[k] = "check" => r.sawPrivate
    <3>1. SUFFICES ASSUME r.at = "call", NEW k \in 1..(r.i - 1)
                   PROVE  r.calls[k] # "refuse" /\ (r.calls[k] = "check" => r.sawPrivate)
      BY <1>6 DEF Calling
    <3>0. r.i = s.i + 1 /\ s.i \in Nat /\ k \in 1..(r.i - 1)
      BY <1>2, <1>6, <3>1
    <3>2. k \in 1..(s.i - 1) \/ k = s.i
      BY <3>0
    <3>3. s.calls[s.i] = "check" => r.sawPrivate
      BY <3>1 DEF CallMade
    <3>4. /\ r.calls = s.calls /\ (s.sawPrivate => r.sawPrivate)
          /\ s.calls[s.i] # "refuse"
          /\ \A x \in 1..(s.i - 1) : s.calls[x] # "refuse" /\ (s.calls[x] = "check" => s.sawPrivate)
      BY <1>1, <1>2, <1>6 DEF JobCalls, Alike
    <3> QED BY <3>2, <3>3, <3>4
  <2>4. r.kind = "work" => \A k \in DOMAIN r.hits :
          /\ r.hits[k].what # "send"
          /\ r.hits[k].what = "put" /\ r.hits[k].shared => r.sawPrivate
    <3>1. SUFFICES ASSUME r.kind = "work", NEW k \in DOMAIN r.hits
                   PROVE  /\ r.hits[k].what # "send"
                          /\ r.hits[k].what = "put" /\ r.hits[k].shared => r.sawPrivate
      OBVIOUS
    <3>2. CASE k \in DOMAIN s.hits
      <4>1. /\ s.kind = "work" /\ (s.sawPrivate => r.sawPrivate)
            /\ s.hits[k].what # "send"
            /\ s.hits[k].what = "put" /\ s.hits[k].shared => s.sawPrivate
        BY <1>1, <1>2, <1>6, <3>1, <3>2 DEF JobCalls, Alike
      <4>2. r.hits[k] = s.hits[k]
        BY <1>2, <1>4, <3>2
      <4> QED BY <4>1, <4>2
    <3>3. CASE r.hits[k] = h /\ h.what \in {"send", "put"}
      <4>1. PICK x \in 1..(s.i - 1) :
              s.calls[x] = "refuse" \/ (s.calls[x] = "check" /\ s.calls[s.i] = "put")
        BY <1>1, <1>2, <1>3, <3>1, <3>3 DEF JobCalls, Guarded, Alike
      <4>2. s.calls[x] = "check" /\ s.calls[s.i] = "put" /\ s.sawPrivate
        BY <1>1, <4>1 DEF JobCalls
      <4> QED BY <1>3, <1>6, <3>3, <4>2
    <3> QED BY <1>4, <1>5, <3>2, <3>3
  <2>5. r.calls = s.calls /\ r.kind = s.kind /\ Whole(s.calls) /\ (s.kind = "work" => Guarded(s.calls))
    BY <1>1, <1>2 DEF JobCalls, Alike
  <2>6. r.at \notin Calling \ {"call"} /\ (r.at = "ended" => r.why # "ok")
    BY <1>6 DEF Calling
  <2> QED BY <2>1, <2>2, <2>3, <2>4, <2>5, <2>6 DEF JobCalls
<1> QED BY <1>7, <1>8

LEMMA AcceptedKeeps ==
    ASSUME LinkInv, NEW j \in Jobs, At(j, "send"), Accepted(j), UNCHANGED <<rows, live, shared, ghosts>>
    PROVE  LinkInv'
<1>1. PICK s \in JobRow : s = job[j] /\ s.at = "send"
  BY AtIsPresent
<1>2. /\ LinkTypes /\ JobFits(j, s) /\ JobCalls(s) /\ s.token \in Grants
      /\ s.i \in DOMAIN s.calls /\ s.calls \in Seq(CallNames) /\ s.at # "forget"
      /\ \A c \in copies : c.job = j => CopyFits(s)
  BY <1>1, Facts DEF JobFits, JobCalls, HoldsToken, Calling, JobRow
<1>3. PICK h \in Hits : h = Hit(j)
  <2>1. s.calls[s.i] \in CallNames /\ s.token.email \in Emails /\ s.token.by \in LinkUsers
    BY <1>2 DEF Grants
  <2> QED BY <1>1, <1>2, <2>1 DEF Hit, Hits, What, LinkTypes
<1>4. PICK r : Moved(j, r) /\ CallMade(s, r) /\ r.hits = Append(s.hits, h)
  BY <1>1, <1>2, <1>3, Makes
<1>5. JobFits(j, r) /\ JobCalls(r)
  BY <1>1, <1>3, <1>4, MadeFits
<1>6. Fresh(j, r) /\ RevokedOK(r)' /\ Refused(r)'
  <2>1. \A g \in Grants : Holds(r, g) => Held(g)
    BY <1>1, <1>4, Facts DEF Holds, CallMade, HoldsToken
  <2> QED BY <1>4, <1>5, <2>1 DEF Fresh, RevokedOK, Refused, CallMade, Consenting
<1>7. faults' \in 0..MaxFaults /\ cache' = cache
  BY <1>2, FaultsCount DEF Accepted
<1>8. CachesKept
  BY <1>1, <1>2, <1>4, <1>7, ExcusesStay DEF CachesKept, ghosts, LinkTypes
<1>9. /\ copies' \in SUBSET [job : Jobs, email : Emails]
      /\ \A c \in copies' : (c.job # j /\ c \in copies) \/ (c.job = j /\ CopyFits(r))
  <2>0. Does(j)
    BY DEF Accepted
  <2>1. CASE s.calls[s.i] = "copy"
    <3>1. copies' = copies \cup {[job |-> j, email |-> s.token.email]}
      BY <1>1, <2>0, <2>1 DEF Does, What
    <3>2. s.token.email \in Emails
      BY <1>2 DEF Grants
    <3>3. \A c \in copies : c.job # j
      BY <1>1, <1>2, <2>1 DEF CopyFits
    <3>4. s.i + 1 \in DOMAIN s.calls /\ s.calls[s.i + 1] = "export"
      BY <1>2, <2>1 DEF JobCalls, Whole
    <3>5. CopyFits(r)
      BY <1>4, <2>1, <3>4 DEF CopyFits, CallMade, Alike, Calling
    <3> QED BY <1>2, <3>1, <3>2, <3>3, <3>5 DEF LinkTypes
  <2>2. CASE s.calls[s.i] = "delete"
    <3>1. copies' = {c \in copies : c.job # j}
      BY <1>1, <2>0, <2>2 DEF Does, What, CopyOf
    <3> QED BY <1>2, <3>1 DEF LinkTypes
  <2>3. CASE s.calls[s.i] \notin {"copy", "delete"}
    <3>1. copies' = copies
      BY <1>1, <2>0, <2>3 DEF Does, What
    <3>2. ASSUME NEW c \in copies, c.job = j PROVE CopyFits(r)
      <4>1. s.calls[s.i] = "export"
        BY <1>1, <1>2, <2>3, <3>2 DEF CopyFits
      <4>2. s.i + 1 \in DOMAIN s.calls /\ s.calls[s.i + 1] = "delete"
        BY <1>2, <4>1 DEF JobCalls, Whole
      <4> QED BY <1>4, <4>1, <4>2 DEF CopyFits, CallMade, Alike, Calling
    <3> QED BY <1>2, <3>1, <3>2 DEF LinkTypes
  <2> QED BY <2>1, <2>2, <2>3
<1> QED BY <1>2, <1>4, <1>6, <1>7, <1>8, <1>9, Quiet DEF LinkTypes, ghosts

LEMMA Forgotten ==
    ASSUME LinkTypes, NEW w \in Workers, NEW u \in LinkUsers, ForgetTokens(w, u)
    PROVE  /\ cache' \in [Workers -> [CacheKeys -> Grants \cup {None}]]
           /\ \A x \in Workers, y \in CacheKeys : cache'[x][y] = None \/ cache'[x][y] = cache[x][y]
           /\ \A y \in CacheKeys : y[1] = u => cache'[w][y] = None
<1>1. cache \in [Workers -> [CacheKeys -> Grants \cup {None}]]
  BY DEF LinkTypes
<1>2. cache' = [cache EXCEPT ![w] = [k \in CacheKeys |-> IF k[1] = u THEN None ELSE cache[w][k]]]
  BY DEF ForgetTokens
<1>3. /\ \A x \in Workers : x # w => cache'[x] = cache[x]
      /\ cache'[w] = [k \in CacheKeys |-> IF k[1] = u THEN None ELSE cache[w][k]]
      /\ cache' \in [Workers -> [CacheKeys -> Grants \cup {None}]]
  BY <1>1, <1>2
<1> QED BY <1>3

LEMMA UnauthorizedKeeps ==
    ASSUME LinkInv, NEW j \in Jobs, At(j, "send"), Unauthorized(j), UNCHANGED <<rows, live, shared, ghosts>>
    PROVE  LinkInv'
<1>1. PICK s \in JobRow : s = job[j] /\ s.at = "send" /\ s.worker \in Workers /\ s.user \in LinkUsers
  BY AtIsPresent DEF JobRow
<1>2. LinkTypes /\ s.at \in Calling /\ s.at # "forget" /\ "unlinked" \in Whys \ {"ok"}
  BY <1>1 DEF LinkInv, FitInv, Calling, Whys
<1>3. ForgetTokens(s.worker, s.user) /\ Fail(j, "unlinked") /\ UNCHANGED <<copies, faults>>
  BY <1>1 DEF Unauthorized
<1>4. PICK r : FailedFor(j, s, r, "unlinked")
  BY <1>1, <1>2, <1>3, FailIsSound
<1>5. Sound(j, r) /\ RevokedOK(r)' /\ Refused(r)'
  BY <1>4 DEF FailedFor, Refused
<1>6. CachesKept
  BY <1>1, <1>2, <1>3, <1>5, Forgotten, ExcusesStay DEF CachesKept, ghosts, Sound
<1> QED BY <1>2, <1>3, <1>5, <1>6, Quiet DEF Sound, ghosts, LinkTypes

LEMMA SendCallKeeps == ASSUME LinkInv, NEW j \in Jobs, SendCall(j) PROVE LinkInv'
<1>1. At(j, "send") /\ UNCHANGED <<rows, live, shared, ghosts>>
  BY DEF SendCall
<1>2. CASE Rejected(j)
  <2>1. job[j].at \in Calling /\ LinkTypes /\ "rejected" \in Whys \ {"ok", "reconnect"}
    BY <1>1 DEF At, Calling, LinkInv, FitInv, Whys
  <2>2. faults' \in 0..MaxFaults /\ Fail(j, "rejected") /\ UNCHANGED <<copies, cache>>
    BY <1>2, <2>1, FaultsCount DEF Rejected
  <2>3. UNCHANGED <<rows, google, cache, ghosts>>
    BY <1>1, <2>2 DEF google, ghosts
  <2> QED BY <2>1, <2>2, <2>3, FailKeeps
<1> QED BY <1>1, <1>2, AcceptedKeeps, UnauthorizedKeeps DEF SendCall

(* The steps of a consent and of a disconnection *)

\* A request that is over, or has yet to begin, has no document and asks nothing of Google.
LEMMA EndKeeps ==
    ASSUME LinkInv, NEW j \in Jobs, NEW s \in JobRow, s = job[j], s.at \in Consenting \cup Cutting,
           NEW why \in Whys \ {"ok", "reconnect"}, End(j, why),
           UNCHANGED <<rows, google, cache, ghosts>>, faults' \in 0..MaxFaults
    PROVE  LinkInv'
<1>1. LinkTypes /\ JobFits(j, s) /\ JobCalls(s) /\ s.at \notin {"ended", "forget"} /\ s.at \notin Calling
  BY Facts DEF Consenting, Cutting, Calling
<1>2. PICK r : Moved(j, r) /\ Stop(s, r, why)
  BY <1>1, Ends
<1>3. \A c \in copies : c.job # j
  BY <1>1, Facts DEF CopyFits
<1>4. JobFits(j, r)
  BY <1>1, <1>2 DEF JobFits, Stop, Alike, Consenting, Cutting, Calling, HoldsRow, HoldsToken
<1>5. JobCalls(r)
  BY <1>1, <1>2 DEF JobCalls, Stop, Alike, Calling
<1>6. Fresh(j, r) /\ RevokedOK(r)' /\ Refused(r)'
  <2>1. \A g \in Grants : Holds(r, g) => Held(g)
    BY <1>2, Facts DEF Holds, Stop, HoldsToken
  <2> QED BY <1>2, <1>4, <1>5, <2>1 DEF Fresh, RevokedOK, Refused, Stop, Consenting
<1> QED BY <1>1, <1>2, <1>3, <1>6, Still

\* The next point of a consent or a disconnection, with what was found or given.
LEMMA OnwardIsFresh ==
    ASSUME LinkInv, NEW j \in Jobs, NEW s \in JobRow, s = job[j], s.at \in Consenting \cup Cutting,
           NEW pc \in Consenting \cup Cutting \cup {"forget"},
           pc \in Consenting => s.at \in Consenting,
           pc \in Cutting => s.at \in Cutting,
           NEW row \in LinkRow \cup {None}, NEW token,
           NEW r, Moved(j, r), Turn(s, r, pc, row, token),
           pc \in HoldsRow => row \in LinkRow,
           pc \in {"whose", "upsert"} => token = GrantOf(s.asked, s.user, j),
           s.revoked => pc \in {"delete", "forget"},
           row # None => /\ row.grant \in Grants => Held(row.grant)
                         /\ Fits(row.grant, s.user, s.asked) /\ row.grant.email = row.email
    PROVE  Fresh(j, r) /\ Refused(r)' /\ \A c \in copies : c.job # j
<1>1. /\ JobFits(j, s) /\ JobCalls(s) /\ s.at \notin Calling /\ s.at # "ended"
      /\ pc \notin Calling /\ pc # "ended" /\ pc \notin HoldsToken
  BY Facts DEF Consenting, Cutting, Calling, HoldsToken
<1>2. \A c \in copies : c.job # j
  BY <1>1, Facts DEF CopyFits
<1>3. JobFits(j, r)
  <2>1. pc \in Consenting => s.kind = "complete" /\ s.by = s.user /\ s.asked \in Emails
    BY <1>1 DEF JobFits
  <2>2. pc \in Cutting => s.kind = "disconnect"
    BY <1>1 DEF JobFits
  <2>3. pc \in HoldsRow => row \in LinkRow /\ row # None
    BY NobodyIsNone
  <2>4. /\ \A i \in DOMAIN s.hits : s.hits[i].by = s.user /\ (s.asked # None => s.hits[i].email = s.asked)
        /\ s.i \in 1..(Len(s.calls) + 1) /\ (~s.failing => s.why = None)
    BY <1>1 DEF JobFits
  <2>5. ~s.failing /\ s.kind \in {"complete", "disconnect"}
    BY <1>1 DEF JobFits
  <2> QED BY <1>1, <2>1, <2>2, <2>3, <2>4, <2>5 DEF JobFits, Turn, Alike
<1>4. JobCalls(r)
  BY <1>1 DEF JobCalls, Turn, Alike, Calling
<1>5. \A g \in Grants : Holds(r, g) => Held(g)
  BY <1>1 DEF Holds, Turn
<1>6. Refused(r)' /\ r \in JobRow
  BY <1>1 DEF Refused, Turn
<1>7. s.at \in Consenting \/ r.at \notin Consenting
  BY DEF Turn
<1> QED BY <1>2, <1>3, <1>4, <1>5, <1>6, <1>7 DEF Fresh

LEMMA StartKeeps == ASSUME LinkInv, NEW j \in Jobs, Start(j) PROVE LinkInv'
<1>1. LinkTypes /\ job[j].at = "absent" /\ UNCHANGED <<rows, google, cache, faults, ghosts>>
  BY DEF Start, At, LinkInv, FitInv
<1>2. PICK m \in Menu, w \in Workers :
        LET new == Arrived(m, w) IN
        job' = [job EXCEPT ![j] =
           CASE m.kind = "complete" /\ CompleteStarts(m) -> [new EXCEPT !.at = "exchange"]
             [] m.kind = "disconnect"                    -> [new EXCEPT !.at = "find"]
             [] m.kind = "app"                           -> new
             [] m.kind = "work" /\ WorkStarts(m)         -> new
             [] OTHER -> [new EXCEPT !.at = "ended", !.why = "turned away"]]
  BY DEF Start
<1> DEFINE new == Arrived(m, w)
<1>3. /\ new \in JobRow /\ new.at = "call" /\ new.row = None /\ new.hits = <<>> /\ new.i = 1
      /\ ~new.failing /\ ~new.sawPrivate /\ ~new.revoked /\ new.why = None
      /\ new.kind = m.kind /\ new.user = m.user /\ new.by = m.by /\ new.asked = m.asked
      /\ new.calls = m.calls
  <2>1. /\ m.kind \in {"complete", "disconnect", "app", "work"} /\ m.user \in LinkUsers /\ m.by \in LinkUsers
        /\ m.asked \in Asked /\ m.calls \in Seq(CallNames)
    BY GoogleAssumption, MenuCalls DEF Asked
  <2>2. <<>> \in Seq(Hits) /\ "call" \in Pcs \ {"absent"} /\ 1 \in Nat \ {0}
    BY DEF Pcs, Calling
  <2>3. new \in JobRow
    BY <2>1, <2>2 DEF Arrived, JobRow
  <2> QED BY <2>3 DEF Arrived
<1>4. /\ Whole(new.calls) /\ (new.kind = "work" => Guarded(new.calls)) /\ new.calls \in Seq(CallNames)
      /\ (new.kind = "complete" => new.asked \in Emails)
  BY <1>3, MenuCalls, GoogleAssumption
<1> HIDE DEF new
<1>5. PICK s \in JobRow : s = new
  BY <1>3
<1>6. PICK r : /\ Moved(j, r) /\ r \in JobRow /\ Alike(s, r)
               /\ r.row = None /\ r.hits = <<>> /\ r.i = 1 /\ r.failing = s.failing
               /\ r.revoked = s.revoked /\ r.sawPrivate = s.sawPrivate
               /\ \/ r.at = "exchange" /\ r.why = None /\ m.kind = "complete" /\ m.by = m.user
                  \/ r.at = "find" /\ r.why = None /\ m.kind = "disconnect"
                  \/ r.at = "call" /\ r.why = None /\ m.kind \in {"app", "work"}
                  \/ r.at = "ended" /\ r.why = "turned away"
  <2>1. \/ /\ job' = [job EXCEPT ![j] = [s EXCEPT !.at = "exchange"]]
           /\ m.kind = "complete" /\ m.by = m.user
        \/ job' = [job EXCEPT ![j] = [s EXCEPT !.at = "find"]] /\ m.kind = "disconnect"
        \/ job' = [job EXCEPT ![j] = s] /\ m.kind \in {"app", "work"}
        \/ job' = [job EXCEPT ![j] = [s EXCEPT !.at = "ended", !.why = "turned away"]]
    BY <1>2, <1>5 DEF CompleteStarts, new
  <2>2. CASE job' = [job EXCEPT ![j] = s] /\ m.kind \in {"app", "work"}
    BY <1>3, <1>5, <2>2 DEF Moved, Alike
  <2>3. CASE job' = [job EXCEPT ![j] = [s EXCEPT !.at = "ended", !.why = "turned away"]]
    <3>1. Stop(s, [s EXCEPT !.at = "ended", !.why = "turned away"], "turned away")
      BY StopFor DEF Whys
    <3> QED BY <1>3, <1>5, <2>3, <3>1 DEF Moved, Stop
  <2>4. CASE job' = [job EXCEPT ![j] = [s EXCEPT !.at = "find"]] /\ m.kind = "disconnect"
    <3>1. Turn(s, [s EXCEPT !.at = "find"], "find", s.row, s.token)
      BY TurnTo DEF Pcs, Cutting
    <3> QED BY <1>3, <1>5, <2>4, <3>1 DEF Moved, Turn
  <2>5. CASE /\ job' = [job EXCEPT ![j] = [s EXCEPT !.at = "exchange"]]
             /\ m.kind = "complete" /\ m.by = m.user
    <3>1. Turn(s, [s EXCEPT !.at = "exchange"], "exchange", s.row, s.token)
      BY TurnTo DEF Pcs, Consenting
    <3> QED BY <1>3, <1>5, <2>5, <3>1 DEF Moved, Turn
  <2> QED BY <2>1, <2>2, <2>3, <2>4, <2>5
<1>7. Len(r.hits) = 0 /\ r.i = 1 /\ r.i - 1 = 0 /\ \A k : k \notin DOMAIN r.hits
  <2>1. r.hits = <<>> /\ r.i = 1
    BY <1>6
  <2> QED BY <2>1
<1>8. JobFits(j, r)
  <2>1. r.kind = m.kind /\ r.user = m.user /\ r.by = m.by /\ ~r.failing /\ ~r.revoked
    BY <1>3, <1>5, <1>6 DEF Alike
  <2>2. r.i \in 1..(Len(r.calls) + 1)
    <3>1. r.calls \in Seq(CallNames)
      BY <1>6 DEF JobRow
    <3> QED BY <1>7, <3>1
  <2>3. r.kind = "complete" => r.asked \in Emails
    BY <1>4, <1>5, <1>6 DEF Alike
  <2>4. /\ r.row = None
        /\ \/ r.at = "exchange" /\ r.why = None /\ m.kind = "complete" /\ m.by = m.user
           \/ r.at = "find" /\ r.why = None /\ m.kind = "disconnect"
           \/ r.at = "call" /\ r.why = None /\ m.kind \in {"app", "work"}
           \/ r.at = "ended"
    BY <1>6
  <2> QED BY <1>7, <2>1, <2>2, <2>3, <2>4
          DEF JobFits, Consenting, Cutting, Calling, HoldsRow, HoldsToken
<1>9. JobCalls(r)
  <2>1. /\ Whole(r.calls) /\ (r.kind = "work" => Guarded(r.calls)) /\ ~r.failing
        /\ r.at \notin Calling \ {"call"} /\ (r.at = "ended" => r.why # "ok")
    BY <1>3, <1>4, <1>5, <1>6 DEF Alike, Calling
  <2> QED BY <1>7, <2>1 DEF JobCalls
<1>10. Fresh(j, r) /\ RevokedOK(r)' /\ Refused(r)'
  BY <1>1, <1>6, <1>8, <1>9 DEF Fresh, RevokedOK, Refused, Holds, HoldsToken
<1>11. \A c \in copies : c.job # j
  BY <1>1 DEF LinkInv, CallInv, JobRow
<1> QED BY <1>1, <1>6, <1>10, <1>11, Still DEF LinkTypes

LEMMA ExchangeKeeps == ASSUME LinkInv, NEW j \in Jobs, Exchange(j) PROVE LinkInv'
<1>1. PICK s \in JobRow : s = job[j] /\ s.at = "exchange"
  <2>1. At(j, "exchange")
    BY DEF Exchange
  <2> QED BY <2>1, AtIsPresent
<1>2. /\ LinkTypes /\ JobFits(j, s) /\ s.at \in Consenting /\ s.at # "forget"
      /\ s.asked \in Emails /\ s.by = s.user /\ s.by \in LinkUsers /\ ~s.revoked
      /\ s.row \in LinkRow \cup {None}
  BY <1>1, Facts DEF JobFits, Consenting, JobRow
<1>3. faults' \in 0..MaxFaults /\ UNCHANGED <<rows, cache, shared, copies, ghosts>>
  BY <1>2, FaultsCount DEF Exchange
<1>4. CASE End(j, "refused") /\ UNCHANGED live
  <2>1. "refused" \in Whys \ {"ok", "reconnect"} /\ UNCHANGED <<rows, google, cache, ghosts>>
    BY <1>3, <1>4 DEF Whys, google, ghosts
  <2> QED BY <1>1, <1>2, <1>3, <1>4, <2>1, EndKeeps
<1>5. ASSUME NEW g, g = GrantOf(s.asked, s.by, j), live' = live \cup {g},
             job' = [job EXCEPT ![j].at = "whose", ![j].token = g]
      PROVE  LinkInv'
  <2>1. g \in Grants /\ g.n = j
    BY <1>2, <1>5 DEF GrantOf, Grants
  <2>2. ~Held(g)
    BY <1>1, <1>2, <2>1 DEF LinkInv, HeldInv, Known
  <2>3. PICK r : Moved(j, r) /\ Turn(s, r, "whose", s.row, g)
    <3>1. Moved(j, [s EXCEPT !.at = "whose", !.token = g])
      BY <1>1, <1>2, <1>5 DEF Moved, LinkTypes
    <3> QED BY <2>1, <3>1, TurnWithToken DEF Pcs, Consenting
  <2>4. Fresh(j, r) /\ Refused(r)' /\ \A c \in copies : c.job # j
    <3>1. "whose" \in Consenting /\ "whose" \notin Cutting /\ "whose" \notin HoldsRow
      BY DEF Consenting, Cutting, HoldsRow
    <3>2. "whose" \in {"whose", "upsert"} => g = GrantOf(s.asked, s.user, j)
      BY <1>2, <1>5
    <3> QED BY <1>1, <1>2, <2>3, <3>1, <3>2, RowIsHeld, OnwardIsFresh
  <2>5. RevokedOK(r)'
    BY <2>3 DEF RevokedOK, Turn
  <2>6. CachesKept
    BY <1>1, <1>2, <1>3, <2>3, ExcusesStay DEF CachesKept, ghosts, LinkTypes
  <2>7. /\ live' \in SUBSET Grants /\ \A x \in Grants : x \in live' /\ Held(x) => x \in live
        /\ shared' \in BOOLEAN /\ excused' \in SUBSET (Workers \X Grants)
        /\ copies' \in SUBSET [job : Jobs, email : Emails]
    BY <1>2, <1>3, <1>5, <2>1, <2>2 DEF LinkTypes, ghosts
  <2>8. \A c \in copies' : (c.job # j /\ c \in copies) \/ (c.job = j /\ CopyFits(r))
    BY <1>3, <2>4
  <2>9. rows' = rows /\ cut' = cut
    BY <1>3 DEF ghosts
  <2> QED BY <1>3, <2>3, <2>4, <2>5, <2>6, <2>7, <2>8, <2>9, Quiet
<1> QED BY <1>1, <1>4, <1>5 DEF Exchange

LEMMA WhoseKeeps == ASSUME LinkInv, NEW j \in Jobs, Whose(j) PROVE LinkInv'
<1>1. PICK s \in JobRow : s = job[j] /\ s.at = "whose"
  <2>1. At(j, "whose")
    BY DEF Whose
  <2> QED BY <2>1, AtIsPresent
<1>2. /\ LinkTypes /\ JobFits(j, s) /\ s.at \in Consenting /\ s.at # "forget" /\ ~s.revoked
      /\ s.token = GrantOf(s.asked, s.user, j) /\ s.row \in LinkRow \cup {None}
  BY <1>1, Facts DEF JobFits, Consenting, JobRow
<1>3. faults' \in 0..MaxFaults /\ UNCHANGED <<rows, google, cache, ghosts>>
  BY <1>2, FaultsCount DEF Whose
<1>4. CASE End(j, "refused")
  <2>1. "refused" \in Whys \ {"ok", "reconnect"}
    BY DEF Whys
  <2> QED BY <1>1, <1>2, <1>3, <1>4, <2>1, EndKeeps
<1>5. CASE Go(j, "upsert")
  <2>1. PICK r : Moved(j, r) /\ Turn(s, r, "upsert", s.row, s.token)
    BY <1>1, <1>2, <1>5, Goes DEF Pcs, Consenting
  <2>2. "upsert" \in Consenting /\ "upsert" \notin Cutting /\ "upsert" \notin HoldsRow
    BY DEF Consenting, Cutting, HoldsRow
  <2>3. Fresh(j, r) /\ Refused(r)' /\ \A c \in copies : c.job # j
    BY <1>1, <1>2, <2>1, <2>2, RowIsHeld, OnwardIsFresh
  <2>4. RevokedOK(r)'
    BY <2>1 DEF RevokedOK, Turn
  <2> QED BY <1>1, <1>2, <1>3, <2>1, <2>3, <2>4, Still
<1> QED BY <1>4, <1>5 DEF Whose

LEMMA ForgetKeeps == ASSUME LinkInv, NEW j \in Jobs, Forget(j) PROVE LinkInv'
<1>1. PICK s \in JobRow : s = job[j] /\ s.at = "forget" /\ s.worker \in Workers /\ s.user \in LinkUsers
  <2>1. At(j, "forget")
    BY DEF Forget
  <2> QED BY <2>1, AtIsPresent DEF JobRow
<1>2. LinkTypes /\ JobFits(j, s) /\ JobCalls(s) /\ ~s.failing /\ s.kind \in {"complete", "disconnect"}
  BY <1>1, Facts DEF JobFits, Calling
<1>3. UNCHANGED <<rows, google, faults, ghosts>> /\ ForgetTokens(s.worker, s.user)
  BY <1>1 DEF Forget
<1>4. PICK r : Moved(j, r) /\ Stop(s, r, "ok")
  <2>1. End(j, "ok") /\ "ok" \in Whys
    BY DEF Forget, Whys
  <2> QED BY <1>1, <1>2, <2>1, Ends
<1>5. \A c \in copies : c.job # j
  BY <1>1, Facts DEF CopyFits, Calling
<1>6. JobFits(j, r)
  BY <1>2, <1>4 DEF JobFits, Stop, Alike, Consenting, Cutting, Calling, HoldsRow, HoldsToken
<1>7. JobCalls(r)
  BY <1>2, <1>4 DEF JobCalls, Stop, Alike, Calling
<1>8. Fresh(j, r) /\ RevokedOK(r)' /\ Refused(r)'
  <2>1. \A g \in Grants : Holds(r, g) => Held(g)
    BY <1>1, <1>4, Facts DEF Holds, Stop, HoldsToken
  <2> QED BY <1>4, <1>6, <1>7, <2>1 DEF Fresh, RevokedOK, Refused, Stop, Consenting
<1>9. CachesKept
  <2>1. /\ cache' \in [Workers -> [CacheKeys -> Grants \cup {None}]]
        /\ \A x \in Workers, y \in CacheKeys : cache'[x][y] = None \/ cache'[x][y] = cache[x][y]
        /\ \A y \in CacheKeys : y[1] = s.user => cache'[s.worker][y] = None
    BY <1>1, <1>2, <1>3, Forgotten
  <2>2. \A x \in Jobs : x # j => job'[x] = job[x]
    BY <1>2, <1>4 DEF LinkTypes, Moved
  <2>3. ASSUME NEW x \in Workers, NEW y \in CacheKeys, cache'[x][y] # None
        PROVE  /\ Fits(cache'[x][y], y[1], y[2]) /\ Held(cache'[x][y])
               /\ TokenExcused(x, y, cache[x][y])'
    <3>1. cache'[x][y] = cache[x][y] /\ ~(x = s.worker /\ y[1] = s.user)
      BY <2>1, <2>3
    <3>2. Fits(cache[x][y], y[1], y[2]) /\ TokenExcused(x, y, cache[x][y]) /\ Held(cache[x][y])
      BY <2>3, <3>1 DEF LinkInv, FitInv, CacheFits, ExcuseInv, Held
    <3>3. TokenExcused(x, y, cache[x][y])'
      BY <1>1, <1>3, <2>2, <3>1, <3>2 DEF TokenExcused, At, ghosts
    <3> QED BY <3>1, <3>2, <3>3
  <2> QED BY <2>1, <2>3 DEF CachesKept
<1> QED BY <1>2, <1>3, <1>4, <1>5, <1>8, <1>9, Quiet DEF LinkTypes, google, ghosts

LEMMA FindKeeps == ASSUME LinkInv, NEW j \in Jobs, Find(j) PROVE LinkInv'
<1>1. PICK s \in JobRow : s = job[j] /\ s.at = "find"
  <2>1. At(j, "find")
    BY DEF Find
  <2> QED BY <2>1, AtIsPresent
<1>2. LinkTypes /\ JobFits(j, s) /\ s.at \in Cutting /\ s.at # "forget" /\ ~s.revoked
  BY <1>1, Facts DEF JobFits, Cutting
<1>3. faults' \in 0..MaxFaults /\ UNCHANGED <<rows, google, cache, ghosts>>
  BY <1>2, FaultsCount DEF Find
<1>4. CASE End(j, "none")
  <2>1. "none" \in Whys \ {"ok", "reconnect"}
    BY DEF Whys
  <2> QED BY <1>1, <1>2, <1>3, <1>4, <2>1, EndKeeps
<1>5. ASSUME NEW i \in Found(s.user, s.asked),
             job' = [job EXCEPT ![j].row = rows[s.user][i], ![j].at = "revoke"]
      PROVE  LinkInv'
  <2>1. s.user \in LinkUsers /\ s.asked \in Asked
    BY DEF JobRow
  <2>2. PICK x \in LinkRow : /\ x = rows[s.user][i] /\ Fits(x.grant, s.user, s.asked)
                             /\ x.grant.email = x.email /\ Held(x.grant)
    BY <2>1, FoundFits
  <2>3. PICK r : Moved(j, r) /\ Turn(s, r, "revoke", x, s.token)
    <3>1. Moved(j, [s EXCEPT !.row = x, !.at = "revoke"])
      BY <1>1, <1>2, <1>5, <2>2 DEF Moved, LinkTypes
    <3> QED BY <3>1, TurnWithRow DEF Pcs, Cutting
  <2>4. "revoke" \in Cutting /\ "revoke" \notin Consenting
    BY DEF Cutting, Consenting
  <2>5. Fresh(j, r) /\ Refused(r)' /\ \A c \in copies : c.job # j
    BY <1>1, <1>2, <2>2, <2>3, <2>4, OnwardIsFresh
  <2>6. RevokedOK(r)'
    BY <2>3 DEF RevokedOK, Turn
  <2> QED BY <1>1, <1>2, <1>3, <2>3, <2>5, <2>6, Still
<1> QED BY <1>1, <1>4, <1>5 DEF Find

LEMMA RevokeKeeps == ASSUME LinkInv, NEW j \in Jobs, Revoke(j) PROVE LinkInv'
<1>1. PICK s \in JobRow : s = job[j] /\ s.at = "revoke"
  <2>1. At(j, "revoke")
    BY DEF Revoke
  <2> QED BY <2>1, AtIsPresent
<1>2. /\ LinkTypes /\ JobFits(j, s) /\ s.at \in Cutting /\ s.at # "forget" /\ ~s.revoked
      /\ s.row \in LinkRow
  BY <1>1, Facts DEF JobFits, Cutting, HoldsRow
<1>3. faults' \in 0..MaxFaults /\ UNCHANGED <<rows, cache, shared, copies, ghosts>>
  BY <1>2, FaultsCount DEF Revoke
<1>4. "delete" \in Cutting /\ "delete" \notin Consenting /\ "delete" \in Pcs \ {"absent"}
  BY DEF Cutting, Consenting, Pcs
<1>5. CASE Go(j, "delete") /\ UNCHANGED live
  <2>1. PICK r : Moved(j, r) /\ Turn(s, r, "delete", s.row, s.token)
    BY <1>1, <1>2, <1>4, <1>5, Goes
  <2>2. Fresh(j, r) /\ Refused(r)' /\ \A c \in copies : c.job # j
    BY <1>1, <1>2, <1>4, <2>1, RowIsHeld, OnwardIsFresh
  <2>3. RevokedOK(r)'
    BY <1>2, <2>1 DEF RevokedOK, Turn
  <2>4. UNCHANGED <<rows, google, cache, ghosts>>
    BY <1>3, <1>5 DEF google
  <2> QED BY <1>1, <1>2, <1>3, <2>1, <2>2, <2>3, <2>4, Still
<1>6. CASE /\ live' = live \ Granted(s.row.email)
           /\ job' = [job EXCEPT ![j].at = "delete", ![j].revoked = TRUE]
  <2>1. PICK r : /\ Moved(j, r) /\ r \in JobRow /\ Alike(s, r) /\ r.at = "delete" /\ r.row = s.row
                 /\ r.why = s.why /\ r.i = s.i /\ r.hits = s.hits /\ r.sawPrivate = s.sawPrivate
                 /\ r.failing = s.failing /\ r.token = s.token
    <3>1. Moved(j, [s EXCEPT !.at = "delete", !.revoked = TRUE])
      BY <1>1, <1>2, <1>6 DEF Moved, LinkTypes
    <3> DEFINE r == [s EXCEPT !.at = "delete", !.revoked = TRUE]
    <3>2. r \in JobRow
      BY <1>4 DEF JobRow
    <3>3. /\ Alike(s, r) /\ r.at = "delete" /\ r.row = s.row
          /\ r.why = s.why /\ r.i = s.i /\ r.hits = s.hits /\ r.sawPrivate = s.sawPrivate
          /\ r.failing = s.failing /\ r.token = s.token
      BY DEF JobRow, Alike
    <3> QED BY <3>1, <3>2, <3>3
  <2>2. JobCalls(s) /\ \A c \in copies : c.job # j
    BY <1>1, Facts DEF CopyFits, Calling
  <2>3. JobFits(j, r)
    BY <1>1, <1>2, <2>1 DEF JobFits, Alike, Consenting, Cutting, Calling, HoldsRow, HoldsToken
  <2>4. JobCalls(r)
    BY <2>1, <2>2 DEF JobCalls, Alike, Calling
  <2>5. \A g \in Grants : Holds(r, g) => Held(g)
    BY <1>1, <2>1, Facts DEF Holds, HoldsToken
  <2>6. Fresh(j, r) /\ Refused(r)'
    BY <1>4, <2>1, <2>3, <2>4, <2>5 DEF Fresh, Refused
  <2>7. RevokedOK(r)'
    <3>1. \A g \in Grants : g.email = s.row.email => g \notin live'
      BY <1>6 DEF Granted
    <3> QED BY <2>1, <3>1 DEF RevokedOK, Gone
  <2>8. CachesKept
    BY <1>1, <1>2, <1>3, <2>1, ExcusesStay DEF CachesKept, ghosts, LinkTypes
  <2> QED BY <1>2, <1>3, <1>6, <2>1, <2>2, <2>6, <2>7, <2>8, Quiet DEF LinkTypes, ghosts
<1> QED BY <1>1, <1>5, <1>6 DEF Revoke

(* What happens around the requests *)

LEMMA OwnerRevokesKeeps == ASSUME LinkInv, NEW e \in Emails, OwnerRevokes(e) PROVE LinkInv'
<1>1. /\ LinkTypes /\ live' \subseteq live /\ faults' \in 0..MaxFaults
      /\ UNCHANGED <<rows, cache, job, shared, copies, ghosts>>
  BY FaultsCount DEF LinkInv, FitInv, OwnerRevokes
<1>2. FitInv'
  BY <1>1 DEF LinkInv, FitInv, LinkTypes, RowsFit, CacheFits, ghosts
<1>3. CallInv'
  BY <1>1 DEF LinkInv, CallInv
<1>4. \A g : Held(g)' <=> Held(g)
  BY <1>1 DEF Held
<1>5. HeldInv'
  <2>1. \A u, x : Gone(u, x) => Gone(u, x)'
    BY <1>1, <1>4 DEF Gone
  <2>2. \A g \in Grants : Held(g)' => Known(g)'
    BY <1>1, <1>4 DEF LinkInv, HeldInv, Known
  <2>3. \A j \in Jobs : job'[j] \in JobRow => RevokedOK(job[j])'
    BY <1>1, <2>1 DEF LinkInv, HeldInv, RevokedOK
  <2> QED BY <1>1, <2>1, <2>2, <2>3 DEF LinkInv, HeldInv, ghosts
<1>6. ExcuseInv'
  BY <1>1 DEF LinkInv, ExcuseInv, Refused, TokenExcused, At, ghosts
<1> QED BY <1>2, <1>3, <1>5, <1>6 DEF LinkInv

LEMMA ShareFromDriveKeeps == ASSUME LinkInv, ShareFromDrive PROVE LinkInv'
<1>1. shared' \in BOOLEAN /\ UNCHANGED <<rows, live, cache, job, copies, faults, ghosts>>
  BY DEF ShareFromDrive
<1>2. FitInv'
  BY <1>1 DEF LinkInv, FitInv, LinkTypes, RowsFit, CacheFits, ghosts
<1>3. CallInv'
  BY <1>1 DEF LinkInv, CallInv
<1>4. HeldInv'
  BY <1>1 DEF LinkInv, HeldInv, Held, Known, Gone, RevokedOK, ghosts
<1>5. ExcuseInv'
  BY <1>1 DEF LinkInv, ExcuseInv, Refused, TokenExcused, At, ghosts
<1> QED BY <1>2, <1>3, <1>4, <1>5 DEF LinkInv

LEMMA RestartKeeps == ASSUME LinkInv, NEW w \in Workers, Restart(w) PROVE LinkInv'
<1>1. LinkTypes /\ faults' \in 0..MaxFaults /\ UNCHANGED <<rows, google, ghosts>>
  BY FaultsCount DEF LinkInv, FitInv, Restart
<1>2. /\ cache' \in [Workers -> [CacheKeys -> Grants \cup {None}]]
      /\ \A k \in CacheKeys : cache'[w][k] = None
      /\ \A x \in Workers : x # w => cache'[x] = cache[x]
  BY <1>1 DEF Restart, LinkTypes
<1>3. \A j \in Jobs :
        \/ job'[j] = job[j] /\ (job[j].at \in {"absent", "ended"} \/ job[j].worker # w)
        \/ /\ job[j] \in JobRow /\ job[j].at # "ended" /\ job[j].worker = w
           /\ job'[j] = [job[j] EXCEPT !.at = "ended", !.why = "died"]
  <2>1. \A j \in Jobs :
          job'[j] = IF job[j].at = "absent" \/ job[j].at = "ended" \/ job[j].worker # w THEN job[j]
                    ELSE [job[j] EXCEPT !.at = "ended", !.why = "died"]
    BY <1>1 DEF Restart, At
  <2>2. \A j \in Jobs : job[j].at = "absent" \/ job[j] \in JobRow
    BY <1>1, Present
  <2> QED BY <2>1, <2>2
<1>4. \A j \in Jobs :
        \/ job'[j] = job[j] /\ (job[j].at \in {"absent", "ended"} \/ job[j].worker # w)
        \/ /\ job[j] \in JobRow /\ job[j].at # "ended" /\ job[j].worker = w
           /\ Stop(job[j], job'[j], "died")
  <2>1. \A s \in JobRow : Stop(s, [s EXCEPT !.at = "ended", !.why = "died"], "died")
    BY StopFor DEF Whys
  <2> QED BY <1>3, <2>1
<1>5. ASSUME NEW j \in Jobs, job'[j] \in JobRow
      PROVE  /\ JobFits(j, job'[j]) /\ JobCalls(job'[j]) /\ job[j] \in JobRow
             /\ \A g \in Grants : Holds(job'[j], g) => Held(g)
             /\ CopyFits(job[j]) => CopyFits(job'[j])
             /\ job'[j].at \in Consenting => job[j].at \in Consenting
  <2>1. CASE job'[j] = job[j]
    BY <1>5, <2>1, Facts
  <2>2. CASE job[j] \in JobRow /\ Stop(job[j], job'[j], "died")
    <3>0. PICK s \in JobRow : s = job[j] /\ Stop(s, job'[j], "died")
      BY <2>2
    <3>1. PICK r : s = job[j] /\ r = job'[j] /\ Stop(s, r, "died")
      BY <3>0
    <3>2. JobFits(j, s) /\ JobCalls(s) /\ \A g \in Grants : Holds(s, g) => Held(g)
      BY <3>1, Facts
    <3>3. JobFits(j, r)
      BY <3>1, <3>2 DEF JobFits, Stop, Alike, Consenting, Cutting, Calling, HoldsRow, HoldsToken
    <3>4. JobCalls(r)
      BY <3>1, <3>2 DEF JobCalls, Stop, Alike, Calling
    <3>5. \A g \in Grants : Holds(r, g) => Held(g)
      BY <3>1, <3>2 DEF Holds, Stop, HoldsToken
    <3>6. (CopyFits(s) => CopyFits(r)) /\ r.at \notin Consenting
      BY <3>1 DEF CopyFits, Stop, Alike, Consenting
    <3> QED BY <3>1, <3>3, <3>4, <3>5, <3>6
  <2> QED BY <1>4, <2>1, <2>2
<1>6. job' \in [Jobs -> JobRow \cup {NoJob}]
  <2>1. \A j \in Jobs : job'[j] \in JobRow \cup {NoJob}
    BY <1>1, <1>4 DEF LinkTypes, Stop
  <2>2. DOMAIN job' = Jobs /\ job' = [j \in Jobs |-> job'[j]]
    BY DEF Restart
  <2> QED BY <2>1, <2>2
<1>7. FitInv'
  <2>1. LinkTypes'
    BY <1>1, <1>2, <1>6 DEF LinkTypes, google, ghosts
  <2>2. RowsFit' /\ CacheFits'
    BY <1>1, <1>2 DEF LinkInv, FitInv, RowsFit, CacheFits
  <2> QED BY <1>5, <2>1, <2>2 DEF FitInv
<1>8. CallInv'
  <2>1. ASSUME NEW c \in copies PROVE job'[c.job] \in JobRow /\ CopyFits(job'[c.job])
    <3>1. c.job \in Jobs /\ job[c.job] \in JobRow /\ CopyFits(job[c.job])
      BY <1>1 DEF LinkTypes, LinkInv, CallInv
    <3>2. job'[c.job] \in JobRow
      BY <1>4, <3>1 DEF Stop
    <3> QED BY <1>5, <3>1, <3>2
  <2> QED BY <1>1, <1>5, <2>1 DEF CallInv, google
<1>9. HeldInv'
  <2>1. ASSUME NEW g \in Grants, Held(g)' PROVE Held(g)
    <3>1. CASE (g \in GrantsIn(rows))'
      BY <1>1, <3>1 DEF Held
    <3>2. CASE \E x \in Workers, k \in CacheKeys : cache'[x][k] # None /\ g = cache'[x][k]
      BY <1>2, <3>2 DEF Held
    <3>3. CASE \E j \in Jobs : job'[j] \in JobRow /\ Holds(job'[j], g)
      BY <1>5, <3>3
    <3> QED BY <2>1, <3>1, <3>2, <3>3 DEF Held
  <2>2. \A u, e : Gone(u, e) => Gone(u, e)'
    BY <1>1, <2>1 DEF Gone, google
  <2>3. ASSUME NEW g \in Grants, Held(g)' PROVE Known(g)'
    <3>1. Known(g)
      BY <2>1, <2>3 DEF LinkInv, HeldInv
    <3>2. ASSUME NEW n \in Jobs, job[n].at \notin Consenting \cup {"absent"}
          PROVE  job'[n].at \notin Consenting \cup {"absent"}
      BY <1>4, <3>2 DEF Stop, Consenting
    <3> QED BY <3>1, <3>2 DEF Known
  <2>4. ASSUME NEW j \in Jobs, job'[j] \in JobRow PROVE RevokedOK(job[j])'
    <3>1. CASE job'[j] = job[j]
      <4>1. PICK s \in JobRow : s = job[j] /\ s = job'[j] /\ RevokedOK(s)
        BY <2>4, <3>1 DEF LinkInv, HeldInv
      <4>2. RevokedOK(s)'
        BY <1>1, <2>2, <4>1 DEF RevokedOK
      <4> QED BY <4>1, <4>2
    <3>2. CASE Stop(job[j], job'[j], "died")
      BY <3>2 DEF Stop, RevokedOK
    <3> QED BY <1>4, <3>1, <3>2
  <2> QED BY <1>1, <2>2, <2>3, <2>4 DEF LinkInv, HeldInv, ghosts
<1>10. ExcuseInv'
  <2>1. ASSUME NEW j \in Jobs, job'[j] \in JobRow PROVE Refused(job[j])'
    <3>1. CASE job'[j] = job[j]
      <4>1. PICK s \in JobRow : s = job[j] /\ s = job'[j] /\ Refused(s)
        BY <2>1, <3>1 DEF LinkInv, ExcuseInv
      <4>2. Refused(s)'
        BY <1>1, <4>1 DEF Refused
      <4> QED BY <4>1, <4>2
    <3>2. CASE Stop(job[j], job'[j], "died")
      BY <3>2 DEF Stop, Refused
    <3> QED BY <1>4, <3>1, <3>2
  <2>2. ASSUME NEW x \in Workers, NEW k \in CacheKeys, cache'[x][k] # None
        PROVE  TokenExcused(x, k, cache[x][k])'
    <3>1. x # w /\ cache'[x][k] = cache[x][k]
      BY <1>2, <2>2
    <3>2. TokenExcused(x, k, cache[x][k])
      BY <2>2, <3>1 DEF LinkInv, ExcuseInv
    <3>3. \A j \in Jobs : job[j].at = "forget" /\ job[j].worker = x => job'[j] = job[j]
      BY <1>4, <3>1
    <3> QED BY <1>1, <3>1, <3>2, <3>3 DEF TokenExcused, At, ghosts
  <2> QED BY <2>1, <2>2 DEF ExcuseInv
<1> QED BY <1>7, <1>8, <1>9, <1>10 DEF LinkInv

(* A link that is made or removed *)

LEMMA Removed ==
    ASSUME NEW S, NEW q \in Seq(S), NEW i \in 1..Len(q)
    PROVE  /\ RemoveAt(q, i) \in Seq(S)
           /\ \A k \in DOMAIN RemoveAt(q, i) : \E m \in DOMAIN q :
                m # i /\ RemoveAt(q, i)[k] = q[m] /\ m = IF k < i THEN k ELSE k + 1
<1> DEFINE a == SubSeq(q, 1, i - 1)
           b == SubSeq(q, i + 1, Len(q))
<1>1. Len(q) \in Nat /\ i \in Nat /\ 1 <= i /\ i <= Len(q)
  OBVIOUS
<1>2. /\ a \in Seq(S) /\ Len(a) = i - 1 /\ \A k \in 1..(i - 1) : a[k] = q[k]
      /\ b \in Seq(S) /\ Len(b) = Len(q) - i /\ \A k \in 1..(Len(q) - i) : b[k] = q[k + i]
  <2>1. a \in Seq(S) /\ Len(a) = i - 1 /\ \A k \in 1..(i - 1) : a[k] = q[k]
    BY <1>1, SubSeqProperties
  <2>2. b \in Seq(S) /\ Len(b) = Len(q) - i /\ \A k \in 1..(Len(q) - i) : b[k] = q[k + i]
    BY <1>1, SubSeqProperties
  <2> QED BY <2>1, <2>2
<1>3. RemoveAt(q, i) = a \o b
  BY DEF RemoveAt
<1> HIDE DEF a, b
<1>4. /\ a \o b \in Seq(S) /\ Len(a \o b) = Len(q) - 1
      /\ \A k \in 1..(Len(q) - 1) : (a \o b)[k] = q[IF k < i THEN k ELSE k + 1]
  <2>1. /\ a \o b \in Seq(S) /\ Len(a \o b) = Len(a) + Len(b)
        /\ \A k \in 1..(Len(a) + Len(b)) : (a \o b)[k] = IF k <= Len(a) THEN a[k] ELSE b[k - Len(a)]
    BY <1>2, ConcatProperties
  <2>2. ASSUME NEW k \in 1..(Len(q) - 1) PROVE (a \o b)[k] = q[IF k < i THEN k ELSE k + 1]
    <3>0. Len(a) + Len(b) = Len(q) - 1 /\ k \in 1..(Len(a) + Len(b)) /\ k \in Nat
      BY <1>1, <1>2
    <3>1. CASE k < i
      <4>1. k <= Len(a) /\ k \in 1..(i - 1)
        BY <1>1, <1>2, <3>0, <3>1
      <4> QED BY <1>2, <2>1, <3>0, <3>1, <4>1
    <3>2. CASE ~(k < i)
      <4>1. k - Len(a) \in 1..(Len(q) - i) /\ (k - Len(a)) + i = k + 1 /\ ~(k <= Len(a))
        BY <1>1, <1>2, <3>0, <3>2
      <4>2. (a \o b)[k] = b[k - Len(a)]
        BY <2>1, <3>0, <4>1
      <4>3. b[k - Len(a)] = q[(k - Len(a)) + i]
        BY <1>2, <4>1
      <4> QED BY <3>2, <4>1, <4>2, <4>3
    <3> QED BY <3>1, <3>2
  <2>3. Len(a \o b) = Len(q) - 1
    BY <1>1, <1>2, <2>1
  <2> QED BY <2>1, <2>2, <2>3
<1>5. ASSUME NEW k \in DOMAIN (a \o b)
      PROVE  \E m \in DOMAIN q : m # i /\ (a \o b)[k] = q[m] /\ m = IF k < i THEN k ELSE k + 1
  <2>1. k \in 1..(Len(q) - 1)
    BY <1>4
  <2>2. PICK m : m = IF k < i THEN k ELSE k + 1
    OBVIOUS
  <2>3. m \in 1..Len(q) /\ m # i
    BY <1>1, <2>1, <2>2
  <2>4. (a \o b)[k] = q[m]
    BY <1>4, <2>1, <2>2
  <2> QED BY <2>2, <2>3, <2>4
<1> QED BY <1>3, <1>4, <1>5

LEMMA UpsertedRows ==
    ASSUME LinkInv, NEW u \in LinkUsers, NEW g \in Grants, g.by = u
    PROVE  LET new == Upserted(u, g) IN
           /\ new \in Seq(LinkRow)
           /\ \A i \in DOMAIN new :
                \/ new[i].grant = g /\ new[i].email = g.email
                \/ i \in DOMAIN rows[u] /\ new[i] = rows[u][i] /\ new[i].email # g.email
           /\ \A i, k \in DOMAIN new : new[i].email = new[k].email => i = k
           /\ \E i \in DOMAIN new : new[i].grant = g
<1> DEFINE new == Upserted(u, g)
<1>1. g.email \in Emails /\ g.email # None /\ rows[u] \in Seq(LinkRow)
  BY GoogleAssumption DEF Grants, LinkInv, FitInv, LinkTypes
<1>2. \A i : i \in Found(u, g.email) <=> i \in DOMAIN rows[u] /\ rows[u][i].email = g.email
  BY <1>1 DEF Found, Means
<1>3. PICK x \in LinkRow : /\ x = [email |-> g.email, grant |-> g, flagged |-> FALSE]
                           /\ x.email = g.email /\ x.grant = g
  <2> DEFINE row == [email |-> g.email, grant |-> g, flagged |-> FALSE]
  <2>1. row \in LinkRow
    BY <1>1 DEF LinkRow
  <2>2. row.email = g.email /\ row.grant = g
    OBVIOUS
  <2> QED BY <2>1, <2>2
<1>4. \A i, k \in DOMAIN rows[u] : rows[u][i].email = rows[u][k].email => i = k
  BY DEF LinkInv, FitInv, RowsFit
<1>5. CASE Found(u, g.email) = {}
  <2>1. new = Append(rows[u], x)
    BY <1>3, <1>5 DEF Upserted
  <2>2. /\ new \in Seq(LinkRow) /\ DOMAIN new = 1..(Len(rows[u]) + 1)
        /\ new[Len(rows[u]) + 1] = x /\ \A i \in 1..Len(rows[u]) : new[i] = rows[u][i]
    BY <1>1, <2>1
  <2>3. DOMAIN rows[u] = 1..Len(rows[u]) /\ Len(rows[u]) \in Nat
    BY <1>1
  <2>4. \A i \in DOMAIN new : i \in DOMAIN rows[u] \/ i = Len(rows[u]) + 1
    BY <2>2, <2>3
  <2>5. \A i \in DOMAIN rows[u] : rows[u][i].email # g.email
    BY <1>2, <1>5
  <2>6. Len(rows[u]) + 1 \in DOMAIN new
    BY <2>2, <2>3
  <2> HIDE DEF new
  <2>7. \A i \in DOMAIN new :
          \/ new[i].grant = g /\ new[i].email = g.email
          \/ i \in DOMAIN rows[u] /\ new[i] = rows[u][i] /\ new[i].email # g.email
    BY <1>3, <2>2, <2>3, <2>4, <2>5
  <2>8. ASSUME NEW i \in DOMAIN new, NEW k \in DOMAIN new, new[i].email = new[k].email PROVE i = k
    BY <1>3, <1>4, <2>2, <2>3, <2>4, <2>5, <2>8
  <2>9. new[Len(rows[u]) + 1].grant = g
    BY <1>3, <2>2
  <2> QED BY <2>2, <2>6, <2>7, <2>8, <2>9 DEF new
<1>6. CASE Found(u, g.email) # {}
  <2>1. new = [i \in DOMAIN rows[u] |-> IF i \in Found(u, g.email) THEN x ELSE rows[u][i]]
    BY <1>3, <1>6 DEF Upserted
  <2>2. /\ DOMAIN new = DOMAIN rows[u]
        /\ \A i \in DOMAIN rows[u] : new[i] = IF i \in Found(u, g.email) THEN x ELSE rows[u][i]
    BY <2>1
  <2>3. new \in Seq(LinkRow)
    <3>1. DOMAIN rows[u] = 1..Len(rows[u]) /\ Len(rows[u]) \in Nat
      BY <1>1
    <3>2. new = [i \in 1..Len(rows[u]) |-> IF i \in Found(u, g.email) THEN x ELSE rows[u][i]]
      BY <2>1, <3>1
    <3>3. \A i \in 1..Len(rows[u]) : (IF i \in Found(u, g.email) THEN x ELSE rows[u][i]) \in LinkRow
      BY <1>1, <3>1
    <3> QED BY <3>1, <3>2, <3>3
  <2>4. PICK k : k \in Found(u, g.email)
    BY <1>6
  <2>5. k \in DOMAIN new /\ new[k].grant = g
    BY <1>2, <1>3, <2>2, <2>4
  <2> HIDE DEF new
  <2>6. \A i \in DOMAIN new :
          \/ new[i].grant = g /\ new[i].email = g.email
          \/ i \in DOMAIN rows[u] /\ new[i] = rows[u][i] /\ new[i].email # g.email
    BY <1>2, <1>3, <2>2
  <2>7. \A i \in DOMAIN new : new[i].email = rows[u][i].email
    BY <1>2, <1>3, <2>2
  <2> QED BY <1>4, <2>2, <2>3, <2>5, <2>6, <2>7 DEF new
<1> QED BY <1>5, <1>6

\* What becomes of the tokens of the links that are gone, and of the request.
Unheard(s, r) ==
    excused \cup {<<w, g>> : w \in {v \in Workers : v # s.worker \/ r.at = "ended"},
                              g \in GrantsIn(rows) \ GrantsIn(rows')}
Changed(j, s, r) ==
    /\ Moved(j, r) /\ Fresh(j, r) /\ Refused(r)' /\ RevokedOK(r)'
    /\ r.at \in {"forget", "ended"} /\ r.worker = s.worker /\ r.user = s.user
    /\ \A c \in copies : c.job # j
    /\ excused' = Unheard(s, r)

\* Tokens of links that are gone stay only where the change was not, or is yet to be, heard of.
LEMMA ChangeExcuses ==
    ASSUME LinkInv, NEW j \in Jobs, NEW s \in JobRow, s = job[j], s.at # "forget",
           NEW r, Changed(j, s, r), cache' = cache,
           \A u \in LinkUsers : u # s.user => rows'[u] = rows[u]
    PROVE  \A w \in Workers, k \in CacheKeys : cache'[w][k] # None => TokenExcused(w, k, cache[w][k])'
<1> TAKE w \in Workers, k \in CacheKeys
<1> SUFFICES ASSUME cache[w][k] # None PROVE TokenExcused(w, k, cache[w][k])'
  OBVIOUS
<1>1. PICK g : g = cache[w][k]
  OBVIOUS
<1>2. /\ \A x \in Jobs : job'[x] = IF x = j THEN r ELSE job[x]
      /\ r.at \in {"forget", "ended"} /\ r.worker = s.worker /\ r.user = s.user
      /\ excused' = excused \cup
           {<<x, y>> : x \in {v \in Workers : v # s.worker \/ r.at = "ended"},
                       y \in GrantsIn(rows) \ GrantsIn(rows')}
  BY DEF LinkInv, FitInv, LinkTypes, Moved, Changed, Unheard
<1>3. TokenExcused(w, k, g) /\ g.by = k[1]
  BY <1>1 DEF LinkInv, ExcuseInv, FitInv, CacheFits, Fits
<1>4. CASE g \in GrantsIn(rows) /\ g \in GrantsIn(rows')
  BY <1>1, <1>4 DEF TokenExcused
<1>5. CASE g \in GrantsIn(rows) /\ g \notin GrantsIn(rows')
  <2>1. CASE w # s.worker \/ r.at = "ended"
    <3>1. <<w, g>> \in excused'
      BY <1>2, <1>5, <2>1
    <3> QED BY <1>1, <3>1 DEF TokenExcused
  <2>2. CASE w = s.worker /\ r.at = "forget"
    <3>1. PICK u \in LinkUsers : \E i \in DOMAIN rows[u] : g = rows[u][i].grant
      BY <1>5, InGrants
    <3>2. u = s.user
      BY <1>5, <3>1 DEF GrantsIn
    <3>3. g.by = s.user
      BY <3>1, <3>2 DEF LinkInv, FitInv, RowsFit
    <3>4. job'[j].at = "forget" /\ job'[j].worker = w /\ job'[j].user = k[1]
      BY <1>2, <1>3, <2>2, <3>3
    <3> QED BY <1>1, <3>4 DEF TokenExcused, At
  <2> QED BY <1>2, <2>1, <2>2
<1>6. CASE <<w, g>> \in excused
  BY <1>1, <1>2, <1>6 DEF TokenExcused
<1>7. ASSUME NEW x \in Jobs, At(x, "forget"), job[x].worker = w, job[x].user = k[1]
      PROVE  TokenExcused(w, k, cache[w][k])'
  <2>1. x # j
    BY <1>7 DEF At
  <2> QED BY <1>2, <1>7, <2>1 DEF TokenExcused, At
<1> QED BY <1>3, <1>4, <1>5, <1>6, <1>7 DEF TokenExcused

\* What the request is after the change, and the rows' types are kept.
LEMMA ChangeRowsDoes ==
    ASSUME LinkInv, NEW j \in Jobs, NEW s \in JobRow, s = job[j], s.at \in {"upsert", "delete"},
           NEW u, NEW changed, ChangeRows(j, u, changed)
    PROVE  /\ faults' \in 0..MaxFaults
           /\ \/ /\ rows' = [rows EXCEPT ![u] = changed]
                 /\ \E r : Changed(j, s, r)
              \/ End(j, "failed") /\ UNCHANGED <<rows, excused>>
<1>1. /\ LinkTypes /\ JobFits(j, s) /\ JobCalls(s) /\ s.at \in Consenting \cup Cutting
      /\ s.at \notin Calling /\ s.at # "ended" /\ s.at # "forget"
  BY Facts DEF Consenting, Cutting, Calling
<1>2. faults' \in 0..MaxFaults
  BY <1>1, FaultsCount DEF ChangeRows
<1>3. CASE End(j, "failed") /\ UNCHANGED <<rows, excused>>
  BY <1>2, <1>3
<1>4. CASE /\ rows' = [rows EXCEPT ![u] = changed]
           /\ Go(j, "forget") \/ End(j, "failed")
           /\ excused' = Unheard(s, job'[j])
  <2>1. CASE Go(j, "forget")
    <3>1. PICK r : Moved(j, r) /\ Turn(s, r, "forget", s.row, s.token)
      BY <1>1, <2>1, Goes DEF Pcs
    <3>2. "forget" \notin Consenting /\ "forget" \notin Cutting /\ "forget" \notin HoldsRow
      BY DEF Consenting, Cutting, HoldsRow
    <3>3. Fresh(j, r) /\ Refused(r)' /\ \A c \in copies : c.job # j
      BY <1>1, <3>1, <3>2, RowIsHeld, OnwardIsFresh
    <3>4. job'[j] = r
      BY <1>1, <3>1 DEF LinkTypes, Moved
    <3>5. r.at = "forget" /\ r.worker = s.worker /\ r.user = s.user /\ RevokedOK(r)'
      BY <3>1 DEF Turn, Alike, RevokedOK
    <3>6. Changed(j, s, r)
      BY <1>4, <3>1, <3>3, <3>4, <3>5 DEF Changed
    <3> QED BY <1>2, <1>4, <3>6
  <2>2. CASE End(j, "failed")
    <3>1. PICK r : Moved(j, r) /\ Stop(s, r, "failed")
      BY <1>1, <2>2, Ends DEF Whys
    <3>2. JobFits(j, r)
      BY <1>1, <3>1 DEF JobFits, Stop, Alike, Consenting, Cutting, Calling, HoldsRow, HoldsToken
    <3>3. JobCalls(r)
      BY <1>1, <3>1 DEF JobCalls, Stop, Alike, Calling
    <3>4. Fresh(j, r) /\ RevokedOK(r)' /\ Refused(r)'
      <4>1. \A g \in Grants : Holds(r, g) => Held(g)
        BY <3>1, Facts DEF Holds, Stop, HoldsToken
      <4> QED BY <3>1, <3>2, <3>3, <4>1 DEF Fresh, RevokedOK, Refused, Stop, Consenting
    <3>5. \A c \in copies : c.job # j
      BY <1>1, Facts DEF CopyFits
    <3>6. job'[j] = r /\ r.at = "ended" /\ r.worker = s.worker /\ r.user = s.user
      BY <1>1, <3>1 DEF LinkTypes, Moved, Stop, Alike
    <3>7. Changed(j, s, r)
      BY <1>4, <3>1, <3>4, <3>5, <3>6 DEF Changed
    <3> QED BY <1>2, <1>4, <3>7
  <2> QED BY <1>4, <2>1, <2>2
<1> QED BY <1>2, <1>3, <1>4 DEF ChangeRows, Unheard

LEMMA LinksHaveGrants == ASSUME LinkTypes PROVE GrantsIn(rows) \subseteq Grants
<1> SUFFICES ASSUME NEW g \in GrantsIn(rows) PROVE g \in Grants
  OBVIOUS
<1>1. PICK u \in LinkUsers : \E i \in DOMAIN rows[u] : g = rows[u][i].grant
  BY InGrants
<1>2. PICK i \in DOMAIN rows[u] : g = rows[u][i].grant
  BY <1>1
<1>3. rows[u] \in Seq(LinkRow)
  BY DEF LinkTypes
<1>4. rows[u][i] \in LinkRow
  BY <1>3
<1> QED BY <1>2, <1>4 DEF LinkRow

LEMMA UpsertKeeps == ASSUME LinkInv, NEW j \in Jobs, Upsert(j) PROVE LinkInv'
<1>1. PICK s \in JobRow : s = job[j] /\ s.at = "upsert"
  <2>1. At(j, "upsert")
    BY DEF Upsert
  <2> QED BY <2>1, AtIsPresent
<1>2. /\ LinkTypes /\ JobFits(j, s) /\ s.at \in Consenting /\ s.at # "forget" /\ s.user \in LinkUsers
      /\ s.asked \in Emails /\ s.token = GrantOf(s.asked, s.user, j)
  BY <1>1, Facts DEF JobFits, Consenting, JobRow
<1>3. PICK g \in Grants : g = s.token /\ g.by = s.user /\ g.email = s.asked /\ g.n = j
  BY <1>2 DEF GrantOf, Grants
<1>4. UNCHANGED <<google, cache>>
  BY DEF Upsert
<1>5. ~Held(g)
  BY <1>1, <1>2, <1>3 DEF LinkInv, HeldInv, Known
<1> DEFINE u == s.user
           new == Upserted(u, g)
<1>6. /\ new \in Seq(LinkRow)
      /\ \A i \in DOMAIN new :
           \/ new[i].grant = g /\ new[i].email = g.email
           \/ i \in DOMAIN rows[u] /\ new[i] = rows[u][i] /\ new[i].email # g.email
      /\ \A i, k \in DOMAIN new : new[i].email = new[k].email => i = k
      /\ \E i \in DOMAIN new : new[i].grant = g
  BY <1>2, <1>3, UpsertedRows
<1>7. ChangeRows(j, u, new)
  BY <1>1, <1>3 DEF Upsert
<1> HIDE DEF new
<1>8. /\ faults' \in 0..MaxFaults
      /\ \/ rows' = [rows EXCEPT ![u] = new] /\ \E r : Changed(j, s, r)
         \/ End(j, "failed") /\ UNCHANGED <<rows, excused>>
  BY <1>1, <1>7, ChangeRowsDoes
<1>9. CASE End(j, "failed") /\ UNCHANGED <<rows, excused>>
  <2>1. cut' = cut /\ "failed" \in Whys \ {"ok", "reconnect"}
    BY <1>9 DEF Upsert, Whys
  <2> QED BY <1>1, <1>2, <1>4, <1>8, <1>9, <2>1, EndKeeps DEF ghosts
<1>10. ASSUME rows' = [rows EXCEPT ![u] = new], NEW r, Changed(j, s, r) PROVE LinkInv'
  <2>1. /\ r \in JobRow /\ Moved(j, r) /\ JobFits(j, r) /\ JobCalls(r) /\ Refused(r)' /\ RevokedOK(r)'
        /\ r.at \in {"forget", "ended"} /\ \A c \in copies : c.job # j
        /\ \A x \in Grants : Holds(r, x) => Held(x)
    BY <1>10 DEF Changed, Fresh
  <2>2. \A x \in Jobs : job'[x] = IF x = j THEN r ELSE job[x]
    BY <1>2, <2>1 DEF LinkTypes, Moved
  <2>3. rows'[u] = new /\ rows' \in [LinkUsers -> Seq(LinkRow)] /\ \A v \in LinkUsers : v # u => rows'[v] = rows[v]
    BY <1>2, <1>6, <1>10 DEF LinkTypes
  <2>4. \A v \in LinkUsers : \A i \in DOMAIN rows'[v] :
          \/ v = u /\ rows'[v][i].grant = g /\ rows'[v][i].email = g.email
          \/ /\ i \in DOMAIN rows[v] /\ rows'[v][i] = rows[v][i]
             /\ v = u => rows[v][i].email # g.email
    BY <1>6, <2>3
  <2>5. RowsFit'
    <3>1. \A v \in LinkUsers : \A i, k \in DOMAIN rows'[v] : rows'[v][i].email = rows'[v][k].email => i = k
      BY <1>6, <2>3 DEF LinkInv, FitInv, RowsFit
    <3>2. ASSUME NEW v \in LinkUsers, NEW i \in DOMAIN rows'[v]
          PROVE  rows'[v][i].grant.by = v /\ rows'[v][i].grant.email = rows'[v][i].email
      BY <1>3, <2>4 DEF LinkInv, FitInv, RowsFit
    <3> QED BY <3>1, <3>2 DEF RowsFit
  <2>6. excused' \in SUBSET (Workers \X Grants)
    BY <1>2, <1>10, LinksHaveGrants DEF Changed, Unheard, LinkTypes
  <2>7. cut' = IF rows' = rows THEN cut ELSE cut \ {<<u, g.email>>}
    BY <1>1, <1>3 DEF Upsert
  <2>8. rows' # rows
    <3>1. PICK i \in DOMAIN new : new[i].grant = g
      BY <1>6
    <3>2. ASSUME rows' = rows PROVE FALSE
      <4>1. i \in DOMAIN rows[u] /\ rows[u][i].grant = g
        BY <2>3, <3>1, <3>2
      <4> QED BY <1>2, <1>5, <4>1, InGrants DEF Held
    <3> QED BY <3>2
  <2>9. FitInv'
    <3>1. CacheFits'
      BY <1>4 DEF LinkInv, FitInv, CacheFits
    <3>2. /\ live' \in SUBSET Grants /\ cache' \in [Workers -> [CacheKeys -> Grants \cup {None}]]
          /\ shared' \in BOOLEAN /\ copies' \in SUBSET [job : Jobs, email : Emails]
          /\ cut' \in SUBSET (LinkUsers \X Emails)
      BY <1>2, <1>4, <2>7 DEF LinkTypes, google
    <3> QED BY <1>8, <2>1, <2>3, <2>5, <2>6, <3>1, <3>2, FitMoves DEF LinkInv
  <2>10. CallInv'
    <3>1. copies' \in SUBSET [job : Jobs, email : Emails] /\ copies' = copies
      BY <1>2, <1>4 DEF LinkTypes, google
    <3> QED BY <1>2, <2>1, <3>1, CallMoves DEF LinkInv
  <2>11. \A x \in Grants : Held(x)' => Held(x) \/ x = g
    <3> TAKE x \in Grants
    <3> SUFFICES ASSUME Held(x)' PROVE Held(x) \/ x = g
      OBVIOUS
    <3>1. CASE (x \in GrantsIn(rows))'
      <4>0. PICK v \in LinkUsers : \E i \in DOMAIN rows'[v] : x = rows'[v][i].grant
        BY <3>1 DEF GrantsIn
      <4>1. PICK i \in DOMAIN rows'[v] : x = rows'[v][i].grant
        BY <4>0
      <4> QED BY <2>4, <4>1, InGrants DEF Held
    <3>2. CASE \E w \in Workers, k \in CacheKeys : cache'[w][k] # None /\ x = cache'[w][k]
      BY <1>4, <3>2 DEF Held
    <3>3. ASSUME NEW y \in Jobs, job'[y] \in JobRow, Holds(job'[y], x) PROVE Held(x)
      BY <2>1, <2>2, <3>3 DEF Held
    <3> QED BY <3>1, <3>2, <3>3 DEF Held
  <2>12. HeldInv'
    <3>1. ASSUME NEW x \in Grants, Held(x)' PROVE Known(x)'
      <4>1. r.at \notin Consenting
        BY <2>1 DEF Consenting
      <4>2. CASE Held(x)
        <5>1. Known(x)
          BY <4>2 DEF LinkInv, HeldInv
        <5> QED BY <1>2, <2>1, <4>1, <5>1, KnownStays
      <4>3. CASE x = g
        BY <1>3, <2>1, <2>2, <4>1, <4>3 DEF Known
      <4> QED BY <2>11, <3>1, <4>2, <4>3
    <3>2. ASSUME NEW v, NEW e, Gone(v, e), ~(v = u /\ e = g.email) PROVE Gone(v, e)'
      BY <1>3, <1>4, <2>11, <3>2 DEF Gone, google
    <3>3. ASSUME NEW v \in LinkUsers, NEW e \in Emails, <<v, e>> \in cut'
          PROVE  Gone(v, e)' /\ \A i \in DOMAIN rows'[v] : rows'[v][i].email # e
      <4>1. <<v, e>> \in cut /\ ~(v = u /\ e = g.email)
        BY <2>7, <2>8, <3>3
      <4>2. Gone(v, e) /\ \A i \in DOMAIN rows[v] : rows[v][i].email # e
        BY <4>1 DEF LinkInv, HeldInv
      <4> QED BY <2>4, <3>2, <4>1, <4>2
    <3>4. ASSUME NEW x \in Jobs, job'[x] \in JobRow PROVE RevokedOK(job[x])'
      <4>1. CASE x = j
        BY <2>1, <2>2, <4>1
      <4>2. CASE x # j
        <5>1. PICK t \in JobRow : t = job[x] /\ t = job'[x] /\ RevokedOK(t) /\ JobFits(x, t)
          BY <2>2, <3>4, <4>2, Facts
        <5>2. ASSUME t.at = "delete", t.revoked, NEW i \in DOMAIN rows'[t.user],
                     rows'[t.user][i].grant = t.row.grant
              PROVE  Gone(t.user, t.row.email)'
          <6>1. t.user \in LinkUsers /\ t.row # None /\ t.row.grant.email = t.row.email /\ Held(t.row.grant)
            <7>1. t.user \in LinkUsers
              BY DEF JobRow
            <7>2. t.row # None /\ t.row.grant.email = t.row.email
              BY <5>1, <5>2 DEF JobFits, HoldsRow
            <7> QED BY <5>1, <7>1, <7>2, RowIsHeld
          <6>2. /\ i \in DOMAIN rows[t.user] /\ rows[t.user][i].grant = t.row.grant
                /\ t.user = u => rows[t.user][i].email # g.email
            BY <1>5, <2>4, <5>2, <6>1
          <6>3. rows[t.user][i].email = t.row.email
            BY <6>1, <6>2 DEF LinkInv, FitInv, RowsFit
          <6>4. Gone(t.user, t.row.email)
            BY <5>1, <5>2, <6>2 DEF RevokedOK
          <6> QED BY <3>2, <6>2, <6>3, <6>4
        <5>3. RevokedOK(t)'
          BY <5>2 DEF RevokedOK
        <5> QED BY <5>1, <5>3
      <4> QED BY <4>1, <4>2
    <3> QED BY <3>1, <3>3, <3>4 DEF HeldInv
  <2>13. ExcuseInv'
    <3>1. ASSUME NEW x \in Jobs, job'[x] \in JobRow PROVE Refused(job[x])'
      <4>1. CASE x = j
        BY <2>1, <2>2, <4>1
      <4>2. CASE x # j
        <5>1. PICK t \in JobRow : t = job[x] /\ t = job'[x] /\ Refused(t)
          BY <2>2, <3>1, <4>2, Facts
        <5>2. t.user \in LinkUsers /\ (t.row # None => Held(t.row.grant))
          BY <5>1, RowIsHeld DEF JobRow
        <5>3. Refused(t)'
          BY <1>5, <2>4, <5>1, <5>2 DEF Refused
        <5> QED BY <5>1, <5>3
      <4> QED BY <4>1, <4>2
    <3>2. \A w \in Workers, k \in CacheKeys : cache'[w][k] # None => TokenExcused(w, k, cache[w][k])'
      BY <1>1, <1>2, <1>4, <1>10, <2>3, ChangeExcuses
    <3> QED BY <3>1, <3>2 DEF ExcuseInv
  <2> QED BY <2>9, <2>10, <2>12, <2>13 DEF LinkInv
<1> QED BY <1>8, <1>9, <1>10

LEMMA RowsWithout ==
    ASSUME LinkInv, NEW u \in LinkUsers, NEW e \in Emails
    PROVE  LET mine == Found(u, e)
               new == IF mine = {} THEN rows[u] ELSE RemoveAt(rows[u], CHOOSE i \in mine : TRUE) IN
           /\ new \in Seq(LinkRow)
           /\ \A k \in DOMAIN new : \E m \in DOMAIN rows[u] :
                new[k] = rows[u][m] /\ rows[u][m].email # e
           /\ \A i, k \in DOMAIN new : new[i].email = new[k].email => i = k
<1> DEFINE mine == Found(u, e)
           new == IF mine = {} THEN rows[u] ELSE RemoveAt(rows[u], CHOOSE i \in mine : TRUE)
<1>1. e # None /\ rows[u] \in Seq(LinkRow)
  BY GoogleAssumption DEF LinkInv, FitInv, LinkTypes
<1>2. \A i : i \in mine <=> i \in DOMAIN rows[u] /\ rows[u][i].email = e
  BY <1>1 DEF Found, Means
<1>3. \A i, k \in DOMAIN rows[u] : rows[u][i].email = rows[u][k].email => i = k
  BY DEF LinkInv, FitInv, RowsFit
<1>4. CASE mine = {}
  BY <1>1, <1>2, <1>3, <1>4
<1>5. CASE mine # {}
  <2>1. PICK x \in mine : new = RemoveAt(rows[u], x)
    BY <1>5
  <2>2. x \in 1..Len(rows[u]) /\ DOMAIN rows[u] = 1..Len(rows[u]) /\ Len(rows[u]) \in Nat
    BY <1>1, <1>2, <2>1
  <2> HIDE DEF new, mine
  <2>3. /\ new \in Seq(LinkRow)
        /\ \A k \in DOMAIN new : \E m \in DOMAIN rows[u] :
             m # x /\ new[k] = rows[u][m] /\ m = IF k < x THEN k ELSE k + 1
    BY <1>1, <2>1, <2>2, Removed
  <2>4. \A m \in DOMAIN rows[u] : m # x => rows[u][m].email # e
    BY <1>2, <1>3, <2>1
  <2>5. ASSUME NEW i \in DOMAIN new, NEW k \in DOMAIN new, new[i].email = new[k].email PROVE i = k
    <3>1. PICK m \in DOMAIN rows[u] : new[i] = rows[u][m] /\ m = IF i < x THEN i ELSE i + 1
      BY <2>3
    <3>2. PICK n \in DOMAIN rows[u] : new[k] = rows[u][n] /\ n = IF k < x THEN k ELSE k + 1
      BY <2>3
    <3>3. m = n
      BY <1>3, <2>5, <3>1, <3>2
    <3>4. i \in Nat /\ k \in Nat /\ x \in Nat
      BY <2>2, <2>3
    <3> QED BY <3>1, <3>2, <3>3, <3>4
  <2> QED BY <2>3, <2>4, <2>5 DEF new, mine
<1> QED BY <1>4, <1>5

LEMMA DeleteKeeps == ASSUME LinkInv, NEW j \in Jobs, Delete(j) PROVE LinkInv'
<1>1. PICK s \in JobRow : s = job[j] /\ s.at = "delete"
  <2>1. At(j, "delete")
    BY DEF Delete
  <2> QED BY <2>1, AtIsPresent
<1>2. /\ LinkTypes /\ JobFits(j, s) /\ RevokedOK(s) /\ s.at \in Cutting /\ s.at # "forget" /\ s.user \in LinkUsers
      /\ s.row \in LinkRow
  BY <1>1, Facts DEF JobFits, Cutting, HoldsRow, JobRow
<1>3. UNCHANGED <<google, cache>>
  BY DEF Delete
<1> DEFINE u == s.user
           e == s.row.email
           mine == Found(u, e)
           new == IF mine = {} THEN rows[u] ELSE RemoveAt(rows[u], CHOOSE i \in mine : TRUE)
<1>4. e \in Emails /\ e # None
  BY <1>2, GoogleAssumption DEF LinkRow
<1>5. /\ new \in Seq(LinkRow)
      /\ \A k \in DOMAIN new : \E m \in DOMAIN rows[u] : new[k] = rows[u][m] /\ rows[u][m].email # e
      /\ \A i, k \in DOMAIN new : new[i].email = new[k].email => i = k
  BY <1>2, <1>4, RowsWithout
<1>6. /\ ChangeRows(j, u, new)
      /\ cut' = IF rows' # rows /\ s.revoked /\ \A i \in mine : rows[u][i].grant = s.row.grant
                THEN cut \cup {<<u, e>>} ELSE cut
  BY <1>1 DEF Delete
<1>7. mine = {} => new = rows[u]
  OBVIOUS
<1>8. \A i : i \in mine <=> i \in DOMAIN rows[u] /\ rows[u][i].email = e
  BY <1>4 DEF Found, Means
<1> HIDE DEF new, mine
<1>9. /\ faults' \in 0..MaxFaults
      /\ \/ rows' = [rows EXCEPT ![u] = new] /\ \E r : Changed(j, s, r)
         \/ End(j, "failed") /\ UNCHANGED <<rows, excused>>
  BY <1>1, <1>6, ChangeRowsDoes
<1>10. CASE End(j, "failed") /\ UNCHANGED <<rows, excused>>
  <2>1. cut' = cut /\ "failed" \in Whys \ {"ok", "reconnect"}
    BY <1>6, <1>10 DEF Whys
  <2> QED BY <1>1, <1>2, <1>3, <1>9, <1>10, <2>1, EndKeeps DEF ghosts
<1>11. ASSUME rows' = [rows EXCEPT ![u] = new], NEW r, Changed(j, s, r) PROVE LinkInv'
  <2>1. /\ r \in JobRow /\ Moved(j, r) /\ JobFits(j, r) /\ JobCalls(r) /\ Refused(r)' /\ RevokedOK(r)'
        /\ r.at \notin Consenting /\ \A c \in copies : c.job # j
        /\ \A x \in Grants : Holds(r, x) => Held(x)
    BY <1>11 DEF Changed, Fresh, Consenting
  <2>2. rows'[u] = new /\ rows' \in [LinkUsers -> Seq(LinkRow)] /\ \A v \in LinkUsers : v # u => rows'[v] = rows[v]
    BY <1>2, <1>5, <1>11 DEF LinkTypes
  <2>3. \A v \in LinkUsers : \A i \in DOMAIN rows'[v] : \E k \in DOMAIN rows[v] :
          rows'[v][i] = rows[v][k] /\ (v = u => rows[v][k].email # e)
    BY <1>5, <2>2
  <2>4. FewerLinks
    BY <2>3 DEF FewerLinks
  <2>5. RowsFit'
    <3>1. \A v \in LinkUsers : \A i, k \in DOMAIN rows'[v] : rows'[v][i].email = rows'[v][k].email => i = k
      BY <1>5, <2>2 DEF LinkInv, FitInv, RowsFit
    <3>2. ASSUME NEW v \in LinkUsers, NEW i \in DOMAIN rows'[v]
          PROVE  rows'[v][i].grant.by = v /\ rows'[v][i].grant.email = rows'[v][i].email
      BY <2>3 DEF LinkInv, FitInv, RowsFit
    <3> QED BY <3>1, <3>2 DEF RowsFit
  <2>6. ASSUME <<u, e>> \in cut' \ cut PROVE Gone(u, e)
    <3>1. rows' # rows /\ s.revoked /\ \A i \in mine : rows[u][i].grant = s.row.grant
      BY <1>6, <2>6
    <3>2. PICK i \in mine : TRUE
      BY <1>2, <1>7, <1>11, <3>1 DEF LinkTypes
    <3> QED BY <1>1, <1>2, <1>8, <3>1, <3>2 DEF RevokedOK
  <2>7. \A v, x : <<v, x>> \in cut' => <<v, x>> \in cut \/ (v = u /\ x = e /\ <<u, e>> \in cut' \ cut)
    BY <1>6
  <2>8. FitInv'
    <3>1. CacheFits'
      BY <1>3 DEF LinkInv, FitInv, CacheFits
    <3>2. /\ live' \in SUBSET Grants /\ cache' \in [Workers -> [CacheKeys -> Grants \cup {None}]]
          /\ shared' \in BOOLEAN /\ copies' \in SUBSET [job : Jobs, email : Emails]
      BY <1>2, <1>3 DEF LinkTypes, google
    <3>3. cut' \in SUBSET (LinkUsers \X Emails)
      BY <1>2, <1>4, <1>6 DEF LinkTypes
    <3>4. excused' \in SUBSET (Workers \X Grants)
      BY <1>2, <1>11, LinksHaveGrants DEF Changed, Unheard, LinkTypes
    <3> QED BY <1>9, <2>1, <2>2, <2>5, <3>1, <3>2, <3>3, <3>4, FitMoves DEF LinkInv
  <2>9. CallInv'
    <3>1. copies' \in SUBSET [job : Jobs, email : Emails] /\ copies' = copies
      BY <1>2, <1>3 DEF LinkTypes, google
    <3> QED BY <1>2, <2>1, <3>1, CallMoves DEF LinkInv
  <2>10. HeldInv'
    <3>1. \A w \in Workers, k \in CacheKeys : cache'[w][k] # None => Held(cache'[w][k])
      BY <1>3 DEF Held
    <3>2. \A g \in Grants : Held(g)' => Held(g)
      BY <1>2, <2>1, <2>4, <3>1, HeldBack
    <3>3. \A g \in Grants : g \in live' /\ Held(g) => g \in live
      BY <1>3 DEF google
    <3>4. ASSUME NEW v \in LinkUsers, NEW x \in Emails, <<v, x>> \in cut'
          PROVE  <<v, x>> \in cut \/ (Gone(v, x) /\ \A i \in DOMAIN rows'[v] : rows'[v][i].email # x)
      BY <2>3, <2>6, <2>7, <3>4
    <3> QED BY <1>2, <2>1, <2>4, <3>2, <3>3, <3>4, HeldMoves DEF LinkInv
  <2>11. ExcuseInv'
    <3>1. \A w \in Workers, k \in CacheKeys : cache'[w][k] # None => TokenExcused(w, k, cache[w][k])'
      BY <1>1, <1>2, <1>3, <1>11, <2>2, ChangeExcuses
    <3> QED BY <1>2, <2>1, <2>4, <3>1, ExcuseMoves DEF LinkInv
  <2> QED BY <2>8, <2>9, <2>10, <2>11 DEF LinkInv
<1> QED BY <1>9, <1>10, <1>11

(* The invariant, from the first state on *)

LEMMA LinkInitInv == Init => LinkInv
<1> SUFFICES ASSUME Init PROVE LinkInv
  OBVIOUS
<1>1. /\ rows = [u \in LinkUsers |-> [i \in DOMAIN Linked[u] |->
                   [email |-> Linked[u][i], grant |-> GrantOf(Linked[u][i], u, 0), flagged |-> FALSE]]]
      /\ live = GrantsIn(rows) /\ cache = [w \in Workers |-> [k \in CacheKeys |-> None]]
      /\ job = [j \in Jobs |-> NoJob]
      /\ shared = FALSE /\ copies = {} /\ faults = 0 /\ cut = {} /\ excused = {}
  BY DEF Init
<1>2. \A j \in Jobs : job[j] = NoJob /\ job[j] \notin JobRow
  BY <1>1, NobodyIsNoJob
<1>3. \A w \in Workers, k \in CacheKeys : cache[w][k] = None
  BY <1>1
<1>4. ASSUME NEW u \in LinkUsers
      PROVE  /\ DOMAIN rows[u] = DOMAIN Linked[u]
             /\ \A i \in DOMAIN Linked[u] : /\ rows[u][i] \in LinkRow
                                            /\ rows[u][i].email = Linked[u][i]
                                            /\ rows[u][i].grant = GrantOf(Linked[u][i], u, 0)
             /\ rows[u] \in Seq(LinkRow)
  <2>1. Linked[u] \in Seq(Emails) /\ DOMAIN Linked[u] = 1..Len(Linked[u]) /\ Len(Linked[u]) \in Nat
    BY GoogleAssumption
  <2>2. rows[u] = [i \in 1..Len(Linked[u]) |->
                     [email |-> Linked[u][i], grant |-> GrantOf(Linked[u][i], u, 0), flagged |-> FALSE]]
    BY <1>1, <2>1
  <2>3. \A i \in 1..Len(Linked[u]) :
          [email |-> Linked[u][i], grant |-> GrantOf(Linked[u][i], u, 0), flagged |-> FALSE] \in LinkRow
    BY <2>1 DEF LinkRow, Grants, GrantOf
  <2> QED BY <2>1, <2>2, <2>3
<1>5. LinkTypes
  <2>1. rows \in [LinkUsers -> Seq(LinkRow)]
    BY <1>1, <1>4
  <2>2. ASSUME NEW g \in GrantsIn(rows) PROVE g \in Grants
    <3>1. PICK u \in LinkUsers : \E i \in DOMAIN rows[u] : g = rows[u][i].grant
      BY InGrants
    <3>2. PICK i \in DOMAIN rows[u] : g = rows[u][i].grant
      BY <3>1
    <3> QED BY <1>4, <3>2 DEF LinkRow
  <2>3. 0 \in 0..MaxFaults
    BY GoogleAssumption
  <2> QED BY <1>1, <2>1, <2>2, <2>3 DEF LinkTypes
<1>6. RowsFit
  <2>1. \A u \in LinkUsers : \A i, k \in DOMAIN Linked[u] : Linked[u][i] = Linked[u][k] => i = k
    BY GoogleAssumption
  <2>2. ASSUME NEW u \in LinkUsers, NEW i \in DOMAIN rows[u]
        PROVE  rows[u][i].grant.by = u /\ rows[u][i].grant.email = rows[u][i].email
    <3>1. rows[u][i].email = Linked[u][i] /\ rows[u][i].grant = GrantOf(Linked[u][i], u, 0)
      BY <1>4, <2>2
    <3> QED BY <3>1 DEF GrantOf
  <2>3. ASSUME NEW u \in LinkUsers, NEW i \in DOMAIN rows[u], NEW k \in DOMAIN rows[u],
               rows[u][i].email = rows[u][k].email
        PROVE  i = k
    BY <1>4, <2>1, <2>3
  <2> QED BY <2>2, <2>3 DEF RowsFit
<1>7. HeldInv
  <2>1. ASSUME NEW g \in Grants, Held(g) PROVE Known(g)
    <3>1. PICK u \in LinkUsers : \E i \in DOMAIN rows[u] : g = rows[u][i].grant
      BY <1>2, <1>3, <2>1, InGrants DEF Held
    <3>2. g.n = 0
      <4>1. PICK i \in DOMAIN rows[u] : g = rows[u][i].grant
        BY <3>1
      <4>2. rows[u][i].grant = GrantOf(Linked[u][i], u, 0)
        BY <1>4
      <4> QED BY <4>1, <4>2 DEF GrantOf
    <3> QED BY <3>2, GoogleAssumption DEF Known
  <2> QED BY <1>1, <1>2, <2>1 DEF HeldInv
<1>8. FitInv
  BY <1>2, <1>3, <1>5, <1>6 DEF FitInv, CacheFits
<1>9. CallInv /\ ExcuseInv
  BY <1>1, <1>2, <1>3 DEF CallInv, ExcuseInv
<1> QED BY <1>7, <1>8, <1>9 DEF LinkInv

LEMMA LinkStutters == ASSUME LinkInv, UNCHANGED vars PROVE LinkInv'
<1>1. UNCHANGED <<rows, live, cache, job, shared, copies, faults, cut, excused>>
  BY DEF vars
<1>2. FitInv'
  BY <1>1 DEF LinkInv, FitInv, LinkTypes, RowsFit, CacheFits
<1>3. CallInv'
  BY <1>1 DEF LinkInv, CallInv
<1>4. HeldInv'
  BY <1>1 DEF LinkInv, HeldInv, Held, Known, Gone, RevokedOK
<1>5. ExcuseInv'
  BY <1>1 DEF LinkInv, ExcuseInv, Refused, TokenExcused, At
<1> QED BY <1>2, <1>3, <1>4, <1>5 DEF LinkInv

LEMMA LinkNextInv == LinkInv /\ [Next]_vars => LinkInv'
<1> SUFFICES ASSUME LinkInv, [Next]_vars PROVE LinkInv'
  OBVIOUS
<1>1. ASSUME NEW j \in Jobs, Step(j) PROVE LinkInv'
  <2>1. CASE Exchange(j) \/ Whose(j) \/ Upsert(j) \/ Forget(j)
    BY <2>1, ExchangeKeeps, WhoseKeeps, UpsertKeeps, ForgetKeeps
  <2>2. CASE Start(j) \/ Find(j) \/ Revoke(j) \/ Delete(j)
    BY <2>2, StartKeeps, FindKeeps, RevokeKeeps, DeleteKeeps
  <2>3. CASE Call(j) \/ Finish(j) \/ ReadRow(j) \/ Refresh(j)
    BY <2>3, CallKeeps, FinishKeeps, ReadRowKeeps, RefreshKeeps
  <2>4. CASE Flag(j) \/ Store(j) \/ SendCall(j)
    BY <2>4, FlagKeeps, StoreKeeps, SendCallKeeps
  <2> QED BY <1>1, <2>1, <2>2, <2>3, <2>4 DEF Step
<1>2. ASSUME NEW e \in Emails, OwnerRevokes(e) PROVE LinkInv'
  BY <1>2, OwnerRevokesKeeps
<1>3. CASE ShareFromDrive
  BY <1>3, ShareFromDriveKeeps
<1>4. ASSUME NEW w \in Workers, Restart(w) PROVE LinkInv'
  BY <1>4, RestartKeeps
<1>5. CASE UNCHANGED vars
  BY <1>5, LinkStutters
<1> QED BY <1>1, <1>2, <1>3, <1>4, <1>5 DEF Next

THEOREM LinksInvariant == Spec => []LinkInv
<1>1. Init => LinkInv
  BY LinkInitInv
<1>2. LinkInv /\ [Next]_vars => LinkInv'
  BY LinkNextInv
<1> QED BY <1>1, <1>2, PTL DEF Spec

(* What users rely on *)

LEMMA PresentFits ==
    ASSUME LinkInv, NEW j \in Jobs, ~At(j, "absent")
    PROVE  job[j] \in JobRow /\ JobFits(j, job[j]) /\ JobCalls(job[j]) /\ Refused(job[j])
<1>1. job[j] \in JobRow
  BY Present DEF At, LinkInv, FitInv
<1> QED BY <1>1, Facts

\* A request that names an account reaches that account alone, through the user's own
\* grant, whatever is linked, refreshed or cached meanwhile (_access_token).
THEOREM AccountIsTheOneNamed == Spec => []NamedAccountOnly
<1>1. LinkInv => NamedAccountOnly
  <2> SUFFICES ASSUME LinkInv PROVE NamedAccountOnly
    OBVIOUS
  <2>1. LinkTypes /\ RowsFit /\ CacheFits
    BY DEF LinkInv, FitInv
  <2>2. ASSUME NEW j \in Jobs, ~At(j, "absent")
        PROVE  /\ job[j].kind \in {"complete", "disconnect", "app", "work"}
               /\ job[j].i \in 1..(Len(job[j].calls) + 1)
               /\ job[j].row # None => job[j].row.grant.by = job[j].user
               /\ job[j].asked # None => \A i \in DOMAIN job[j].hits :
                    job[j].hits[i].email = job[j].asked /\ job[j].hits[i].by = job[j].user
    BY <2>2, PresentFits DEF JobFits, JobRow, Fits
  <2>3. GoogleTypeOK
    BY <2>1, <2>2 DEF GoogleTypeOK, RowsFit, CacheFits, Fits, LinkTypes
  <2> QED BY <2>1, <2>2, <2>3 DEF NamedAccountOnly, RowsFit
<1> QED BY <1>1, LinksInvariant, PTL

\* A token outlives its link in a process only where the change was not heard of, and a
\* link that was found refused shows it (_forget_tokens, _flag_reconnect).
THEOREM StaleTokensHaveAnExcuse == Spec => []StaleTokensAreExcused
<1>1. LinkInv => StaleTokensAreExcused
  <2> SUFFICES ASSUME LinkInv PROVE StaleTokensAreExcused
    OBVIOUS
  <2>1. ASSUME NEW j \in Jobs, At(j, "ended"), job[j].why = "reconnect", ~job[j].failing
        PROVE  \A i \in DOMAIN rows[job[j].user] :
                 rows[job[j].user][i].grant = job[j].row.grant => rows[job[j].user][i].flagged
    BY <2>1, PresentFits DEF Refused, At
  <2>2. \A w \in Workers, k \in CacheKeys : cache[w][k] # None => TokenExcused(w, k, cache[w][k])
    BY DEF LinkInv, ExcuseInv
  <2> QED BY <2>1, <2>2 DEF StaleTokensAreExcused, RefusalIsShown, TokenExcused
<1> QED BY <1>1, LinksInvariant, PTL

\* A temporary document outlives its request only when its making or its deletion went
\* wrong or the process died, and an answer of success means every call was made.
THEOREM TemporaryCopyIsRemoved == Spec => []CopyIsRemoved
<1>1. LinkInv => CopyIsRemoved
  <2> SUFFICES ASSUME LinkInv PROVE CopyIsRemoved
    OBVIOUS
  <2>1. ASSUME NEW j \in Jobs, At(j, "ended"), job[j].why = "ok", job[j].kind \in {"app", "work"}
        PROVE  [i \in DOMAIN job[j].hits |-> job[j].hits[i].what] = job[j].calls
    <3>1. PICK s \in JobRow : s = job[j] /\ JobCalls(s) /\ s.at = "ended"
      BY <2>1, PresentFits DEF At
    <3>2. Len(s.hits) = Len(s.calls) /\ \A k \in DOMAIN s.calls : s.hits[k].what = s.calls[k]
      BY <2>1, <3>1 DEF JobCalls
    <3>3. s.hits \in Seq(Hits) /\ s.calls \in Seq(CallNames)
      BY DEF JobRow
    <3>4. DOMAIN s.hits = DOMAIN s.calls
      BY <3>2, <3>3
    <3> QED BY <3>1, <3>2, <3>3, <3>4
  <2>2. ASSUME NEW c \in copies, At(c.job, "ended")
        PROVE  job[c.job].why # "ok" /\ (job[c.job].why = "died" \/ What(c.job) \in {"copy", "delete"})
    BY <2>2 DEF LinkInv, CallInv, CopyFits, At, What
  <2> QED BY <2>1, <2>2 DEF CopyIsRemoved, OkIsWhole
<1> QED BY <1>1, LinksInvariant, PTL

\* The work thread sends nothing to anybody else, and puts something into a shared file or
\* folder only when it had found it private (_refuse_what_reaches_others, google_worker.py).
\* Of a file it renames, bins or copies where it stands nothing is said: none is looked at.
THEOREM WorkThreadLooksFirst == Spec => []WorkLooksFirst
<1>1. LinkInv => WorkLooksFirst
  <2> SUFFICES ASSUME LinkInv PROVE WorkLooksFirst
    OBVIOUS
  <2>1. \A p \in WorkPrograms : Guarded(p)
    BY WorkCalls
  <2>2. ASSUME NEW j \in Jobs, ~At(j, "absent"), job[j].kind = "work"
        PROVE  \A i \in DOMAIN job[j].hits :
                 /\ job[j].hits[i].what # "send"
                 /\ job[j].hits[i].what = "put" /\ job[j].hits[i].shared => job[j].sawPrivate
    BY <2>2, PresentFits DEF JobCalls
  <2> QED BY <2>1, <2>2 DEF WorkLooksFirst, Guarded
<1> QED BY <1>1, LinksInvariant, PTL

\* What a step adds to what the requests have reached.
HitsStay == \A j \in Jobs : job'[j].hits = job[j].hits
NothingCutIsHit ==
    \A j \in Jobs : \A i \in DOMAIN job'[j].hits :
        i \notin DOMAIN job[j].hits => <<job'[j].user, job'[j].hits[i].email>> \notin cut

LEMMA StayingIsHarmless == HitsStay => NothingCutIsHit
BY DEF HitsStay, NothingCutIsHit

LEMMA MovingStays ==
    ASSUME LinkTypes, NEW j \in Jobs, job[j] \in JobRow
    PROVE  /\ \A pc : Go(j, pc) => HitsStay
           /\ \A why : End(j, why) => HitsStay
           /\ \A why : Fail(j, why) => HitsStay
           /\ \A pc, x : job' = [job EXCEPT ![j].row = x, ![j].at = pc] => HitsStay
           /\ \A pc, x : job' = [job EXCEPT ![j].at = pc, ![j].token = x] => HitsStay
           /\ \A pc, x : job' = [job EXCEPT ![j].token = x, ![j].at = pc] => HitsStay
           /\ \A pc, x : job' = [job EXCEPT ![j].at = pc, ![j].revoked = x] => HitsStay
           /\ UNCHANGED job => HitsStay
<1>1. job \in [Jobs -> JobRow \cup {NoJob}]
  BY DEF LinkTypes
<1>3. ASSUME NEW pc PROVE Go(j, pc) => HitsStay
  BY <1>1 DEF Go, HitsStay, JobRow
<1>4. ASSUME NEW why PROVE End(j, why) => HitsStay
  BY <1>1 DEF End, HitsStay, JobRow
<1>5. ASSUME NEW why PROVE Fail(j, why) => HitsStay
  BY <1>1 DEF Fail, HitsStay, JobRow
<1>6. ASSUME NEW pc, NEW x PROVE job' = [job EXCEPT ![j].row = x, ![j].at = pc] => HitsStay
  BY <1>1 DEF HitsStay, JobRow
<1>7. ASSUME NEW pc, NEW x PROVE job' = [job EXCEPT ![j].at = pc, ![j].token = x] => HitsStay
  BY <1>1 DEF HitsStay, JobRow
<1>8. ASSUME NEW pc, NEW x PROVE job' = [job EXCEPT ![j].token = x, ![j].at = pc] => HitsStay
  BY <1>1 DEF HitsStay, JobRow
<1>9. ASSUME NEW pc, NEW x PROVE job' = [job EXCEPT ![j].at = pc, ![j].revoked = x] => HitsStay
  BY <1>1 DEF HitsStay, JobRow
<1>10. UNCHANGED job => HitsStay
  BY DEF HitsStay
<1> QED BY <1>3, <1>4, <1>5, <1>6, <1>7, <1>8, <1>9, <1>10

LEMMA CallsAreNotCut ==
    ASSUME LinkInv, NEW j \in Jobs, At(j, "send"), Accepted(j)
    PROVE  NothingCutIsHit
<1>1. PICK s \in JobRow : s = job[j] /\ s.at = "send"
  BY AtIsPresent
<1>2. /\ LinkTypes /\ JobFits(j, s) /\ JobCalls(s) /\ s.token \in Grants /\ s.token.by = s.user
      /\ s.i \in DOMAIN s.calls /\ s.calls \in Seq(CallNames) /\ s.user \in LinkUsers
  BY <1>1, Facts DEF JobFits, JobCalls, HoldsToken, Calling, JobRow, Fits
<1>3. PICK h \in Hits : h = Hit(j) /\ h.email = s.token.email
  <2>1. s.calls[s.i] \in CallNames /\ s.token.email \in Emails /\ s.token.by \in LinkUsers
    BY <1>2 DEF Grants
  <2>2. Hit(j) = [what |-> s.calls[s.i], email |-> s.token.email, by |-> s.token.by, shared |-> shared]
    BY <1>1 DEF Hit, What
  <2>3. shared \in BOOLEAN
    BY <1>2 DEF LinkTypes
  <2> QED BY <2>1, <2>2, <2>3 DEF Hits
<1>4. PICK r : Moved(j, r) /\ CallMade(s, r) /\ r.hits = Append(s.hits, h)
  BY <1>1, <1>2, <1>3, Makes
<1>5. \A x \in Jobs : job'[x] = IF x = j THEN r ELSE job[x]
  BY <1>2, <1>4 DEF LinkTypes, Moved
<1>6. \A i \in DOMAIN r.hits : i \notin DOMAIN s.hits => r.hits[i] = h
  <2>1. s.hits \in Seq(Hits)
    BY DEF JobRow
  <2> QED BY <1>4, <2>1
<1>7. <<s.user, s.token.email>> \notin cut
  <2>1. Held(s.token) /\ s.token \in live /\ s.token.email \in Emails
    BY <1>1, <1>2, Facts DEF Holds, HoldsToken, Accepted, Grants
  <2> QED BY <1>2, <2>1 DEF LinkInv, HeldInv, Gone
<1>8. r.user = s.user
  BY <1>4 DEF CallMade, Alike
<1> QED BY <1>1, <1>3, <1>5, <1>6, <1>7, <1>8 DEF NothingCutIsHit

LEMMA StepsReachNothingCut == LinkInv /\ [Next]_vars => NothingCutIsHit
<1> SUFFICES ASSUME LinkInv, [Next]_vars PROVE NothingCutIsHit
  OBVIOUS
<1>0. LinkTypes
  BY DEF LinkInv, FitInv
<1>1. ASSUME NEW j \in Jobs, Step(j) PROVE NothingCutIsHit
  <2>1. CASE Start(j)
    <3>1. PICK m \in Menu, w \in Workers :
        LET new == Arrived(m, w) IN
        job' = [job EXCEPT ![j] =
           CASE m.kind = "complete" /\ CompleteStarts(m) -> [new EXCEPT !.at = "exchange"]
             [] m.kind = "disconnect"                    -> [new EXCEPT !.at = "find"]
             [] m.kind = "app"                           -> new
             [] m.kind = "work" /\ WorkStarts(m)         -> new
             [] OTHER -> [new EXCEPT !.at = "ended", !.why = "turned away"]]
      BY <2>1 DEF Start
    <3>2. job'[j].hits = <<>>
      BY <1>0, <3>1 DEF Arrived, LinkTypes
    <3>3. \A x \in Jobs : x # j => job'[x] = job[x]
      BY <1>0, <3>1 DEF LinkTypes
    <3> QED BY <3>2, <3>3 DEF NothingCutIsHit
  <2>2. CASE ~At(j, "absent")
    <3>1. job[j] \in JobRow
      BY <1>0, <2>2, Present DEF At
    <3>2. CASE Exchange(j) \/ Whose(j) \/ Forget(j)
      BY <1>0, <3>1, <3>2, MovingStays, StayingIsHarmless DEF Exchange, Whose, Forget
    <3>3. CASE Find(j) \/ Revoke(j)
      BY <1>0, <3>1, <3>3, MovingStays, StayingIsHarmless DEF Find, Revoke
    <3>4. CASE Upsert(j) \/ Delete(j)
      BY <1>0, <3>1, <3>4, MovingStays, StayingIsHarmless DEF Upsert, Delete, ChangeRows
    <3>5. CASE Call(j) \/ Finish(j) \/ ReadRow(j)
      BY <1>0, <3>1, <3>5, MovingStays, StayingIsHarmless DEF Call, Finish, ReadRow
    <3>6. CASE Refresh(j) \/ Flag(j) \/ Store(j)
      BY <1>0, <3>1, <3>6, MovingStays, StayingIsHarmless DEF Refresh, Flag, Store
    <3>7. CASE SendCall(j)
      <4>1. CASE Accepted(j)
        BY <3>7, <4>1, CallsAreNotCut DEF SendCall
      <4>2. CASE Unauthorized(j) \/ Rejected(j)
        BY <1>0, <3>1, <4>2, MovingStays, StayingIsHarmless DEF Unauthorized, Rejected
      <4> QED BY <3>7, <4>1, <4>2 DEF SendCall
    <3>8. ~Start(j)
      BY <2>2 DEF Start
    <3> QED BY <1>1, <3>2, <3>3, <3>4, <3>5, <3>6, <3>7, <3>8 DEF Step
  <2>3. ~Start(j) => ~At(j, "absent")
    BY <1>1 DEF Step, At, Exchange, Whose, Upsert, Forget, Find, Revoke, Delete, Call, Finish, ReadRow,
                Refresh, Flag, Store, SendCall
  <2> QED BY <2>1, <2>2, <2>3
<1>2. ASSUME NEW e \in Emails, OwnerRevokes(e) PROVE NothingCutIsHit
  BY <1>2, StayingIsHarmless DEF OwnerRevokes, HitsStay
<1>3. CASE ShareFromDrive
  BY <1>3, StayingIsHarmless DEF ShareFromDrive, HitsStay
<1>4. ASSUME NEW w \in Workers, Restart(w) PROVE NothingCutIsHit
  <2>1. \A j \in Jobs : job'[j] = job[j] \/ (~At(j, "absent") /\ job'[j] = [job[j] EXCEPT !.at = "ended", !.why = "died"])
    BY <1>4 DEF Restart
  <2>2. HitsStay
    BY <1>0, <2>1, Present DEF HitsStay, JobRow, At
  <2> QED BY <2>2, StayingIsHarmless
<1>5. CASE UNCHANGED vars
  BY <1>5, StayingIsHarmless DEF vars, HitsStay
<1> QED BY <1>1, <1>2, <1>3, <1>4, <1>5 DEF Next

\* Once a user has disconnected an account and Google has ended its grant, no call of
\* theirs reaches it until they link it again (disconnect, _access_token).
THEOREM DisconnectionIsFinal == Spec => CutIsFinal
<1>1. LinkInv /\ [Next]_vars
        => [\A j \in Jobs : \A i \in DOMAIN job'[j].hits :
              i \notin DOMAIN job[j].hits => <<job'[j].user, job'[j].hits[i].email>> \notin cut]_vars
  BY StepsReachNothingCut DEF NothingCutIsHit
<1> QED BY <1>1, LinksInvariant, PTL DEF Spec, CutIsFinal

---------------------------------------------------------------------------
(* Pricing *)

Rate == Nat \ {0}
\* What a model of the catalogue costs: a cached token no more than another, and nothing is
\* free but a call.
TokenRates == [kind : {"tokens"}, in : Rate, out : Rate, cached : Rate \cup {NoRate}]
MinuteRates == [kind : {"audio"}, minute : Rate, chars : {NoRate}]
CharacterRates == [kind : {"audio"}, minute : {NoRate}, chars : Rate]
RealtimeRates == [kind : {"realtime"}, audioIn : Rate, audioOut : Rate, in : Rate, out : Rate,
                  cached : Rate \cup {NoRate}]
CallRates == [kind : {"call"}, call : Nat]
Rates ==
    {p \in TokenRates : p.cached <= p.in} \cup MinuteRates \cup CharacterRates
        \cup {p \in RealtimeRates : p.cached <= p.in} \cup CallRates
Named == {"openai", "google", "anthropic", "deepseek-ai", "moonshotai", "deepgram", "elevenlabs",
          "assemblyai", "cartesia", "tavily", "browserbase", "browser_use", "serpapi", "microlink", "zep"}

\* r is a row of the catalogue
IsRow(r) == r[1] \in Named /\ r[3] \in Rates

LEMMA TokenRate ==
    ASSUME NEW in \in Rate, NEW out \in Rate, NEW cached \in Rate \cup {NoRate}, cached <= in
    PROVE  Tokens3(in, out, cached) \in Rates
BY DEF Tokens3, Rates, TokenRates

LEMMA LLMRows == \A r \in LLM_PRICING : IsRow(r)
BY TokenRate, SMTT(60) DEF LLM_PRICING, IsRow, Named, Rate, NoRate

LEMMA STTRows == \A r \in STT_PRICING : IsRow(r)
BY SMTT(60) DEF STT_PRICING, IsRow, Named, Rate, PerMinute, MinuteRates, Rates
LEMMA TTSRows == \A r \in TTS_PRICING : IsRow(r)
BY SMTT(60) DEF TTS_PRICING, IsRow, Named, Rate, PerCharacters, CharacterRates, Rates
LEMMA RealtimeRate ==
    ASSUME NEW a \in Rate, NEW b \in Rate, NEW in \in Rate, NEW out \in Rate, 
           NEW cached \in Rate \cup {NoRate}, cached <= in
    PROVE  Realtime(a, b, in, out, cached) \in Rates
BY DEF Realtime, Rates, RealtimeRates
LEMMA RealtimeRows == \A r \in REALTIME_PRICING : IsRow(r)
BY RealtimeRate, SMTT(60) DEF REALTIME_PRICING, IsRow, Named, Rate, NoRate
LEMMA ExternalRows == \A r \in EXTERNAL_PRICING : IsRow(r)
BY SMTT(60) DEF EXTERNAL_PRICING, IsRow, Named, Rate, PerCall, CallRates, Rates
LEMMA CatalogueRows == \A r \in Catalogue : IsRow(r)
BY LLMRows, STTRows, TTSRows, RealtimeRows, ExternalRows DEF Catalogue

\* Every model of the catalogue has a rate.
LEMMA CatalogueRates ==
    ASSUME NEW m \in DOMAIN ALL_PRICING
    PROVE  m[1] \in Named /\ ALL_PRICING[m] \in Rates
<1> DEFINE K == {<<r[1], r[2]>> : r \in Catalogue}
           RowOf(k) == CHOOSE r \in Catalogue : <<r[1], r[2]>> = k
<1>1. ALL_PRICING = [k \in K |-> RowOf(k)[3]]
  BY DEF ALL_PRICING
<1>2. m \in K
  BY <1>1
<1>3. RowOf(m) \in Catalogue /\ <<RowOf(m)[1], RowOf(m)[2]>> = m
  <2>1. PICK r \in Catalogue : <<r[1], r[2]>> = m
    BY <1>2
  <2> QED  BY <2>1
<1>4. IsRow(RowOf(m))
  BY <1>3, CatalogueRows
<1>5. ALL_PRICING[m] = RowOf(m)[3]
  BY <1>1, <1>2
<1>6. m[1] = RowOf(m)[1]
  BY <1>3
<1> QED  BY <1>4, <1>5, <1>6 DEF IsRow

\* A model is looked up by its company and its name, however it is spelled.
LEMMA LookUp ==
    ASSUME NEW id
    PROVE  /\ get_model_pricing(id) = IF <<AliasOf(id.provider), id.model>> \in DOMAIN ALL_PRICING
                                      THEN <<AliasOf(id.provider), id.model>> ELSE NoModel
           /\ get_model_pricing(id) # NoModel => ALL_PRICING[get_model_pricing(id)] \in Rates
<1> DEFINE p == id.provider
           m == id.model
<1>1. \A q \in Named : AliasOf(q) = q
  BY DEF AliasOf, Named
<1>2. <<p, m>> \in DOMAIN ALL_PRICING => AliasOf(p) = p
  <2> HAVE <<p, m>> \in DOMAIN ALL_PRICING
  <2>1. <<p, m>>[1] \in Named
    BY CatalogueRates
  <2> QED  BY <2>1, <1>1
<1>3. get_model_pricing(id) = IF <<AliasOf(p), m>> \in DOMAIN ALL_PRICING
                              THEN <<AliasOf(p), m>> ELSE NoModel
  BY <1>2 DEF get_model_pricing
<1> QED  BY <1>3, CatalogueRates

LEMMA SpellingsAgree ==
    ASSUME NEW a, NEW b, SameModel(a, b)
    PROVE  get_model_pricing(a) = get_model_pricing(b)
<1>1. a.model = b.model
  BY DEF SameModel
<1>2. AliasOf(a.provider) = AliasOf(b.provider)
  BY DEF SameModel, Companies, AliasOf
<1> QED  BY <1>1, <1>2, LookUp
LEMMA GreaterOfTwo ==
    ASSUME NEW a \in Int, NEW b \in Int
    PROVE  Max({a, b}) = IF a >= b THEN a ELSE b
<1>1. \E m \in {a, b} : \A k \in {a, b} : m >= k
  <2>1. a >= b \/ b >= a
    OBVIOUS
  <2> QED  BY <2>1
<1>2. Max({a, b}) \in {a, b} /\ \A k \in {a, b} : Max({a, b}) >= k
  BY <1>1 DEF Max
<1> QED  BY <1>2

LEMMA LesserOfTwo ==
    ASSUME NEW a \in Int, NEW b \in Int
    PROVE  Min({a, b}) = IF a <= b THEN a ELSE b
<1>1. \E m \in {a, b} : \A k \in {a, b} : m <= k
  <2>1. a <= b \/ b <= a
    OBVIOUS
  <2> QED  BY <2>1
<1>2. Min({a, b}) \in {a, b} /\ \A k \in {a, b} : Min({a, b}) <= k
  BY <1>1 DEF Min
<1> QED  BY <1>2

LEMMA Products ==
    /\ \A a, b \in Nat : a * b \in Nat
    /\ \A a, b \in Rate : a * b \in Rate
    /\ \A a, b, c \in Nat : a <= b => a * c <= b * c /\ c * a <= c * b
BY DEF Rate

LEMMA TokenCost ==
    ASSUME NEW p \in TokenRates, p.cached <= p.in,
           NEW prompt \in Nat, NEW completion \in Nat, NEW cached \in Nat
    PROVE  /\ calculate_token_cost(p, prompt, completion, cached) \in Nat
           /\ prompt + completion + cached > 0
                => calculate_token_cost(p, prompt, completion, cached) > 0
           /\ cached <= prompt => calculate_token_cost(p, prompt, completion, cached)
                                   <= calculate_token_cost(p, prompt, completion, 0)
<1> DEFINE rest == Max({prompt - cached, 0})
           rate == IF p.cached # NoRate THEN p.cached ELSE p.in
           cost == calculate_token_cost(p, prompt, completion, cached)
<1>1. /\ p.in \in Rate /\ p.out \in Rate /\ rate \in Rate /\ rate <= p.in
      /\ p.in \in Nat /\ p.out \in Nat /\ rate \in Nat
  BY DEF TokenRates, Rate
<1>2. rest \in Nat /\ (prompt > cached => rest > 0 /\ rest = prompt - cached) /\ (cached = prompt => rest = 0)
  BY GreaterOfTwo
<1>3. cost = rest * p.in + completion * p.out + cached * rate
  BY DEF calculate_token_cost
<1> HIDE DEF rest, rate, cost
<1>4. rest * p.in \in Nat /\ completion * p.out \in Nat /\ cached * rate \in Nat
  BY <1>1, <1>2, Products
<1>5. ASSUME prompt + completion + cached > 0
      PROVE  cost > 0
  <2>1. rest \in Rate \/ completion \in Rate \/ cached \in Rate
    BY <1>2, <1>5 DEF Rate
  <2>2. rest * p.in > 0 \/ completion * p.out > 0 \/ cached * rate > 0
    BY <2>1, <1>1, Products DEF Rate
  <2> QED  BY <2>2, <1>3, <1>4
<1>6. ASSUME cached <= prompt
      PROVE  cost <= calculate_token_cost(p, prompt, completion, 0)
  <2>1. calculate_token_cost(p, prompt, completion, 0) = prompt * p.in + completion * p.out
    <3>1. Max({prompt - 0, 0}) = prompt
      BY GreaterOfTwo
    <3>2. 0 * (IF p.cached # NoRate THEN p.cached ELSE p.in) = 0
      BY <1>1 DEF rate
    <3> QED  BY <3>1, <3>2, <1>1, <1>4 DEF calculate_token_cost
  <2>2. rest + cached = prompt
    BY <1>2, <1>6
  <2>3. cached * rate <= cached * p.in
    BY <1>1, Products
  <2>4. rest * p.in + cached * p.in = prompt * p.in
    BY <1>1, <1>2, <2>2
  <2>5. prompt * p.in \in Nat /\ cached * p.in \in Nat
    BY <1>1, Products
  <2> QED  BY <2>1, <2>3, <2>4, <2>5, <1>3, <1>4
<1>7. cost \in Nat
  BY <1>3, <1>4
<1> QED  BY <1>5, <1>6, <1>7 DEF cost
LEMMA RealtimeCost ==
    ASSUME NEW p \in RealtimeRates, p.cached <= p.in, NEW audioIn \in Nat, NEW audioOut \in Nat,
           NEW textIn \in Nat, NEW textOut \in Nat, NEW cached \in Nat, NEW minutes \in Nat
    PROVE  LET cost(h) == calculate_realtime_cost(p, audioIn, audioOut, textIn, textOut, h, minutes)
           IN  /\ cost(cached) \in Nat
               /\ audioIn + audioOut + textIn + textOut + minutes > 0 => cost(cached) > 0
               /\ cost(cached) <= cost(0)
<1> DEFINE cost(h) == calculate_realtime_cost(p, audioIn, audioOut, textIn, textOut, h, minutes)
           rate == IF p.cached = NoRate THEN p.in ELSE p.cached
           half == (p.audioIn + p.audioOut) \div 2
           c(h) == Min({h, textIn})
           text(h) == (textIn - c(h)) * p.in + c(h) * rate
           all(h) == audioIn * p.audioIn + audioOut * p.audioOut + text(h) + textOut * p.out
           silent == audioIn = 0 /\ audioOut = 0 /\ textIn = 0 /\ textOut = 0
<1>1. /\ {p.audioIn, p.audioOut, p.in, p.out, rate} \subseteq Rate /\ rate <= p.in
      /\ {p.audioIn, p.audioOut, p.in, p.out, rate} \subseteq Nat
      /\ p.in # NoRate /\ p.out # NoRate
  BY DEF RealtimeRates, Rate, NoRate
<1>2. half \in Rate
  BY <1>1 DEF Rate
<1>3. \A h \in Nat : cost(h) = IF silent THEN minutes * half ELSE all(h)
  BY <1>1 DEF calculate_realtime_cost
<1>4. \A h \in Nat : c(h) \in Nat /\ textIn - c(h) \in Nat
  BY LesserOfTwo
<1>5. \A h \in Nat : text(h) \in Nat /\ text(h) <= textIn * p.in /\ (textIn > 0 => text(h) > 0)
  <2> TAKE h \in Nat
  <2> DEFINE x == textIn - c(h)
             y == c(h)
  <2>1. x \in Nat /\ y \in Nat /\ x + y = textIn
    BY <1>4
  <2>2. text(h) = x * p.in + y * rate
    OBVIOUS
  <2> HIDE DEF x, y, text, rate, c
  <2>3. x * p.in \in Nat /\ y * rate \in Nat /\ y * rate <= y * p.in /\ y * p.in \in Nat
    BY <2>1, <1>1, Products
  <2>4. x * p.in + y * p.in = textIn * p.in
    BY <2>1, <1>1
  <2>5. textIn > 0 => x * p.in > 0 \/ y * rate > 0
    BY <2>1, <1>1, Products DEF Rate
  <2> QED  BY <2>2, <2>3, <2>4, <2>5
<1>6. text(0) = textIn * p.in
  <2>1. c(0) = 0
    BY LesserOfTwo
  <2>2. text(0) = (textIn - 0) * p.in + 0 * rate
    BY <2>1
  <2> HIDE DEF rate
  <2>3. 0 * rate = 0 /\ textIn - 0 = textIn /\ textIn * p.in \in Nat
    BY <1>1, Products
  <2> QED  BY <2>2, <2>3
<1> HIDE DEF text, rate, half
<1>7. audioIn * p.audioIn \in Nat /\ audioOut * p.audioOut \in Nat /\ textOut * p.out \in Nat
      /\ minutes * half \in Nat
  BY <1>1, <1>2, Products DEF Rate
<1>8. /\ audioIn > 0 => audioIn * p.audioIn > 0
      /\ audioOut > 0 => audioOut * p.audioOut > 0
      /\ textOut > 0 => textOut * p.out > 0
      /\ minutes > 0 => minutes * half > 0
  BY <1>1, <1>2, Products DEF Rate
<1>9. /\ all(cached) \in Nat /\ all(cached) <= all(0)
      /\ audioIn + audioOut + textIn + textOut > 0 => all(cached) > 0
  BY <1>5, <1>6, <1>7, <1>8
<1>10. /\ cost(cached) = IF silent THEN minutes * half ELSE all(cached)
       /\ cost(0) = IF silent THEN minutes * half ELSE all(0)
  BY <1>3
<1> HIDE DEF cost, all
<1>12. cost(cached) \in Nat /\ cost(cached) <= cost(0)
  BY <1>7, <1>9, <1>10
<1>13. audioIn + audioOut + textIn + textOut + minutes > 0 => cost(cached) > 0
  BY <1>7, <1>8, <1>9, <1>10
<1> QED  BY <1>12, <1>13 DEF cost
\* A turn of text costs nothing by the minute.
LEMMA TextHasNoMinutes ==
    ASSUME NEW p \in RealtimeRates, p.cached <= p.in, NEW textIn \in Nat, NEW textOut \in Nat,
           NEW cached \in Nat, NEW minutes \in Nat, textIn + textOut > 0
    PROVE  calculate_realtime_cost(p, 0, 0, textIn, textOut, cached, minutes)
             = calculate_realtime_cost(p, 0, 0, textIn, textOut, cached, 0)
BY DEF calculate_realtime_cost

LEMMA FallbackCosts ==
    ASSUME NEW type, NEW units \in Nat
    PROVE  /\ FallbackCost(type, units) \in Nat
           /\ type \in {"llm", "stt", "tts", "realtime"} /\ units > 0 => FallbackCost(type, units) > 0
BY SMTT(30) DEF FallbackCost

LEMMA AudioCost ==
    ASSUME NEW p \in MinuteRates \cup CharacterRates, NEW units \in Nat
    PROVE  /\ calculate_audio_cost(p, units) \in Nat
           /\ units > 0 => calculate_audio_cost(p, units) > 0
<1>1. PICK r \in Rate : calculate_audio_cost(p, units) = units * r
  <2>1. CASE p \in MinuteRates
    BY <2>1 DEF MinuteRates, calculate_audio_cost, Rate, NoRate
  <2>2. CASE p \in CharacterRates
    BY <2>2 DEF CharacterRates, calculate_audio_cost, Rate, NoRate
  <2> QED  BY <2>1, <2>2
<1> QED  BY <1>1, Products DEF Rate

LEMMA RateKinds ==
    ASSUME NEW p \in Rates
    PROVE  /\ p.kind \in {"tokens", "audio", "realtime", "call"}
           /\ p.kind = "tokens" => p \in TokenRates /\ p.cached <= p.in
           /\ p.kind = "audio" => p \in MinuteRates \cup CharacterRates
           /\ p.kind = "realtime" => p \in RealtimeRates /\ p.cached <= p.in
           /\ p.kind = "call" => p \in CallRates
BY DEF Rates, TokenRates, MinuteRates, CharacterRates, RealtimeRates, CallRates

RateOf(i) == ALL_PRICING[get_model_pricing(i.id)]
InCatalogue(i) == get_model_pricing(i.id) # NoModel

LEMMA CostIsByRate ==
    ASSUME NEW i
    PROVE  /\ ProviderCost(i) = IF InCatalogue(i) THEN CostBy(i, RateOf(i)) ELSE FallbackCost(i.type, i.units)
           /\ KindOf(i) = IF InCatalogue(i) THEN RateOf(i).kind ELSE "none"
           /\ InCatalogue(i) => RateOf(i) \in Rates
BY LookUp DEF ProviderCost, RateOf, InCatalogue, KindOf

LEMMA ItemFields ==
    ASSUME NEW i \in UsageItems
    PROVE  /\ {i.units, i.prompt, i.completion, i.cached, i.audioIn, i.audioOut, i.textIn, i.textOut} \subseteq Nat
           /\ i.own \in BOOLEAN /\ i.platform \in Nat \cup {-1} /\ i.noise \in {-1, 0, 1}
BY DEF UsageItems

LEMMA CostIsNatural ==
    ASSUME NEW i \in UsageItems
    PROVE  ProviderCost(i) \in Nat
<1>1. CASE ~InCatalogue(i)
  BY <1>1, CostIsByRate, FallbackCosts, ItemFields
<1>2. CASE InCatalogue(i)
  <2> DEFINE p == RateOf(i)
  <2>1. p \in Rates /\ ProviderCost(i) = CostBy(i, p)
    BY <1>2, CostIsByRate
  <2> HIDE DEF p
  <2>2. CASE p.kind = "tokens"
    <3>1. p \in TokenRates /\ p.cached <= p.in
      BY <2>1, <2>2, RateKinds
    <3>2. calculate_token_cost(p, i.prompt, i.completion, i.cached) \in Nat
      BY <3>1, ItemFields, TokenCost
    <3>3. i.units * (p.in + p.out) \in Nat
      BY <3>1, ItemFields, Products DEF TokenRates, Rate
    <3>4. (i.units * (p.in + p.out)) \div 2 \in Nat
      BY <3>3
    <3> QED  BY <2>1, <2>2, <3>2, <3>4 DEF CostBy
  <2>3. CASE p.kind = "audio"
    BY <2>1, <2>3, RateKinds, ItemFields, AudioCost DEF CostBy
  <2>4. CASE p.kind = "realtime"
    <3>1. p \in RealtimeRates /\ p.cached <= p.in
      BY <2>1, <2>4, RateKinds
    <3>2. calculate_realtime_cost(p, 0, 0, i.prompt, i.completion, i.cached, 0) \in Nat
      BY <3>1, ItemFields, RealtimeCost
    <3>3. calculate_realtime_cost(p, i.audioIn, i.audioOut, i.textIn, i.textOut, i.cached, i.units) \in Nat
      BY <3>1, ItemFields, RealtimeCost
    <3> QED  BY <2>1, <2>4, <3>2, <3>3 DEF CostBy
  <2>5. CASE p.kind = "call"
    <3>1. p.call \in Nat
      BY <2>1, <2>5, RateKinds DEF CallRates
    <3>2. CostBy(i, p) = (IF i.units > 0 THEN i.units ELSE 1) * p.call
      BY <2>5 DEF CostBy
    <3>3. (IF i.units > 0 THEN i.units ELSE 1) \in Nat
      BY ItemFields
    <3> QED  BY <2>1, <3>1, <3>2, <3>3, Products
  <2> QED  BY <2>1, <2>2, <2>3, <2>4, <2>5, RateKinds
<1> QED  BY <1>1, <1>2

\* What is used of a model that is not priced by the call costs something.
LEMMA UseCosts ==
    ASSUME NEW i \in UsageItems, i.units > 0, i.type \in {"llm", "stt", "tts", "realtime"},
           KindOf(i) # "call",
           ~(i.type = "llm" /\ i.prompt + i.completion = 0 /\ KindOf(i) = "realtime")
    PROVE  ProviderCost(i) > 0
<1>1. CASE ~InCatalogue(i)
  BY <1>1, CostIsByRate, FallbackCosts, ItemFields
<1>2. CASE InCatalogue(i)
  <2> DEFINE p == RateOf(i)
  <2>1. p \in Rates /\ ProviderCost(i) = CostBy(i, p) /\ KindOf(i) = p.kind
    BY <1>2, CostIsByRate
  <2> HIDE DEF p
  <2>2. CASE p.kind = "tokens"
    <3>1. p \in TokenRates /\ p.cached <= p.in
      BY <2>1, <2>2, RateKinds
    <3>2. CASE i.prompt + i.completion + i.cached > 0
      <4>1. calculate_token_cost(p, i.prompt, i.completion, i.cached) > 0
        BY <3>1, <3>2, ItemFields, TokenCost
      <4> QED  BY <2>1, <2>2, <3>2, <4>1 DEF CostBy
    <3>3. CASE ~(i.prompt + i.completion + i.cached > 0)
      <4> DEFINE r == p.in + p.out
      <4>1. r \in Nat /\ r >= 2
        BY <3>1 DEF TokenRates, Rate
      <4> HIDE DEF r
      <4>2. i.units * 2 <= i.units * r /\ i.units \in Nat /\ i.units * r \in Nat
        BY <4>1, ItemFields, Products
      <4>3. (i.units * r) \div 2 > 0
        BY <4>2
      <4> QED  BY <2>1, <2>2, <3>3, <4>3 DEF CostBy, r
    <3> QED  BY <3>2, <3>3
  <2>3. CASE p.kind = "audio"
    BY <2>1, <2>3, RateKinds, ItemFields, AudioCost DEF CostBy
  <2>4. CASE p.kind = "realtime"
    <3>1. p \in RealtimeRates /\ p.cached <= p.in
      BY <2>1, <2>4, RateKinds
    <3>2. CASE ReportedAsText(i)
      <4>1. i.prompt + i.completion > 0
        BY <2>1, <2>4, <3>2, ItemFields DEF ReportedAsText
      <4>3. 0 + 0 + i.prompt + i.completion + 0 > 0
        BY <4>1, ItemFields
      <4>2. calculate_realtime_cost(p, 0, 0, i.prompt, i.completion, i.cached, 0) > 0
        BY <3>1, <4>3, ItemFields, RealtimeCost
      <4> QED  BY <2>1, <2>4, <3>2, <4>2 DEF CostBy
    <3>3. CASE ~ReportedAsText(i)
      <4>1. i.audioIn + i.audioOut + i.textIn + i.textOut + i.units > 0
        BY ItemFields
      <4>2. calculate_realtime_cost(p, i.audioIn, i.audioOut, i.textIn, i.textOut, i.cached, i.units) > 0
        BY <3>1, <4>1, ItemFields, RealtimeCost
      <4> QED  BY <2>1, <2>4, <3>3, <4>2 DEF CostBy
    <3> QED  BY <3>2, <3>3
  <2> QED  BY <2>1, <2>2, <2>3, <2>4, RateKinds
<1> QED  BY <1>1, <1>2

Source(i) == IF InCatalogue(i) THEN "catalog" ELSE "fallback"

LEMMA Charges ==
    ASSUME NEW i \in UsageItems
    PROVE  /\ i.platform >= 0 => Charge(i) = Breakdown(i.units * 1000000 * MarkupDen, i.platform * 100 * MarkupDen,
                                                       i.platform, "platform")
           /\ i.platform < 0 /\ i.own => Charge(i) = Breakdown(0, 0, 0, "own_key")
           /\ i.platform < 0 /\ ~i.own /\ ProviderCost(i) = 0 => Charge(i) = Breakdown(0, 0, 0, Source(i))
           /\ i.platform < 0 /\ ~i.own /\ ProviderCost(i) > 0
                => Charge(i) = Breakdown(ProviderCost(i) * MarkupDen, ProviderCost(i) * MarkupNum,
                                         MicroCredits(ProviderCost(i) * MarkupNum, i.noise), Source(i))
<1>1. /\ i.platform \in Nat \cup {-1} /\ i.own \in BOOLEAN /\ ProviderCost(i) \in Nat
      /\ Source(i) = IF get_model_pricing(i.id) = NoModel THEN "fallback" ELSE "catalog"
  BY ItemFields, CostIsNatural DEF Source, InCatalogue
<1>2. CASE i.platform >= 0
  BY <1>1, <1>2, SMT DEF Charge
<1>3. CASE i.platform < 0 /\ i.own
  BY <1>1, <1>3, SMT DEF Charge
<1>4. CASE i.platform < 0 /\ ~i.own
  BY <1>1, <1>4, SMT DEF Charge
<1> QED  BY <1>1, <1>2, <1>3, <1>4, SMT

LEMMA BreakdownFields ==
    ASSUME NEW cost, NEW billed, NEW micro, NEW source
    PROVE  /\ Breakdown(cost, billed, micro, source).micro = micro
           /\ Breakdown(cost, billed, micro, source).source = source
           /\ Breakdown(cost, billed, micro, source).cost = RoundUsd(cost)
           /\ Breakdown(cost, billed, micro, source).billed = RoundUsd(billed)
           /\ Breakdown(cost, billed, micro, source).margin = RoundUsd(billed - cost)
BY DEF Breakdown

LEMMA Division ==
    ASSUME NEW n \in Nat, NEW d \in Nat \ {0}
    PROVE  n \div d \in Nat /\ (n \div d) * d <= n /\ n < (n \div d) * d + d
OBVIOUS

LEMMA RoundedUp ==
    ASSUME NEW n \in Nat, NEW d \in Nat \ {0}
    PROVE  Up(n, d) \in Nat /\ n <= Up(n, d) * d /\ Up(n, d) * d < n + d
<1>1. n + d - 1 \in Nat
  OBVIOUS
<1>2. Up(n, d) \in Nat /\ Up(n, d) * d <= n + d - 1 /\ n + d - 1 < Up(n, d) * d + d
  BY <1>1, Division DEF Up
<1>3. Up(n, d) * d \in Nat
  BY <1>2
<1> HIDE DEF Up
<1> QED  BY <1>2, <1>3

\* The noise is gone before an amount is rounded up.
LEMMA Quantized ==
    ASSUME NEW a \in Nat, NEW noise \in {-1, 0, 1}
    PROVE  Denoised(3 * a + noise) = a
BY DEF Denoised

LEMMA MicroCreditsBound ==
    ASSUME NEW a \in Nat, NEW noise \in {-1, 0, 1}
    PROVE  /\ MicroCredits(a, noise) \in Nat /\ MicroCredits(a, noise) > 0
           /\ MicroCredits(a, noise) > 1
                => /\ a <= MicroCredits(a, noise) * (100 * MarkupDen)
                   /\ MicroCredits(a, noise) * (100 * MarkupDen) < a + 100 * MarkupDen
<1> DEFINE D == 100 * MarkupDen
<1>1. D \in Nat \ {0}
  BY PricingAssumption
<1>2. MicroCredits(a, noise) = Max({Up(a, D), 1})
  BY Quantized DEF MicroCredits
<1> HIDE DEF D
<1>3. Up(a, D) \in Nat /\ a <= Up(a, D) * D /\ Up(a, D) * D < a + D
  BY <1>1, RoundedUp
<1>4. MicroCredits(a, noise) = IF Up(a, D) >= 1 THEN Up(a, D) ELSE 1
  BY <1>2, <1>3, GreaterOfTwo
<1>5. /\ MicroCredits(a, noise) \in Nat /\ MicroCredits(a, noise) > 0
      /\ MicroCredits(a, noise) > 1
                => /\ a <= MicroCredits(a, noise) * D
                   /\ MicroCredits(a, noise) * D < a + D
  BY <1>3, <1>4
<1> QED  BY <1>5 DEF D

\* The fields of an item that its cost depends on
Uses(i) == <<i.type, i.units, i.prompt, i.completion, i.cached, i.audioIn, i.audioOut, i.textIn, i.textOut>>

LEMMA SameCost ==
    ASSUME NEW i, NEW j, Uses(i) = Uses(j), get_model_pricing(i.id) = get_model_pricing(j.id)
    PROVE  ProviderCost(i) = ProviderCost(j)
<1>1. /\ i.type = j.type /\ i.units = j.units /\ i.prompt = j.prompt /\ i.completion = j.completion
      /\ i.cached = j.cached /\ i.audioIn = j.audioIn /\ i.audioOut = j.audioOut
      /\ i.textIn = j.textIn /\ i.textOut = j.textOut
  BY DEF Uses
<1>2. \A p : CostBy(i, p) = CostBy(j, p)
  BY <1>1 DEF CostBy, ReportedAsText
<1> QED  BY <1>1, <1>2 DEF ProviderCost

LEMMA Spelled ==
    ASSUME item \in UsageItems
    PROVE  SpellingDoesNotMatter
<1> SUFFICES ASSUME NEW j \in PricedItems, SameModel(item.id, j.id), j = [item EXCEPT !.id = j.id]
             PROVE  Charge(item) = Charge(j)
  BY DEF SpellingDoesNotMatter
<1>1. j \in UsageItems
  BY PricingAssumption
<1>2. Uses(item) = Uses(j) /\ item.own = j.own /\ item.platform = j.platform /\ item.noise = j.noise
  <2> DEFINE x == j.id
  <2>1. j = [item EXCEPT !.id = x]
    OBVIOUS
  <2> HIDE DEF x
  <2> QED  BY <2>1 DEF Uses, UsageItems
<1>3. get_model_pricing(item.id) = get_model_pricing(j.id)
  BY SpellingsAgree
<1>4. ProviderCost(item) = ProviderCost(j)
  BY <1>2, <1>3, SameCost
<1>5. item.units = j.units
  BY <1>2 DEF Uses
<1> QED  BY <1>2, <1>3, <1>4, <1>5, SMT DEF Charge

LEMMA Noiseless ==
    ASSUME item \in UsageItems
    PROVE  NoiseIsNotCharged
<1> DEFINE cost == ProviderCost(item)
           micro == Charge(item).micro
           exact == cost * MarkupNum
<1> SUFFICES ASSUME Charge(item).source \in {"catalog", "fallback"}, micro > 1
             PROVE  (micro - 1) * 100 * MarkupDen < exact /\ exact <= micro * 100 * MarkupDen
  BY DEF NoiseIsNotCharged
<1>1. cost \in Nat /\ item.platform \in Nat \cup {-1} /\ item.own \in BOOLEAN /\ item.noise \in {-1, 0, 1}
  BY CostIsNatural, ItemFields
<1>2. exact \in Nat
  BY <1>1, PricingAssumption
<1>3. item.platform < 0
  BY <1>1, Charges, BreakdownFields
<1>4. ~item.own /\ cost > 0
  BY <1>1, <1>3, Charges, BreakdownFields
<1>5. micro = MicroCredits(exact, item.noise)
  BY <1>3, <1>4, Charges, BreakdownFields
<1> DEFINE D == 100 * MarkupDen
<1>6. D \in Nat \ {0}
  BY PricingAssumption
<1>7. micro \in Nat /\ exact <= micro * D /\ micro * D < exact + D
  BY <1>1, <1>2, <1>5, MicroCreditsBound
<1> HIDE DEF micro, exact
<1>8. /\ (micro - 1) * 100 * MarkupDen = micro * D - D
      /\ micro * 100 * MarkupDen = micro * D
  BY <1>7, PricingAssumption
<1>9. micro * D \in Nat
  BY <1>6, <1>7
<1> HIDE DEF D
<1> QED  BY <1>2, <1>6, <1>7, <1>8, <1>9

LEMMA CachedIsCheaper ==
    ASSUME item \in UsageItems
    PROVE  CachingNeverCostsMore
<1> DEFINE i == item
           j == [item EXCEPT !.cached = 0]
<1> SUFFICES ASSUME i.cached <= i.prompt \/ KindOf(i) = "realtime"
             PROVE  ProviderCost(i) <= ProviderCost(j)
  BY DEF CachingNeverCostsMore
<1>1. /\ i.type = j.type /\ i.units = j.units /\ i.prompt = j.prompt /\ i.completion = j.completion
      /\ i.audioIn = j.audioIn /\ i.audioOut = j.audioOut /\ i.id = j.id
      /\ i.textIn = j.textIn /\ i.textOut = j.textOut /\ j.cached = 0 /\ i \in UsageItems /\ j \in UsageItems
  BY DEF UsageItems
<1> HIDE DEF i, j
<1>2. ProviderCost(i) \in Nat /\ ProviderCost(j) \in Nat
  BY <1>1, CostIsNatural
<1>3. CASE ~InCatalogue(i)
  <2>1. ProviderCost(i) = ProviderCost(j)
    BY <1>1, <1>3 DEF ProviderCost, InCatalogue
  <2> QED  BY <2>1, <1>2
<1>4. CASE InCatalogue(i)
  <2> DEFINE p == RateOf(i)
  <2>1. /\ p \in Rates /\ ProviderCost(i) = CostBy(i, p) /\ ProviderCost(j) = CostBy(j, p)
        /\ KindOf(i) = p.kind
    <3>1. InCatalogue(j) /\ RateOf(j) = p
      BY <1>1, <1>4 DEF InCatalogue, RateOf
    <3> QED  BY <1>4, <3>1, CostIsByRate
  <2> HIDE DEF p
  <2>2. CASE p.kind = "tokens"
    <3>1. p \in TokenRates /\ p.cached <= p.in /\ i.cached <= i.prompt
      BY <2>1, <2>2, RateKinds
    <3>2. calculate_token_cost(p, i.prompt, i.completion, i.cached)
            <= calculate_token_cost(p, i.prompt, i.completion, 0)
      BY <3>1, <1>1, ItemFields, TokenCost
    <3>3. i.prompt + i.completion + i.cached > 0 <=> j.prompt + j.completion + j.cached > 0
      BY <1>1, <3>1, ItemFields
    <3>4. CASE i.prompt + i.completion + i.cached > 0
      BY <1>1, <2>1, <2>2, <3>2, <3>3, <3>4 DEF CostBy
    <3>5. CASE ~(i.prompt + i.completion + i.cached > 0)
      <4>1. CostBy(i, p) = CostBy(j, p)
        BY <1>1, <2>2, <3>3, <3>5 DEF CostBy
      <4> QED  BY <4>1, <1>2, <2>1
    <3> QED  BY <3>4, <3>5
  <2>3. CASE p.kind = "audio" \/ p.kind = "call"
    <3>1. CostBy(i, p) = CostBy(j, p)
      BY <1>1, <2>3 DEF CostBy
    <3> QED  BY <3>1, <1>2, <2>1
  <2>4. CASE p.kind = "realtime"
    <3>1. p \in RealtimeRates /\ p.cached <= p.in
      BY <2>1, <2>4, RateKinds
    <3>2. calculate_realtime_cost(p, 0, 0, i.prompt, i.completion, i.cached, 0)
            <= calculate_realtime_cost(p, 0, 0, i.prompt, i.completion, 0, 0)
      BY <1>1, <3>1, ItemFields, RealtimeCost
    <3>3. calculate_realtime_cost(p, i.audioIn, i.audioOut, i.textIn, i.textOut, i.cached, i.units)
            <= calculate_realtime_cost(p, i.audioIn, i.audioOut, i.textIn, i.textOut, 0, i.units)
      BY <1>1, <3>1, ItemFields, RealtimeCost
    <3> QED  BY <1>1, <2>1, <2>4, <3>2, <3>3 DEF CostBy, ReportedAsText
  <2> QED  BY <2>1, <2>2, <2>3, <2>4, RateKinds
<1> QED  BY <1>3, <1>4

LEMMA MeasuredCosts ==
    ASSUME item \in UsageItems
    PROVE  MeasuredIsNotFree
<1> SUFFICES ASSUME item.platform < 0, ~item.own, item.units > 0,
                    item.type \in {"llm", "stt", "tts", "realtime"}, KindOf(item) # "call",
                    ~(item.type = "llm" /\ item.prompt + item.completion = 0 /\ KindOf(item) = "realtime")
             PROVE  Charge(item).micro > 0
  BY DEF MeasuredIsNotFree
<1>1. ProviderCost(item) > 0 /\ ProviderCost(item) \in Nat
  BY UseCosts, CostIsNatural
<1>2. Charge(item).micro = MicroCredits(ProviderCost(item) * MarkupNum, item.noise)
  BY <1>1, Charges, BreakdownFields
<1>3. ProviderCost(item) * MarkupNum \in Nat /\ item.noise \in {-1, 0, 1}
  BY <1>1, PricingAssumption, ItemFields
<1> QED  BY <1>2, <1>3, MicroCreditsBound

LEMMA TextAsText ==
    ASSUME item \in UsageItems
    PROVE  TextIsNotMinutes
<1> DEFINE i == item
           j == [item EXCEPT !.type = "realtime", !.textIn = item.prompt,
                !.textOut = item.completion, !.audioIn = 0, !.audioOut = 0]
<1> SUFFICES ASSUME i.type = "llm", i.prompt + i.completion > 0, KindOf(i) = "realtime"
             PROVE  Charge(i).micro = Charge(j).micro
  BY DEF TextIsNotMinutes
<1>1. /\ j.type = "realtime" /\ j.units = i.units /\ j.textIn = i.prompt /\ j.textOut = i.completion
      /\ j.cached = i.cached /\ j.audioIn = 0 /\ j.audioOut = 0 /\ j.id = i.id
      /\ j.own = i.own /\ j.platform = i.platform /\ j.noise = i.noise /\ i \in UsageItems
  <2> DEFINE F == {"type", "id", "units", "prompt", "completion", "cached", "audioIn", "audioOut",
                   "textIn", "textOut", "own", "platform", "noise"}
  <2>1. i = [f \in F |-> i[f]]
    BY DEF UsageItems
  <2> HIDE DEF i
  <2>2. j = [f \in F |-> CASE f = "type" -> "realtime" [] f = "textIn" -> i.prompt
                           [] f = "textOut" -> i.completion [] f = "audioIn" -> 0
                           [] f = "audioOut" -> 0 [] OTHER -> i[f]]
    BY <2>1 DEF i
  <2> HIDE DEF j
  <2> QED  BY <2>2 DEF i
<1> HIDE DEF i, j
<1>2. InCatalogue(i) /\ InCatalogue(j) /\ RateOf(i) = RateOf(j) /\ RateOf(i).kind = "realtime" /\ RateOf(i) \in Rates
  BY <1>1, CostIsByRate DEF InCatalogue, RateOf
<1> DEFINE p == RateOf(i)
<1>3. p \in RealtimeRates /\ p.cached <= p.in
  BY <1>2, RateKinds
<1>4. ProviderCost(i) = CostBy(i, p) /\ ProviderCost(j) = CostBy(j, p) /\ p.kind = "realtime"
  BY <1>2, CostIsByRate
<1> HIDE DEF p
<1>5. CostBy(i, p) = calculate_realtime_cost(p, 0, 0, i.prompt, i.completion, i.cached, 0)
  BY <1>4 DEF CostBy, ReportedAsText
<1>6. CostBy(j, p) = calculate_realtime_cost(p, 0, 0, i.prompt, i.completion, i.cached, i.units)
  BY <1>1, <1>4 DEF CostBy, ReportedAsText
<1>7. CostBy(i, p) = CostBy(j, p)
  <2>1. {i.prompt, i.completion, i.cached, i.units} \subseteq Nat /\ 0 \in Nat
    BY <1>1, ItemFields
  <2>2. calculate_realtime_cost(p, 0, 0, i.prompt, i.completion, i.cached, i.units)
          = calculate_realtime_cost(p, 0, 0, i.prompt, i.completion, i.cached, 0)
    BY <1>3, <2>1, TextHasNoMinutes
  <2> QED  BY <1>5, <1>6, <2>2
<1>8. Source(i) = Source(j)
  BY <1>2 DEF Source
<1>9. ProviderCost(i) = ProviderCost(j)
  BY <1>4, <1>7
<1> QED  BY <1>1, <1>8, <1>9, <1>2, SMT DEF Charge, InCatalogue


\* Rounding to the nearest, of which 2E is a unit
LEMMA Rounded ==
    ASSUME NEW a \in Int
    PROVE  LET E == 50 * MarkupDen IN
           /\ RoundUsd(a) \in Int /\ (a >= 0 => RoundUsd(a) \in Nat)
           /\ 2 * (RoundUsd(a) * E) - E <= a /\ a <= 2 * (RoundUsd(a) * E) + E
           /\ a >= 0 => a < 2 * (RoundUsd(a) * E) + E
<1> DEFINE E == 50 * MarkupDen
           D == 100 * MarkupDen
           r == RoundUsd(a)
<1>1. E \in Nat \ {0} /\ D = 2 * E /\ D \in Nat \ {0}
  BY PricingAssumption
<1>2. CASE a >= 0
  <2> DEFINE q == (a + E) \div D
  <2>1. a + E \in Nat
    BY <1>1, <1>2
  <2>2. q \in Nat /\ q * D <= a + E /\ a + E < q * D + D
    BY <1>1, <2>1, Division
  <2>3. r = q
    BY <1>2 DEF RoundUsd
  <2> HIDE DEF q, r, E, D
  <2>4. q * D = 2 * (q * E) /\ q * E \in Nat
    BY <1>1, <2>2
  <2>5. r \in Nat /\ 2 * (r * E) - E <= a /\ a < 2 * (r * E) + E
    BY <1>1, <2>2, <2>3, <2>4
  <2>6. r * E \in Nat
    BY <2>3, <2>4
  <2> QED  BY <2>5, <2>6, <1>1 DEF r, E
<1>3. CASE a < 0
  <2> DEFINE b == 0 - a
             q == (b + E) \div D
  <2>1. b + E \in Nat
    BY <1>1, <1>3
  <2>2. q \in Nat /\ q * D <= b + E /\ b + E < q * D + D
    BY <1>1, <2>1, Division
  <2>3. r = -q
    <3>1. b + E = E - a
      BY <1>1
    <3> QED  BY <1>3, <3>1 DEF RoundUsd
  <2> HIDE DEF q, r, E, D
  <2>4. q * D = 2 * (q * E) /\ q * E \in Nat /\ r * E = 0 - q * E
    BY <1>1, <2>2, <2>3
  <2>5. r \in Int /\ 2 * (r * E) - E <= a /\ a <= 2 * (r * E) + E
    BY <1>1, <2>2, <2>3, <2>4
  <2> QED  BY <2>5, <1>1, <1>3 DEF r, E
<1> QED  BY <1>2, <1>3

LEMMA RoundedRow ==
    ASSUME NEW cost \in Nat, NEW billed \in Nat
    PROVE  LET b == RoundUsd(billed)
               c == RoundUsd(cost)
               m == RoundUsd(billed - cost)
           IN  /\ b \in Nat /\ c \in Nat /\ m \in Int
               /\ -1 <= m - (b - c) /\ m - (b - c) <= 1
               /\ m = 0 /\ b = 0 => c <= 1
<1> DEFINE E == 50 * MarkupDen
           b == RoundUsd(billed)
           c == RoundUsd(cost)
           m == RoundUsd(billed - cost)
           x == m - b + c
<1>1. E \in Nat \ {0}
  BY PricingAssumption
<1>2. billed - cost \in Int
  OBVIOUS
<1>3. /\ b \in Nat /\ 2 * (b * E) - E <= billed /\ billed < 2 * (b * E) + E
      /\ c \in Nat /\ 2 * (c * E) - E <= cost /\ cost < 2 * (c * E) + E
      /\ m \in Int /\ 2 * (m * E) - E <= billed - cost /\ billed - cost <= 2 * (m * E) + E
  BY <1>2, Rounded
<1> HIDE DEF E, b, c, m
<1>4. x \in Int /\ x * E = m * E - b * E + c * E
      /\ m * E \in Int /\ b * E \in Int /\ c * E \in Int
  BY <1>1, <1>3
<1> HIDE DEF x
<1>5. 2 * (x * E) < 4 * E /\ -4 * E < 2 * (x * E) /\ x * E \in Int
  BY <1>1, <1>3, <1>4
<1>6. x < 2 /\ x > -2
  <2>1. \A y \in Int : y >= 2 => y * E >= 2 * E
    BY <1>1
  <2>2. \A y \in Int : y <= -2 => y * E <= -2 * E
    BY <1>1
  <2> QED  BY <1>1, <1>4, <1>5, <2>1, <2>2
<1>7. x = m - (b - c)
  BY <1>3 DEF x
<1>8. ASSUME m = 0, b = 0
      PROVE  c <= 1
  <2>1. m * E = 0 /\ b * E = 0
    BY <1>1, <1>8
  <2>2. 2 * (c * E) <= 3 * E
    BY <1>1, <1>3, <1>4, <2>1
  <2>3. c >= 2 => c * E >= 2 * E
    BY <1>1, <1>3
  <2> QED  BY <1>1, <1>3, <1>4, <2>2, <2>3
<1>9. b \in Nat /\ c \in Nat /\ m \in Int /\ -1 <= m - (b - c) /\ m - (b - c) <= 1
  BY <1>3, <1>4, <1>6, <1>7
<1> QED  BY <1>8, <1>9 DEF b, c, m

Statuses == {"pending", "charged", "partially_charged", "written_off", "skipped"}
\* A row's margin is what was billed less what it cost, to a rounding.
MarginOK(l) ==
    /\ l.cost \in Nat /\ l.billed \in Nat /\ l.margin \in Int
    /\ -1 <= l.margin - (l.billed - l.cost) /\ l.margin - (l.billed - l.cost) <= 1
    /\ l.margin = 0 /\ l.billed = 0 => l.cost <= 1
PriceRowOK(l) ==
    /\ MarginOK(l)
    /\ l.requested \in Nat /\ l.charged \in 0..l.requested /\ l.status \in Statuses
    /\ l.status = "charged" => l.charged = l.requested

LEMMA BreakdownIsRow ==
    ASSUME NEW cost \in Nat, NEW billed \in Nat, NEW micro \in Nat, NEW source
    PROVE  MarginOK(Breakdown(cost, billed, micro, source)) /\ Breakdown(cost, billed, micro, source).micro \in Nat
<1> DEFINE b == RoundUsd(billed)
           c == RoundUsd(cost)
           m == RoundUsd(billed - cost)
           l == Breakdown(cost, billed, micro, source)
<1>1. /\ b \in Nat /\ c \in Nat /\ m \in Int
      /\ -1 <= m - (b - c) /\ m - (b - c) <= 1
      /\ m = 0 /\ b = 0 => c <= 1
  BY RoundedRow
<1>2. l.cost = c /\ l.billed = b /\ l.margin = m /\ l.micro = micro
  BY BreakdownFields
<1> HIDE DEF b, c, m, l
<1>3. MarginOK(l) /\ l.micro \in Nat
  BY <1>1, <1>2 DEF MarginOK
<1> QED  BY <1>3 DEF l

LEMMA ChargeIsRow ==
    ASSUME NEW i \in UsageItems
    PROVE  MarginOK(Charge(i)) /\ Charge(i).micro \in Nat
<1>1. i.platform \in Nat \cup {-1} /\ i.own \in BOOLEAN /\ i.noise \in {-1, 0, 1} /\ i.units \in Nat
  BY ItemFields
<1>2. MarkupDen \in Nat /\ MarkupNum \in Nat /\ ProviderCost(i) \in Nat
  BY CostIsNatural, PricingAssumption
<1>3. CASE i.platform >= 0
  <2> DEFINE cost == i.units * 1000000 * MarkupDen
             billed == i.platform * 100 * MarkupDen
  <2>1. cost \in Nat /\ billed \in Nat /\ i.platform \in Nat
    BY <1>1, <1>2, <1>3, SMT
  <2>2. Charge(i) = Breakdown(cost, billed, i.platform, "platform")
    BY <1>3, Charges, SMT
  <2> HIDE DEF cost, billed
  <2> QED  BY <2>1, <2>2, BreakdownIsRow
<1>4. ASSUME Charge(i) = Breakdown(0, 0, 0, Charge(i).source)
      PROVE  MarginOK(Charge(i)) /\ Charge(i).micro \in Nat
  BY <1>4, BreakdownIsRow
<1>5. CASE i.platform < 0 /\ i.own
  <2>1. Charge(i) = Breakdown(0, 0, 0, "own_key")
    BY <1>5, Charges, SMT
  <2> QED  BY <2>1, <1>4, BreakdownFields
<1>6. CASE i.platform < 0 /\ ~i.own /\ ProviderCost(i) = 0
  <2>1. Charge(i) = Breakdown(0, 0, 0, Source(i))
    BY <1>6, Charges, SMT
  <2> QED  BY <2>1, <1>4, BreakdownFields
<1>7. CASE i.platform < 0 /\ ~i.own /\ ProviderCost(i) > 0
  <2> DEFINE micro == MicroCredits(ProviderCost(i) * MarkupNum, i.noise)
  <2>1. ProviderCost(i) * MarkupDen \in Nat /\ ProviderCost(i) * MarkupNum \in Nat
    BY <1>2, Products
  <2>2. micro \in Nat
    BY <1>1, <2>1, MicroCreditsBound
  <2>3. Charge(i) = Breakdown(ProviderCost(i) * MarkupDen, ProviderCost(i) * MarkupNum, micro, Source(i))
    BY <1>7, Charges, SMT
  <2> HIDE DEF micro
  <2> QED  BY <2>1, <2>2, <2>3, BreakdownIsRow
<1> QED  BY <1>1, <1>2, <1>3, <1>5, <1>6, <1>7

LEMMA SharesFit ==
    ASSUME NEW n \in Nat, NEW asked \in [1..n -> Nat], NEW k \in 1..n, NEW taken \in Int
    PROVE  ShareOf(asked, k, taken) \in 0..asked[k]
<1> DEFINE before == SumFunctionOnSet(asked, 1..(k - 1))
           left == Max({taken - before, 0})
<1>1. before \in Int
  <2>1. IsFiniteSet(1..(k - 1)) /\ \A x \in 1..(k - 1) : asked[x] \in Int
    BY FS_Interval
  <2> QED  BY <2>1, SumIsInteger
<1> HIDE DEF before
<1>2. left \in Nat
  BY <1>1, GreaterOfTwo
<1>3. ShareOf(asked, k, taken) = Min({asked[k], left})
  BY DEF ShareOf, before
<1> HIDE DEF left
<1> QED  BY <1>2, <1>3, LesserOfTwo

LEMMA SettledRowsOK ==
    ASSUME NEW usage \in Seq(UsageItems), NEW s, NEW funds \in Int, NEW settled \in 0..Len(usage)
    PROVE  /\ DOMAIN RowsOf(usage, s, funds, settled) = 1..Len(usage)
           /\ RowsOf(usage, s, funds, settled) = [k \in 1..Len(usage) |-> RowsOf(usage, s, funds, settled)[k]]
           /\ \A k \in 1..Len(usage) : PriceRowOK(RowsOf(usage, s, funds, settled)[k])
<1> DEFINE n == Len(usage)
           charge == [k \in DOMAIN usage |-> Charge(usage[k])]
           asked == [k \in DOMAIN usage |-> charge[k].micro]
           all == SumFunctionOnSet(asked, DOMAIN usage)
           taken == Min({all, Max({funds, 0})})
           share(k) == IF k <= settled THEN ShareOf(asked, k, taken) ELSE 0
           part == RowsOf(usage, s, funds, settled)
<1>1. n \in Nat /\ DOMAIN usage = 1..n /\ \A k \in 1..n : usage[k] \in UsageItems
  OBVIOUS
<1>2. part = [k \in 1..n |->
            [session |-> s, id |-> usage[k].id, cost |-> charge[k].cost, billed |-> charge[k].billed,
             margin |-> charge[k].margin, source |-> charge[k].source, requested |-> asked[k],
             charged |-> share(k),
             status |-> IF k <= settled THEN SettledAs(asked[k], share(k)) ELSE "pending"]]
  BY <1>1, Zenon DEF RowsOf
<1>3. \A k \in 1..n : MarginOK(charge[k]) /\ charge[k].micro \in Nat
  BY <1>1, ChargeIsRow
<1> HIDE DEF n, charge
<1>4. asked \in [1..n -> Nat]
  BY <1>1, <1>3
<1> HIDE DEF asked
<1>5. taken \in Int
  <2>1. all \in Int
    <3>1. IsFiniteSet(1..n) /\ \A x \in 1..n : asked[x] \in Int
      BY <1>1, <1>4, FS_Interval
    <3> QED  BY <1>1, <3>1, SumIsInteger
  <2> HIDE DEF all
  <2>2. Max({funds, 0}) \in Int
    BY GreaterOfTwo
  <2> QED  BY <2>1, <2>2, LesserOfTwo
<1> HIDE DEF taken
<1>6. \A k \in 1..n : share(k) \in 0..asked[k]
  <2> TAKE k \in 1..n
  <2>1. ShareOf(asked, k, taken) \in 0..asked[k]
    BY <1>1, <1>4, <1>5, SharesFit
  <2>2. 0 \in 0..asked[k]
    BY <1>4
  <2> QED  BY <2>1, <2>2
<1> HIDE DEF share
<1>7. ASSUME NEW k \in 1..n
      PROVE  PriceRowOK(part[k])
  <2> DEFINE l == part[k]
  <2>1. /\ l.cost = charge[k].cost /\ l.billed = charge[k].billed /\ l.margin = charge[k].margin
        /\ l.requested = asked[k] /\ l.charged = share(k)
        /\ l.status = IF k <= settled THEN SettledAs(asked[k], share(k)) ELSE "pending"
    BY <1>2
  <2> HIDE DEF l
  <2>2. MarginOK(l)
    BY <1>3, <2>1 DEF MarginOK
  <2>3. l.requested \in Nat /\ l.charged \in 0..l.requested
    BY <1>4, <1>6, <2>1
  <2>4. l.status \in Statuses /\ (l.status = "charged" => l.charged = l.requested)
    BY <2>1, <2>3 DEF SettledAs, Statuses
  <2> QED  BY <2>2, <2>3, <2>4 DEF PriceRowOK, l
<1> HIDE DEF part
<1>8. DOMAIN part = 1..n /\ part = [k \in 1..n |-> part[k]]
  BY <1>2
<1> QED  BY <1>7, <1>8 DEF n, part

\* s is a sequence of rows that are all right
AreRows(s) ==
    /\ \E n \in Nat : s = [k \in 1..n |-> s[k]]
    /\ \A k \in DOMAIN s : PriceRowOK(s[k])

PricingInv ==
    /\ item = NoItem \/ item \in PricedItems
    /\ AreRows(logs)

LEMMA RowsJoin ==
    ASSUME NEW s, NEW t, AreRows(s), AreRows(t)
    PROVE  AreRows(s \o t)
<1>1. PICK m \in Nat : s = [k \in 1..m |-> s[k]]
  BY DEF AreRows
<1>2. PICK n \in Nat : t = [k \in 1..n |-> t[k]]
  BY DEF AreRows
<1> DEFINE S == {s[k] : k \in 1..m} \cup {t[k] : k \in 1..n}
           u == s \o t
<1>3. s \in Seq(S) /\ Len(s) = m /\ t \in Seq(S) /\ Len(t) = n
  <2>1. [k \in 1..m |-> s[k]] \in Seq(S) /\ [k \in 1..n |-> t[k]] \in Seq(S)
    OBVIOUS
  <2>2. Len([k \in 1..m |-> s[k]]) = m /\ Len([k \in 1..n |-> t[k]]) = n
    OBVIOUS
  <2> QED  BY <1>1, <1>2, <2>1, <2>2
<1> HIDE DEF S
<1>4. /\ u \in Seq(S) /\ Len(u) = m + n
      /\ \A k \in 1..(m + n) : u[k] = IF k <= m THEN s[k] ELSE t[k - m]
  BY <1>3
<1> HIDE DEF u
<1>5. u = [k \in 1..(m + n) |-> u[k]] /\ DOMAIN u = 1..(m + n) /\ m + n \in Nat
  BY <1>4
<1>7. DOMAIN s = 1..m /\ DOMAIN t = 1..n
  BY <1>3
<1>8. ASSUME NEW k \in DOMAIN u
      PROVE  PriceRowOK(u[k])
  <2>1. k \in Nat /\ 1 <= k /\ k <= m + n
    BY <1>5
  <2>2. CASE k <= m
    <3>1. k \in DOMAIN s /\ u[k] = s[k]
      BY <1>4, <1>5, <1>7, <2>1, <2>2
    <3> QED  BY <3>1 DEF AreRows
  <2>3. CASE ~(k <= m)
    <3>1. k - m \in DOMAIN t /\ u[k] = t[k - m]
      BY <1>4, <1>5, <1>7, <2>1, <2>3
    <3> QED  BY <3>1 DEF AreRows
  <2> QED  BY <2>2, <2>3
<1> QED  BY <1>5, <1>8 DEF AreRows, u

LEMMA PricingInitInv == PricingInit => PricingInv
<1> SUFFICES ASSUME PricingInit PROVE PricingInv
  OBVIOUS
<1>1. logs = [k \in 1..0 |-> logs[k]] /\ DOMAIN logs = {} /\ item = NoItem
  BY DEF PricingInit
<1> QED  BY <1>1 DEF PricingInv, AreRows

LEMMA PricingNextInv == PricingInv /\ [PricingNext]_pricingVars => PricingInv'
<1> SUFFICES ASSUME PricingInv, [PricingNext]_pricingVars PROVE PricingInv'
  OBVIOUS
<1>1. CASE PriceItem
  BY <1>1 DEF PriceItem, PricingInv, AreRows, PriceRowOK, MarginOK
<1>2. ASSUME NEW s \in PricedSessions, LogSession(s)
      PROVE  PricingInv'
  <2>6. PICK usage \in SessionUsage, funds \in Funds : \E settled \in 0..Len(usage) :
            logs' = logs \o RowsOf(usage, s, funds, settled)
    BY <1>2 DEF LogSession
  <2>1. PICK settled \in 0..Len(usage) : logs' = logs \o RowsOf(usage, s, funds, settled)
    BY <2>6
  <2>2. usage \in Seq(UsageItems) /\ funds \in Int
    BY PricingAssumption
  <2>3. AreRows(RowsOf(usage, s, funds, settled))
    <3> DEFINE part == RowsOf(usage, s, funds, settled)
    <3>1. Len(usage) \in Nat
      BY <2>2
    <3>2. /\ DOMAIN part = 1..Len(usage) /\ part = [k \in 1..Len(usage) |-> part[k]]
          /\ \A k \in 1..Len(usage) : PriceRowOK(part[k])
      BY <2>2, SettledRowsOK
    <3> HIDE DEF part
    <3>3. AreRows(part)
      BY <3>1, <3>2 DEF AreRows
    <3> QED  BY <3>3 DEF part
  <2>4. AreRows(logs')
    BY <2>1, <2>3, RowsJoin DEF PricingInv
  <2>5. item' = item
    BY <1>2 DEF LogSession
  <2> QED  BY <2>4, <2>5 DEF PricingInv, AreRows
<1>3. CASE UNCHANGED pricingVars
  BY <1>3 DEF pricingVars, PricingInv, AreRows, PriceRowOK, MarginOK
<1> QED  BY <1>1, <1>2, <1>3 DEF PricingNext

LEMMA PricingTyped == PricingInv => PricingTypeOK
<1> SUFFICES ASSUME PricingInv PROVE PricingTypeOK
  OBVIOUS
<1> QED  BY DEF PricingInv, AreRows, PriceRowOK, MarginOK, Statuses, PricingTypeOK

LEMMA PriceFair == PricingInv => PriceIsFair
<1> SUFFICES ASSUME PricingInv PROVE PriceIsFair
  OBVIOUS
<1>1. CASE item = NoItem
  BY <1>1 DEF PriceIsFair, SpellingDoesNotMatter, NoiseIsNotCharged, CachingNeverCostsMore,
              MeasuredIsNotFree, TextIsNotMinutes
<1>2. CASE item # NoItem
  <2>1. item \in UsageItems
    BY <1>2, PricingAssumption DEF PricingInv
  <2> QED  BY <2>1, Spelled, Noiseless, CachedIsCheaper, MeasuredCosts, TextAsText DEF PriceIsFair
<1> QED  BY <1>1, <1>2

LEMMA MarginsFit ==
    ASSUME NEW n \in Nat, NEW f, NEW g, NEW h, NEW part \in SUBSET (1..n),
           \A k \in part : /\ f[k] \in Int /\ g[k] \in Int /\ h[k] \in Int
                           /\ -1 <= f[k] - (g[k] - h[k]) /\ f[k] - (g[k] - h[k]) <= 1
    PROVE  LET off == SumFunctionOnSet(f, part) - (SumFunctionOnSet(g, part) - SumFunctionOnSet(h, part))
           IN  -Cardinality(part) <= off /\ off <= Cardinality(part)
<1> DEFINE F(T) == SumFunctionOnSet(f, T)
           G(T) == SumFunctionOnSet(g, T)
           H(T) == SumFunctionOnSet(h, T)
           Near(T) == /\ -Cardinality(T) <= F(T) - (G(T) - H(T))
                      /\ F(T) - (G(T) - H(T)) <= Cardinality(T)
           P == {T \in SUBSET part : ~Near(T)}
<1>1. SUFFICES ASSUME P # {} PROVE FALSE
  OBVIOUS
<1>2. \A T \in SUBSET part : IsFiniteSet(T)
  <2>1. IsFiniteSet(1..n) /\ \A T \in SUBSET part : T \in SUBSET (1..n)
    BY FS_Interval
  <2> QED  BY <2>1, FS_Subset
<1>3. PICK T \in P : \A U \in P : Cardinality(T) <= Cardinality(U)
  BY <1>1, <1>2, LeastSet
<1>4. T # {}
  <2> SUFFICES ASSUME T = {} PROVE FALSE
    OBVIOUS
  <2>1. F({}) = 0 /\ G({}) = 0 /\ H({}) = 0 /\ Cardinality({}) = 0
    BY SumOfNone, FS_EmptySet
  <2>2. Near({})
    BY <2>1
  <2> QED  BY <2>2, <1>3
<1> DEFINE x == One(T)
           U == T \ {x}
<1>5. /\ x \in T /\ F(T) = f[x] + F(U) /\ G(T) = g[x] + G(U) /\ H(T) = h[x] + H(U)
  BY <1>2, <1>3, <1>4, SumTakesOne
<1>6. /\ U \in SUBSET part /\ U \notin P /\ Cardinality(T) \in Nat /\ Cardinality(U) \in Nat
      /\ Cardinality(U) + 1 = Cardinality(T)
  <2>1. IsFiniteSet(T)
    BY <1>2, <1>3
  <2>2. Cardinality(U) = Cardinality(T) - 1 /\ Cardinality(T) \in Nat /\ Cardinality(U) \in Nat
    BY <2>1, <1>5, FS_RemoveElement, FS_CardinalityType, OneLess
  <2>3. U \in SUBSET part /\ ~(Cardinality(T) <= Cardinality(U)) /\ Cardinality(U) + 1 = Cardinality(T)
    <3> DEFINE a == Cardinality(T)
               b == Cardinality(U)
    <3>1. a \in Nat /\ b \in Nat /\ b = a - 1
      BY <2>2
    <3>2. T \in SUBSET part
      BY <1>3
    <3>3. U \in SUBSET part
      BY <3>2
    <3> HIDE DEF a, b
    <3>4. ~(a <= b) /\ b + 1 = a
      BY <3>1
    <3> QED  BY <3>3, <3>4 DEF a, b
  <2>4. U \notin P
    BY <1>3, <2>3
  <2> QED  BY <2>2, <2>3, <2>4
<1>7. F(U) \in Int /\ G(U) \in Int /\ H(U) \in Int
  BY <1>2, <1>6, SumIsInteger
<1> HIDE DEF F, G, H, U, x
<1>8. Near(U) /\ ~Near(T)
  BY <1>3, <1>6
<1>9. x \in part
  BY <1>3, <1>5
<1> QED  BY <1>5, <1>6, <1>7, <1>8, <1>9

LEMMA MarginsAdd == PricingInv => MarginIsTrue
<1> SUFFICES ASSUME PricingInv, NEW part \in Groups
             PROVE  LET billed == SumOf(LAMBDA l : l.billed, part)
                        off == Line(part).margin - (billed - Line(part).cost)
                    IN  -Cardinality(part) <= off /\ off <= Cardinality(part)
  BY DEF MarginIsTrue
<1>1. PICK n \in Nat : logs = [k \in 1..n |-> logs[k]]
  BY DEF PricingInv, AreRows
<1>2. DOMAIN logs = 1..n /\ \A k \in 1..n : PriceRowOK(logs[k])
  BY <1>1 DEF PricingInv, AreRows
<1>3. part \in SUBSET (1..n)
  BY <1>2 DEF Groups, RowsOfProvider, RowsOfSession
<1> DEFINE f == [k \in DOMAIN logs |-> Margin(logs[k])]
           g == [k \in DOMAIN logs |-> logs[k].billed]
           h == [k \in DOMAIN logs |-> logs[k].cost]
<1>4. /\ Line(part).margin = SumFunctionOnSet(f, part)
      /\ SumOf(LAMBDA l : l.billed, part) = SumFunctionOnSet(g, part)
      /\ Line(part).cost = SumFunctionOnSet(h, part)
  BY DEF Line, SumOf
<1>5. ASSUME NEW k \in part
      PROVE  /\ f[k] \in Int /\ g[k] \in Int /\ h[k] \in Int
             /\ -1 <= f[k] - (g[k] - h[k]) /\ f[k] - (g[k] - h[k]) <= 1
  <2> DEFINE l == logs[k]
  <2>1. f[k] = Margin(l) /\ g[k] = l.billed /\ h[k] = l.cost
    BY <1>2, <1>3
  <2>2. MarginOK(l)
    BY <1>2, <1>3 DEF PriceRowOK
  <2> HIDE DEF l, f, g, h
  <2> QED  BY <2>1, <2>2 DEF MarginOK, Margin, Billed
<1> HIDE DEF f, g, h
<1> QED  BY <1>3, <1>4, <1>5, MarginsFit

LEMMA ChargedIsPaid == PricingInv => ShownChargedIsPaid
<1> SUFFICES ASSUME PricingInv, NEW s \in PricedSessions, RowsOfSession(s) # {}, SessionStatus(s) = "charged"
             PROVE  Line(RowsOfSession(s)).charged = Line(RowsOfSession(s)).requested
  BY DEF ShownChargedIsPaid
<1> DEFINE part == RowsOfSession(s)
           statuses == {logs[k].status : k \in part}
           f == [k \in DOMAIN logs |-> logs[k].charged]
           g == [k \in DOMAIN logs |-> logs[k].requested]
<1>1. PICK n \in Nat : logs = [k \in 1..n |-> logs[k]]
  BY DEF PricingInv, AreRows
<1>2. DOMAIN logs = 1..n /\ \A k \in 1..n : PriceRowOK(logs[k])
  BY <1>1 DEF PricingInv, AreRows
<1>3. part \in SUBSET (1..n) /\ IsFiniteSet(part)
  <2>1. part \in SUBSET (1..n)
    BY <1>2 DEF RowsOfSession
  <2>2. IsFiniteSet(1..n)
    BY FS_Interval
  <2> QED  BY <2>1, <2>2, FS_Subset
<1> HIDE DEF part
<1>4. Cardinality(statuses) = 1 /\ "charged" = CHOOSE x \in statuses : TRUE
  BY DEF SessionStatus, part
<1>5. IsFiniteSet(statuses)
  <2>1. [k \in part |-> logs[k].status] \in Surjection(part, statuses)
    BY DEF Surjection
  <2> QED  BY <1>3, <2>1, FS_Surjection
<1>6. PICK x : statuses = {x}
  BY <1>4, <1>5, FS_Singleton
<1>7. x = "charged"
  BY <1>4, <1>6
<1>8. \A k \in part : f[k] = g[k]
  <2> TAKE k \in part
  <2>1. logs[k].status = "charged" /\ k \in 1..n
    BY <1>3, <1>6, <1>7
  <2>2. logs[k].charged = logs[k].requested
    BY <1>2, <2>1 DEF PriceRowOK
  <2> QED  BY <1>2, <2>1, <2>2
<1> HIDE DEF f, g
<1>9. SumFunctionOnSet(f, part) = SumFunctionOnSet(g, part)
  BY <1>3, <1>8, SumsAgree
<1>10. Line(part).charged = SumFunctionOnSet(f, part) /\ Line(part).requested = SumFunctionOnSet(g, part)
  BY DEF Line, SumOf, f, g
<1> QED  BY <1>9, <1>10 DEF part

LEMMA ReportTrue == PricingInv => ReportIsTrue
BY PricingTyped, MarginsAdd, ChargedIsPaid DEF ReportIsTrue

---------------------------------------------------------------------------
(* The four side by side, as MCServices runs them: each takes its own steps. *)

LEMMA ServicesApart ==
    /\ ServicesInit => RoomInit /\ PcInit /\ ProfilesInit /\ PricingInit
    /\ [ServicesNext]_<<roomVars, pcVars, profileVars, pricingVars, service>>
         => /\ [RoomNext]_roomVars /\ [PcNext]_pcVars /\ [ProfilesNext]_profileVars
            /\ [PricingNext]_pricingVars
BY DEF ServicesInit, ServicesNext

\* Each of the four keeps its own specification.
LEMMA ServicesAreFour == ServicesSpec => RoomSpec /\ PcSpec /\ ProfilesSpec
BY ServicesApart, PTL DEF ServicesSpec, RoomSpec, PcSpec, ProfilesSpec

\* For any items, reports, funds and markup: an item costs the same however its model is
\* spelled, its float rounded or its text reported, no more for what was cached, and
\* something if it was measured (calculate_usage_charge, usd_to_micro_credits).
THEOREM PricesAreFair == ServicesSpec => []PriceIsFair
<1>1. ServicesSpec => []PricingInv
  BY ServicesApart, PricingInitInv, PricingNextInv, PTL DEF ServicesSpec
<1> QED  BY <1>1, PriceFair, PTL

\* For any rows written and settled in part, every line of the report of margins is the sum
\* of its rows to a rounding a row, and a session shown as charged was paid in full
\* (build_reconciliation_report, process_usage_report).
THEOREM ReportsAreTrue == ServicesSpec => []ReportIsTrue
<1>1. ServicesSpec => []PricingInv
  BY ServicesApart, PricingInitInv, PricingNextInv, PTL DEF ServicesSpec
<1> QED  BY <1>1, ReportTrue, PTL

\* No step of the services makes a token on a balance nobody read, passes over older work,
\* or opens a profile that was cleared.
THEOREM ServicesStepAsAllowed == ServicesSpec => StepsAreAllowed
BY ServicesAreFour, RoomsOpenOnBalance, WorkIsTakenOldestFirst, ClearedStaysClosed, PTL
   DEF StepsAreAllowed
=============================================================================

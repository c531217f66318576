-------------------------------- MODULE Rooms --------------------------------
(* Rooms and their tokens (routes/token.py, sessions.py, kwamis.py, authz.py,*)
(* livekit.py, migration 015): a user asks for a token, for a room it names  *)
(* or for a new one, and for a kwami of its own.  The row of a room says whose*)
(* it is, for good; the requests interleave at every call.                   *)
(* External: the database, LiveKit, which admits who has a token, and the    *)
(* ledger, seen here as who can pay.                                         *)
EXTENDS Naturals, FiniteSets

CONSTANTS Guests,       \* users
          NamedRooms,   \* room names a client may send
          KwamisOf,     \* the kwamis of each user
          Tokens,       \* requests, 1..n, in the order they arrive
          FailOpen,     \* credits_fail_open_on_check_error
          MaxRoomFaults
ASSUME RoomAssumption ==
    /\ Tokens \subseteq Nat \ {0} /\ FailOpen \in BOOLEAN /\ MaxRoomFaults \in Nat
    /\ "nobody" \notin Guests

VARIABLES
  owner,    \* livekit_sessions: room -> its user, or nobody
  ask,      \* the requests
  tokens,   \* tokens issued: [user, room, kwami]
  solvent,  \* users whose balance is positive
  roomFaults

roomVars == <<owner, ask, tokens, solvent, roomFaults>>

Nobody == "nobody"
NoKwami == "none"
AllKwamis == (UNION {KwamisOf[u] : u \in Guests}) \cup {NoKwami}
\* build_room_name: a name nobody else has.
NewRoom(t) == <<"new", t>>
Rooms == {<<"named", r>> : r \in NamedRooms} \cup {NewRoom(t) : t \in Tokens}
NotAsked == [at |-> "absent", user |-> Nobody, room |-> <<"", 0>>, kwami |-> NoKwami]

Is(t, pc) == ask[t].at = pc
Becomes(t, pc) == ask' = [ask EXCEPT ![t].at = pc]
RoomFault == roomFaults < MaxRoomFaults /\ roomFaults' = roomFaults + 1

RoomInit ==
    /\ owner = [r \in Rooms |-> Nobody] /\ ask = [t \in Tokens |-> NotAsked]
    /\ tokens = {} /\ solvent = Guests /\ roomFaults = 0

AskToken(t) ==
    /\ Is(t, "absent") /\ \A s \in Tokens : s < t => ~Is(s, "absent")
    /\ \E u \in Guests, k \in AllKwamis, r \in {<<"named", n>> : n \in NamedRooms} \cup {NewRoom(t)} :
         ask' = [ask EXCEPT ![t] = [at |-> "kwami", user |-> u, room |-> r, kwami |-> k]]
    /\ UNCHANGED <<owner, tokens, solvent, roomFaults>>

\* resolve_owned_kwami: another's kwami is as good as none.
Owned(u, k) == k = NoKwami \/ k \in KwamisOf[u]

RequireKwamiOwned(t) ==
    /\ Is(t, "kwami")
    /\ \/ Becomes(t, IF Owned(ask[t].user, ask[t].kwami) THEN "room" ELSE "not found") /\ UNCHANGED roomFaults
       \/ RoomFault /\ Becomes(t, "error")
    /\ UNCHANGED <<owner, tokens, solvent>>

\* claim_room: the row is read ...
GetSession(t) ==
    /\ Is(t, "room")
    /\ LET o == owner[ask[t].room] IN
       \/ Becomes(t, IF o = Nobody THEN "claim" ELSE IF o = ask[t].user THEN "balance" ELSE "forbidden")
          /\ UNCHANGED roomFaults
       \/ RoomFault /\ Becomes(t, "error")
    /\ UNCHANGED <<owner, tokens, solvent>>

\* ... inserted, which the unique name may refuse, ...
ClaimRoom(t) ==
    /\ Is(t, "claim")
    /\ \/ /\ owner[ask[t].room] = Nobody /\ owner' = [owner EXCEPT ![ask[t].room] = ask[t].user]
          /\ Becomes(t, "balance") /\ UNCHANGED roomFaults
       \/ /\ owner[ask[t].room] # Nobody /\ Becomes(t, "again") /\ UNCHANGED <<owner, roomFaults>>
       \/ RoomFault /\ Becomes(t, "error") /\ UNCHANGED owner
    /\ UNCHANGED <<tokens, solvent>>

\* mutant: the room is there now, so it is claimed.
AdmitsAnyone(t) == TRUE
\* ... and read again: who lost the race may still be the owner.
Admits(t) == owner[ask[t].room] = ask[t].user

RereadSession(t) ==
    /\ Is(t, "again")
    /\ \/ Becomes(t, IF Admits(t) THEN "balance" ELSE "forbidden") /\ UNCHANGED roomFaults
       \/ RoomFault /\ Becomes(t, "error")
    /\ UNCHANGED <<owner, tokens, solvent>>

OnCheckError == IF FailOpen THEN "token" ELSE "unavailable"

\* The balance is looked at once, and the room stays claimed whatever it says.
CheckBalance(t) ==
    /\ Is(t, "balance")
    /\ \/ Becomes(t, IF ask[t].user \in solvent THEN "token" ELSE "unpaid") /\ UNCHANGED roomFaults
       \/ RoomFault /\ Becomes(t, OnCheckError)
    /\ UNCHANGED <<owner, tokens, solvent>>

\* create_token: the token names user and room, and the agent is told the kwami.
CreateToken(t) ==
    /\ Is(t, "token")
    /\ tokens' = tokens \cup {[user |-> ask[t].user, room |-> ask[t].room, kwami |-> ask[t].kwami]}
    /\ Becomes(t, "issued")
    /\ UNCHANGED <<owner, solvent, roomFaults>>

\* What a user has is spent by its sessions, and bought.
BalanceMoves(u) ==
    /\ solvent' = IF u \in solvent THEN solvent \ {u} ELSE solvent \cup {u}
    /\ UNCHANGED <<owner, ask, tokens, roomFaults>>

RoomNext ==
    \/ \E t \in Tokens : AskToken(t) \/ RequireKwamiOwned(t) \/ GetSession(t) \/ ClaimRoom(t)
                           \/ RereadSession(t) \/ CheckBalance(t) \/ CreateToken(t)
    \/ \E u \in Guests : BalanceMoves(u)
RoomSpec == RoomInit /\ [][RoomNext]_roomVars

---------------------------------------------------------------------------
(* Properties *)

Stages == {"absent", "kwami", "room", "claim", "again", "balance", "token",
           "not found", "forbidden", "unpaid", "unavailable", "error", "issued"}

\* Every token is for a room its user has claimed.
RoomTypeOK ==
    /\ owner \in [Rooms -> Guests \cup {Nobody}]
    /\ ask \in [Tokens -> [at : Stages, user : Guests \cup {Nobody}, kwami : AllKwamis,
                           room : Rooms \cup {<<"", 0>>}]]
    /\ tokens \subseteq [user : Guests, room : Rooms, kwami : AllKwamis]
    /\ \A a \in tokens : owner[a.room] = a.user
    /\ solvent \subseteq Guests /\ roomFaults \in 0..MaxRoomFaults

\* However the requests race, all tokens of a room are one user's, and the kwami each
\* brings along is that user's own (sessions.py: "a room belongs to the first user it
\* was issued to").
RoomHasOneOwner ==
    /\ \A a, b \in tokens : a.room = b.room => a.user = b.user
    /\ \A a \in tokens : a.kwami = NoKwami \/ a.kwami \in KwamisOf[a.user]

\* Who owns a room is never turned away from it for being a stranger: not in the second
\* tab that asks at the same moment either.
OwnerIsNotRefused == \A t \in Tokens : Is(t, "forbidden") => owner[ask[t].room] # ask[t].user

\* A room is its owner's alone, and never refused to him.
RoomsAreOwned == RoomTypeOK /\ RoomHasOneOwner /\ OwnerIsNotRefused

\* Unless told to fail open, no token is issued on a balance nobody could read.
NoBlindTokens ==
    [][\A t \in Tokens : Is(t, "balance") /\ ask'[t].at = "token"
         => ask[t].user \in solvent \/ FailOpen]_roomVars
=============================================================================

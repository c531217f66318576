------------------------------ MODULE Profiles ------------------------------
(* The cloud browser's profiles (browser_sessions.py, routes/internal.py,    *)
(* migration 018): the agent asks for the handle of the owner's profile when *)
(* a session starts, makes a profile where there is none, and saves it.      *)
(* External: the agent, whose sessions run beside each other, and the vendor,*)
(* which never gives a handle out twice and cannot be asked for one.         *)
EXTENDS Naturals, FiniteSets

CONSTANTS Owners,       \* owner_key: kwamis and callers
          Vendors,      \* SUPPORTED_VENDORS
          Browsings,    \* sessions of the agent, 1..n
          MaxHandles    \* profiles the vendors make
ASSUME ProfilesAssumption == MaxHandles \in Nat

VARIABLES
  contexts,  \* browser_contexts: [owner, vendor, handle]
  browsing,  \* the sessions: whose they are, and the handle they use
  handles,   \* profiles made: the owner and vendor of each
  cleared    \* ghost: handles an owner asked to forget, or another took the place of

profileVars == <<contexts, browsing, handles, cleared>>
Closed == [at |-> "closed", owner |-> "", vendor |-> "", handle |-> 0]

ProfilesInit ==
    /\ contexts = {} /\ handles = <<>> /\ cleared = {}
    /\ browsing = [b \in Browsings |-> Closed]

Key(c, owner, vendor) == c.owner = owner /\ c.vendor = vendor

\* get_browser_context; 404 makes the agent ask the vendor for a profile.
OpenBrowser(b) ==
    /\ browsing[b].at = "closed"
    /\ \E o \in Owners, v \in Vendors :
         LET found == {c \in contexts : Key(c, o, v)}
             new == Cardinality(DOMAIN handles) + 1
         IN \/ \E c \in found :
                 /\ browsing' = [browsing EXCEPT ![b] = [at |-> "open", owner |-> o, vendor |-> v,
                                                         handle |-> c.handle]]
                 /\ UNCHANGED handles
            \/ /\ found = {} /\ new <= MaxHandles
               /\ handles' = [i \in 1..new |-> IF i = new THEN <<o, v>> ELSE handles[i]]
               /\ browsing' = [browsing EXCEPT ![b] = [at |-> "made", owner |-> o, vendor |-> v,
                                                       handle |-> new]]
    /\ UNCHANGED <<contexts, cleared>>

\* mutant: a row is inserted beside the one there is.
Replaced(c, owner, vendor) == FALSE
\* The row an upsert on owner and vendor writes over.
Overwritten(c, owner, vendor) == c.owner = owner /\ c.vendor = vendor

\* save_browser_context: the handle of whoever saves last is the owner's, and the other
\* profile can never be reached again.
SaveBrowserContext(b) ==
    LET mine == browsing[b]
        over == {c \in contexts : Overwritten(c, mine.owner, mine.vendor)}
    IN /\ mine.at = "made" /\ browsing' = [browsing EXCEPT ![b].at = "open"]
       /\ contexts' = (contexts \ over)
                        \cup {[owner |-> mine.owner, vendor |-> mine.vendor, handle |-> mine.handle]}
       /\ cleared' = cleared \cup {c.handle : c \in over}
       /\ UNCHANGED handles

\* mutant: clearing all of them clears none of them.
ClearOne(o, vs) ==
    LET gone == {c \in contexts : c.owner = o /\ c.vendor \in vs}
    IN /\ gone # {} /\ contexts' = IF Cardinality(vs) = 1 THEN contexts \ gone ELSE contexts
       /\ cleared' = cleared \cup {c.handle : c \in gone}
       /\ UNCHANGED <<browsing, handles>>

\* delete_browser_context, of one vendor or of all.
DeleteBrowserContext(o, vs) ==
    LET gone == {c \in contexts : c.owner = o /\ c.vendor \in vs}
    IN /\ gone # {} /\ contexts' = contexts \ gone
       /\ cleared' = cleared \cup {c.handle : c \in gone}
       /\ UNCHANGED <<browsing, handles>>

CloseBrowser(b) ==
    /\ browsing[b].at = "open" /\ browsing' = [browsing EXCEPT ![b] = Closed]
    /\ UNCHANGED <<contexts, handles, cleared>>

ProfilesNext ==
    \/ \E b \in Browsings : OpenBrowser(b) \/ SaveBrowserContext(b) \/ CloseBrowser(b)
    \/ \E o \in Owners, v \in Vendors : DeleteBrowserContext(o, {v}) \/ DeleteBrowserContext(o, Vendors)
ProfilesSpec == ProfilesInit /\ [][ProfilesNext]_profileVars

---------------------------------------------------------------------------
(* Properties *)

\* An owner has one profile at a vendor, whichever sessions start together (migration
\* 018: "One context per owner per vendor"), and keeps those it has elsewhere: what is
\* neither listed nor cleared is a handle some session is about to save.
OneProfileEach ==
    /\ \A c, d \in contexts : c.owner = d.owner /\ c.vendor = d.vendor => c = d
    /\ \A i \in DOMAIN handles :
         \/ i \in cleared \/ \E c \in contexts : c.handle = i
         \/ \E b \in Browsings : browsing[b].at = "made" /\ browsing[b].handle = i

\* A session browses with a profile made for its owner at its vendor, never with another's.
OwnProfile ==
    \A b \in Browsings : browsing[b].at # "closed" =>
        handles[browsing[b].handle] = <<browsing[b].owner, browsing[b].vendor>>

\* A profile that was cleared or replaced is not opened again by a session to come.
ClearedIsNotOpened ==
    [][\A b \in Browsings : browsing[b].at = "closed" /\ browsing'[b].at = "open"
         => browsing'[b].handle \notin cleared]_profileVars

\* A browser opens the one profile of its owner with its vendor.
ProfilesAreOwn == OneProfileEach /\ OwnProfile
=============================================================================

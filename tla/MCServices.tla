------------------------------ MODULE MCServices ------------------------------
(* Rooms, work for the PC, browser profiles and prices share no row, so the  *)
(* instance is the four side by side: the service that runs is chosen at first, and  *)
(* the others stay as they were.                                             *)
EXTENDS Rooms, PcWork, Profiles, Pricing

VARIABLE service

OwnKwamis == [u \in {"ua", "ub"} |-> IF u = "ua" THEN {"ka"} ELSE {"kb"}]

\* One user has two processes, another has one.
PcOf == [r \in {"p1", "p2", "q1"} |-> IF r = "q1" THEN "ub" ELSE "ua"]
OrderOf(u, m, h) == [user |-> u, mode |-> m, host |-> h]
AnyOrder == {OrderOf("ua", "work", ""), OrderOf("ua", "site", "h"), OrderOf("ub", "work", "")}

IdOf(p, m) == [livekit |-> FALSE, provider |-> p, model |-> m, lower |-> TRUE]
Spelt == {IdOf("openai", "gpt-4o"), IdOf("api.openai.com", "gpt-4o"), IdOf("gemini", "gemini-2.5-pro"),
          IdOf("google", "gemini-2.5-pro"), IdOf("anthropic", "claude-fable-5-1"),
          IdOf("google", "gemini-2.0-flash-lite"), IdOf("newcomer", "new"),
          [IdOf("openai", "gpt-4o") EXCEPT !.livekit = TRUE], [IdOf("gemini", "gemini-2.5-pro") EXCEPT !.lower = FALSE]}
Voices == {IdOf("deepgram", "nova-3"), IdOf("newcomer", "new"), [IdOf("deepgram", "nova-3") EXCEPT !.lower = FALSE]}
Speech == {IdOf("elevenlabs", "eleven_flash_v2_5"), IdOf("newcomer", "new"),
           [IdOf("elevenlabs", "eleven_flash_v2_5") EXCEPT !.livekit = TRUE]}
Live == {IdOf("openai", "gpt-realtime"), IdOf("gemini", "gemini-3.1-flash-live-preview"),
         IdOf("google", "gemini-3.1-flash-live-preview"), IdOf("newcomer", "new")}
Nothing == [type |-> "llm", id |-> IdOf("openai", "gpt-4o"), units |-> 0, prompt |-> 0, completion |-> 0,
            cached |-> 0, audioIn |-> 0, audioOut |-> 0, textIn |-> 0, textOut |-> 0, own |-> FALSE,
            platform |-> -1, noise |-> 0]
Item(t, i, u) == [Nothing EXCEPT !.type = t, !.id = i, !.units = u]
Noisy(S) == {[i EXCEPT !.noise = n] : i \in S, n \in {-1, 0, 1}}
ItemMenu ==
    Noisy({[Item("llm", i, p + c) EXCEPT !.prompt = p, !.completion = c, !.cached = h] :
              i \in Spelt \cup Live, p \in {0, 1, 3}, c \in {0, 2}, h \in {0, 1, 2}}
          \cup {Item("llm", i, 2) : i \in Spelt \cup Live}
          \cup {Item("stt", i, u) : i \in Voices, u \in {0, 2}}
          \cup {Item("tts", i, u) : i \in Speech, u \in {0, 2}}
          \cup {Item("tool", IdOf("tavily", "search"), u) : u \in {0, 2}}
          \cup {[Item("realtime", i, u) EXCEPT !.audioIn = a, !.textIn = p, !.textOut = c, !.cached = h] :
                  i \in Live, u \in {1}, a \in {0, 1}, p \in {0, 2}, c \in {0, 1}, h \in {0, 1}})
    \cup {[Item("llm", IdOf("openai", "gpt-4o"), 3) EXCEPT !.own = TRUE, !.prompt = 3]}
    \cup {[Item("platform", IdOf("kwami", "platform"), 2) EXCEPT !.platform = f] : f \in {0, 600}}

\* What sessions report: language and speech, one of it free, or own keys within the day's
\* minutes and beyond them.
Talk == [Item("llm", IdOf("gemini", "gemini-2.5-pro"), 3) EXCEPT !.prompt = 2, !.completion = 1]
Word == Item("tts", IdOf("newcomer", "new"), 1)
Gift == Item("memory", IdOf("zep", "get_context"), 1)
Fee(f) == [Item("platform", IdOf("kwami", "platform"), 2) EXCEPT !.platform = f]
Told == {<<Talk>>, <<Talk, Word>>, <<Gift, Word>>, <<Fee(0), [Talk EXCEPT !.own = TRUE]>>, <<Fee(600), Talk>>}

ServicesInit ==
    /\ service \in {"rooms", "pc", "profiles", "pricing"}
    /\ RoomInit /\ PcInit /\ ProfilesInit /\ PricingInit
ServicesNext ==
    \/ service = "rooms" /\ RoomNext /\ UNCHANGED <<pcVars, profileVars, pricingVars, service>>
    \/ service = "pc" /\ PcNext /\ UNCHANGED <<roomVars, profileVars, pricingVars, service>>
    \/ service = "profiles" /\ ProfilesNext /\ UNCHANGED <<roomVars, pcVars, pricingVars, service>>
    \/ service = "pricing" /\ PricingNext /\ UNCHANGED <<roomVars, pcVars, profileVars, service>>
ServicesSpec == ServicesInit /\ [][ServicesNext]_<<roomVars, pcVars, profileVars, pricingVars, service>>
---------------------------------------------------------------------------
(* The properties of the services, each of which speaks of its own tables.   *)

\* The price of an item is that of the model and the usage, however they are spelled,
\* rounded, cached or reported.
PriceIsFair ==
    /\ SpellingDoesNotMatter /\ NoiseIsNotCharged /\ CachingNeverCostsMore
    /\ MeasuredIsNotFree /\ TextIsNotMinutes

\* The report of margins tells what the rows of the sessions say.
ReportIsTrue == PricingTypeOK /\ MarginIsTrue /\ ShownChargedIsPaid

\* No token on a balance nobody read, no work passed over for a later one, no profile
\* opened that was cleared before.
StepsAreAllowed == NoBlindTokens /\ OldestFirst /\ ClearedIsNotOpened
=============================================================================

------------------------------- MODULE Pricing -------------------------------
(* What usage costs, and the report of it (pricing.py, credits.py,           *)
(* config.py, routes/credits.py).  An item of a usage report is priced by the*)
(* catalogue, or by a fallback, and its row is written; the report of margins*)
(* is computed from the rows.                                                *)
(* Money is counted in 10^-8 USD, tokens and characters in thousands, time in*)
(* minutes.  Floats are exact up to where they are rounded: what a           *)
(* multiplied amount may be off by, less than any price differs, is `noise`. *)
EXTENDS Integers, Sequences, FiniteSets, FiniteSetsExt, Functions

CONSTANTS PricedItems,   \* items that are priced one by one
          SessionUsage,  \* what a session may report: sequences of items
          PricedSessions,
          Funds,         \* what a user may have when a session is settled
          MaxLogs,       \* rows of a ledger
          MarkupNum, MarkupDen   \* billing_markup_multiplier

VARIABLES item,   \* the item priced last, or NoItem
          logs    \* credit_usage_logs

pricingVars == <<item, logs>>

NoItem == [type |-> "none"]

\* UsageItem: a model's id, what was used of it, whether on the user's own key; the platform
\* fee, or -1; and the noise of the float of its price.
Ids == [livekit : BOOLEAN, provider : STRING, model : STRING, lower : BOOLEAN]
UsageItems == [type : STRING, id : Ids, units : Nat, prompt : Nat, completion : Nat, cached : Nat,
               audioIn : Nat, audioOut : Nat, textIn : Nat, textOut : Nat, own : BOOLEAN,
               platform : Nat \cup {-1}, noise : {-1, 0, 1}]

ASSUME PricingAssumption ==
    /\ MaxLogs \in Nat /\ Funds \subseteq Int
    /\ MarkupNum \in Nat /\ MarkupDen \in Nat \ {0}
    /\ \A i \in PricedItems : i \in UsageItems
    /\ \A usage \in SessionUsage : usage \in Seq(UsageItems)

---------------------------------------------------------------------------
(* The catalogue, by provider and model.                                     *)

\* TokenPricing, AudioPricing, RealtimePricing and ExternalPricing, in 10^-8 USD for a
\* thousand tokens or characters, a minute, a call; NoRate where none is given.
NoRate == -1
Tokens3(in, out, cached) == [kind |-> "tokens", in |-> in, out |-> out, cached |-> cached]
PerMinute(r) == [kind |-> "audio", minute |-> r, chars |-> NoRate]
PerCharacters(r) == [kind |-> "audio", minute |-> NoRate, chars |-> r]
Realtime(audioIn, audioOut, textIn, textOut, cached) ==
    [kind |-> "realtime", audioIn |-> audioIn, audioOut |-> audioOut, in |-> textIn,
     out |-> textOut, cached |-> cached]
PerCall(r) == [kind |-> "call", call |-> r]

LLM_PRICING == {
    <<"openai", "gpt-4o", Tokens3(250000, 1000000, 125000)>>,
    <<"openai", "gpt-4o-mini", Tokens3(15000, 60000, 7500)>>,
    <<"openai", "gpt-4.1", Tokens3(200000, 800000, 50000)>>,
    <<"openai", "gpt-4.1-mini", Tokens3(40000, 160000, 10000)>>,
    <<"openai", "gpt-4.1-nano", Tokens3(10000, 40000, 2500)>>,
    <<"google", "gemini-2.0-flash", Tokens3(10000, 40000, 2500)>>,
    <<"google", "gemini-2.0-flash-lite", Tokens3(7500, 30000, 1875)>>,
    <<"google", "gemini-2.5-flash", Tokens3(15000, 60000, 3750)>>,
    <<"google", "gemini-2.5-pro", Tokens3(125000, 1000000, 31250)>>,
    <<"google", "gemini-3.5-flash", Tokens3(150000, 900000, 15000)>>,
    <<"anthropic", "claude-haiku-5-5", Tokens3(10000, 50000, 1000)>>,
    <<"anthropic", "claude-sonnet-5-5", Tokens3(200000, 1000000, 20000)>>,
    <<"anthropic", "claude-opus-5-5", Tokens3(400000, 2000000, 20000)>>,
    <<"anthropic", "claude-fable-5-1", Tokens3(1000000, 5000000, 25000)>>,
    <<"deepseek-ai", "deepseek-v3", Tokens3(27000, 110000, 7000)>>,
    <<"moonshotai", "kimi-k2-instruct", Tokens3(60000, 240000, NoRate)>>}

STT_PRICING == {
    <<"deepgram", "nova-3", PerMinute(770000)>>,
    <<"deepgram", "nova-3-general", PerMinute(770000)>>,
    <<"deepgram", "nova-2", PerMinute(580000)>>,
    <<"deepgram", "nova-2-general", PerMinute(580000)>>,
    <<"elevenlabs", "scribe_v2_realtime", PerMinute(650000)>>,
    <<"assemblyai", "universal", PerMinute(370000)>>}

TTS_PRICING == {
    <<"cartesia", "sonic-3", PerCharacters(1500000)>>,
    <<"cartesia", "sonic-2", PerCharacters(1500000)>>,
    <<"elevenlabs", "eleven_turbo_v2_5", PerCharacters(4000000)>>,
    <<"elevenlabs", "eleven_flash_v2_5", PerCharacters(4000000)>>,
    <<"elevenlabs", "eleven_multilingual_v2", PerCharacters(8000000)>>,
    <<"google", "gemini-3.1-flash-tts-preview", PerCharacters(4500000)>>,
    <<"openai", "tts-1", PerCharacters(1500000)>>,
    <<"openai", "tts-1-hd", PerCharacters(3000000)>>}

REALTIME_PRICING == {
    <<"openai", "gpt-4o-realtime-preview", Realtime(6000000, 24000000, 500000, 2000000, NoRate)>>,
    <<"openai", "gpt-4o-mini-realtime-preview", Realtime(1000000, 4000000, 60000, 240000, NoRate)>>,
    <<"openai", "gpt-realtime", Realtime(2000000, 8000000, 400000, 1600000, 40000)>>,
    <<"google", "gemini-3.1-flash-live-preview", Realtime(500000, 1800000, 75000, 450000, NoRate)>>}

\* With the rates config.py gives by default: most of these cost nothing.
EXTERNAL_PRICING ==
    {<<"tavily", m, PerCall(800000)>> : m \in {"search", "extract"}}
    \cup {<<p, "cloud", PerCall(500000)>> : p \in {"browserbase", "browser_use"}}
    \cup {<<"serpapi", "google_shopping", PerCall(0)>>, <<"microlink", "fetch", PerCall(0)>>}
    \cup {<<"zep", m, PerCall(0)>> : m \in {"add_messages", "get_context", "thread_search",
              "graph_search", "get_user_name", "create_user", "create_thread"}}

Catalogue == LLM_PRICING \cup STT_PRICING \cup TTS_PRICING \cup REALTIME_PRICING \cup EXTERNAL_PRICING
ALL_PRICING ==
    [m \in {<<r[1], r[2]>> : r \in Catalogue} |-> (CHOOSE r \in Catalogue : <<r[1], r[2]>> = m)[3]]

---------------------------------------------------------------------------
(* Pricing an item.                                                          *)

\* PROVIDER_ALIASES.
AliasOf(p) ==
    CASE p = "api.openai.com" -> "openai"
      [] p = "api.anthropic.com" -> "anthropic"
      [] p = "gemini" -> "google"
      [] OTHER -> p

\* An id is [livekit, provider, model, lower]: with the prefix livekit/ or not, in the
\* catalogue's letters or not.  NoModel is not in the catalogue however it is read.
NoModel == <<"none", "none">>
get_model_pricing(id) ==
    IF ~id.livekit /\ id.lower /\ <<id.provider, id.model>> \in DOMAIN ALL_PRICING
    THEN <<id.provider, id.model>>
    ELSE IF <<AliasOf(id.provider), id.model>> \in DOMAIN ALL_PRICING
    THEN <<AliasOf(id.provider), id.model>> ELSE NoModel

calculate_token_cost(p, prompt, completion, cached) ==
    Max({prompt - cached, 0}) * p.in + completion * p.out
        + cached * (IF p.cached # NoRate THEN p.cached ELSE p.in)

calculate_audio_cost(p, units) ==
    IF p.minute # NoRate THEN units * p.minute ELSE IF p.chars # NoRate THEN units * p.chars ELSE 0

calculate_realtime_cost(p, audioIn, audioOut, textIn, textOut, cached, minutes) ==
    IF audioIn = 0 /\ audioOut = 0 /\ textIn = 0 /\ textOut = 0
    THEN minutes * ((p.audioIn + p.audioOut) \div 2)
    ELSE LET c == Min({cached, textIn}) IN
         audioIn * p.audioIn + audioOut * p.audioOut
         + (IF p.in = NoRate THEN 0 ELSE (textIn - c) * p.in + c * (IF p.cached = NoRate THEN p.in ELSE p.cached))
         + (IF p.out = NoRate THEN 0 ELSE textOut * p.out)

\* _calculate_fallback_cost, with the rates of config.py.
FallbackCost(type, units) ==
    CASE type = "llm" -> units * 200000
      [] type = "stt" -> units * 920000
      [] type = "tts" -> units * 8000000
      [] type = "realtime" -> units * 10000000
      [] OTHER -> 0

\* The table an item's model is priced by.
KindOf(i) ==
    LET m == get_model_pricing(i.id) IN IF m = NoModel THEN "none" ELSE ALL_PRICING[m].kind

\* A realtime model's text-only turns come as language, whose units are tokens.
ReportedAsText(i) == i.type = "llm"

\* calculate_usage_charge, the cost: what the provider takes for the item, at rate p.
CostBy(i, p) ==
    CASE p.kind = "tokens" ->
            IF i.prompt + i.completion + i.cached > 0
            THEN calculate_token_cost(p, i.prompt, i.completion, i.cached)
            ELSE (i.units * (p.in + p.out)) \div 2
      [] p.kind = "audio" -> calculate_audio_cost(p, i.units)
      [] p.kind = "realtime" /\ ReportedAsText(i) ->
            calculate_realtime_cost(p, 0, 0, i.prompt, i.completion, i.cached, 0)
      [] p.kind = "realtime" /\ ~ReportedAsText(i) ->
            calculate_realtime_cost(p, i.audioIn, i.audioOut, i.textIn, i.textOut, i.cached, i.units)
      [] p.kind = "call" -> (IF i.units > 0 THEN i.units ELSE 1) * p.call

ProviderCost(i) ==
    LET m == get_model_pricing(i.id)
    IN  IF m = NoModel THEN FallbackCost(i.type, i.units) ELSE CostBy(i, ALL_PRICING[m])

\* The float of an amount is off by less than half of what amounts differ by, counted in
\* thirds: -1, 0 or 1.  usd_to_micro_credits quantizes it away and then rounds up.
Denoised(amount3) == (amount3 + 1) \div 3
Up(n, d) == (n + d - 1) \div d

\* mutant: rounded up as it comes.
MicroCreditsNoisy(amount, noise) == Max({Up(3 * amount + noise, 3 * 100 * MarkupDen), 1})

\* An amount is in 10^-8 USD / MarkupDen, a micro-credit is 10^-6 USD.
MicroCredits(amount, noise) == Max({Up(Denoised(3 * amount + noise), 100 * MarkupDen), 1})

\* _round_usd: micro-dollars of an amount.  No price of the instance lies half-way.
RoundUsd(amount) ==
    IF amount < 0 THEN -((50 * MarkupDen - amount) \div (100 * MarkupDen))
    ELSE (amount + 50 * MarkupDen) \div (100 * MarkupDen)

\* PricingBreakdown: what is written for an item.  No platform fee is -1; a fee of 0 is a
\* session within the day's included minutes.
Breakdown(cost, billed, micro, source) ==
    [cost |-> RoundUsd(cost), billed |-> RoundUsd(billed), margin |-> RoundUsd(billed - cost),
     micro |-> micro, source |-> source]
\* calculate_usage_charge and _apply_billing_policy.
Charge(i) ==
    LET cost == ProviderCost(i)
        source == IF get_model_pricing(i.id) = NoModel THEN "fallback" ELSE "catalog"
    IN  CASE i.platform >= 0 ->
               Breakdown(i.units * 1000000 * MarkupDen, i.platform * 100 * MarkupDen, i.platform, "platform")
          [] i.platform < 0 /\ i.own -> Breakdown(0, 0, 0, "own_key")
          [] OTHER -> IF cost <= 0 THEN Breakdown(0, 0, 0, source)
                      ELSE Breakdown(cost * MarkupDen, cost * MarkupNum,
                                     MicroCredits(cost * MarkupNum, i.noise), source)

---------------------------------------------------------------------------
(* The rows of a session, and the report of them.                            *)

\* What row k of the rows is given of what was taken for all of them, in order.
ShareOf(asked, k, taken) ==
    LET before == SumFunctionOnSet(asked, 1..(k - 1))
    IN  Min({asked[k], Max({taken - before, 0})})

SettledAs(asked, share) ==
    CASE asked = 0 -> "skipped"
      [] asked > 0 /\ share = 0 -> "written_off"
      [] asked > 0 /\ share > 0 -> IF share = asked THEN "charged" ELSE "partially_charged"

\* Rows are written as pending and then settled; a worker that dies leaves the rest.
RowsOf(usage, s, funds, settled) ==
    LET charge == [k \in DOMAIN usage |-> Charge(usage[k])]
        asked == [k \in DOMAIN usage |-> charge[k].micro]
        all == SumFunctionOnSet(asked, DOMAIN usage)
        taken == Min({all, Max({funds, 0})})
        share(k) == IF k <= settled THEN ShareOf(asked, k, taken) ELSE 0
    IN  [k \in DOMAIN usage |->
            [session |-> s, id |-> usage[k].id, cost |-> charge[k].cost, billed |-> charge[k].billed,
             margin |-> charge[k].margin, source |-> charge[k].source, requested |-> asked[k],
             charged |-> share(k),
             status |-> IF k <= settled THEN SettledAs(asked[k], share(k)) ELSE "pending"]]

\* _infer_provider: who makes a model the catalogue has; otherwise what the id as it is
\* written has before its first slash, prefix, alias and letters included.
InferProvider(id) ==
    IF get_model_pricing(id) # NoModel THEN <<get_model_pricing(id)[1], TRUE>>
    ELSE <<IF id.livekit THEN "livekit" ELSE id.provider, id.lower>>

\* build_reconciliation_report reads a billed cost of zero as not recorded.
Billed(l) == IF l.billed # 0 THEN l.billed ELSE l.cost
\* mutant: the margin is computed anew.
MarginAnew(l) == Billed(l) - l.cost
Margin(l) == IF l.margin # 0 THEN l.margin ELSE Billed(l) - l.cost

SumOf(f(_), rows) == SumFunctionOnSet([k \in DOMAIN logs |-> f(logs[k])], rows)
\* A line of the summary or of a breakdown, over some of the rows.
Line(rows) ==
    [usage_rows |-> Cardinality(rows), margin |-> SumOf(Margin, rows), billed |-> SumOf(Billed, rows),
     cost |-> SumOf(LAMBDA l : l.cost, rows), charged |-> SumOf(LAMBDA l : l.charged, rows),
     requested |-> SumOf(LAMBDA l : l.requested, rows),
     insufficient |-> Cardinality({k \in rows : logs[k].status = "insufficient_credits"})]
RowsOfProvider(p) == {k \in DOMAIN logs : InferProvider(logs[k].id) = p}
RowsOfSession(s) == {k \in DOMAIN logs : logs[k].session = s}
Groups == {DOMAIN logs} \cup {RowsOfProvider(InferProvider(logs[k].id)) : k \in DOMAIN logs}
              \cup {RowsOfSession(s) : s \in PricedSessions}
SessionStatus(s) ==
    LET statuses == {logs[k].status : k \in RowsOfSession(s)} IN
    IF Cardinality(statuses) = 1 THEN CHOOSE x \in statuses : TRUE
    ELSE IF "insufficient_credits" \in statuses THEN "insufficient_credits"
    ELSE IF "pending" \in statuses THEN "pending" ELSE "mixed"

---------------------------------------------------------------------------

PricingInit == item = NoItem /\ logs = <<>>

\* An item is priced: what calculate_usage_charge returns for it.
PriceItem ==
    /\ logs = <<>> /\ item = NoItem
    /\ item' \in PricedItems
    /\ UNCHANGED logs

\* A session is reported, its rows settled with what the user has, or some of them.
LogSession(s) ==
    /\ item = NoItem /\ RowsOfSession(s) = {}
    /\ \E usage \in SessionUsage, funds \in Funds : \E settled \in 0..Len(usage) :
          /\ Len(logs) + Len(usage) <= MaxLogs
          /\ logs' = logs \o RowsOf(usage, s, funds, settled)
    /\ UNCHANGED item

PricingNext == PriceItem \/ \E s \in PricedSessions : LogSession(s)

---------------------------------------------------------------------------

\* Types: amounts are whole and what is charged is part of what was asked for.
PricingTypeOK ==
    /\ item = NoItem \/ item \in PricedItems
    /\ \A k \in DOMAIN logs :
          /\ {logs[k].cost, logs[k].billed, logs[k].requested} \subseteq Nat /\ logs[k].margin \in Int
          /\ logs[k].charged \in 0..logs[k].requested
          /\ logs[k].status \in {"pending", "charged", "partially_charged", "written_off", "skipped"}

\* The names a company goes by: LiveKit's plugins report their own.
Companies == {{"openai", "api.openai.com"}, {"anthropic", "api.anthropic.com"}, {"google", "gemini"},
              {"deepgram"}, {"cartesia"}, {"elevenlabs"}, {"tavily"}, {"newcomer"}}
SameModel(a, b) == a.model = b.model /\ \E c \in Companies : {a.provider, b.provider} \subseteq c

\* However the provider's plugin spells a model, with livekit/ before it or in capitals, the
\* price is the same: no spelling falls back to a guess (get_model_pricing, pricing.py).
SpellingDoesNotMatter ==
    item # NoItem => \A j \in PricedItems :
        SameModel(item.id, j.id) /\ j = [item EXCEPT !.id = j.id] => Charge(item) = Charge(j)

\* The float's noise costs nobody a micro-credit: items that differ in it alone are charged
\* alike, never less than the price and less than a micro-credit more, but for the minimum
\* (usd_to_micro_credits, credits.py).
NoiseIsNotCharged ==
    item # NoItem /\ Charge(item).source \in {"catalog", "fallback"} /\ Charge(item).micro > 1 =>
        LET exact == ProviderCost(item) * MarkupNum
            micro == Charge(item).micro
        IN (micro - 1) * 100 * MarkupDen < exact /\ exact <= micro * 100 * MarkupDen

\* What the provider had cached never makes a prompt dearer (calculate_token_cost,
\* calculate_realtime_cost).
CachingNeverCostsMore ==
    item # NoItem /\ (item.cached <= item.prompt \/ KindOf(item) = "realtime") =>
        ProviderCost(item) <= ProviderCost([item EXCEPT !.cached = 0])

\* Speech and language that were used on our keys are never free, known to the catalogue or
\* not, unless they name a service that is priced by the call; a realtime model whose text
\* turn came without its tokens is (_calculate_fallback_cost).
MeasuredIsNotFree ==
    item # NoItem /\ item.platform < 0 /\ ~item.own /\ item.units > 0
        /\ item.type \in {"llm", "stt", "tts", "realtime"} /\ KindOf(item) # "call"
        /\ ~(item.type = "llm" /\ item.prompt + item.completion = 0 /\ KindOf(item) = "realtime")
        => Charge(item).micro > 0

\* A realtime model's text turn costs the same reported as language, whose units are tokens,
\* as reported as realtime, whose units are minutes (calculate_usage_charge).
TextIsNotMinutes ==
    item # NoItem /\ item.type = "llm" /\ item.prompt + item.completion > 0
        /\ KindOf(item) = "realtime"
        => Charge(item).micro = Charge([item EXCEPT !.type = "realtime", !.textIn = item.prompt,
                !.textOut = item.completion, !.audioIn = 0, !.audioOut = 0]).micro

\* In every line of the report the margin is what was billed less what it cost, to a rounding
\* a row, also where nothing was billed and the report shows the cost as billed
\* (build_reconciliation_report, credits.py).
MarginIsTrue ==
    \A rows \in Groups :
        LET billed == SumOf(LAMBDA l : l.billed, rows)
            off == Line(rows).margin - (billed - Line(rows).cost)
        IN  -Cardinality(rows) <= off /\ off <= Cardinality(rows)

\* A session shown as charged was paid in full (process_usage_report, the session breakdown).
ShownChargedIsPaid ==
    \A s \in PricedSessions :
        RowsOfSession(s) # {} /\ SessionStatus(s) = "charged" =>
            Line(RowsOfSession(s)).charged = Line(RowsOfSession(s)).requested

\* What docs/billing.md says: the row of a balance that fell short is insufficient_credits,
\* so the report counts the settled rows that were not paid in full.
UnpaidIsCounted ==
    LET short == {k \in DOMAIN logs : logs[k].status # "pending" /\ logs[k].charged < logs[k].requested}
    IN  Line(DOMAIN logs).insufficient = Cardinality(short)
=============================================================================

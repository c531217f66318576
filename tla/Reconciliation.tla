--------------------------- MODULE Reconciliation ---------------------------
(***************************************************************************)
(* Provider invoices against the usage ledger: importing what a provider   *)
(* charged (by hand, or page by page from its API) and the admin's         *)
(* reconciliation run, which pages through both tables, compares them and  *)
(* stores its findings.  Every call to the database or to a provider is a  *)
(* step; sessions go on writing usage rows meanwhile.                      *)
(*                                                                         *)
(* Money is in whole millionths of a dollar, the unit _round_usd rounds    *)
(* to.  `created` is the order of the INSERT statements: rows of one       *)
(* statement share it, as rows of one transaction share now().             *)
(***************************************************************************)
EXTENDS Integers, Sequences, FiniteSetsExt

CONSTANTS
    Imports,        \* provider_usage_imports.id, one per import request
    Mode,           \* Imports -> "manual" or "api_pull"
    Provider,       \* Imports -> the provider imported from
    Export,         \* Imports -> what the provider reports, in its order
    PeriodStart,    \* invoice_period_start of the imports
    ZepReports,     \* whether ZEP_USAGE_API_URL is set
    PullSize,       \* results per page of a provider's API
    Runs,           \* provider_reconciliation_runs.id
    Requests,       \* what an admin may ask to be compared
    Earlier,        \* provider_usage_lines of imports completed before
    UsageRows,      \* the rows sessions will write to credit_usage_logs
    BatchSize,      \* _fetch_rows' batch_size
    Cent, Dollar,   \* 0.01 and 1 in the unit of money
    MaxImports,     \* bound: imports, those completed before included
    MaxFailures,    \* bound: calls that raise, answers lost, details refused
    Null            \* NULL

ASSUME ReconciliationAssumption ==
    /\ PullSize \in Nat \ {0} /\ BatchSize \in Nat \ {0} /\ MaxFailures \in Nat
    /\ \A i \in Imports :
          /\ Mode[i] \in {"manual", "api_pull"}
          /\ Len(Export[i]) \in Nat /\ DOMAIN Export[i] = 1..Len(Export[i])
          /\ \A k \in DOMAIN Export[i] : {Export[i][k].raw, Export[i][k].est, Export[i][k].brief}
                                             \subseteq Nat \union {Null}
    /\ IsFiniteSet(Earlier)
    /\ \A l \in Earlier :
          /\ l.import \in Imports /\ l.n \in DOMAIN Export[l.import] /\ l.provider = Provider[l.import]
          /\ l.created \in 1..Cardinality(Earlier) /\ {l.raw, l.est} \subseteq Nat \union {Null}
    /\ \A l, m \in Earlier : l.import = m.import /\ l.n = m.n => l = m
    /\ Len(UsageRows) \in Nat /\ DOMAIN UsageRows = 1..Len(UsageRows)
    /\ \A k \in DOMAIN UsageRows : /\ UsageRows[k].created = k /\ UsageRows[k].cost \in Int
                                    /\ UsageRows[k].billed \in Int \union {Null}

VARIABLES
    imports,    \* Imports -> [status, count]
    lines,      \* provider_usage_lines, a set: what a query returns has no order but its own
    written,       \* credit_usage_logs: how many of UsageRows are written
    runs,       \* Runs -> [status, totals, findings]
    importer,   \* Imports -> the import request being handled
    runner,     \* Runs -> the run being computed
    stamp,      \* how many statements have inserted rows
    failures

reconTables == <<imports, lines, written, runs>>
reconVars   == <<reconTables, importer, runner, stamp, failures>>

NoImporter == [pc |-> "idle", pulled |-> {}, refused |-> {}, offset |-> 0]
NoRunner   == [pc |-> "idle", ask |-> Null, got |-> << >>, own |-> << >>, offset |-> 0,
               read |-> FALSE, report |-> Null, saw |-> {}, owed |-> {}, since |-> 0, till |-> 0]

At(actor, a, from, to) == actor[a].pc = from /\ actor' = [actor EXCEPT ![a].pc = to]

\* The handler's local variables are gone
Leave(i, pc) == importer' = [importer EXCEPT ![i] = [NoImporter EXCEPT !.pc = pc]]
Abort(r, pc) == runner' = [runner EXCEPT ![r] = [NoRunner EXCEPT !.pc = pc]]

-----------------------------------------------------------------------------
(* Importing                                                                *)

\* _provider_cost: the invoiced cost, else the estimate, else nothing
ProviderCost(line) ==
    IF line.raw # Null THEN line.raw ELSE IF line.est # Null THEN line.est ELSE 0

NewImport(i) == imports' = [imports EXCEPT ![i].status = "pending"]

\* create_provider_usage_import; a manual request has normalised its lines first.  The
\* insert is made before the try: when it raises, or answers with no row, nobody has the
\* id of the row it may have left
CreateImport(i) ==
    /\ importer[i].pc = "idle"
    /\ Cardinality({j \in Imports : importer[j].pc # "idle"}) < MaxImports
    /\ \/ /\ NewImport(i)
          /\ importer' = [importer EXCEPT ![i] =
                IF Mode[i] = "manual"
                THEN [NoImporter EXCEPT !.pc = "insert", !.pulled = DOMAIN Export[i]]
                ELSE [NoImporter EXCEPT !.pc = "pull"]]
          /\ UNCHANGED failures
       \/ /\ failures < MaxFailures /\ failures' = failures + 1
          /\ Leave(i, "lost")
          /\ NewImport(i) \/ UNCHANGED imports
    /\ UNCHANGED <<lines, written, runs, runner, stamp>>

\* What one request to the provider's API returns, by its place in the export.  Tavily
\* and Zep answer at once.
Answered(i) ==
    IF Provider[i] \in {"openai", "livekit"}
    THEN (importer[i].offset + 1)..Min({importer[i].offset + PullSize, Len(Export[i])})
    ELSE IF Provider[i] = "zep" /\ ~ZepReports THEN {} ELSE DOMAIN Export[i]

Kept(i) == {k \in Answered(i) : Export[i][k].counts}

\* OpenAI says whether there is more; LiveKit's pages end with one that is not full
LastPage(i) ==
    CASE Provider[i] = "openai"  -> importer[i].offset + PullSize >= Len(Export[i])
      [] Provider[i] = "livekit" -> Cardinality(Answered(i)) < PullSize
      [] OTHER                   -> TRUE

\* One page of _pull_openai_costs, _pull_tavily_usage, _pull_livekit_usage or
\* _pull_zep_usage; results without an amount, and services not used, are skipped
PullPage(i) ==
    /\ importer[i].pc = "pull"
    /\ importer' = [importer EXCEPT
          ![i].pulled = @ \union Kept(i),
          ![i].offset = @ + PullSize,
          ![i].pc = IF ~LastPage(i) THEN "pull"
                    ELSE IF Provider[i] = "livekit" THEN "details" ELSE "insert"]
    /\ UNCHANGED <<reconTables, runner, stamp, failures>>

\* The detail of every LiveKit session: one that is refused leaves the session's
\* own totals, which have the bandwidth but not the minutes
PullDetails(i) ==
    /\ importer[i].pc = "details"
    /\ \E refused \in SUBSET importer[i].pulled :
          /\ failures + Cardinality(refused) <= MaxFailures
          /\ failures' = failures + Cardinality(refused)
          /\ importer' = [importer EXCEPT ![i].pc = "insert", ![i].refused = refused]
    /\ UNCHANGED <<reconTables, runner, stamp>>

\* _normalize_zep_usage_payload: a Zep line without a time is of the period's start
Normalized(i, at) == IF Mode[i] = "api_pull" /\ Provider[i] = "zep" /\ at = Null THEN PeriodStart ELSE at

\* _serialize_line, for the line at place k of the export
LineRow(i, k) ==
    LET x == Export[i][k]
    IN  [import |-> i, n |-> k, provider |-> Provider[i], created |-> stamp + 1, raw |-> x.raw,
         est |-> IF k \in importer[i].refused THEN x.brief ELSE x.est,
         session |-> x.session, ref |-> x.ref, at |-> Normalized(i, x.at)]

LineRows(i) == {LineRow(i, k) : k \in importer[i].pulled}

WriteLines(i) ==
    /\ lines' = lines \union LineRows(i)
    /\ stamp' = IF importer[i].pulled = {} THEN stamp ELSE stamp + 1

\* insert_provider_usage_lines: one statement for all the lines, none for no lines
InsertLines(i) ==
    /\ At(importer, i, "insert", "finish")
    /\ WriteLines(i)
    /\ UNCHANGED <<imports, written, runs, runner, failures>>

\* finalize_provider_usage_import: an empty pull is only partial when it is Zep's
ImportOutcome(i) ==
    IF Mode[i] = "manual" \/ importer[i].pulled # {} \/ Provider[i] # "zep"
    THEN "completed" ELSE "partial"

RecordImport(i) ==
    imports' = [imports EXCEPT ![i] = [status |-> ImportOutcome(i),
                                       count |-> Cardinality(importer[i].pulled)]]

FinishImport(i) ==
    /\ importer[i].pc = "finish"
    /\ Leave(i, "done")
    /\ RecordImport(i)
    /\ UNCHANGED <<lines, written, runs, runner, stamp, failures>>

\* A call raises, whether or not it took effect
ImportFails(i) ==
    /\ failures < MaxFailures
    /\ failures' = failures + 1
    /\ importer[i].pc \in {"pull", "insert", "finish"}
    /\ Leave(i, "failed")
    /\ \/ UNCHANGED <<imports, lines, stamp>>
       \/ importer[i].pc = "insert" /\ WriteLines(i) /\ UNCHANGED imports
       \/ importer[i].pc = "finish" /\ RecordImport(i) /\ UNCHANGED <<lines, stamp>>
    /\ UNCHANGED <<written, runs, runner>>

\* except Exception: the import is marked failed, unless that raises as well
MarkImportFailed(i) ==
    /\ At(importer, i, "failed", "done")
    /\ \/ imports' = [imports EXCEPT ![i] = [status |-> "failed", count |-> 0]] /\ UNCHANGED failures
       \/ failures < MaxFailures /\ failures' = failures + 1 /\ UNCHANGED imports
    /\ UNCHANGED <<lines, written, runs, runner, stamp>>

ImportStep(i) ==
    \/ CreateImport(i) \/ PullPage(i) \/ PullDetails(i) \/ InsertLines(i)
    \/ FinishImport(i) \/ ImportFails(i) \/ MarkImportFailed(i)

\* A session's usage is logged (UsageSettlement!LogItem)
LogUsage ==
    /\ written < Len(UsageRows)
    /\ written' = written + 1
    /\ stamp' = stamp + 1
    /\ UNCHANGED <<imports, lines, runs, importer, runner, failures>>

-----------------------------------------------------------------------------
(* Fetching both tables                                                     *)

\* The query's own filters on provider_usage_lines
AskedLines(ask) ==
    {l \in lines : /\ ask.providers # {} => l.provider \in ask.providers
                   /\ ask.imports # {} => l.import \in ask.imports}

\* The query's own filters on credit_usage_logs
AskedLogs(ask) ==
    {x \in {UsageRows[k] : k \in 1..written} : /\ ask.from # Null => x.at >= ask.from
                                               /\ ask.to # Null => x.at <= ask.to}

Newer(rows, row)    == {x \in rows : x.created > row.created}
NotOlder(rows, row) == {x \in rows : x.created >= row.created}

\* Rows by their place in ORDER BY created_at DESC: the rows of one statement come in
\* any order there, and in another one for the next page
ByPlace(rows, places) ==
    {page \in [places -> rows] :
        \A k \in places :
            /\ Cardinality(Newer(rows, page[k])) < k /\ k <= Cardinality(NotOlder(rows, page[k]))
            /\ \A j \in places : page[j] = page[k] => j = k}

\* mutant: the range starts at one
PagesFromOne(rows, offset) ==
    ByPlace(rows, (offset + 2)..Min({offset + 1 + BatchSize, Cardinality(rows)}))

\* .range(offset, offset + batch_size - 1)
Pages(rows, offset) ==
    ByPlace(rows, (offset + 1)..Min({offset + BatchSize, Cardinality(rows)}))

Full(batch) == Cardinality(DOMAIN batch) = BatchSize

\* rows.extend(batch): what was fetched before stays, also when it comes again
Extend(rows, batch) ==
    [k \in DOMAIN rows \union DOMAIN batch |-> IF k \in DOMAIN rows THEN rows[k] ELSE batch[k]]

\* _filter_period_rows: a line without a time belongs to every period
InPeriod(row, ask) ==
    row.at # Null => (ask.from # Null => row.at >= ask.from) /\ (ask.to # Null => row.at <= ask.to)

NewRun(r) == runs' = [runs EXCEPT ![r].status = "pending"]

\* create_reconciliation_run, whose insert is before the try as well.  `saw`, `owed`,
\* `since` and `till` are history: the rows asked for, as they are now, and how many
\* statements came before and during the fetch
CreateRun(r) ==
    /\ runner[r].pc = "idle"
    /\ \/ /\ \E ask \in Requests :
                runner' = [runner EXCEPT ![r] = [NoRunner EXCEPT !.pc = "lines", !.ask = ask,
                              !.saw = AskedLines(ask), !.owed = AskedLogs(ask), !.since = stamp]]
          /\ NewRun(r)
          /\ UNCHANGED failures
       \/ /\ failures < MaxFailures /\ failures' = failures + 1
          /\ Abort(r, "lost")
          /\ NewRun(r) \/ UNCHANGED runs
    /\ UNCHANGED <<imports, lines, written, importer, stamp>>

\* One round of _fetch_rows over provider_usage_lines
FetchLines(r) ==
    /\ runner[r].pc = "lines"
    /\ \E batch \in Pages(AskedLines(runner[r].ask), runner[r].offset) :
          LET all == Extend(runner[r].got, batch)
          IN runner' = [runner EXCEPT
                ![r].got = IF Full(batch) THEN all
                           ELSE Restrict(all, {k \in DOMAIN all : InPeriod(all[k], runner[r].ask)}),
                ![r].offset = IF Full(batch) THEN @ + BatchSize ELSE 0,
                ![r].pc = IF Full(batch) THEN "lines" ELSE "logs"]
    /\ UNCHANGED <<reconTables, importer, stamp, failures>>

-----------------------------------------------------------------------------
(* Comparing                                                                *)

\* `rows` is what was fetched, by its place
Total(rows, Cost(_)) == SumFunctionOnSet([k \in DOMAIN rows |-> Cost(rows[k])], DOMAIN rows)
OfProvider(rows, p)  == Restrict(rows, {k \in DOMAIN rows : rows[k].provider = p})
InternalCost(row)    == row.cost
\* `billed_cost_usd or provider_cost`: zero counts as not recorded
BilledCost(row)      == IF row.billed \in {Null, 0} THEN row.cost ELSE row.billed

\* One row of provider_summary
ComparedFor(p, got, own) ==
    LET imported == Total(OfProvider(got, p), ProviderCost)
        internal == Total(OfProvider(own, p), InternalCost)
        billed   == Total(OfProvider(own, p), BilledCost)
    IN [imported |-> imported, internal |-> internal, billed |-> billed,
        delta |-> internal - imported, margin |-> billed - imported]

Compared(got, own) ==
    [p \in {x.provider : x \in Range(got) \union Range(own)} |-> ComparedFor(p, got, own)]

Finding(type, severity, provider, about) ==
    [type |-> type, severity |-> severity, provider |-> provider, about |-> about]

\* Findings of _summarize_internal_rows
RowFindings(own) ==
    {Finding("fallback_pricing", "warning", x.provider, x.session) :
        x \in {y \in Range(own) : y.source = "fallback"}}
    \union {Finding("zero_provider_cost", "warning", x.provider, x.session) :
        x \in {y \in Range(own) : y.cost <= 0}}

Abs(x) == IF x < 0 THEN -x ELSE x

DeltaFindings(compared) ==
    {Finding("provider_cost_delta",
             IF Abs(compared[p].delta) < Dollar THEN "warning" ELSE "critical", p, Null) :
        p \in {q \in DOMAIN compared : Abs(compared[q].delta) >= Cent}}

Candidates(line) == {line.session, line.ref} \ {Null}
Known(own)       == {x.session : x \in Range(own)}
SessionBilled(own, s) == Total(Restrict(own, {k \in DOMAIN own : own[k].session = s}), BilledCost)

\* mutant: the comparison is the wrong way round
LineFindingSwapped(line, own, match) ==
    IF Candidates(line) # {} /\ match = Null
    THEN {Finding("unmatched_provider_line", "warning", line.provider, Candidates(line))}
    ELSE IF match # Null /\ ProviderCost(line) < SessionBilled(own, match)
    THEN {Finding("negative_margin_session", "critical", line.provider, match)}
    ELSE {}

\* A line that names no session we know, or one we billed less for than it cost.  When
\* its session and its reference both are known, `match` is either: a Python set of
\* strings has no order
LineFinding(line, own, match) ==
    IF Candidates(line) # {} /\ match = Null
    THEN {Finding("unmatched_provider_line", "warning", line.provider, Candidates(line))}
    ELSE IF match # Null /\ SessionBilled(own, match) < ProviderCost(line)
    THEN {Finding("negative_margin_session", "critical", line.provider, match)}
    ELSE {}

Matches(line, own) == Candidates(line) \intersect Known(own)
Ambiguous(got, own) == {l \in Range(got) : Cardinality(Matches(l, own)) = 2}

\* `byRef`: the ambiguous lines whose reference comes first
MatchOf(line, own, byRef) ==
    IF Matches(line, own) = {} THEN Null
    ELSE IF Cardinality(Matches(line, own)) = 1 THEN CHOOSE s \in Matches(line, own) : TRUE
    ELSE IF line \in byRef THEN line.ref ELSE line.session

Report(got, own, byRef) ==
    LET compared == Compared(got, own)
    IN [totals   |-> compared,
        findings |-> RowFindings(own) \union DeltaFindings(compared)
                     \union UNION {LineFinding(l, own, MatchOf(l, own, byRef)) : l \in Range(got)}]

\* One round of _fetch_rows over credit_usage_logs; the last one goes straight on to
\* the comparison, which makes no call
FetchLogs(r) ==
    /\ runner[r].pc = "logs"
    /\ \E batch \in Pages(AskedLogs(runner[r].ask), runner[r].offset) :
          LET all == Extend(runner[r].own, batch)
              own == Restrict(all, {k \in DOMAIN all : runner[r].ask.providers # {}
                                                   => all[k].provider \in runner[r].ask.providers})
          IN IF Full(batch)
             THEN runner' = [runner EXCEPT ![r].own = all, ![r].offset = @ + BatchSize]
             ELSE \E byRef \in SUBSET Ambiguous(runner[r].got, own) :
                    runner' = [runner EXCEPT ![r].own = own, ![r].pc = "clear",
                                  ![r].read = TRUE, ![r].till = stamp,
                                  ![r].report = Report(runner[r].got, own, byRef)]
    /\ UNCHANGED <<reconTables, importer, stamp, failures>>

-----------------------------------------------------------------------------
(* Storing the report                                                       *)

\* mutant: the run is completed before its findings are stored
ClearFindingsCompleted(r) ==
    /\ At(runner, r, "clear", "store")
    /\ runs' = [runs EXCEPT ![r] = [status |-> "completed", totals |-> runner[r].report.totals,
                                     findings |-> {}]]
    /\ UNCHANGED <<imports, lines, written, importer, stamp, failures>>

\* replace_reconciliation_findings: delete, then insert
ClearFindings(r) ==
    /\ At(runner, r, "clear", "store")
    /\ runs' = [runs EXCEPT ![r].findings = {}]
    /\ UNCHANGED <<imports, lines, written, importer, stamp, failures>>

WriteFindings(r) == runs' = [runs EXCEPT ![r].findings = runner[r].report.findings]

StoreFindings(r) ==
    /\ At(runner, r, "store", "finish")
    /\ WriteFindings(r)
    /\ UNCHANGED <<imports, lines, written, importer, stamp, failures>>

RecordRun(r) ==
    runs' = [runs EXCEPT ![r].status = "completed", ![r].totals = runner[r].report.totals]

\* finalize_reconciliation_run
FinishRun(r) ==
    /\ At(runner, r, "finish", "done")
    /\ RecordRun(r)
    /\ UNCHANGED <<imports, lines, written, importer, stamp, failures>>

RunFails(r) ==
    /\ failures < MaxFailures
    /\ failures' = failures + 1
    /\ runner[r].pc \in {"lines", "logs", "clear", "store", "finish"}
    /\ runner' = [runner EXCEPT ![r].pc = "failed"]
    /\ \/ UNCHANGED runs
       \/ runner[r].pc = "store" /\ WriteFindings(r)
       \/ runner[r].pc = "finish" /\ RecordRun(r)
    /\ UNCHANGED <<imports, lines, written, importer, stamp>>

\* mutant: the except clause only raises again
MarkRunFailedDropped(r) ==
    /\ At(runner, r, "failed", "done")
    /\ UNCHANGED <<reconTables, importer, stamp, failures>>

MarkRunFailed(r) ==
    /\ runner[r].pc = "failed"
    /\ \/ /\ runs' = [runs EXCEPT ![r].status = "failed", ![r].totals = Null]
          /\ Abort(r, "done")
          /\ UNCHANGED failures
       \/ /\ failures < MaxFailures /\ failures' = failures + 1
          /\ runner' = [runner EXCEPT ![r].pc = "done"]
          /\ UNCHANGED runs
    /\ UNCHANGED <<imports, lines, written, importer, stamp>>

RunStep(r) ==
    \/ CreateRun(r) \/ FetchLines(r) \/ FetchLogs(r) \/ ClearFindings(r) \/ StoreFindings(r)
    \/ FinishRun(r) \/ RunFails(r) \/ MarkRunFailed(r)

-----------------------------------------------------------------------------

ReconciliationInit ==
    /\ imports = [i \in Imports |->
          LET mine == {l \in Earlier : l.import = i}
          IN [status |-> IF mine = {} THEN "none" ELSE "completed", count |-> Cardinality(mine)]]
    /\ lines = Earlier
    /\ written = 0
    /\ runs = [r \in Runs |-> [status |-> "none", totals |-> Null, findings |-> {}]]
    /\ importer = [i \in Imports |-> [NoImporter EXCEPT
                      !.pc = IF \E l \in Earlier : l.import = i THEN "done" ELSE "idle"]]
    /\ runner = [r \in Runs |-> NoRunner]
    /\ stamp = Cardinality(Earlier)
    /\ failures = 0

ReconciliationNext ==
    \/ \E i \in Imports : ImportStep(i)
    \/ \E r \in Runs : RunStep(r)
    \/ LogUsage

ReconciliationSpec == ReconciliationInit /\ [][ReconciliationNext]_reconVars

\* asyncio resumes a request whose call has returned; every one has few steps
ReconciliationFairSpec ==
    /\ ReconciliationSpec
    /\ WF_reconVars(\/ \E i \in Imports : importer[i].pc # "idle" /\ ImportStep(i)
               \/ \E r \in Runs : runner[r].pc # "idle" /\ RunStep(r))

-----------------------------------------------------------------------------
(* Properties                                                               *)

Money(rows, Cost(_)) == SumFunctionOnSet([x \in rows |-> Cost(x)], rows)

\* Type correctness of the tables; a status is one the CHECK constraints allow.
ReconciliationTypeOK ==
    /\ \A i \in Imports :
          /\ imports[i].status \in {"none", "pending", "completed", "failed", "partial"}
          /\ imports[i].count \in 0..Len(Export[i])
    /\ \A l \in lines : /\ l.import \in Imports /\ l.provider = Provider[l.import]
                        /\ l.created \in 1..stamp /\ ProviderCost(l) \in Nat
    /\ written \in 0..Len(UsageRows)
    /\ \A r \in Runs : runs[r].status \in {"none", "pending", "completed", "failed"}
    /\ failures \in 0..MaxFailures

\* The rows asked for have an order of their own: no two were inserted together
Untied(r) == \A a, b \in runner[r].saw : a.created = b.created => a = b
Quiet(r)  == runner[r].since = runner[r].till

SawLines(r) == {l \in runner[r].saw : InPeriod(l, runner[r].ask)}
SawLogs(r)  == {x \in runner[r].owed : runner[r].ask.providers # {}
                                          => x.provider \in runner[r].ask.providers}

\* Paging by offset, newest first, loses no row that was there when the run began,
\* whatever is inserted between two pages.
NothingMissed ==
    \A r \in Runs : runner[r].read /\ Untied(r) =>
        /\ SawLines(r) \subseteq Range(runner[r].got)
        /\ SawLogs(r) \subseteq Range(runner[r].own)

\* An invoice line whose session we billed for less, or never heard of, is a finding.
LossIsFlagged(r) ==
    \A l \in SawLines(r) : \A s \in Candidates(l) :
        LET mine == {x \in SawLogs(r) : x.session = s}
            type == IF mine = {} THEN "unmatched_provider_line" ELSE "negative_margin_session"
        IN Candidates(l) = {s} /\ Money(mine, BilledCost) < ProviderCost(l) =>
             \E f \in runs[r].findings : f.type = type /\ f.provider = l.provider
                                         /\ f.about \in {s, {s}}

\* When nothing is inserted while a run reads, what it stores is the truth: for every
\* provider the invoiced, internal and billed sums of the tables, and a finding for
\* every line that was a loss.
QuietReportIsTrue ==
    \A r \in Runs : runs[r].status = "completed" /\ Untied(r) /\ Quiet(r) =>
        /\ DOMAIN runs[r].totals = {x.provider : x \in SawLines(r) \union SawLogs(r)}
        /\ \A p \in DOMAIN runs[r].totals :
              LET got == {l \in SawLines(r) : l.provider = p}
                  own == {x \in SawLogs(r) : x.provider = p}
              IN /\ runs[r].totals[p].imported = Money(got, ProviderCost)
                 /\ runs[r].totals[p].internal = Money(own, InternalCost)
                 /\ runs[r].totals[p].margin = Money(own, BilledCost) - Money(got, ProviderCost)
        /\ LossIsFlagged(r)

\* What says it is complete is whole, whatever failed on the way: a completed import has
\* all its lines in the table and a completed run the findings its totals came with.
CompletedIsWhole ==
    /\ ReconciliationTypeOK
    /\ \A i \in Imports : imports[i].status = "completed" =>
          imports[i].count = Cardinality({l \in lines : l.import = i})
    /\ \A r \in Runs : runs[r].status = "completed" =>
          /\ runs[r].findings = runner[r].report.findings
          /\ runs[r].totals = runner[r].report.totals

\* An import or a run whose handler was told its id does not stay pending for ever because
\* of one failing call: the handler marks it failed.  A second failure, of that very
\* update, leaves it pending; so does a failure of the insert itself that took effect,
\* which comes before the try, and the row is then nobody's.
CreatedIsClosed ==
    /\ \A i \in Imports :
          (imports[i].status = "pending" /\ importer[i].pc # "lost")
              ~> (imports[i].status # "pending" \/ failures > 1)
    /\ \A r \in Runs :
          (runs[r].status = "pending" /\ runner[r].pc # "lost")
              ~> (runs[r].status # "pending" \/ failures > 1)

=============================================================================

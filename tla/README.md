# Trino Insights MCP: a TLA+ model

This directory is a formal model of the server in this repository: an MCP server
that fetches the QueryInfo of a Trino query from the coordinator, keeps it for a
while, and answers two tools from it: `analyze_query` (facts and findings) and
`get_query_sql` (the SQL, cut to a window, with the literals of a prepared
statement put back in). The modules are translated from the Go source; TLC checks
them on small instances and TLAPS proves the central ones for all instances.

## 1. Inventory

| Component | Source | State it keeps | Operations |
|---|---|---|---|
| QueryInfo cache | `pkg/queryinfo/cache.go` | a map from query IDs to answers with an expiry, a mutex | Fetch: look up, fetch, evict, store |
| REST fetcher | `pkg/queryinfo/fetch.go` | none | one GET; 404 is an error of its own |
| REST client, authentication | `pkg/rest` | base URL, credentials | request, status classes, decoding |
| QueryInfo types, units | `pkg/queryinfo/types.go`, `parse.go` | none | decoding, parsing of durations and sizes |
| Projection | `pkg/queryinfo/facts.go`, `io_wait.go`, `scan_pushdown.go` | none (a pure function) | `Project` |
| Rule engine and rules | `pkg/diagnose` | a list of rules | `Run`, the order of findings, 19 rules |
| `analyze_query` | `pkg/trino.go/analyze_query.go` | none between calls | fetch, project, diagnose, sort, answer |
| `get_query_sql` | `pkg/trino.go/get_query_sql.go`, `plans.go` | none between calls | fetch, choose a text, cut, substitute |
| Prepared statements | `pkg/trino.go/prepared_sql.go` | scanner positions and buffers | locate USING, split literals, substitute |
| Tool inventory | `pkg/inventory` | the operator's selection, the resulting tools | `Build`, `RegisterAll` |
| Configuration | `pkg/config` | settings | `WithDefaults`, `Validate` |
| Server life cycle | `internal/timcp/server.go`, `cmd/main.go` | context, goroutine, result channel | build, serve, stop |
| Texts | `pkg/translations`, `toolset_instructions.go` | overrides read once from the environment | lookup |

How they interact. `main` reads flags into a `Config`; `buildServer` completes and
validates it, makes the client, wraps the REST fetcher in the cache (unless the
lifetime is 0), builds the inventory and registers its tools. Every tool call runs
in a goroutine of the MCP library and calls `Fetch` of the one shared cache, the
only mutable state that calls share. What it returns, a pointer to a QueryInfo, is
read and never written by `Project` and by the SQL tool.

What is hard in it:

* *Concurrency.* The cache reads the clock before it takes the mutex, releases the
  mutex for an HTTP round trip, and evicts and stores with the old reading. Calls for
  the same and for other queries run in between.
* *Staleness.* A query ends while a live answer is cached or under way. The reports
  of a running query's stages arrive one by one, so successive analyses see mixtures.
* *Ordering.* Defaults before validation; exclusions, read-only mode and opt-ins; the
  ranking of findings and of stages, and only then their limits; a signal against
  the end of the session.
* *Boundaries.* The capacity of the cache; one window for two texts, with a third
  one on top; offsets of an
  upper-cased text used in the original; quotes, doubled quotes, comments.
* *Aggregation.* Several operators for one plan node, several scans in one stage,
  fused scans that Trino's own tables do not name, stages listed or nested.

What makes each component correct:

| Component | Properties |
|---|---|
| cache | bounded size; entries die on time; an ended query is not reported as running beyond the live lifetime, and after an agent knows of its end only if fetches of it overlapped; eviction order; calls return; it implements a cacheless fetcher with answers of bounded age |
| requests | the credentials the operator gave go out and no others, under the operator's name or the default one; every request ends, also with a silent coordinator |
| projection | no stage is lost or doubled; rows are credited once; waits are charged once; connectors agree; the list of the longest waits is right; the kind of a wait only becomes more direct |
| rules | a remedy fits the kind of source its table comes from |
| engine, `analyze_query` | worst first; reported skew is skew; what cannot be undone stays reported |
| `get_query_sql` | the two texts within the window, all of the reply below twice the window; tight; neither text starves; literals only in whole texts |
| prepared statements | split at top-level commas; every placeholder replaced in order and nothing else changed, or nothing; shorter than what it was made from; ends; never panics |
| inventory | the filters (exclusions, read-only mode) are final; opt-ins only add; no instructions without a tool |
| server | serves only sound configurations; success is earned; always stops |

## 2. Modules

Each implementation module comes with an `MC...` module that holds its instances.

* **`FetchCache`**: `CachingFetcher.Fetch` under concurrent calls. `clock` is the wall
  clock, `coordinator` what Trino knows of each query, `mu` and `cache` are the
  fields of the same names, `call[c]` holds the program counter and the locals
  (`now`, `qi`, the reply) of each goroutine. One action per step between two points
  at which another goroutine may run: `Begin` (clock reading), `LockForLookup`,
  `Hit` or `Miss` (both release the mutex), `CoordinatorAnswers` or `FetchFails`,
  `LockForStore`, `Store` (eviction, insertion and release together), `Return`. Go's
  map order is the choice in `evictOldestLocked`. The instant a snapshot was taken
  (`at`) is history that no guard reads.
* **`BoundedStaleness`**: the abstract fetcher. No cache, mutex or entry: an answer is an
  error or a snapshot that the coordinator really took and that had not outlived its
  lifetime when the call began. `FetchCache` implements it under the refinement
  mapping `Request` (`lookup` ... `storeLocked` are all "asked").
* **`AgentView`**: `FetchCache` and a history that no guard reads: which queries some
  call has returned a terminal answer for (`settled`), which calls began after that
  (`informed`), and which queries were fetched twice at once (`overlapped`).
* **`SqlTool`**: the `get_query_sql` handler. A text is its length; `Result` follows
  the branches of lines 83-136, `PreparedCut` and `SQLCut` the two truncations.
  A reply has three texts: the SQL, the prepared query, and the SQL with its literals
  (`literals`, `prepared_query_with_literals` in the code). The length of the third is an
  input, `filled`: any length from that of the template to less than both texts
  together, which is what `PreparedSql` shows of it (`ResultIsShort`), or 0 when the
  substitution yields nothing.
* **`PreparedSql`**: `SubstitutePreparedLiterals` byte by byte: an action for every
  branch of every loop, with the index, the builder, the split-off values and the
  copier (`mode`) as state. Bytes are the classes the scanners tell apart.
* **`Projection`**: `Project` as operators over records: operators, stages, connectors,
  scans, tables, roll-ups. Durations are microseconds outside and milliseconds
  inside; ratios are rounded integers (hundredths, millionths). A tree (a plan, nested
  stages) is a function from paths to nodes, walked in preorder, and a sorted list puts
  each element behind as many as come before it: neither needs a recursive operator.
* **`Rules`**: the nineteen rules as predicates with their default thresholds, written
  without division where the code divides floats, and the engine that orders what fires.
  The two rules on texts work on kinds: the form of a table name (`$data@`), and the
  shapes a filter has (`wrap.cast`, `jdbc.coalesce`, or one that no pattern is about).
* **`Analysis`**: composes `Projection` and `Rules`: a coordinator whose stages and totals
  report one by one, and `analyze_query` called at any moment.
* **`Inventory`**: `Build` and `RegisterAll`; the operator edits the selection and
  restarts the server.
* **`Server`**: one life of the process, from the flags to the exit status. A setting that
  is left out is completed as in `WithDefaults`, the name too: without `--user` every
  authenticator has the name `insights`.
* **`Requests`**: extends `Server` with the request of a tool call: `newRequest` (the
  headers `Apply` adds), `CoordinatorResponds` (any status), `BodyArrives` (a QueryInfo,
  `null`, or something unreadable), `TransportFails`, `TimesOut` before or after the
  headers, `AnswerTool`. `Outcome` is what `do` and `RestFetcher.Fetch` make of status and
  body. It runs while the server serves, and dies with the process.
* **`FetchCacheProofs`, `AgentViewProofs`, `RequestsProofs`, `InventoryProofs`,
  `SqlToolProofs`, `PreparedSqlProofs`, `PreparedSqlLexerProofs`, `AnalysisProofs`**: the
  theorems.

Some definitions are followed or preceded by a *faulty variant* (`...Late`, `...Uncut`,
...). No specification uses them. Each is a mistake one could make in that function,
and the property named beside it in `PROJECT.json` is violated when it takes the
place of the original: this is how we know that a property is able to fail.

## 3. Runs

| Run | Instance | What it shows |
|---|---|---|
| `cache_safety` | 2 calls, 2 queries, 1 entry, lifetimes 2 and 1, clock to 3 | capacity, expiry, catching up, and the inductive invariant, over every interleaving |
| `cache_eviction` | 2 calls, 3 queries, 2 entries, clock to 3 | an eviction with a stale clock reading gives up only what it should |
| `cache_promise` | 2 calls, 1 query, clock to 2, no symmetry | refinement of `BoundedStaleness`, every call returns, and only overlapping fetches make an ended query run again |
| `agent_regression` | as above | **violated**: an agent is told that a finished query runs again |
| `sql_windows` | 8 windows around the limits, 6 lengths of each of 4 texts | the cuts add up; where the window is larger than the minimum the two texts fit it and the whole reply stays below twice the window |
| `sql_budget` | same | **violated**: the window, when a prepared query fills the minimum budget |
| `inventory_selection` | 4 tools of 3 toolsets, up to 2 named toolsets | every selection and every edit of it |
| `server_requests` | every setting negative, zero, in range, too large; statuses 200, 298, 299, 304, 404 | startup, credentials, requests, signals and shutdown |
| `server_zero_ttl` | same settings | **violated**: a lifetime of 0 does not disable the cache |
| `prepared_scans` | all lists and all templates of up to 5 bytes | splitting and substitution against a reference lexer that does not scan |
| `prepared_names` | statement names of up to 6 letters | **violated**: an offset past the end of the statement |
| `analysis_polls` | 3 federated joins with up to 4 reports per stage, 362 spreads of CPU time | projection, all rules and repeated analyses |

Why the bounds are enough.

* *Cache.* Every hazard takes two calls that overlap: one that reads the clock or the
  coordinator early and acts late, one that acts in between. A capacity of one with two
  queries makes every store evict; two entries and three queries are needed to ask
  *which* entry goes. A clock of three with lifetimes of two and one lets an entry
  expire before, during and after a round trip. Calls, and queries, are
  interchangeable, so the safety runs use symmetry; the run with temporal
  properties does not. The theorems then hold for any of these constants.
* *SQL window.* All comparisons are between sums of two lengths and a budget. Budgets of
  2 to 6 and lengths from 0 to 8 lie below, at and above each of them.
* *Prepared statements.* Five bytes hold an opened and closed quote with a doubled
  quote inside, a comment of each style with a placeholder behind it, and a delimiter
  around one. Longer texts repeat these.
* *Inventory.* Two toolset IDs are enough for `all` before, after and without another.
  The tools beyond the two of the repository (a writing one, one without handler) are
  what the builder's filters exist for.
* *Requests.* The statuses lie on both sides of every comparison: the class of successes
  with its end at 299, and the one status that is an error of its own. The client shares
  nothing between requests, so one at a time shows all that can happen to one.
* *Analysis.* A catalog named `mongo` holds a MySQL table, so that a guess from the
  name is wrong. `TopStagesLimit` is 2 and `MaxScanDepth` 1 (5 and 20 in the code) so
  that both limits cut something. The spreads put stage and task times around the
  integer average and the factors of three and five. Four stages of 5, 1, 1 and 0 ms make the
  fallback of the skew rule fire on a ratio of 2.9 that the cut average shows as 5, and one
  busy stage among ten on a ratio that is exact; tasks with a ratio of three make the
  other mode fire.

Deadlock is allowed (`CHECK_DEADLOCK FALSE`) where the program stops by design:
`Server` after the exit and `PreparedSql` after its result. In all other runs the
absence of deadlock is checked as well.

The disagreements found.

* `agent_regression`: of two overlapping fetches of one query the older answer may be
  stored last (`cache.go:73` stores whatever it has). A caller is then told for up to
  30s that the query runs, after another was told that it finished; `config.go:29-30`
  says that the agent never sees stale stats. What *does* hold is `EndedQueriesCatchUp`,
  the bound on that time, and `OnlyOverlapsRegress`: without the overlap it cannot happen.
* `sql_budget`: `get_query_sql.go:104` leaves the SQL whole when nothing remains of
  the budget. Above the smallest window `PayloadBounded` is what holds.
* `server_zero_ttl`: `WithDefaults` replaces 0 before anyone tests for it, against
  `cmd/main.go:69` and `config.go:31`.
* `prepared_names`: `prepared_sql.go:77-88` indexes a text with offsets found in its
  upper-cased copy, which may be longer.

Further disagreements have no run of their own. For the first two, a property of a passing
run says what does hold, and the run has the states that show it is not more.

* `get_query_sql.go:112-125` adds the SQL with its literals to two texts that may fill the
  window together, and neither cuts nor counts it. `cmd/main.go:67` calls the window a cap
  on response payload bytes, the tool's description (lines 39-40) speaks of truncation to
  it. `PayloadBounded` bounds a reply by twice the window; with a window of 3, an SQL of 1, a
  prepared query of 2 and 2 bytes with the literal in place, 5 are sent and 3 are counted.
* `stage_skew.go:41-46` compares stages with each other whenever no stage has skewed tasks.
  Its comments (lines 13 and 45) say when all stages have at most one task, and
  `docs/rules.md:82-86` asks for ratios of 5.0 and 10.0, where the code has 3.0 and 5.0
  (lines 23 and 30), and for nine other stages, where it asks for one (line 36). What holds is
  `SkewIsReal`; four stages of 5, 1, 1 and 0 ms, the first with two even tasks, are
  reported.
* A negative literal behind a minus sign becomes a line comment (`x -?` with `-1`), because
  literals are written as they are.

## 4. Fairness

* `FetchCache`: weak fairness of every step a goroutine can take by itself (the Go
  scheduler), and of the end of a round trip (`EveryRequestEnds` shows it for every
  server that serves). Strong fairness of
  taking the mutex, because it may be free and taken again infinitely often; a
  `sync.Mutex` in starvation mode hands itself to the longest waiter. Nothing is
  assumed of the clock, of queries ending, or of agents calling.
* `Server`: weak fairness of startup and of the select, straight-line code of the main
  goroutine. Signals need not come, and `server.Run` need not return.
* `Requests`: in addition, timers fire and handlers run on (`TimesOut`, `AnswerTool`).
  Nothing is assumed of the coordinator, which may stay silent for ever.
* `PreparedSql`: weak fairness of its only goroutine.
* The other modules state safety only and have no fairness.

## 5. Proofs

All theorems hold for every value of the constants under the named assumptions of the
modules (positive capacity and lifetimes, finitely many queries, and the like; TLC
evaluates them in every run).

**Cache** (`FetchCacheProofs`). `EndedQueriesCatchUp` is not inductive: whether a reply is
fresh depends on the entry it came from, which depends on an answer in flight, which
depends on what the coordinator did. `IndInv` therefore says of each of them what may be
relied on:

* `GoodCall`: who holds the mutex and when, and that the locals of a call mean
  something only between the steps that set and use them; an answer in flight is
  *genuine*, and no older than the clock reading of its call; the snapshot of a reply was
  within its lifetime at that reading.
* `EntriesGenuine`, `EntriesDieOnTime`: the same of what is stored. The expiry counts
  from the reading *before* the fetch, which is why the round trip can only shorten an
  entry's life.
* *Genuine* means that some past instant of the coordinator shows what the snapshot
  shows. It is stable (`GenuineStays`) because a terminal state is final.

`Invariance` proves it inductive, one case per action. `TypeCorrectness`,
`EntriesOnTime` and `CatchUp` follow. `Bounded` needs in addition that an eviction leaves
room for one (`RoomForOne`, a cardinality argument), and `EvictionOrder` that the reading
of the evicting call is not in the future. `Refinement` maps every step to a step of
`BoundedStaleness` or a stutter: `Hit` and `Store` to `Serve`, whose
guards are what `IndInv` says of entries and answers, and the steps in between to nothing.

**Agents** (`AgentViewProofs`). `OnlyOverlapsRegress` is about an entry or an answer that is
older than what some agent has already heard. `AgentInv` carries it: once the end of a
query is *held* by the cache or *heard* by an agent, every answer on its way to the cache
shows the end as well, and once it is heard, so does the entry, unless fetches of that
query have overlapped. The step that matters is `Store`: without an overlap the call that
stores is the only one under way. The proof works on `IndInv /\ AgentInv`, takes
`IndInv'` from `FetchCacheProofs`, and has one case per action.

**Requests and server** (`RequestsProofs`). `RequestsKeepOut`: a step of a request is a
stutter of `Server`, so what is proved of one holds in the other. The invariant says, for
each phase of the startup, what has been established by then (`ServesSoundly` is what is
left of it in the last one), where the exit status comes from, and that the authenticator
is the one of the given secrets, with the given name or the default one (`Completed`: from
the second phase on the configuration is the given one with its defaults); of a request under way, that its headers are those the
authenticator adds.

**Inventory** (`InventoryProofs`). `Rebuilt`: what is offered is always `Build` of the
selection in force. `Filters`, `Instructed` and `OptingIn` are then facts about `Build`. They
need that names of tools are unique (`NamesAssumption`) and that a tool that brings
instructions has a handler (`HandlersAssumption`); both hold of `AllTools`.

**SQL window** (`SqlToolProofs`). The state is a function of the inputs (`ReplyInv`), and
`CutBounds` gives the arithmetic of the two cuts, and `LiteralsFit` bounds the substituted
text, which is sent only where the other two are whole and fit. From these:
`PayloadsAreBounded`, `TruncationIsTight`, `NoTextStarves`, `LiteralsAreWhole`, for any
lengths and windows. That the substituted text is shorter than the two it was made from is
`ResultsAreShort` below.

**Prepared statements** (`PreparedSqlProofs`, `PreparedSqlLexerProofs`), for statements and
templates of any length.

* `TypeCorrect`: no index leaves its text and no literal is empty; the invariant adds which
  modes a phase may be in.
* `InOrder`: what is returned is the template with all literals in place of question marks,
  in order. `ScanInv` says that the builder mirrors the part of the template behind the
  index, except for the placeholders at increasing positions that have become literals.
* `ResultsAreShort`: a result has fewer bytes than the template and the list together. The
  size of a list of pieces is the number of its bytes. `SizeInv` carries it through both
  loops: the literals split off, a separator for each, and the bytes in the builder fit what
  has been scanned of the list; what the builder holds of the template is as long as what has
  been scanned, less the placeholders, plus the literals put in their place.
* `SplitsRight` and `SubstitutesRight`: the scanners agree with the reference lexer, which
  knows nothing of a scan: it says of a *position* whether a quote is open there, and of a
  set of positions that it is the set of token starts. `LexInv` carries both. While the
  list is split, the mode tells the parity of the quotes behind the index, the builder holds
  the bytes since the last separator, and the values are the literals that end before it
  (`SplitSoFar`). While the template is scanned, `i` is a start of a token or inside of one,
  as the mode says (`InToken`), `n` counts the placeholders before `i`, and each piece of the
  builder is the byte at its place or the literal of its rank (`ScanSoFar`). The step that
  matters is the one from the end of a token to the next start (`NextStart`).
  The lexer's token starts are defined by a property of sets, so their existence is an
  induction over the text. It is done by a minimal counterexample: the set of lengths up
  to which no such set exists has a least element (`LeastOf`, from `WFMin`), and that
  element is impossible.
* `ScansMoveOn`: each step lowers `StepsLeft`, a natural number, so a call takes at most
  `2 * (Len(statement) + Len(template)) + 5` steps. Bytes that are left count twice, and a
  line comment counts one more, because the copier stops in front of its newline, which is
  read again. The list is never longer than the statement (`AfterUsingIsShorter`). That a
  call does not get stuck before its end is the part of `AlwaysEnds` that needs ENABLED.

**Analysis** (`AnalysisProofs`, about `Analysis`, `Projection` and `Rules`), for queries with
any number of stages, tasks, operators and scans, and plans of any shape.

* *The past.* A reply says nothing of the moment it was made at. `Inv` adds that there was
  such a moment: some state, some number of reports about each stage and about the query,
  none beyond the present ones, of which the reply is what the handler answers
  (`ReplyFromPast`). It is inductive because an analysis records the present and the
  coordinator only goes on (`RepliesAreFromThePast`). Each property of a single reply is then
  one of `Project` and `Run` at an arbitrary moment; `WaitsAdvance`, about two replies, has a
  moment for each and the order between them.
* *Order.* A sorted list, a preorder walk and the operators by pipeline are all `InOrder`
  of a set. If the order is a strict total one, every rank is taken once (`RanksTaken`,
  from the pigeonhole facts of the library), so the list holds each element once and in order
  (`Listing`). `WorstLeads`, `StagesOnce`, `ListsAreHonest` and the median in `TypeCorrect`
  follow from it.
* *Sums.* The sum over a set is a choice followed by the sum over the rest. That it does not
  depend on what is chosen, that it adds up, and that amounts covered one to one are no more
  than what covers them (`SumAdds`, `SumIsCovered`) are inductions over the subsets of a
  set, each by a smallest counterexample (`Smallest`).
* *Roll-up.* `RollUpIsConserved` says of the finished roll-up what `RolledUp` says of each prefix of the
  scans: the records hold what a direct count over that prefix gives, and a pair
  is marked as charged iff some scan of the prefix has it.
* *Connectors.* `ConnectorsAreNamed` follows a scan back to its plan node, and a node to the
  entries of Trino's tables about it or about its table; all of these name one connector.
  `RemediesFit` is a consequence.
* *Rows.* For each scan that has read something there is an operator of its node that does
  work and took in as much; distinct scans have distinct nodes, so no operator
  stands for two (`RowsAreCreditedOnce`).
* *Findings that stay.* `FindingsRemain`: each of the eight rules that fired at the earlier
  moment fires at the later one (`FiresStill`), with the same finding. Three of them
  compare statistics that only grow, two look at what does not change. The three on scans need
  that the scans at both moments are alike, although which operator stands for a scan, and so
  what it has read, may change in between: the order of the stages and the connectors by node and
  by table depend on the plans alone (`StagesInOrder`, `ConnectorsStay`); a scan with a named
  table or a filter is listed from the first answer on (`MarkedTells`), at a place of its own
  (`Located`, `MarkedStays`). A table scanned twice also needs that its *first* scan stays remote
  while scans are added before it, which is so because all scans of a table have one
  connector (`OneTableOneConnector`).
* *Skew.* With an average cut to whole milliseconds, five times it is still two and a half
  times the exact one, because it is at least one millisecond (`SkewsAreReal`).

What the theorems assume of a query (`WorkloadsAssumption`) is what Trino's coordinator
promises: counters are naturals that do not decrease; stage IDs are those of the plan, each
once; a plan is a tree whose nodes have IDs of their own; wherever a table is named, the same
connector is named with it, and an entry about a scan's node is about the table
scanned there; a scan that names its table names the catalog too; operators count rows, and where plumbing carries the ID of a scan's node, an
operator that does work there took in as many. Without the last, a scan may be credited with
rows of an operator that is not among the facts. TLC evaluates all of it for the queries
of the run.

Only model-checked: liveness (`EveryCallReturns`, `EveryRequestEnds`, `AlwaysEnds`,
`AlwaysStops`), which needs fairness and ENABLED; for `AlwaysEnds` the measure is proved.

## 6. Not modelled

* A session that runs `Analysis` on top of `FetchCache`. Nothing is missing between them:
  `Project` is a pure function of one answer; `Analysis` gives it any sequence of answers
  in which counters grow, and `OnlyOverlapsRegress` says when the cache delivers such a
  sequence. After overlapping fetches a finding may be missing from a *later* analysis.
* `PostJSON` and the predicates for statuses 400, 401 and 403, which nothing calls; redirects
  and TLS, which are the library's.
* Wording: titles, details, rationales, plan summaries, the text of the instructions, and
  overrides of descriptions, which are read once from the environment.
* What a regular expression matches. Two oddities of these texts have no property: the
  arithmetic pattern also matches inside a string literal, and the remedy for
  `cardinality` recommends the `element_at` that the next pattern reports.
* The session's properties, dynamic filters and the columns of constraints, which are
  copied into the facts for the agent to read; no rule looks at them.
* The precision of floats. A float product may fall short of a whole millisecond (2.01s
  becomes 2009 ms); the model's durations are exact.
* Table names with capitals, which one of two lookups folds and the other does not.
* UTF-8 boundaries when a text is cut.
* Flag and environment parsing (a library's).

## 7. Plan

The order was: the cache with its abstract specification and proofs; the SQL window; the
inventory and the life cycle; prepared statements; the projection with the rules and
repeated analyses. Then came
the requests, the agent's view of overlapping fetches, the rules on texts, and the proofs
of inventory, server, requests, agents, the reference lexer, the analysis and the measure of
the scanners. What is left: units with a fractional float product, once a property depends
on a millisecond.

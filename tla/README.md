# PipelineMind in TLA+

PipelineMind is a question-answering assistant for a data engineering team. It indexes a
repository of pipelines, answers questions about it with a language model, lets the model
call tools (lineage, SLOs, data quality), and asks a human before a tool that changes
something runs. The repository also holds the warehouse pipelines the assistant talks about.

This directory holds TLA+ modules for the parts of it whose correctness depends on order,
failure or arithmetic at a boundary, the configurations that check them with TLC, and
theorems about all of them that TLAPS proves. Paths below are relative to the
repository's root.

    tlc -workers 2 -config MCAgentLoop.cfg MCAgentLoop      # one check
    tlapm AgentLoopProofs.tla                               # one module's proofs

`PROJECT.json` lists components, runs, theorems, hazards, findings, the source lines each
definition models, and for each property a change of one definition, such as a plausible bug
would make, under which that property fails.

## 1. Inventory

### Components, their state and how they interact

| component (source) | state | operations | talks to |
|---|---|---|---|
| chat page and approval gate (`ui/components/chat_panel.py`, `approval_gate.py`) | `approval_pending` and the messages, per browser session | send a question, Allow, Deny, handle the answer, an error or a timeout | API over HTTP; timeouts of 60 s and 120 s |
| chat router (`api/routers/chat.py`) | none between requests | `POST /chat`, `/chat/stream`, `/chat/approve` | retrieval, agent loop in a thread pool |
| agent loop (`agent/agent_loop.py`) | the conversation of one run | `run`: ask the model, execute tools, recover from refused calls, stop at a gated tool, synthesise | router, tools |
| LLM router (`agent/llm_router.py`) | counters, shared by all threads | `complete` with rotation of two keys | Groq (external); callers bring their retry decorators |
| intent classifier, HyDE (`retrieval/intent_classifier.py`, `hyde.py`) | none | keyword rules, then the model | router |
| hybrid retrieval (`retrieval/`) | the BM25 index loaded at start | dense and sparse lists, fusion, re-ranking, context with redaction and budget | Chroma (external) |
| ingestion (`ingestion/ingest_pipeline.py`) | hash store, Chroma collection, BM25 pickle | discover, chunk, upsert, save index, save hashes | chunkers, summary generator, embedders |
| lineage tools (`agent/tools/lineage_tools.py`) | none (reads the metadata database) | `get_lineage_graph`, `analyze_lineage_impact` | agent loop, two API routes |
| orders pipeline (`data/pipeline_repo/orders_pipeline.py`) | staging, warehouse table, watermark | incremental load, hourly | source database, Airflow |
| users dimension (`data/pipeline_repo/users_pipeline.py`) | SCD type 2 table | close changed rows, insert new ones, daily | source database, Airflow |
| sessions pipeline (`sessions_pipeline.py`) | the appended table `sessions_agg` | take a window of click events, cut it into sessions, append | click events |
| inventory pipeline (`inventory_pipeline.py`) | the appended tables of snapshots and alerts | snapshot with deltas to yesterday's, then alerts, daily | stock, its own snapshots |
| KPI pipeline (`metrics_pipeline.py`) | appended KPI rows and breaches | daily figures of the orders | orders table |
| metadata database and seeder (`db/`) | one DuckDB file | unlink, create, fill, table by table | every tool and several routes open it for one call each, `trigger_dq_check` for writing; started by hand, or by the scripts when the file is missing |
| chunkers (`ingestion/chunkers/`) | none | cut a file and give every piece an id | ingestion; the collection is keyed by these ids |
| enricher, embedders, watcher (`ingestion/`) | a queue in the watcher | chunks to metadata, to vectors; file events | ingestion |
| MCP server (`agent/mcp_server.py`) | none | one tool per request | tools, directly |
| other API routes, middleware, metrics; other UI pages; configuration | counters | read-only queries, rendering | |

### What is hard, and what makes each part correct

*Human approval.* One HTTP request is one run of the agent. A run that meets a gated tool ends
and hands the call to the browser; Allow starts a **new** run with it. Nothing on the server
remembers an approval, the browser gives up before the server does, and an error leaves the
buttons in place. Correct means: no gated call runs without an approval for it, an approval is
shown only for an open call of this session, a call is repeated only by somebody who was not
told its outcome, and what the user is told is true.

*Agent loop.* The provider refuses a conversation in which a tool call has no answer, the
provider may refuse a call the model made (recovered from inside the iteration), and the loop
is bounded by the intent. Correct means: conversations are complete, the number of requests is
bounded, the loop ends, and the gate holds in every position of a message.

*Router.* Key rotation runs inside retry loops, in several threads, over counters without a
lock. Correct means: a caller hears of the rate limit only when every key and attempt is used
up, and the counters err on one side only.

*Ingestion.* Three stores are written one after another by a process that may be killed, over
files that change between being hashed and being read. Correct means: no file is ever taken for
indexed while the collection has something else.

*Retrieval.* Two lists of the same chunks with different information, of which one knows about
personal data. Correct means: fusion respects agreement, the flag survives, the budget holds.

*Pipelines.* Steps are separate transactions, and the source changes while they run. Correct
means: retries neither rewrite nor, where rows are keyed, duplicate; what a failed or repeated
run leaves behind is explained; and every change arrives in the end. The sessions and inventory
loads are keyed by nothing, the first has no watermark, and the second reads two clocks.

*Metadata database.* The seeder removes the file and fills it with autocommitted statements while
tools of two processes open it, one of them for writing. Correct means: no call reads half a
database, the queries of one call agree, and a seeder's success means that the database is there.

*Chunkers.* Ids are positions and names, the collection refuses a batch in which one occurs twice,
and keeps ids that are gone. Correct means: ids are shared in no other than the known cases, adding
text at the end leaves ids alone, and no text is lost between the pieces.

The hazards, each with its line and the properties aimed at it, are in `PROJECT.json`.

## 2. Modules

| module | models | state ↔ code |
|---|---|---|
| `AgentRun` | what one run promises: tools are attempted one by one, a gated one only first and only with its approval, and the run answers, asks or raises | `intent`, `approved`, the executed tools, the result |
| `AgentLoop` | `AgentLoop.run`, one action per exit of the loop's body | `messages` (role and call ids), `iteration`, `made` is `tool_calls_made`, `calls` the rest of the `for tc in` loop; `requests` is history |
| `HumanGate` | what users are promised of a gated call | how often a call ran and was allowed |
| `ApprovalFlow` | chat panel, gate and the two handlers, with the network between | `pending` is `st.session_state["approval_pending"]`, `waiting` the blocked script, `requests` the HTTP requests; `allowed`, `executed`, `unanswered`, `told` are history |
| `LLMRouter` | `complete`, `_call_with_fallback` and the retry decorators of the callers, per thread of the API or in the ingestion | `counts`, `errors`, `hits` are `_call_counts`, `_model_errors`, `_rate_limit_hits`; `read` is the value between the read and the write of an unlocked update |
| `Ingestion` | `IngestionPipeline.run` with `BM25Writer`, `ChromaWriter` and the hash store | `store`/`storeTorn`, `chroma`, `sparse`/`sparseAt` are the three stores; `mem` is `_hashes`, `picked` and `batch` the locals of `run`; `lost`, `edited`, `failed`, `newest`, `reverted` are history |
| `Lineage` | the breadth-first walk and the impact assessment | `visited`, `frontier` and `listed` (how often the list `edges` holds a row) are the locals; one step is one hop, a pair of queries |
| `Retrieval` | `reciprocal_rank_fusion`, the re-ranker, `ContextBuilder.build` | the lists, `text` the length of the context, `redacted` what was redacted in it |
| `UsersDimension` | `UsersDimensionPipeline.run`, one action per query or transaction | `dim` is `dim_users`, `source_df`/`current_df` the two frames, `changed` is history |
| `OrdersSync` | `OrdersPipeline.run`, one action per phase | `source_db` is the shop's table, of which `version` stands for status and amount, the columns that the merge updates besides the times, and `updated` is `updated_at`; staging, target and `last_watermark` |
| `SessionsLoad` | `SessionAggregationPipeline.run`, one action per phase | `clickstream_events`, `sessions_agg`; `watermark` and `extractedAt` are the window's ends, `events_df` and `sessions` the frames; `known`, `reach`, `late` are history |
| `InventoryLoad` | `InventorySnapshotPipeline.run`, one action per query or transaction | `snapshots` and `alerts` are the two tables, `utcDay` and `localDay` the two clocks, `current`, `last_df`, `written` the run's frames, `stampDay` the `snapshot_date` of its rows and `made` its alerts, each with a date of its own; `loads`, `unalerted` and an alert's `turned` are history |
| `MetadataDB` | `db/seeder.py`, and for every reader of the database when it connects, what its queries read and where it ends | `path` is what the file name names, `files` the content of each file there ever was, table by table (nothing, a part, all), and which of the tables of the schema there are; `step`, `phase`, `opened` are the seeders, `call`, `conn`, `answered` the callers; `alone`, `abandoned`, `recut` are history |
| `Chunkers` | how the AST, YAML, Markdown and SQL chunkers cut a file and which id each piece gets | the one variable is the file, which its author extends and edits; places, ids, windows and statements are operators on it |

`AgentLoop` shows what happens inside one request; `ApprovalFlow` takes a request as one step
with the outcomes `AgentRun` allows (answered, asking, raised) and composes sessions, network
and server. `MetadataDB` composes seeders, API threads and other processes over one file. `Chunkers` says
when the distinct ids that `Ingestion` takes for granted are distinct. `MCWarehouse` runs the sessions,
inventory and users pipelines, which share nothing, one per behaviour; the other `MC` modules only give
values to constants. The `...Proofs` modules hold the proofs of the module they are named after;
`WarehouseProofs` those of the four pipelines, `ChunksProofs` those of `Chunkers` and `Retrieval`: of the
chunks as they are cut, and as they are found again.

Abstractions that matter:

- *Messages and results.* A message is a role and ids. A tool that fails has returned, because
  `_execute_tool` turns its exception into a value. Arguments are those that `dict()` and `int()` in
  `_coerce_args` take or refuse with an exception of their own, and those they do not
  (`agent_loop.py:224,230`).
- *Contents.* A file's version stands for its hash. Version `v` has `ChunkCount[v]` chunks and chunk ids
  are positions, so that a shorter version overwrites the head of a longer one. The chunkers' shared ids
  are the subject of `Chunkers`, where an id is the tuple that the code hashes.
- *Time.* Orders carry the moment of their change and a run's start and end are moments, since the loss
  at the watermark depends on their order. The users' dimension has days. Timeouts are a nondeterministic
  choice to give up. Sessions have ticks, which window, timeout and lateness are multiples of; the
  inventory has a UTC and a local day, of which the local one may be ahead or behind (`Zone`: the run has
  a host east of Greenwich, the proofs all three cases).
- *Columns.* An order is its status and amount, since the merge leaves the customer, the product, the
  currency and the address of an existing row as they are (section 5). A source of the context is its
  length with and without the white space around it.
- *DuckDB* is external: what the module takes from it is said in its header (one writer between
  processes, one open file and one mode within a process, a statement is committed when it returns).
- *Scores* of the fusion are exact fractions; those of the cross-encoder are arbitrary.
- *Crash.* `Ingestion` may be killed between any two steps, in the middle of a write too. Each step of
  the pipelines may fail.
- *Threads.* An update of a counter that calls `dict.get` between reading and writing is two steps; `+=
  1` on an attribute without a call is one, as the interpreter does not switch threads inside it.

## 3. Runs

All configurations disable TLC's deadlock check, because every one of these systems stops: a
run ends, the bound on requests, versions, runs or days is reached. Where stopping early would
be wrong, a liveness property says so.

| run | distinct states | what it shows |
|---|---|---|
| `agent_loop` | 70,656 | The gate (`GateHolds`); every call is answered before the model is asked again (`ConversationComplete`); the bound on requests (`RequestsBounded`); `Termination`; and the loop implements `AgentRun` |
| `approval_flow` | 386,461 | Which approval is shown (`GateShowsOpenCall`), how often a call runs (`RepeatsNeedLostAnswers`), what the user is told (`ToldTheTruth`), that errors keep the buttons (`ApprovalKept`), that the server finishes (`RequestServed`), and `HumanGate` |
| `llm_router` | 142,510 | The limit is reported only after all keys and attempts (`LimitedOnlyAfterAll`); unlocked counters never over-report and are exact for one thread (`StatsNeverOverReport`); every call returns (`CallsReturn`) |
| `ingestion` | 3,633,588 | A file that is skipped is in the collection as it is (`FreshAfterRun`), a saved hash means content that was sent (`SavedMeansSent`), the sparse index names only what the collection has (`SparseResolves`) |
| `lineage` | 35,776 | The walked tables are those a reference definition gives (`TablesWithinDepth`), each row is listed once (`EdgesOnce`) |
| `retrieval` | 68,022 | The fusion respects agreement (`FusionAgrees`), flagged chunks are redacted (`FlaggedIsRedacted`), the best sources are used and exceed the budget by their white space at most (`BestSourcesUsed`) |
| `orders_sync` | 88,399 | Of the status and amount of orders only that is lost which follows from the watermark's late advance (`NothingElseLost`); every other change of them arrives (`ChangesArrive`) |
| `metadata_db` | 5,402,771 | What a call reads is a completed database (`ReadsWhole`), a seeder that ended well has left one (`DoneMeansComplete`), baselines are compared with a whole catalogue (`DriftHasCatalogue`) |
| `chunkers` | 44,507 | When two pieces share an id (`SharedIdsExplained`), that text added at the end keeps ids (`AppendKeepsIds`), that short passages are whole in a window (`PassagesWhole`), that no SQL text is lost (`StatementsAgree`) |
| `warehouse` | 9,470,764 | Sessions: no event in time is left out (`EventsCovered`), and inside a window the rows are the true sessions (`SessionsAgree`). Inventory: deltas continue the day before (`DeltasAddUp`), two rows of a day mean two loads (`OneRowPerSku`), alerts name loaded rows, and low rows have one (`AlertsMatchRows`). Users: `OneCurrentRow`, catching up after a failed run (`DimensionCaughtUp`), `HistoryKept` |
| `approval_denied`, `ingestion_sparse` | | the two counterexamples of section 5 |

### Bounds and why they are enough

- `agent_loop`: messages of up to two calls out of three (an ungated tool with arguments that are
  accepted and refused, the gated tool). Two calls is the least in which the gated call follows one that
  ran, or a call is left unanswered behind it. Iterations are the code's own: 0, 2, 3, 5.
- `approval_flow`: two sessions, four requests. A lost answer, a repeated Allow and a Deny take four
  (chat, Allow, Allow or Deny), and two sessions with an open call each take two more of them; no
  property relates three sessions.
- `llm_router`: two threads with one call each. A lost update needs two. Agent calls make four attempts
  with two keys each, and intent calls one; summaries, which repeat for the limit and every APIError, are
  those of the ingestion and follow each other.
- `ingestion`: two files, two versions, three runs, `ChunkCount` decreasing. The three runs are one that
  indexes, one that goes wrong (crash, `--force-reindex`, race with an edit, a failing chunker) and one
  that has to cope. A file may go back to its earlier version. `MayFail` and `Forces` switch chunkers
  that raise and the values of `--force-reindex`. The files are interchangeable, hence the symmetry.
- `lineage`: four tables, nine candidate rows with a cycle, a self-edge and parallel rows; the catalogues
  are all 512 subsets. A shortcut past a chain needs three tables.
- `retrieval`: four chunks (code or not, flagged or not), lists of up to three, fused to three, re-ranked
  to two, sizes and a budget such that one, two or no sources fit. Three of them have white space around
  their text, the flagged code so much that next to another source it fits the budget only without it.
- `warehouse`: one visitor (no property of the sessions relates two) over six ticks with a window of
  three, a timeout and a lateness of one, so that windows overlap, meet and miss each other and a session
  has several events. Two SKUs over three days, so that one may be new while the other is not, and runs
  while the table has fewer than three rows: a day loaded twice and its successor, and a midnight between
  any two of the three readings of the date. Two users with two versions over days 0 to 2, and runs while
  the table has fewer than three rows: a change, a failed run between the two transactions, and a later
  run.
- `orders_sync`: two orders, one without keys, four moments and a lookback of one: an order may be older
  than the lookback, and change between runs or within one. Its status and amount have two values; the
  other columns change as often as they like.
- `metadata_db`: two seeders, started twice in all, and two files. Two are the least in which one
  unlinks, finds or completes what the other works on, and a file may be rewritten while it is read under
  its old name. Two threads of the API share an open file, the third process is kept out by it. `Tools`
  are three of the four calls with more than one query: the fourth, `table_detail`, ends where `dq_check`
  does, which also writes. `Remove` is the operator's `rm -f`.
- `ingestion_sparse`: both files are there from the start and change between the runs only
  (`SparseSpec`), so that the counterexample is not one about races, new files or files that are taken
  back.
- `chunkers`: files of three parts, class bodies of three statements, three tasks with explicit,
  reserved, default and missing ids, sections of up to three windows, lines of up to three tokens. A
  shared id needs a method, a statement before it and a later definition; a line with two semicolons is
  the least that ends two statements.

### What the properties leave out on purpose

- `FreshAfterRun` speaks of files that neither changed nor failed meanwhile, and not of versions whose
  chunking failed while their hash was saved (`lost`): the code does save it
  (`ingest_pipeline.py:150-153,198`), and such a file waits for its next edit. It and `SavedMeansSent`
  exempt files that were taken back to an older content since the last wipe (`reverted`; section 5, known
  limits). `SparseCoversFiles` exempts both.
- `BestSourcesUsed`: the text may exceed the budget by the white space around the sources (`Blank`),
  which `body.strip()` does not count (`context_builder.py:105`) and the text has (`:122-136`). Flagged
  sources that are not code are exempted: their summary is counted and their raw text written
  (`:130-132`).
- `FlaggedIsRedacted` speaks of chunks that the dense list holds; those of the sparse list carry no flag.
- `NothingElseLost` exempts changes that fell between a run's extract and its watermark, and orders older
  than the first lookback (`missed`). It and `ChangesArrive` are about status and amount.
- `ReadsWhole` exempts files that a seeder died on or a check created (`abandoned`): the guard `[[ -f
  data/pipelinemind.db ]]` of the scripts and the health check take them for seeded ones, and calls do
  read them. The exemption ends when another seeder completes the file. `DriftHasCatalogue` exempts files
  that a seeder died on while it wrote them a second time (`recut`).
- `DoneMeansComplete` speaks of seeders next to which no other was started (`alone`); of two at once one
  may fail, or remove what the other completed.
- `EventsCovered` exempts events that arrived after the extract of the last successful run over their
  time (`late`), and reaches as far as windows that meet (`reach`).
- `SessionsAgree` exempts sessions at the edges of a window, which the code cuts: those that begin less
  than a timeout after its start, or end within one of its end.
- `DeltasAddUp` exempts rows whose run met midnight or the hours in which the two clocks differ
  (`crossed`).
- `AlertsMatchRows`: an alert may name a later day than its row only if midnight came between the two
  readings of the date (`turned`), and the low rows of a run that failed before its alerts (`unalerted`)
  may have none.
- `StatementsAgree` compares with the reference only where no line ends two statements: the code leaves
  the second of them uncut, in one chunk with what follows.

What an exemption covers is a hazard in the list or a known limit in section 5.

## 4. Fairness

- `AgentLoop`: weak fairness of `Next`. A run is sequential and each request has a timeout.
- `ApprovalFlow`: each session's client comes back, with the answer or its timeout (`timeout=60` and
  `120`), and the server finishes what it starts, which is `Termination` of `AgentLoop`. Nobody is
  assumed to click or to chat.
- `LLMRouter`: weak fairness of the steps of a thread whose call was begun. A request has a timeout, a
  wait between attempts ends, and nobody is assumed to call.
- `OrdersSync`: the schedule starts runs again (weak fairness of `StartRun`) and every phase that is
  tried again and again succeeds at last (strong fairness of each phase). `ChangesArrive` is the only
  property that needs it; a warehouse that is always down gets no data.
- `Ingestion`, `Lineage`, `Retrieval`, `MetadataDB`, `Chunkers` and the three pipelines of `MCWarehouse`:
  none; their properties are safety properties.

## 5. Findings

1. `approval_denied`. Deny is answered with "No changes were made" (`approval_gate.py:41`), also
   after an Allow whose answer was lost, while the server has executed the call.
2. `ingestion_sparse`. The sparse index is rebuilt from the chunks of one run
   (`ingest_pipeline.py:97-98,110-111`), and an incremental run only chunks what changed, so the
   unchanged files drop out of sparse retrieval. The trace: a run indexes two files, one is edited, and the
   next run leaves an index of the edited one.

Known limits of the code, which the properties above leave room for and no run exhibits:

- A forced run records no hashes (`ingest_pipeline.py:150-151`). If the file then returns to the recorded
  version, the next incremental run skips it and the collection keeps the other version; the same after a
  crash between the upsert and the hashes. Without the exemption `reverted` TLC finds `FreshAfterRun`
  violated; after a wipe the exemption ends.
- "Every downstream model" (`lineage_tools.py:101-104`) is one query of one row's distance (`:120-128`);
  dependents behind another table are missing from an impact report.
- A seeder cut short, or a data quality check of a missing database, leaves a file with which the guard
  of `start_api.sh:7` and `ingest.sh:7` starts no seeder (`abandoned` in `MetadataDB`).
- A method behind a docstring, a field or a decorated method takes the index of a later definition
  (`ast_chunker.py:144`), and a DAG that repeats a task id gives two chunks one id; the collection then
  refuses the whole batch (`SharedIdsExplained` lists the cases).
- The merge of the orders updates status, amount and times of an existing row
  (`orders_pipeline.py:144-150`). A later customer, product, currency or address is extracted (`:76-82`)
  and staged, and never reaches `orders_fact`.
- An alert's `snapshot_date` is read when the alert is made (`inventory_pipeline.py:31,111`), after that
  of the rows (`:92`): around midnight it names a day that has no such row (`turned`).
- A failing statement of the schema is logged and skipped (`seeder.py:51-54`). Nothing catches what
  follows: the seeder ends at the first statement on the missing table, and leaves the file behind.
- The context may be longer than the budget, by the white space around its sources and by the raw text of
  flagged sources that are not code (`context_builder.py:105,122-136`).
- "Split on semicolons, respecting single-line comments" (`sql_chunker.py:97`) holds of lines that begin
  with `--`. A semicolon in a trailing comment or in a string ends a statement, in the code and in the
  reference of `StatementsAgree` alike.
- A flagged chunk that only the sparse list holds carries no flag (`bm25_retriever.py:66-71`) and reaches
  the context unredacted; `FlaggedIsRedacted` speaks of chunks that the dense list holds.
- Sessions runs that start late leave gaps between their windows, in which events are never loaded;
  `EventsCovered` reaches as far as windows that meet (`reach`).
- "Incremental delta detection avoids redundant snapshot rows" (`inventory_pipeline.py:40-41`), but every
  run appends a row for every SKU (`:123-132`).

Other divergences met while reading, for which no run was made:
`src/tests/unit/test_agent_intent_routing.py` expects one iteration for CATALOGUE where the code
has two; the gate shows a 422 as a successful execution (modelled: it settles the approval in
`ApprovalFlow`); `chat.py` increments `CHAT_REQUESTS_TOTAL` without importing it, inside a `try` that
swallows the error; `pipeline_filter` (`docs/API_REFERENCE.md:40`) narrows the dense list only and
not the sparse one; and `trigger_dq_check` runs without the gate over MCP and `POST /dq/trigger`.

## 6. Proofs

Three sources of certainty are kept apart. TLC explores every state of the instances above. The
theorems hold for every value of the constants. Neither says more than the model does.

Every invariant and action property of the passing runs, and the safety part of every refinement, is stated
by a theorem.

`AgentLoopProofs` proves `TypeOK`, `GateHolds`, `RequestsBounded` and `ConversationComplete`, for any set
of tool calls and any number of calls in a message, from `CallsAssumption` and `BoundAssumption`. The
invariants are not inductive by themselves. The gate's needs that an approved call enters `made` only in
the first step and that no call behind a gated one is handled; the requests' bound needs the relation
between `requests`, `iteration` and the place in the loop (`RequestsInv`), because the recovery from a
refused call makes a second request within an iteration. `ConversationInv` says which message is half
answered while the `for tc in` loop runs (`Half`: its first calls are answered, the rest are `calls`) and
that all others are answered whole. `RunImplemented` maps every step to one of `AgentRun` or to none,
with `RunInv`: an approved call is there only with the intent ACTION, and in `made` from the first step
on.

`ApprovalFlowProofs` proves all safety properties of `ApprovalFlow`, for any sessions and requests.
`RequestsInv` says how far a request of each kind can be and how it was answered, `WaitingInv` whom a
session waits for, and `OpenInv` that the answer that asked for a call is waited for no more once the
call is shown. `LedgerInv` and `SpentInv` are the core: every Allow click is waited for, acknowledged or
counted as unanswered, and executions and Allow requests still on their way are together no more than the
clicks. `RepeatsNeedLostAnswers`, `ToldTheTruth` and the refinement of `HumanGate` follow from these two.

`IngestionProofs` proves `TypeOK`, `SparseResolves`, `NeverBothTorn`, `SavedMeansSent` and
`FreshAfterRun`, for any files, versions and numbers of runs. `IInv` adds `BatchInv` (a file still to be
chunked is not in the batch yet, so that a batch holds one version of a file), `SparseInv` (once the
upsert is done, the collection has an entry for every chunk of the batch that the index is about to
hold), and `TornInv` (the store is written only when the index is whole, and no run gets past a torn
store). They follow the order of the writes in `IngestionPipeline.run`, which the mutants change.
`CollectionInv` relates the hashes in memory to the batch: where they differ from those on disk the file
is picked, read or failed before the upsert (`MemInv`), and sent after it; and a file that nobody edited
is, from its discovery on, somewhere on this path or known as it is (`FreshInv`). `Newer` orders what the
stores have of a file against the newest version there was.

`LineageProofs` proves `TypeOK`, `EdgesOnce`, `TablesWithinDepth` and `MoreColumnsMoreRisk` for any
finite catalogue. The walk's invariant says that the list holds exactly the rows that touch a visited
table, each once, and that nothing is visited before the walk begins; `WalkInv` that visited tables and
frontier are what the reference has within as many hops, and that every neighbour of a visited table is
among them, so that a walk that ends early has found everything; monotony is a lemma about cardinalities
of subsets (`FS_Subset`) and the thresholds of the score.

`LLMRouterProofs` proves `TypeOK`, `LimitedOnlyAfterAll` and `StatsNeverOverReport` for any number of
threads and calls. `LimitInv` counts the requests and the limits among them against the attempts that are
over; `CountInv` and `SoloInv` say what the value between an unlocked read and its write is worth, with
other threads and without.

`MetadataDBProofs` proves `TypeOK`, `ReadsWhole`, `DoneMeansComplete`, `DriftHasCatalogue` and, which no
run checks, `OneContentPerCall`, for any seeders, threads, files and calls. `Exclusive` is what the file
lock gives: a file being written is open nowhere else. `Seeded` and `BaselinesLast` follow a seeder's
phases, `MissingIsEmpty` says that nothing can be in a table that a part of the schema lacks (so that a
seeder that skipped a statement never comes to its end), `Accounted` says that every file is whole, being
written, or abandoned, and `Undisturbed` what a seeder that is alone can rely on.

`ChunksProofs` proves, of the chunkers, for files, bodies, sections and DAGs of any length:
`FilesTypeOK`; `SharedIdsExplained` from lemmas about the number of places before a definition;
`PassagesWhole` by exhibiting the window; `AppendKeepsIds`, since what is before a place is the same in
the longer file; and `StatementsAgree` from a lemma on the pieces after each line (`RightUpTo`: every
piece holds the texts of one statement number, and all of them). Of the retrieval, for any lists, scores
and sizes, with `QueryInv`: `FusionAgrees` (the score of a chunk that no list ranks lower is no lower,
and an arrangement by a strict order has exactly one place for each entry), `FlaggedIsRedacted` (a chunk
of the dense list is represented by its dense copy) and `BestSourcesUsed` (re-ranking leaves a sorted
list, so that the useful entries are a prefix of it; what the text has above the counted length is,
source by source, white space).

`WarehouseProofs` proves, of the sessions, `EventsCovered` (a frame is exactly the known events of its
window, and cutting covers each of them) and `SessionsAgree` (two events have the same session number
exactly if no gap lies between them, from which every group is a run of events, `IsRun`); of the users,
`OneCurrentRow`, `DimensionCaughtUp` and `HistoryKept` (between a run's steps its frame is about the
dimension as it is, and whoever needs a row has no current one when rows are inserted); of the inventory,
`AlertsMatchRows`, `DeltasAddUp` and `OneRowPerSku` (`StockInv`: no row is of a day to come, and what a
run holds as the last snapshot is all of the day it read; alerts that are made and not loaded yet name
rows that are loaded); of the orders, `NothingElseLost`, for any orders, lookback and bounds
(`ExtractInv`: an order which the frame does not show as it is was changed after the extract or not since
the watermark; `KeptInv` is the property in the middle of a run too, which a failure needs); and the four
type invariants.

`MoreColumnsMoreRisk`, `NeverBothTorn`, `OneContentPerCall` and the type invariants other than that of
`ApprovalFlow` are proved and in no run. `RunImplemented` is about `AgentRun!Safety`, its specification
without fairness.

What recursive functions compute (the pieces of a SQL file after each line, the tables within a depth, the
sum of sizes) is proved for every input without an induction theorem, which would take an operator as a
parameter: of the arguments at which the claim fails the least is taken (`LeastOf`, from `WFMin`
on the natural numbers), and the equation of the function contradicts it. No module uses a RECURSIVE operator.

Only model-checked: liveness, which is out of the prover's reach: `Termination` and with it the fairness
in `ImplementsAgentRun`, `RequestServed`, `CallsReturn` and `ChangesArrive`. And the two findings, which
are counterexamples.

## 7. Not modelled

- *KPI pipeline.* It reads with `Engine.execute` (`metrics_pipeline.py:73,88,104,117`), which SQLAlchemy 2.0,
  required by `pyproject.toml:22`, no longer has: a run raises at its first query. There is no
  behaviour to explore until that is mended; then its two writes (`:147`) are the `LoadSnapshot` and
  `LoadAlerts` of `InventoryLoad` again.
- *Parts of the chunkers.* The regular expressions that stand in for tree-sitter, dbt manifests, and
  what a chunk carries besides its text and its id.
- *What the tools compute of their rows* (rates, scores, drift as differences of two dictionaries), the
  dispatch of the MCP server and the validators: functions of their arguments with unit tests.
- *Enricher, embedders.* Text to data, without state.
- *Watcher.* Its queue has no consumer in the repository.
- *API wiring, middleware, metrics, UI pages, evaluation, containers.* I/O, rendering, constants.

## 8. Plan

Done, in this order: agent loop and its abstract specification; approval flow over it; ingestion;
router; lineage; retrieval; users dimension and orders; the metadata database; the chunkers;
sessions and inventory; the proofs, in the order of section 6.

Every safety property is proved by now. What is left: sharper statements of what the exemptions of
section 3 mean (that a file taken back is fresh again after the next run that picks it up; that a row of
a run that met midnight is the only one without a predecessor), lemmas that the liveness properties rest
on as far as they are safety (the number of steps a router call, an approval or an agent run can still
take decreases with each), and shorter proofs where a lemma serves two theorems.

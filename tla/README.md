# A verification project for the agent factory

TLA+ models of the parts of `src/factory/` whose correctness depends on the
order in which things happen: TLC checks them on small instances, and the TLA+
proof system proves the results that matter most for every value of the
constants. Each definition that models code is listed in `PROJECT.json` under
`map`, with the lines it stands for.

Run from this directory:

    tlc -workers 4 -config MCBudget.cfg MCBudget      # any run of PROJECT.json
    tlapm BudgetProof.tla                             # any proof module

## 1. The system

The factory runs research cycles. In a cycle, hypotheses are drawn from the
literature and a strategy archive, simulators are chosen from a catalog,
generator and verifier agents and a council of language models judge what comes
out, and the result is written to an evidence ledger. Every call to a language
model is rate limited and paid for from a budget; everything that happens is
emitted to an audit log. The program is one Python process per cycle, with
threads (council, clients), coroutines (strategy archive, task groups), a second
process that tails the logs, and an operator who works through a command line.
State outlives the process in JSON files and SQLite databases.

### 1.1 The inventory

| Component (source) | State | Operations | What is hard | What makes it correct |
|---|---|---|---|---|
| Budget governor (`budget/`) | totals of program, day, hypotheses; caps; halt flag; reservations; `state.json`, `ledger.jsonl`, the halt sentinel | `open_hypothesis`, `check_and_deduct`, `record`, `commit`, `cancel`, `record_iteration`, `set_cap`, `halt_program`, `remaining`, `close_hypothesis` | a crash or an I/O error between two of the writes of one method; `halt_program` takes no lock; threads that are checked before either has recorded; the change of the day | what was recorded stays recorded; a halt holds until it is cleared; overspending is bounded; tiers agree |
| Rate limiter (`llm_client/limiter.py`) | tokens, time of last refill | `acquire`, `try_acquire`, `tokens` | threads sleep outside the lock and overtake one another | the rate is kept over every interval; nobody waits for ever |
| OpenRouter client (`llm_client/api.py`) | the attempt a call is at | `invoke` | retries with delays beside the limiter | draws one token a call; delays are kept; each call returns |
| Council (`council/deliberation.py`, `chairman.py`) | stage, running cost, session counter; opinions, reviews, verdict | `deliberate`: opinions, reviews under letters, synthesis, one more prompt | member threads share a cost, fail, retry; caps looked at between stages; a second answer of the chairman replaces the first | bounded cost, full recording, no thread left running, the chair rotates, it ends; no dissent is left out |
| Council commands (`council/cli.py`, `calibration.py`) | session log, certificate, calibration reports, the active one | `certify-live`, `calibrate`, `promote-calibration` | commands repeated over the files of earlier ones; kills between two files | a certificate says what its session did; a report clears nobody without disagreement |
| Telemetry (`telemetry/api.py`) | `cycle.jsonl` and its flock; the Aggregator's offsets and counters, its `state.json` | `emit`, `_append_record`; `Aggregator.run`, `_save_state`, `_load_state` | the reader takes no lock; lines longer than a buffer; kills of either side | no event counted twice; what was read past was counted |
| Paper store (`literature/paper_store.py`) | a directory per work, its staging and backup directory | `promote` (`_write_entry`), `get`, `query` | two renames with a gap; two promoters use the same names | a paper is one version, whole; a failure does not lose it |
| Evidence ledger (`ledger/`) | JSON artifacts; SQLite rows, edges, flags | `insert_entry`, `mark_stale`, `update_surprise`, `evaluate_triggers`, `export`, `restore`, queries, migration | file before row; export reads entry by entry while marks change; restore in several transactions | no row without its file; flags never lost; a dump restores to what it was taken from |
| Strategy archive (`strategy/`) | rows per experiment, edges, averages, visits, descriptors | `add_strategy`, `attribute_surprise`, `attribute_reward`, `transfer_priors_from`, selection, distillation | an await between reading and writing an average; an open transaction left by a failed call | visits exact; rewards kept; ancestry recorded |
| State machine (`state_machine/`) | checkpoint files; task groups; domain scope | gates in parallel, checkpoint, resume plan | one gate fails while others run; resume after a crash | a cycle resumes where it was, at most one gate repeated |
| Fidelity ladder (`fidelity/`) | results per tier | `next_tier`, promotion, abort | results out of order, failed and unresolved tiers | tiers in order, no tier twice |
| Simulator catalog (`catalog/`) | entries, observables, equivalence pairs, manifests on disk | `onboard`, `reindex`, `reverify_all`, `quarantine`, `get`, `version_hash` | manifest rewritten before the smoke test and long before the row; pairs dropped by another onboarding | equivalence is mutual and declared; the registry follows the manifests and can be rebuilt from them |
| Selector (`selector/`) | none of its own; reads the catalog, runtimes, caps, the domain scope | `select` with scores, flags, trace and staleness check | the catalog changes in between; penalties and normalisation interact; missing and zero runtimes | an entry quarantined meanwhile is not proposed; the order is sound and independent of the order of the data |
| Surrogate (`surrogate/`) | checkpoint and rollback files | training, save, rollback, out-of-domain check | a crash between copies | a rollback restores the last good model |
| Generator-verifier (`genver/`) | turns, staged artifacts | the turn loop, compaction, promotion | bounded turns, promotion after a refusal | it ends; only verified work is promoted |
| Literature discovery (`literature/client.py`, `graph_store.py`, `miner.py`, `state_machine/literature.py`) | tables of works, edges, runs, rankings | search, walk, paging, ranking, promotion, gap mining | retries, cursors to empty pages, crawls that are cut short or killed | records of a run fit together; a repeated walk is local; it ends |
| Artifacts (`artifacts/`) | blobs by digest, compressed files, immutable records | put, lookup, compression, reading, migration | processes that put one digest together; a file replaced between two opens | a content is created once; a read returns what the file held |
| Operator interface (`operator/`) | fixture data | HTTP and command line | live endpoints answer 501; approve and reject build an event nothing consumes | — |
| Adapters, validation, writer, tooling, UI | none that changes | class registry; stateless checks; text assembly; code generation; a browser view | numeric or textual only | — |

### 1.2 How the parts interact

* The council calls the client (`call_llm` → `client.invoke`) from one thread per
  member and then `BudgetTracker.record`. It holds no reservation: the command
  line reserves before and cancels after (`council/cli.py:434-460`).
* The client draws from one process-wide token bucket per rate and capacity.
* The strategy archive asks a guide model in `attribute_surprise`, with the
  coroutine suspended in between, and records its cost directly.
* Every component emits events; the Aggregator is a process of its own and meets
  the emitters only in the log file.
* The ledger is written by one writer by rule of its document (012 §5.4); the
  operator marks, exports and restores beside it.
* The selector reads the catalog twice, at the start and at the end.

The hazards that follow from this are in `PROJECT.json` under `hazards`, each at
its line with the properties that would catch it, or with the reason why none
does yet.

## 2. What is modelled

### 2.1 Budget (`Budget.tla`, `Spending.tla`, `BudgetProof.tla`)

`tot`, `halted`, `aggCap`, `dayCap`, `resv` are the tracker's fields; `saved`,
`ledger`, `sentinel` its three files. Every method but `halt_program` runs under
one lock, so methods are atomic against each other; what is not atomic is a
method against the end of the process. `op` is the method that holds the lock and
the write it has come to: `WriteSentinel`, `AppendLedger`, `UnlinkSentinel`,
`SaveState` are steps of their own, `DiskError` ends a method at any of them with
its changes to memory left standing, and `CrashRestart` ends the process anywhere
and runs `__init__`. A write of `state.json` is one step because it goes through
a temporary file and a rename. `halt_program` called by an operator is two steps
without the lock, `OperatorHaltFlag` and `OperatorHaltFile`, or `OperatorHaltFails` when the file cannot be
made. `standing` is the promise of a halt: its sentinel was written while no clear was on its way to
the unlink, and none has begun since.

Costs are functions from surfaces (dollars, tokens, wall clock) to naturals; the
program tier counts dollars only. Money is integral: the code's floats are used
for sums and comparisons only. The ledger is the sum of its lines: nothing the
tracker does depends on more, since a restart reads its lines but does not add
them up.

`Spending` is the abstract specification: an account in memory, in the ledger and in
`state.json`, without caps, tiers, halts and days. A charge is entered, written, saved and only then
answered; one that fails stays in memory and goes to disk with the next save; a restart reads the saved total and no
line of the ledger. `Budget` implements it (`SpendingAccounted`, mapping `Books`): what
else its methods do is stuttering there.

Left out: text of messages, `breakdown_by_module` (reads the ledger),
`ReservationExpired` (declared and never raised), a torn ledger line (logged and
passed over), durability below the file system (the code does not `fsync`).

### 2.2 Rate limiter and client (`TokenBucket.tla`, `LlmClient.tla`, `SharedProof.tla`)

`TokenBucket` is the bucket on an integral clock: `Granted` is a refill and a
deduction under one hold of the lock, `SleepForRest` computes the sleep and gives
the lock up, `Wake` is the end of the sleep at or after its time. `grants` is a
history of what was given out when. `LlmClient` extends it with what a thread does
between its grant and its return: send, wait, send again. It is shown to implement
`TokenBucket`: its steps are steps of the bucket, or stutter.

Threads may draw from the bucket beside their calls, by `acquire`, `try_acquire`
or the property `tokens`, for it is shared by all who ask for its rate and capacity
(no module in the repository does so now). `LastDirect` is a bound: so many of the
calls, the last ones, can only be such draws.

Left out: the registry of buckets (`limiter.py:168-179`), retries inside the
vendor's SDK, the pricing table, the file and mock clients.

### 2.3 Council (`Council.tla`, `Dissent.tla`, `Certify.tla`, `CouncilProof.tla`)

`stage` is the main thread, `seat[m]` the call of member `m`: two attempts, an
answer that parses or not and costs something or carries no usage, the charge to
the session, the record with the tracker. A stage ends when all its threads have
settled, as leaving the `with ThreadPoolExecutor` block waits for them. What is said is not
modelled; each check of the text may go either way where the code asks. Charging
`running_cost +=` is one step: under the interpreter lock a lost update is
possible in principle between the read and the write of the sum, and the model
does not have it.

`Dissent` is the other half: what the members say. An opinion is one of a few texts;
how alike two texts are and what the entailment model says of them are tables,
so both detectors run with their thresholds as in the code. Members get letters
in any order, reviews name a letter (or one that was not given out), the chairman
answers anything, and his second answer replaces the first as a whole.

`Certify` is the commands: `certify-live` reserves its whole budget, runs a
deliberation reduced to costs, log lines and its end, reads the session log and
the ledger back and writes the certificate; `calibrate` asks all members every
probe and writes a report; `promote-calibration` makes a report the active one.
Three commands run over the files earlier ones left, and each may be killed at
any step; files that are not replaced atomically may be left torn.

Left out: the prompts' wording, the weighting of chairmen, parsing of arguments,
the second prompt within a certification, the mock client. A promotion accepts any
JSON file: in the model it is given the report of a calibration, torn or whole, or
`Foreign`, a file that parses and that no calibration wrote. So what the promoted
report says is claimed of reports that calibrations wrote (`ReportsGrounded`).

### 2.4 Telemetry (`AuditTail.tla`, `SharedProof.tla`)

An emitter takes the flock, puts its line in the file's buffer, flushes every
`flush_every_n`-th time, unlocks and closes, and close writes what is still
buffered: after the unlock. A line reaches the file in `parts[e]` writes. `log` is
the sequence of those writes. The Aggregator polls without a lock, counts whole
lines from its offset on, and saves counters and offset by truncating
`state.json` and writing it. Emitters and the Aggregator may be killed anywhere.
`poison` are the events whose line parses and on which `_process_event` raises: a reading ends there, with
that line and those before it counted and the offset where it was, and the round saves this.

Left out: rotation of logs, several cycles (each has its own log and offset),
the registry of event names, queries, `fsync`.

### 2.5 Paper store (`PaperStore.tla`, `StoresProof.tla`)

`_write_entry` step by step: clear staging, clear backup, make staging, write four
files, move the old directory away, move the new one in, drop the old. Two
promoters use the same names and may overlap; each may be killed or see an error
at any step. `get` is the operator `Verified`. A file is the version it was written from.

### 2.6 Evidence ledger (`Ledger.tla`, `RecordsProof.tla`)

`insert_entry` truncates and writes the JSON file in two steps and then runs one
transaction that may fail. `mark_stale`, `update_surprise` and the triggers change
columns of a row. `export` reads the list of rows once and then every entry with
`get_by_hash`; `restore` inserts, marks and scores in three transactions a line,
into a second database. Any process may be killed. `GetByHash` is the outcome the
call would have.

### 2.7 Strategy archive (`StrategyArchive.tla`, `RecordsProof.tla`; `Selection.tla`)

The tables of several experiments over one connection: `view` is what the
connection sees, `db` what is committed. `AskGuide` reads the average and suspends,
`AttributeSurprise` writes it when the model has answered. An average is
the set of the observations that are in it, so that a lost one can be told from
one that counts. `transfer_priors_from` copies rows between experiments on a problem.

`Selection` is `select_lineages` as an operator over the rows: normalised reward
and surprise, feasibility, exploration, novelty, the elites of the behaviour
cells, the rounds that take one parent after another, and the errors. Scores are
integers, multiplied through by every divisor. Rows are added and observed in any
order the archive's own records allow. The code drops the elites of a chosen cell
from its table although the next round would recompute them; the model has the
recomputation. The penalty for children is left out: the archive refuses every edge.

Left out: distillation and the offline library, which read rows and write a summary.

### 2.8 Catalog and selector (`Catalog.tla`, `Ranking.tla`, `CatalogProof.tla`)

Each command is a process: `Onboard` parses and audits, `TruncateManifest` and
`WriteManifest` replace the manifest file, `Smoke` reads it again, `Commit` is the
transaction with the row and the pairs. `Reindex` takes every manifest it finds through
the same steps and goes on after one that raises; `ReverifyAll` lists the active
entries and then tests one after another. A command may fail in the build or the
transaction and may be killed anywhere. Which simulators fail the smoke test is fixed,
as the code decides it by the id. The selector takes the version, lists the active
entries, reads report, manifest and pairs of each, and compares the version.

Left out: the licence rules (a manifest is allowed or denied), the build of the image,
observables other than the one asked for.

`Ranking` is the rest of `select`, over a catalog that stands still while
scopes, weights and telemetry change: capability, licence, cost, partners and freshness
of each candidate, penalties for a missing estimate and for the budget, clamping
and ties, flags and failure modes, and the trace that is written under a key. Scores are
hundredths (the code's floats, freshness rounded down); runtimes, weights, caps and
the domain scope vary. `update_domain_scope` of `state_machine/domain.py` moves the
scope. Left out: the confidence of an estimate, and `explain`, which are text.

### 2.9 Literature discovery (`Crawl.tla`, `CycleProof.tla`)

One discovery after another over one SQLite cache: the search for seeds, the breadth-first
walk, the edges of each work, ranking, promotion and gap mining. A
statement of the cache is a transaction and a step, as is a request. A request may
be refused and tried again; a listing comes page by page, and the server may hand
out a cursor to a page that is empty. A crawl may be killed or raise at any step
and leaves what it has cached. What OpenAlex knows is a constant graph.

Left out: parsing of responses, years of publication in the ranking, the text of gap candidates.

### 2.10 Gates and checkpoints (`GateCycle.tla`, `CycleProof.tla`)

`run_cycles_concurrently`: an outer task group of cycles, an inner one of gates, each
gate a task that starts, returns, is skipped, raises or is cancelled. Between the
exception and the callback that cancels the group the other gates go on. The caller
that loads checkpoints, runs what the resume plan names and saves what completed is
external: nothing in the repository does all three. Checkpoints are written to a
temporary file and replaced, two steps.

### 2.11 Generators and verifiers (`GenVer.tla`, `CycleProof.tla`)

Two generators with staging paths of their own promote to one destination. The
turn loop asks the agent, validates its call, executes it, up to `MaxTurns`. Promotion
runs the stages on the staging path, which a stage may rewrite, then reads the path
again and copies and replaces. The agent, the stages' commands and the caller that
promotes after `FINISH` are external.

### 2.12 Fidelity ladder (`Fidelity.tla`, `CycleProof.tla`)

`Decision` is the scheduler's verdict on one tier, from the results and the
comparison between simulators; `NextDecision` the first tier to act on. The loop
dispatches tiers from any results the caller brings, as after a restart. It asks without the
comparison (`run_next_tier` and `_run_ladder` do not pass it on), so the properties of the loop
are stated without it and those of the scheduler with it.

### 2.13 Surrogate (`Surrogate.tla`, `RecordsProof.tla`)

The nearest-neighbour model on integers in one dimension, exact where the code
rounds: prediction, leave-one-out residuals, the percentile threshold for what is out of
distribution. Beside it the checkpoint, the copy it is rolled back to, and kills between the
two. Confidence intervals and feature scaling are left out; so are two savers that overlap.

### 2.14 Artifacts (`ArtifactStore.tla`, `StoresProof.tla`)

Processes put contents (`lookup`, then `os.link`, which fails when another was
first), and write, compress, decompress and read files. A read opens the file twice, for the
signature and for the data. A content may begin with bytes that are a signature.

## 3. What is checked

A run is the configuration `MC<Name>.cfg` of a module `MC<Name>.tla`, which instantiates the specifications
it checks; `MCBudgetJoint.cfg` and the others of section 6 use a module of one specification.
Passing runs check all their properties in one state space. Where several parts
that share no state are checked by one run, the variable `part` says which of them
a behaviour is of, and the others stay as they are: the states are the union of
the parts' states, not their product.

| Run | Instance | Shows |
|---|---|---|
| `budget` | 2 threads, 1 hypothesis, 2 surfaces, costs 1 and 2, cap 2 that may be raised to 4, four mixtures of at most 3 records, 1 crash, 1 failed write, 2 cap changes, 1 operator's halt, 1 midnight | what was acknowledged is in `state.json` and in the ledger, the day's spend survives restarts and iterations stay in their cap (`PromisesOutlastRestarts`); money moves as `Spending` lays down (`SpendingAccounted`); day and hypotheses never exceed the program's total; the overrun is bounded; a halt whose file no clear met is not bypassed, over crashes, failed writes and restarts |
| `shared` | part `client`: 2 threads, capacity 2, amounts 1 and 2, 3 calls of which the last is a direct one, 3 attempts with delays 1 and 2; part `log`: 2 emitters, 2 events, lines of 1 or 2 writes, flush each time or every second, 1 kill of an emitter, 2 of the Aggregator, 1 failed save, no line that raises or the first event's, 1 poll that it ends | in every interval at most a full bucket and its refill is granted; the client implements the bucket; a retry never comes before its delay; every call and every `acquire` returns, also one that was overtaken. No event is counted without its line or, unless a line that raises holds the reading up, twice; what was read past was counted, and lines are unbroken with a flush per line (`LogCountedOnce`); short lines get counted, or the reading is held up |
| `council` | part `deliberation`: 2 members, 3 sessions, costs 1 and 2, cap 4, 2 policies; part `texts`: 3 members, 4 texts; part `commands`: a line-up of 2, 3 commands, 2 probes | cost past the cap and what is not recorded are bounded and a verdict's cost was recorded (`CostsAccountedFor`); no thread survives its session; the chair rotates; every deliberation ends. No dissent is synthesised away. A certificate is of a session in which every member and stage is there within the cap; a report clears a line-up only on a probe that two models answered differently (`ReportsGrounded`) |
| `stores` | `ledger`: 2 entries, one citing the other, 2 kills; `papers`: 2 promoters, 2 versions, 4 promotions, 2 failures; `archive`: 2 experiments, 1 strategy, 2 possible parents, 2 coroutines, 3 observations; `surrogate`: up to 3 examples, 3 models; `artifacts`: 2 processes, 2 contents, 6 operations | a row has its whole file, and a dump restores to the state it was taken from (`EntriesKept`); flags survive repeated inserts; promotions that do not overlap leave one version, whole, and one failure leaves a whole copy (`PaperSurvives`); visits are exact, rewards are kept, a surprise is lost only to an attribution that overlapped it (`AttributionsKept`); a rollback reaches the parent; a prediction comes from what is nearest; artifacts are put once and read whole |
| `cycle` | `crawl`: 5 works, 3 policies, 2 crawls, 2 mishaps; `gates`: 2 cycles of 2 gates, 1 interruption, 1 skip; `genver`: 2 generators, 2 stages of which one rewrites, 2 turns, 2 attempts; `ladder`: ladders of 1, 3 and 4 tiers with any results; `selection`: 3 strategies, 2 cells, 5 rows of evidence | tables of a crawl fit together and a repeated walk that was not cut is local; a completed gate is not run again and every gate is at last completed; what stands at the destination has passed its stages; tiers are climbed in order; parents are diverse; all of it ends |
| `catalog` | part `catalog`: 2 simulators with 2 manifests each, 2 commands, 3 onboardings, 1 reindex or reverification, 1 failure, 1 selector; part `ranking`: 4 catalogs of 3 simulators, 3 weight tables, 2 caps, 2 selections | pairs are mutual and declared by a registered manifest, an undisturbed reindex repairs what a kill left, and without overlap or failure a row has its file's manifest (`IndexSound`); an entry quarantined during a selection is not proposed; a ranking puts nothing above what is better in every respect and does not depend on the order of data |

Six more runs end in a counterexample, and are findings (section 6).

**Why these bounds.** Each hazard needs two actors and one event between two
steps; the second of everything that matters is there (two threads, two coroutines,
two promoters, two experiments, two entries in a citation, two events
in a log, two cycles, two generators), and a bounded event happens at least once at every
place it can. Three sessions let one that fails lie between two that have a chairman, and
three commands let a certification be repeated and a report be promoted over an older one.
Three members let a dissent be dropped while another is kept. The council's
weighted choice of a chairman is the random one in the model. Five works are the
fewest with a cycle, a closed work, a work that is reached twice and a listing of two pages.
Three examples leave two for a residual. The bounds of `budget` are mixtures, not
the product, to keep the state space at three million: each mixture holds
the events one of the properties needs together (crash, error and midnight for
spend; an operator who halts and clears twice; halts of the tracker and of an operator
that a clear, a crash and a failed write meet; a cap that was raised and falls back at a restart).
Three calls on a bucket of two units let a thread that has slept be overtaken: the first calls
empty the bucket, the third takes what the sleeper waited for.
`CHECK_DEADLOCK FALSE` stands wherever a bound ends a run: all these systems stop
when the bounded calls are used up.

**Histories.** `acked`, `grants`, `done`, `made`, `starts`, `passing`, `created`, `answers` of `ArtifactStore` and
their like record what happened and guard nothing, except that `StrategyArchive` numbers an observation
by the ones before it and `GateCycle` skips a gate once.

**Fairness.** Safety properties assume none. The limiter: a thread that can run
is run by the operating system, `time.sleep` ends, requests return (the SDK has a
timeout), time passes. No fairness is asked of the caller. The bound on calls ends the competition for the bucket, and
`InvokeReturns` rests on that: the code sets nothing aside for a sleeper, so nothing can be promised a thread
whose tokens others take without end (018:556 tests "no thread starvation" on batches, which do end). The council: `Call(m)` is
fair because a client call returns or raises, which `shared` shows (`InvokeReturns`);
the main thread is scheduled. The audit log: the Aggregator's loop goes on, since
`run` ends only with its process; emitters need none. It is weak fairness
of the loop as a whole, so it can be killed and restarted and fail to save as
often as the bounds have it. A crawl, a fidelity ladder and a turn loop are
single coroutines or synchronous loops that nothing suspends for ever: requests, tiers, agents and
stages return. Neither is asked to begin, and kills are never fair. For gates the
event loop runs what is ready, a gate returns at last, and the caller runs again while gates are pending
(`BeginRun`): that last one is an assumption about the external caller, without which
nothing would resume.

## 4. What is proved

TLAPS proves what follows for every value of the constants, under the assumptions
that the modules name (`ASSUME`); they say that sets are finite where sizes are
counted, that costs, rates and bounds are natural numbers, that tables are functions on the right sets,
and that the value that stands for "none" is not one of the values it stands beside
(`None` is no answer and no row, `Nothing` no row of the archive). TLC evaluates all of them in the
runs. One proof module goes with each run, so a run and its proofs are about the same
specifications:

| Proof module | About | Run |
|---|---|---|
| `BudgetProof` | `Budget`, its refinement of `Spending` | `budget` |
| `SharedProof` | `TokenBucket`, `LlmClient`, `AuditTail` | `shared` |
| `CouncilProof` | `Council`, `Dissent`, `Certify` | `council` |
| `RecordsProof`, `StoresProof` | `Ledger`, `StrategyArchive`, `Surrogate`; `PaperStore`, `ArtifactStore` | `stores` |
| `CycleProof` | `GateCycle`, `GenVer`, `Fidelity`, `Crawl`, `Selection` | `cycle` |
| `CatalogProof` | `Catalog`, `Ranking` | `catalog` |
| `ProofFacts` | numbers, finite sets and sequences; cited by the others | — |

Each component has a theorem that its variables keep their types, and each run whose parts lie
side by side one that all of them do (`SharedTypesCorrect`, `CouncilTypesCorrect`, `StoresTypesCorrect`,
`CatalogTypesCorrect`, `CycleTypesCorrect`): a step of the run is a step of one part and
leaves the others alone, so its behaviours are behaviours of each part. The others follow, with what had to be
added to reach an inductive invariant.

**Budget.**
`SpendingIsAccounted`, step by step: each write of a `record` is a step of `Spending`, all else stutters; what this takes is that only
a `record` carries dollars and comes to the ledger (`RecordInv`).
`PromisesHold`, for the program: a `record` is half done for several steps, and `SpendInv` adds what is in flight: what
was acknowledged and the dollars `op` carries are in memory; once the ledger line is
written they are in the ledger, and so before `state.json` acknowledges them.
For the other tiers: `DayInv` and `IterInv` say of memory, of `state.json` and of the
operation under way what they hold of today's spend and of a hypothesis' iterations.
`TiersDoAgree`: the sum over the hypotheses is taken as the size of a set with one element for each dollar
(`Units`), so that the lemmas on finite sets say how it changes; memory and `state.json`
agree each for themselves, hence after a restart too.
`OvershootIsBounded`, for any number of clients: the bound alone does not tell how many operations are still to
come; `OvershootInv` adds that, while reservations are out, there is one among
them such that the total, its estimate and an operation of any price for each of
the others fit under the highest cap and `unreserved`: a reservation is such a
one when it is granted, and a commit takes one away and raises the total by no
more than was set aside for it.
`HaltIsNotBypassed`, for any number of crashes, failed writes, halts and clears: `HaltInv` says that a standing
halt has its sentinel on disk, and that none stands while a clear is about to unlink it.

**Limiter, client, telemetry.**
`RateIsLimited`, for any threads: `IInv` has for each past grant that what was granted since it and what is
in the bucket are covered by capacity and elapsed time.
`ClientsDrawFromBucket` is the refinement: every step of `LlmClient` is a step of `TokenBucket` under the
mapping or leaves the bucket alone, as long as the bounded clock has not come to its end; `ClientsAreLimited` carries the
limit over. `BackoffIsRespected`: `CallFits` relates each request of a call to the attempt it is at, and `NumbersFit`
keeps calls apart.
`LogIsCountedOnce`, for any emitters, line lengths, kills and failed saves: `EmitterFits` says that an emitter holds the end of its
line and that the parts before it are in the log; the lock is held by who flushes; with a
flush per line, only the line being written is broken (`Unbroken`). On the other side counters and offset belong
together, in memory and in `state.json` (`MemoryFits`): what was counted was read past and counted once, unless a line that
raises holds the reading up (`StuckIn`), and a whole short line behind the offset was counted.

**Council.**
`CostsAreAccountedFor`, for any line-up: sums over the members are again sizes of sets (`Total`). `CostInv` says
what a seat stands for: an amount charged and not yet recorded (`Booked`), a charge that may
still come (`Capped`, under the ceiling of the stage), an answer held or still to be thrown away (`Accounted`).
`NoCallsAfterReturn`: who has left a stage has settled (`Rest`). `ChairRotates`: the counter is the number of
chairmen so far, and the k-th is member k modulo the size (`ChairInv`), whatever sessions came in between.
`DissentIsKept`, for any texts and tables of the two language models: `TurnFits` has what each place of a
session relies on; a review is about what its letter stands for until the matrix is made.
`CertificatesAreTrue` and `ReportsAreGrounded`: the ledger never has less than the session
cost (`CertificateInv`), a certificate is only begun after the checks, and reports with too
few opinions are never put together (`ReportInv`).

**Ledger, archive, surrogate.**
`EntriesAreKept`, for any entries and citations: the rows of a database are the entries of its order and its
citations follow from that order (`Sound`); a dump is a prefix of what was asked for (`DumpFits`); and at each line
of a restore the lines before it are in the copy with their marks (`RestoreFits`). So a dump that is restored in
full gives the same order, hence the same citations.
`RowsAreNotForgotten` is an action property: no step takes back a row of the ledger or its marks.
`AttributionsAreKept`: what a coroutine has read holds every surprise that was there and that nothing has
overwritten (`Read`), and both what the connection sees and what is committed count and
keep what they were told (`Kept`). A reward is never among the lost ones, for it is folded in without an await.
`RollbackReachesTheParent`: a save writes the newest model, whose parent is the file it replaces, and only when
the copy is that file (`SaveFits`).
`PredictionsAreLocal`, for any training set, k and percentile: the invariant is only that k is at most the number of
examples (`TrainedFits`); the rest is arithmetic. The k first of an order are k and before the others
(`FirstOnes`); sums and products of the library are unfolded over every subset of what they run over
(`SumUnfolds`) and proved about by a smallest subset that is wrong (`SmallestSubset`), so a mean with
positive weights lies between its bounds and shifts with its targets; what does not change the places of the
examples changes neither neighbours nor weights (`PlacesDecide`); and a threshold between two sorted distances
has only those behind it above.

**Papers and artifacts.**
`PaperIsKept`, with any number of promoters: `PaperInv` adds, for as long as no
promotions have overlapped, that one promoter at most is at work and what is on the disk at each of its
steps (`DiskFits`), and that before the first failure the
paper is whole unless that promoter has just moved it away (`CopyKept`). The types hold where they overlap, too.
`ArtifactsAreSound`: a reader under way has seen what the file holds now, and its signature fits the name.

**Gates, generators, ladders.**
`GatesAreNotReplayed`: `Accounted` says how far the starts of a gate can be ahead of the interruptions and
skips, by where its task is; `DriverFits`, that an exception is counted once, when the run ends.
`DestinationHasPassed`: `GenVerInv` says the same of what is still on its way: the content of a
staging path has passed the stages that ran (`PromotionFits`), and every copy all of them.
That a rewriting stage makes a new version is what lets the cover start anew (`CoversRewritten`).
`LaddersHold`, for ladders of any height: a tier in flight has no result yet, one that was dispatched before has one,
and all below either are complete (`Dispatched`); the scheduler has at most one tier to dispatch (`OneDecision`).

**Discovery.** `CrawlsAreSound` puts four arguments together, for any graph, policies, kills and errors.
*Order:* the frontier is sorted by depth and lies within the level of the work being expanded and
the next (`WalkLeveled`). *Tables:* the run under way agrees with its row (`RecordsFit`); the ranking is
shown to have each accepted work once by counting how many come before it (`RankIsTaken`,
`RanksAreInOrder` of `ProofFacts`). *The first walk* has visited, or has waiting at most so deep, all that a visited work
led to (`FirstWalk`); when it ends without being cut, its works are closed under what a work leads to
(`Closed`). *The second walk* recalls citations from the stored edges, in another order. What was cut by the branch factor
stays cut whatever that order, because a work that came first is still first of its kind (`SameTargets`);
so the walk meets no other work and no smaller depth (`Within`), and has nothing to ask for.

**Catalog and ranking.**
`IndexIsSound`: where a job is says what it holds and has written (`JobFits`); as long as no two commands have
overlapped and none has failed, a row has its file's manifest unless an onboarding of it is under way (`Ordered`); who is
registered passes the smoke test, so an onboarding that stops leaves no row behind its
file (`RegisteredPass`); what an undisturbed reindex has behind it is indexed (`Cleanly`).
`SelectionsAreCurrent`: beside a selection only a quarantine can have changed the
registry if no onboarding has written, and it turns no entry active (`Current`).
`RankingsAreSound`: what was returned is what the selector of that time makes of its request (`RankingInv`);
the rest is arithmetic, that a score grows with each of its parts, and that the order is found by
counting who is better. It has a hypothesis the code does not check: no weight is negative. With a negative one a
worse candidate may come first. `RankingTypeCorrect` does not need it.

**Selection.** `SelectionsAreDiverse`, over any rows that have their types (`SelectionTypeOK`), so after any evidence. The selection is
a recursive function of the number of parents; that there is such a function is `IterationExists`, and what holds
of its values is shown by the least number at which it would not. Each round takes one that was not
taken, from a cell without one while there is any, and its best (`FirstIsTaken`: scores and names order
the candidates strictly). That the default weights never find every score zero is arithmetic on one row.

Induction over numbers is done by the least-number principle (`LeastNumber` of
`ProofFacts`), which the library's well-founded induction gives for a set instead of an operator; what a fold or a
recursive function computes is proved along it.

All safety properties that the passing runs check are proved. Only model-checked:

* liveness (`InvokeReturns`, `LinesGetCounted`, `DeliberationEnds`, `WorkEnds`): the prover
  has neither fairness nor `ENABLED`;
* the six counterexamples of section 6.

## 5. The plan

The order is by what would cost the program most if it went wrong: money, the
record of evidence, then what steers the search.

1. **Done:** sections 2.1 to 2.14, and the theorems above.
2. **Compositions:** the council with the budget (`record` as the tracker's own
   method, so that a halt by one member meets the others), and the ledger with
   its writer.
3. **Next theorems:** the compositions' own invariants, once item 2 is there; two abstract
   specifications for which only invariants stand now: a counter of whole lines, for the audit log, and a
   ledger that is copied at one instant, for a dump that is restored.
4. **Left in the modelled parts:** two savers of one surrogate, the audit queries and the migration of the
   ledger, distillation of the strategy archive, rotation of logs.

## 6. What the code does that its documents do not say

Six disagreements have a run that ends in a counterexample:

* `budget_joint`: two operations pass the check before either is recorded and
  breach the cap together (`budget/api.py:420`); 013:381: "Reservations exist purely to
  prevent two concurrent operations from each independently passing the check and
  then jointly breaching the cap." The bound that does hold is `OvershootBounded`.
* `paper_lost`: a promoter killed between its two renames leaves the work without a
  paper, and the next promotion removes the copy that was moved away
  (`paper_store.py:259`); 007:255: "Writes are atomic per Work ID".
* `archive_ancestry`: `strategy_edges` references a column that is not a key, so
  its inserts are refused after the child was inserted, and a later commit keeps
  the child without its parents (`archive.py:434`); 016:379: "write strategy_edges for every parent".
* `ledger_export`: one stale entry ends an export in an error (`ledger/api.py:871`);
  012:296: "Stream every entry (including trigger state and stale flags)".
* `crawl_repeat`: a crawl that was cut by `max_nodes` between the works that cite a seed is
  repeated in the order of the cached edges, which is that of their targets, and asks for other works
  (`graph_store.py:189`); 007:424: "identical calls can run local-only after the graph has been
  written". What holds is `RepeatIsLocal`, in `CrawlSound`.
* `ranking_budget`: the penalty for the budget is one summand among others, so a candidate over
  the cap may be ranked above one within it (`selector/api.py:559`); 005 promises "ranked below in-budget
  alternatives". What holds is `NoneOvertaken`, in `RankingSound`.

Others were met while modelling. The models follow the code in each of them:

* A restart does not rebuild the totals from the ledger (`budget/api.py:255`, 013:364), so
  a crash between the ledger line and `state.json` leaves the ledger ahead for good.
* Caps of the program and of the day fall back to `budget.yaml` at a restart
  (`budget/api.py:222`; 013:31 keeps "current caps" in `state.json`).
* `halt_program` takes no lock (`budget/api.py:748`; 013:414 "atomically"): a
  `set_cap(clear_halt)` that has begun may remove the sentinel of a halt issued
  meanwhile, and a crash before it has written `state.json` then forgets the
  halt. This is why a halt that meets a clear promises nothing in `HaltNeverBypassed`.
* A failed request is sent again without a token (`llm_client/api.py:369`), up to five
  times and without jitter (018:49 "exponential backoff with jitter", "max 3 retries").
* The council's cap is passed by up to a stage of calls (`deliberation.py:548`; 001:495
  "library never exceeds"), and an answer that does not parse is paid for and
  recorded nowhere (`deliberation.py:356`; 001:61).
* The Aggregator passes over a line that is only half written (`telemetry/api.py:515`), and
  an emitter may write after it has unlocked (278; 014:302).
* Two promoters of one work can mix the files of two versions so that `get` accepts
  the mixture; nothing promises otherwise.
* Averages of a strategy are updated in all experiments that have it
  (`archive.py:511`; 016:403 "a clean slate"), and a surprise that was attributed
  during an await is overwritten (510; 016:324 "single-threaded").
* A restore that was killed cannot be repeated, for the database is no longer empty, and the states
  of triggers are not in the dump (`ledger/api.py:875`; 012:730).
* A training query's `AND` binds before its `OR`, so its filters do not apply to
  entries that are not stale (`ledger/api.py:206`), and asking for stale ones
  raises `LedgerCorruption` (`ledger/api.py:232`; 012:175).
* An onboarding deletes the pairs of its simulator in both directions
  (`catalog/api.py:509`), those other manifests declared included, so after a `reindex`
  only the later of two simulators has its declarations in the registry; 004:691 "reindex()
  picks them up later". What does hold of pairs is `PairsSound`, in `IndexSound`.
* Onboarding again, by hand or by `reindex`, makes a quarantined simulator active; the
  audit of a denied manifest replaces the report of the entry that is active
  (`catalog/api.py:701`); the version hash leaves out `image_sha` (004:791).
* A selection reads manifests and reports from files an onboarding writes before it
  commits, so it can be returned under a version those files are not of, and its
  reproducibility key leaves out domain scope, budget cap and pairs
  (`selector/api.py:635`; 005:183). `SelectionIsCurrent` is therefore stated for selections
  that no onboarding overlaps.
* The trace of a selection is named by a key without budget cap and domain scope
  (`selector/api.py:635`), so the trace of another request may be replaced.
  The smoke test's runtime and the licence report are read for the score but are not in the
  version either. An estimate counts as missing only when the runtime is not positive.
* Removing the last domain or simulator that a scope allows makes it allow everything
  (`state_machine/domain.py`), where the runbook's first-cycle.md:37 has an empty file park
  everything; 005:342 says the selector does not filter by scope, and the code does.
* A work that was cached as a leaf, or by a crawl that was killed after it, never gets its
  citations later (`miner.py:206`). `edge_targets` returns a target once for each run that
  stored it, so from the third identical crawl on the limit cuts targets off. A ranking may
  be stored for a run that never completes.
* The loop over the fidelity ladder ignores the comparison between simulators it could be given.
* A candidate of a surrogate at a distance just above an interpolated percentile
  is flagged although its own percentile rank is below the one asked for. A kill between the copy
  and the write of a checkpoint leaves the rollback equal to the current one, so the older one is gone.
* A candidate's staging path is read again after its validation (`genver/promote.py:77`), so a stage that
  rewrites it promotes what earlier stages did not see: hence the form of `DestinationPassed`.
* A certification repeated in one directory sums the ledger entries of the earlier ones;
  `certification.json`, `report.json` and `active_report.json` are written in place, so a kill leaves
  them torn; a hypothesis is not closed when its deliberation raises; a promotion accepts any JSON.
* A reviewer is shown every opinion, his own included, where the prompt says "other council members"; the
  verdict without consensus lists no dissents.
* A raw artifact whose own bytes begin like gzip or zstd is unpacked on reading, and a read of
  a file that is replaced between its two opens by one of another coding fails
  (`artifacts/compression.py:185`).
* A line on which `_process_event` raises (a payload that is null, a cost that is a list) ends the reading
  before the offset is moved (`telemetry/api.py:516`): it and what comes before it are counted again at each poll, and
  what follows is never counted. `LogCountedOnce` and `LinesGetCounted` make the exception.
* Two hazards of the budget and the limiter are sequential and left to tests: a reservation
  committed twice records twice (`budget/types.py:69`), and buckets are kept per rate and capacity
  (`llm_client/limiter.py:168`).

## 7. What is not modelled

Numeric code beyond section 2.13 (acquisition, confidence, statistics of the
validation portfolio), text (prompts, BibTeX, the writer, compaction of messages), static
descriptions (module contracts, registries), adapters (a registry of classes and wrappers of
subprocesses), generated and fixture code, the
operator's HTTP surface, whose live endpoints answer 501, and the browser view.
None of these keeps state between calls. `PROJECT.json` lists each with its reason, and what
of a modelled part is left out.

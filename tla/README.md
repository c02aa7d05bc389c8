# Formal models of Weasley DeepMind

Weasley DeepMind is a self-hosted memory server for AI agents.  It keeps short
*fragments* of knowledge in PostgreSQL, indexes them in Redis, embeds them,
links them into a graph, lets language models judge them, forgets what nobody
uses, and serves them over MCP (HTTP and stdio).  This directory holds TLA+
models of the parts that are hard to test, the TLC runs that check them on
small instances, and TLAPS proofs of properties that matter for every size.

`PROJECT.json` lists the components, the runs, for each definition the source
lines it stands for, for each property a mutation of the model that breaks it,
the known hazards of the code with the properties that watch them, and the
theorems.

Contents: 1 the system, 2 the modules, 3 the runs, 4 fairness, 5 the proofs,
6 what only TLC checks, 7 where code and documentation disagree, 8 what is not
modelled, 9 what is left.

## 1. The system

One Node.js process (several may share PostgreSQL and Redis) runs the HTTP
handlers, the timers of `lib/scheduler.js`, and three workers: embeddings,
evaluation, asynchronous batches.  JavaScript runs one continuation at a time;
everything between two `await`s is atomic within the process, nothing longer is.

| Component (main sources) | State | Operations | What is hard | What must hold |
|---|---|---|---|---|
| Asynchronous batches (`BatchRememberWorker`, `_enqueueAsync`, queue helpers of `redis.js`) | Redis lists queue, processing, dead; job status hash | enqueue, RPOPLPUSH, process, retry, bury, LREM, recovery at boot | a crash between any two commands, lost replies, a second server, late status writes | no confirmed job is lost; the retry budget is exact; the status is the outcome |
| Fragment rows (`FragmentWriter`, `EmbeddingWorker`) | rows, vectors, archive, row locks | insert, amend, forget, delete by topic, expire, embed | a vector computed for replaced content; overlapping amendments; ownership checked before the delete | one row per owner and content; no stale vector; complete archive; only owners write |
| Write admission (`MemoryRememberer`, `BatchRememberProcessor`, `QuotaChecker`) | committed and uncommitted rows, lock of the API key's row, cached usage | remember (two paths), batch in three phases, usage | counts read before the insert, locks in different orders, retries with the same idempotency key | quota, locks given back, no deadlock, retry safety |
| After the insert (`RememberPostProcessor`, `ProactiveRecall`, `TemporalLinker`, `ClaimExtractor`) | links, claims, assertion status | named links, assertion check, temporal links, keyword links behind a symbolic gate, claims | nobody waits for any of it; rows are amended, superseded and deleted meanwhile | links stay in the writer's group and workspace |
| Supersession (`GraphLinker`, `ContradictionDetector`, `MemoryConsolidator`, `ConflictResolver`) | links, `valid_to`, pending contradictions | link, deduplicate, compress, judge, supersede | candidate lists read before a language model answers; several linkers; the cycle at the same time | order in time of `superseded_by`; isolation of keys; anchors exempt |
| Retention (`FragmentGC`, `ConsolidatorGC`, `MemoryConsolidator`, `MemoryEvaluator`) | tier, importance, anchor, access, utility, quality of a row; evaluation queue | transition, decay, expiry, split, merge, score, requeue, promote, calibrate, purge; recall, amend, evaluate | a dozen stages with interacting thresholds; snapshots that grow old | anchors kept; recalled rows kept; unused rows forgotten |
| Read path (`MemoryRecaller`, `FragmentSearch`, `FragmentReader`, `FragmentIndex`) | Redis index and hot cache, rows | recall through layers, index, deindex, warm up, cut to a budget, page | three layers with their own scope filters over a stale index; every page searches anew | results are current and within scope, complete up to the query's limit; pages partition what has no ties |
| Reranker (`Reranker`) | mode, failure count, cooldown, the shared load of the model | score, fail, switch, load | recalls fail together; a load is under way when the cooldown ends | the external service gets its turn again |
| Working memory and context (`FragmentIndex`, `ContextBuilder`) | Redis list of a session, ids already shown | remember with scope session, context, reflect | push, measure and rewrite are three commands | the list stays within its budget |
| Sessions (`sessions.js`, `mcp-handler.js`, `session-handler.js`) | Map, copies in Redis, token index | create, validate, restore, recover, rotate, close, sweep, shut down | every handler awaits Redis and then writes; restarts keep the copies | live sessions survive a restart; ended ones stay ended |
| Session reflection (`AutoReflect`, `SessionActivityTracker`, `ReflectProcessor`, `EpisodeContinuityService`) | activity log, reflected mark, milestones and their edges | record, reflect, link, chain the milestone | read-modify-write of the log; reflects that overlap, fail and run again | the mark outlives its record; milestones hang together |
| Cases and history (`MemoryRememberer`, `CaseEventStore`, `HistoryReconstructor`) | case of a fragment, numbered events, edges, evidence | assign, backfill, append, evidence, expire; reconstruct, search traces | fixes and errors recorded by separate transactions in any order; rows vanish between the queries of a history | a fix covers its errors; a history is exact |
| Link feedback (`ReconsolidationEngine`, `LinkStore`) | weight, lock, log, reservations of the process | reinforce, decay, quarantine, create, raise after a recall | overlapping transactions; a reservation that a restart forgets | the log accounts for the weight |
| OAuth (`oauth.js`, the token helpers of `redis.js`) | codes, access and refresh tokens, keys | authorize, exchange, refresh, use, sweep | reads and deletes are separate commands; expiry in the value and in Redis | one chain per authorization |
| API keys and limits (`ApiKeyStore`, `rbac.js`, `rate-limiter.js`, `symbolic` gate) | key rows, usage counters, buckets, cached gate | validate, count, limit, change | usage read before it is counted; cached settings | limits kept up to what was under way |
| Tools (`jsonrpc.js`, `tool-registry.js`, `tools/`, presets) | permissions and mode of a session | initialize, list, call | five hand-kept tables say what a tool does | only granted calls of declared writers make changes, and what a search leaves behind is granted too |
| Admin console (`assets/admin`, `admin-keys.js`, `admin-sessions.js`) | view, selection, dialogs, answers in flight; keys, groups, sessions | navigate, select, confirm, page, draw | an answer arrives after the operator has gone on | a change is about what was shown; views stay consistent |
| LLM dispatch (`llm/index.js`) | chain, deadline, timers of a request | build the chain, wait for a slot, call, fall back, cool down | semaphore timer, call timeout and chain deadline race the answer | slots given back; no call after the deadline; every request ends |
| LLM semaphore (`llm/util/semaphore.js`) | counter, waiters | acquire, release, time out | hand-over against the timer | nobody waits while a slot is free; first come first served |
| LLM circuit breaker (`llm/util/circuit-breaker.js`) | failures in a window, `openedAt`; in memory or in Redis | isOpen, recordSuccess, recordFailure | Redis commands interleave between processes | opens for a cause, stays open, recovers |
| CLI, SSE, updater, storage, migrations, configuration, metrics | - | - | I/O | - |

How they interact.  A `remember` passes admission, inserts the row, indexes it,
assigns a case, links it and queues an evaluation and (through the trigger on
the table) an embedding; `embedding_ready` starts a linker run, which links the
row and may expire one of a pair.  A `recall` reads the index, the cache and the
rows that all of these write.  Every six hours the consolidation cycle runs its
stages over all rows.  Language-model answers for the evaluator, the
contradiction stage, the split stage and reflections all come through
`llmJson`, hence through the breaker and the semaphores.  Sessions call the
reflection when they end, and the reflection writes fragments, milestones and
the mark that keeps it from running twice.

## 2. The modules

    JobDelivery ........ promise of a queue        <- implemented by BatchQueue
    BatchQueue ......... BatchQueueProofs
    FragmentContent .... ContentProofs, MCFragmentContent
    WriteAdmission ..... WriteAdmissionProofs, MCWriteAdmission
    Supersession ....... SupersessionProofs, MCSupersession
    Retention .......... RetentionProofs
    Sessions ........... SessionsProofs
    Services ........... Semaphore, LlmDispatch, CircuitBreaker
                         (Semaphore is implemented by LlmDispatch)
                         ServicesProofs; MCServices adds FragmentContent, Reranker
    Parts .............. Recall, Paging, Reflection, Milestones, Cases, Reconsolidation,
                         AutoLinks, Access, RateLimits, KeyUsage, GateCache, ToolCall,
                         AdminConsole, AdminMemory, AdminGraph
                         PartsProofs
    Answers ............ Ranking, ContextMemory, History
                         ContentProofs
    MCParts ............ one run of Parts and Answers
    MCAutoLinks          an instance for a finding

An abstraction shared by all: one SQL statement, one Redis command, or what
JavaScript does up to the next `await`, is one step.  `MaxX` constants bound
what may happen without end; they are named where they are declared.

The umbrella modules `Parts`, `Answers` and `Services` instantiate components that
do not share state in the model, each with its own variables and with parameters
that stay parameters; the proofs are about these.  `MCParts` and `MCServices` extend
them with values for a run, and `MCServices` with what is checked for liveness
only.  Their
variable `part`, chosen in `Init`, says which component a behaviour is about:
that one moves, the others keep their first state, so the states of a run are
the sum of the parts' states and not their product.  A conjunction of two modules'
properties (`LimitsKept`, `ViewsHold`) says two things of one subject.

### Writing

**BatchQueue.**  `queue`, `processing`, `dead` are the Redis lists, `status` the
hash `batch_job:<id>`; `pc`, `running`, `held`, `safeToAck` are the locals of a
worker (`pc` names the `await` it stands at).  A Redis command may fail without
effect, or take effect and lose its reply; `lib/redis.js` turns both into
`false`, `null` or `0`.  `process()` is one step that resolves or rejects.
LREM compares the text of an envelope, hence `Envelope` has the time stamp:
two pushes may or may not be equal.  `JobDelivery` says what a caller may rely
on: a job taken on is pending until it is processed or parked.

**FragmentContent.**  A row is its owner, its content, the content its vector was
computed from and the archive of overwritten contents.  The transaction of an
amendment is read, lock, archive and duplicate check, update and commit; a
forget reads, checks ownership and deletes.  The worker reads, computes outside
of any transaction, and stores under the condition the code uses.  SHA-256 is
taken as injective.  Groups let a key read what it does not own.  Agents and
row-level security are not modelled: keys, not agents, separate tenants.

**WriteAdmission.**  One owner: an API key with a limit or the master.  Rows are
`none`, `live` or `past`; a transaction keeps what it wrote to itself and holds
those rows; an insert for a key takes the share lock that the foreign key to
`api_keys` needs.  Both values of `REMEMBER_ATOMIC`, the limit and the margin
are chosen at boot (`Init`), so one run covers them.  COMMIT and the
invalidation of the cache after it are one step; the limit does not change.  An
asynchronous batch comes back as a batch of the worker.

**AutoLinks.**  What `RememberPostProcessor` does after an insert.  `todo` holds
the pieces nobody waits for, `found` what `ProactiveRecall` has read before it
links; `symbolic` is the deployment (mode, claims, gate).  Texts are reduced to
the pairs that are alike or near and to the markers that the claim rules match.

**Supersession.**  Everything that sets `valid_to`, for fragments of one topic:
linker runs, the cycle with its lists read at the start of a stage, clients.
`Sim` gives similarities; a model's verdict is any verdict.  `born` may be equal
for two rows.  An audit record is a `Remember` of the master.  Links are
over-approximated where `linked_to` and `fragment_links` differ.

**Retention.**  One row through time.  A tick is 30 days; ages stop counting at
seven ticks, longer than every period in the code.  Importance is a level on a
logarithmic grid, so decay and halving are subtractions (`Loss` rounds either
way, both are explored).  A stage of one statement is one step, a stage that
reads its candidates and writes later is two, and others act between them.
What depends on other rows (a group's best row, a rank, a LIMIT) is a free
choice.  `transitionTTL` is one step although the code runs five statements.
Recalls raise `ema_activation`; both ends of its range are explored.  Whatever
happens to the row from outside costs a *touch*.  The calibration needs Redis:
without it `calibrateByFeedback` returns at once, and only decay works on a row.
The reward of closed cases (`CaseRewardBackprop`, off by default) and
`merge_duplicates` (finds nothing under the unique index) are left out.

**Reconsolidation.**  One link: a transaction of `reconsolidate` reads under a row
lock, computes and writes weight and log; the decay limit rests on a
reservation in the process (`pending`) and the time noted at the commit.  The
same weight is raised without an entry in the log: `Relink` is `createLink` with
any weight of `LinkWeights` (it keeps the greater one), `CoRetrieve` what a recall
of both ends adds, without the bound of 2 that `reconsolidate` keeps to.
`raises` counts both, and an entry of the log notes how many there had been.

### Reading

**Recall.**  `calls` holds each recall's layers; a layer's query is a step, and
`Amend`, `Forget`, `Supersede` write the row first and the index afterwards
(`edits`).  `hot` keeps copies of rows (with their version, so that a stale copy
is told from the row), `index` ids only.  Redis may be lost at any time.  Each
lookup has its `LIMIT` (`Cuts`: all that matches, or as many as the limit, and
which ones is free, as ORDER BY is left out), the metadata query its least
importance.  `AttachLinked` and `AttachNearby` are what `tool_recall` adds to the
rows: previews of linked fragments (`Previews`; `fetchLinkedFragments` selects by
id and `valid_to`, by no key, agent or workspace) and the `nearby_context` of the
same session (`Bundle`; `searchBySource` compares the caller's own key and the
agent, and no workspace).
**Ranking** and **Paging** are what happens to the result: the three cuts
(`_trimToTokenBudget`, the final cut, the selection of a context), each the set of
the places it keeps, since a cut never reorders (`Take` is a loop with `break`,
`Fit` one with `continue`); and pages that search anew from the cursor's anchor
time; `served` counts how often the pages returned each fragment.  `Ranks` are the
orders a search may give, ties in any order; the sort before the pages is stable,
so fragments of the same score keep the order of that page's search (`Nearer`).

**ContextMemory.**  The working-memory list of a session under writers that push,
measure and rewrite, and a context that reads it beside the database.

**Reranker.**  `mode` is `external` or in-process, `cooling` the rest of the
cooldown, `loads` the shared load of the model.

**History.**  `reconstruct_history` as its queries (timeline, events, edges,
links) with clients between them; chains and open branches are computed as in
`_buildCausalChains` and `_detectUnresolvedBranches`.  A timeline is a set, as
nothing here depends on its order; `Visit` is one turn of the loop over the queue,
and `Search` takes one turn for the root and one for each link, which is enough
because a link is followed once (proved: `SearchKeeps`).

### Sessions and cases

**Sessions.**  One process, one key.  A thread is one run of a handler or timer;
commands to Redis are answered in order, other waits end at any time.  Ages are
ticks and nothing is in progress over a tick.  Redis does not fail.

**Reflection.**  One session: the activity log is one JSON value read and written
back (`flight` holds the Redis commands under way, answered in order), reflects
are asked for by the client or started at the close.  **Milestones** is the part
of a reflect nobody waits for: the event, its predecessor from a cache of the
process, and the edge.

**Cases.**  The case a `remember` picks or joins, the backfill, the transaction
that takes the next sequence number, evidence and edges, each failing on its
own, the purge of old events, and what a history calls unresolved.  `getByCase`
reads the oldest `EventLimit` events (100 unless a caller says otherwise): `Listed`
for a fix, and the same in **History**.

### Access and surfaces

**Access.**  Entries are codes, access tokens and refresh tokens with the
authorization (`family`) they come from; over Redis a grant reads, saves and
deletes in steps (`grants`), in the process's maps it is one step.
**RateLimits**, **KeyUsage** and **GateCache** are what lets a request pass: two
windows, the daily count, the cached gate.  **ToolCall** writes the five tables
(schema, list, registry, permission, presets) down as they are in the source
and runs `initialize`, `tools/list` and `tools/call` over them.  `rows` counts the
changes that were asked for, `traces` what a search leaves behind by itself:
access counts, and after a recall in a session the raised links.

**AdminConsole**, **AdminMemory**, **AdminGraph** are the pages of
`assets/admin`: clicks, answers in flight in any order, dialogs, and a
container that whoever finishes last paints.  A key joins a group by a button of
the directory (`AssignGroup`) or by the dialog of ADD GROUP (`AddGroup`).

### Services

**Semaphore, CircuitBreaker, LlmDispatch.**  Each operation of the semaphore is
one turn of the event loop.  The breaker is modelled in both implementations:
in memory an operation is a step, in Redis a command is.  `LlmDispatch` follows
`llmJson` from `buildChain` through `dispatchChain`; the breaker is a free
choice there, a provider's protocol is the set of its outcomes.  Provider
instances, and with them the cooldown after a 429, belong to one request, as in
the code.

`Retention`, `Supersession` and `CircuitBreaker` define a `TypeOK` that no run
checks by itself: those of `Retention` and `CircuitBreaker` are part of proved
invariants, that of `Supersession` documents the state (the properties read every
variable).

## 3. The runs

Every run lists its bounds in its `.cfg` or, for the two umbrella modules, beside
the instances.  Deadlock checking is off where the system may really come to
rest: all jobs are settled, the row is gone, the requests have ended, or a bound
is used up.

| Run | Instance | What it shows |
|---|---|---|
| `batch_queue` | one server that may be restarted, two jobs, one retry, two faults | a confirmed job is never lost and is parked only after every retry (`JobsKept`); `batch_status` ends on the outcome; every accepted job is settled or, after a fault, waits for the next boot; the queue implements `JobDelivery` |
| `fragment_content` | two ids, two contents, two keys of a group and the master, two requests, one worker | one row per owner and content, no stale vector, complete archive (`ContentSafe`), writes by the owner only |
| `write_admission` | two requests of up to two items over three contents, limits 1 and 2, margins 0 and 1, with forget, amend and supersede | key locks given back and no deadlock of the atomic path on the key's row (`KeyLocksEnd`), excess of the plain path below the number of requests, quota kept by the atomic path and by every batch |
| `write_retry` (violation) | one request sent again | finding 2 |
| `supersession` | two fragments of two owners, one linker run, a cycle, a client; one change where no listener runs | `superseded_by` never points at an older fragment; the detector stays within a key; anchors are exempt from merging |
| `supersession_tenants` (violation) | as above without changes | finding 1 |
| `retention` | a fact, a preference and an error, asked importance 0.1 and 0.95, no links or a hub, one touch | the cycle leaves anchors alone; a recall protects for 60 days; what nobody uses is forgotten |
| `sessions` | two ids, three threads, one restart, a window of two ticks | live sessions can be restored; ended ones stay ended |
| `services` | the five parts below | slots, calls, embeddings and scores under fairness |
| `parts` | the eighteen parts below | one property for each part or pair of parts |
| `auto_links` (violation) | three fragments of two workspaces, three deployments | finding 3 |
| `case_fix` (violation) | two errors, a procedure and a decision | finding 4 |

The parts of `services`:

| Part | Instance | Property |
|---|---|---|
| semaphore | five callers, two slots | `SlotsKept`: the counter counts holders, no wake-up is lost |
| breaker | two calls in flight, threshold 2, window and open state of 2 ticks, either implementation, one failing command | `OpenForItsTime`: an open breaker holds for its duration (in one process) and then lets a call pass |
| llm | two requests, two providers with one slot each | `CallsBounded`, `UsesSemaphores`, `AnsweredInTime` |
| content | two ids, two contents, a client of the master, one worker, two disruptions | `EventuallyEmbedded`: every row gets its vector, or goes |
| reranker | two recalls, threshold 2, cooldown 2, two outages | `ScoresAgain` |

The parts of `parts`:

| Part | Instance | Property |
|---|---|---|
| recall | three fragments (own, of the group in another workspace, of the master), linked and of one session, five queries, one change, Redis lost, limits of one or two rows | `Sound`: results are no older than the question and in scope, what is attached is current and belongs to one of them; `StructuredComplete`: a row that matches and that nobody touches is found, or as many matching ones as the limit |
| ranking | all lists of three candidates of two costs and three tags, of two candidates of three costs, two budgets | `CutsFair` |
| paging | three fragments of which two are tied at one moment, pages of one, moments 0 to 3, a search budget for two or three | `PagesPartition`, of fragments without a tie |
| context | three entries of a session of which two exceed the limit, one guarded | `WmWithinBudget` |
| reflection | two reflects, an error and a decision, one tool call, one crash | `MarkOutlivesRecord` |
| milestones | two reflects of three items, four calls, one crash | `MilestonesChained` |
| cases | two errors (one of a batch), a procedure, one failure or purge (`MaxTroubles`), two recordings at a time (`AtOnce`), one event read (`EventLimit`) | `FixCoversErrors`, of errors within the limit |
| history | three fragments of two keys, every set of up to two causal links, one change between the queries, three queries, one event read of two (`CaseLimit`) | `HistoryExact` |
| feedback | two threads, two calls (`MaxFeedbacks`), one raise (`MaxRaises`) to 0.6, to 1.5 or by 1, window 2, one restart | `FeedbackAccounted` |
| links | three fragments of two keys and the master, three deployments, one change | `LinksStayInGroup` |
| access | one key, tokens of two ticks, five entries, both stores, restarts | `OneChain` |
| limits, usage, gate | window 2 with two requests and one rotation; two requests with a daily limit of 2; two lookups with a TTL of 2 | `LimitsKept` |
| tools | two requests with any permissions and mode, five protocol dates of which three are served | `ChangesAreGranted` |
| console | three keys, three groups (one of each to be created), two sessions, five clicks, two answers in flight | `ActsOnShown` |
| memory, graph | two fragments and seven pages with four clicks; three loads with four moves | `ViewsHold` |

Why the bounds are enough.  The races in this code are between two parties over
one object: two requests over one row, a worker and a client, a timer and an
answer, a crash and one command.  Each instance has two of the parties, two of
the objects (so that the wrong one can be hit) and one more step of disturbance
than the shortest race needs.  Batches: the retry limit of one passes through
"first failure", "retry" and "used up"; two faults cover a lost reply followed by
a crash.  The semaphore needs three waiters to tell an order from a stack, and a
slot to spare.  Sessions: three threads let a close overlap both a request and a
recovery.  Retention: seven ticks pass the longest period (180 days); levels 8
and 34 lie at the lowest and the highest threshold, and decay, the evaluator and
the calibrations reach those between; a touch is one recall, amendment,
judgement, missed stage and so on.  With two touches a row of each of the three
types keeps `AnchorKept` and `RecallProtects` as well; that is millions of
states and not part of the run.  A cut needs one candidate of each tag and one
that does not fit; chains need three rows for a branch, a cycle and a stranger's
row in the middle; a console race is "click, navigate, answer, confirm" with a
click to spare.

Two servers over the batch queue create copies without bound (each start moves
the whole processing list), so the run has one server and the theorems cover any
number.  In `supersession` changes are explored in servers whose embedding
listener is not running, and linker runs in servers where rows do not change
from outside; both together exceed what a run can visit, and the theorems cover
them.  The views named in the `MC` modules drop locals that the next use
overwrites; symmetry is used in runs without liveness only.

## 4. Fairness

- *The event loop runs what it can* (`WF` of a worker's, request's or stage's
  next step).  Node has one thread and no priorities; every `await` in these
  paths settles, by an answer or by an error of the driver.
- *A server that exited is started again* (`WorkerStep` includes the boot); who
  starts it is outside of the repository.  Without it accepted jobs wait in
  Redis, which is what the reliable queue is for.
- *The backfill comes back* (`SF` of `Select`): the timer of `scheduler.js`
  selects rows without a vector every five minutes, its batch is larger than the
  table of the instance, and another job may run in between, so weak fairness
  would not do.
- *Calls end*: every language-model call has a timeout; the body of an answer
  ends or its connection breaks because the HTTP client gives up on a silent
  peer (`fetch-with-timeout.js` clears its timer when the headers are in).  The
  request to the external reranker has a timeout of its own, so it is scored or
  fails (`WF` of `Scored \/ Failed`).
- *Semaphore holders release* (`WF` of `Release`): `dispatchChain` releases in
  `finally`.
- *Time passes* (`WF`, in `Retention` `SF`, of `Tick`): a tick is enabled again
  and again between the cycles.
- *Rows grow older for ever* (`SF` of `UpdateUtilityScores(TRUE)`): the utility
  score falls as age^-0.3, so at some age it is below the threshold; ages stop
  counting at seven ticks, and the score there is a free choice that must be low
  some day.

No fairness is assumed for clients, failures, crashes, a model's verdicts or
rows being skipped by a LIMIT, nor for the repair of an outage: `ScoresAgain`
speaks of a service that stays up from some time on.

## 5. The proofs

`tlapm` proves, for every value of the constants that satisfies the named
assumptions of the modules:

- `BatchQueueSafe`: no confirmed job is lost and none is parked early, for any
  number of servers, jobs, retries and faults.  `NoJobLost` is not inductive: an
  acknowledgement takes an envelope away.  `IInv` adds `AckJustified` (a worker
  that acknowledges an envelope has seen its `Successor`: a copy with a higher
  retry count, a parked copy or a finished run, so that equal copies made by
  recovery do no harm) and `RetriesEarned` (retry counts do not run ahead of real
  failures, which also gives `DeadLetterEarned`).  `GrowsKeeps` is the argument
  in one lemma: when nothing disappears from the lists and the history grows,
  all parts of the invariant survive; `NextIInv` has one step per action.
  Assumed: `RetryLimit` and `MaxFaults` are naturals, there is a time stamp,
  `NoEnvelope` is no envelope.
- `BatchQueueDelivers`: the queue implements `JobDelivery`.
  `NextMoves` shows that a step leaves the standing of every job as it is or
  moves one job along an edge; the acknowledgement needs `AckJustified` again,
  and a finished run needs `HeldPresent`: a worker only works on jobs that were
  taken on.  Same assumptions.
- `BatchQueueReports`: as long as nothing failed, the status of a job that has
  left both lists is its outcome (or the late "queued" of the request).  The
  property speaks of finished jobs only; `SInv` says of every job where it is
  (`JobTracked`) and that it is there once (`Undisturbed`).  The theorem has the
  hypothesis that there is one server, and needs it: the start of a second one
  puts back what the first is working on, without a failure, and the copy may
  end differently after the first has reported.
- `FragmentContentSafe`, `FragmentContentOwner`: uniqueness, fresh vectors,
  complete archive, writes by the owner.  The inductive invariant adds what the
  row lock gives (`TxHoldsRow`: inside the transaction the row is still what was
  read; `LockHasOwner`), that a passed ownership check stays true (`OwnedStays`:
  ids are not reused, rows do not change hands), and `TargetUsed`.  One lemma per
  action, `NextIInv` puts them together.  Assumed: `ContentAssumption`.
- `SemaphoreSafe`, `SemaphoreFair` (`ServicesProofs`): the counter is the number of holders, at most
  the limit; nobody waits while a slot is free; slots are granted in the order of
  arrival.  The invariant is inductive as stated; `SlotCount` supplies the
  cardinalities.  Assumed: a positive limit, finitely many callers.
- `CallsAreBounded`, `NoLateCall`, `DispatchUsesSemaphores` (`ServicesProofs`):
  for any chain of providers, limits, timeouts and finite set of requests, a
  provider runs no more calls than its limit, no call runs without a slot or
  keeps one after it ended, none starts after the deadline of the chain, and the
  dispatch uses each provider's slots as `Semaphore` allows.  `LlmIInv` has, beside
  the types and `Counted`, that exactly the requests at a provider hold its slot
  (`Held`) and who waits where (`Queued`): a release hands the slot to the head of
  the queue, so the next holder must be known to wait at this provider, once.
  That a timer never outlasts what is left of the deadline carries `NoLateCall`
  over a tick.  The refinement maps a step of one request to a step of the
  semaphore of one provider and a stutter of the others.  Assumed:
  `ServicesAssumption`.
- `WriteAdmissionKeyLocks`, `WriteAdmissionQuota`, `WriteAdmissionOvershoot`: the
  lock on the key's row comes free and, with `REMEMBER_ATOMIC`, no client of a key
  waits in a circle; batches and atomic writes keep the quota; the plain path
  exceeds it by fewer rows than there are requests.  `IInv` is `Local` (types, which locals go
  with which label, who holds the lock at which label), `RoomKept` and
  `CountBounded`.  `RoomKept` is the heart: a transaction that counted has room
  for what it has written and what it has left to write, because nobody else can
  add a row of the key while it holds the key's row, and others can only take
  rows away.  `CountBounded` pays for each request that is past its check
  (`Bold`), so that the excess is below their number.  Assumed: finite sets of
  clients (at least one) and contents, natural limits and margins, and that the
  requests are among those the code accepts.
- `SupersessionTenants`, `SupersessionAnchors`, `SupersessionOrder`: the
  contradiction and supersession stages stay within a key, anchors are never
  merged or compressed, and a `superseded_by` link that no client asked for never
  leads to an older fragment; for any rows, similarities, linkers and requests,
  also where linker runs and outside changes meet, which the run leaves out.
  What a stage read before a language model answered stays usable for three
  reasons, and `IInv` (`RowsFit /\ WorkFits`) says so: an id is used once, so its
  key and its age are fixed (`PairsFit`); a row that was no anchor when it was
  read cannot have been one all along (`MergesFit`); and a stage returns to where
  its list belongs (`Returns`).

- `RetentionAnchors`, `RetentionRecalls`: the cycle spares anchors, and takes no
  row that was recalled within 60 days.  `RIInv` ties the history to the columns
  that the SQL reads: a row that has been an anchor since the stage began is one;
  `accessed_at` is never older than the last recall (every statement that touches
  it sets it to now, none clears it); an access count of zero means that no
  recall counts; and a stage between its two statements holds no row that was an
  anchor when it began.  The second theorem then is a matter of the four branches
  of `deleteExpired`: one asks for 60 days, one for a count of zero, one for 90
  days, the last for a resolved error.  Assumed: `RetentionAssumption`.
- `SessionsRestorable`, `SessionsStayEnded`: every session in the Map has its copy
  in Redis or is past its end, and a closed one comes back only through a handler
  that had read it before; for any ids, handlers, timers, window and restarts.
  `Backed` needs `Current` (no handler goes on with a session it should have found
  expired, else it would save an age past the window) and the second `Settled`
  (nobody else holds what would bring an ended session back); both rest on
  `QueueOK`: Redis answers each waiting handler once.
- `PartsProofs`, one inductive invariant for each component of `Parts`:
  - `RecallSound`, `RecallComplete`: `RecallIInv` says of every recall under way what
    its hits are (rows of a version no older than the question, in scope), that what
    is attached was read since (`Given`) and goes with a row of the answer, and that
    the metadata query's rows, and then the answer, are `Full`: each untouched row
    that matches is among them, or as many matching ones as the limit.  Later layers
    only add rows, and more rows are still full (`FullGrows`).  Assumed:
    `RecallAssumption` and finitely many fragments.
  - `PagesArePartition`: `PagingIInv` says of every cursor that of the fragments
    without a tie those before its offset, in the order of its anchor time, were
    served once and no other was (`Served`).  As the budget has room for all, every
    page finds all of them, and the anchor alone fixes the places of the untied ones,
    whatever the boosts do to the order of the search: those before one in the order
    are the same on every page.  Assumed: `PagingAssumption`.
  - `LinksInGroup`: `createLink` has no check of its own, so `LinksIInv` says that
    what was found may be linked for as long as it waits.
  - `FixesCoverErrors`: `CasesIInv` adds that events come from committed
    fragments only, so none can appear that a fix should have counted before.  An
    error with fewer older ones than the limit (`Few`) is among those that
    `getByCase` reads, and is no longer claimed once it has more.  Assumed:
    `CasesAssumption` and finitely many fragments.
  - `FeedbackIsAccounted`: `FeedbackIInv` ties the next entry of the log to the last
    by the row lock (`RowHeld`) and by the number of raises (`Accounted`: the weight
    is what the last entry left, or more and raised since), and a decay under way to
    those in the log (`OneDecay`, `Noted`).  Assumed: `FeedbackAssumption`.
  - `MarksOutliveRecords`: the record of a reflect in flight has a mark right behind
    it, and Redis answers in order.
  - `MilestonesHangTogether`: `MilestoneIInv` says that what a reflect under way has
    inserted is `Fresh`: it has no edge, is not the last one remembered, and no other
    reflect holds it or is to set an edge from it.  An edge leads to a fresh milestone,
    so it closes no circle and gives nobody a second predecessor.
  - `AuthorizationsGoOnOnce`: inductive once a new family is known to be new.
  - `ToolChangesGranted`: whatever writes by the capability table needs a grant by
    the permission table (`WritersNeedGrants`), so a change comes through a tool that
    was granted, and was no dry run.  The tools that search are granted by what they
    declare (`TracesGranted`), reading for `recall` and `context`, which includes the
    traces they leave.
  - `LimitsHold`: three invariants.  `LimitsIInv` reads the buckets off the history of
    what was let through; `UsageIInv` counts: what was let in is counted, lost or
    about to be counted, and with what has passed its check it stays under the
    bound; `GateIInv` says that lookups and cache give a value the column had when
    they looked.  Assumed: `LimitsAssumption`.
  - `ConsoleActsOnShown`: a dialog keeps the id of the panel whose button opened it.
  - `ConsoleViewsHold`: a painted list comes from a page number and a number of pages
    (`MemoryIInv`), and the buttons around every page fit; the frame that is
    scheduled is the one the slot knows (`GraphIInv`).  Assumed: `PagesAssumption`.

- `ContentProofs`, what an agent is answered (`Answers`).  All three properties are
  about what a loop over a list or a queue computes, so their proofs are inductions:
  - `CutsAreFair`: `CutsIInv` says that what is kept is a cut of a list there may be;
    the rest is about the cuts.  The cost of two disjoint cuts is the sum of their
    costs (`CostOfTwo`); `Take` keeps within its limit, and has the best candidate
    when that fits alone; `Fit` never drops what it begins with and stays within the
    budget unless it adds nothing; half and a quarter leave room for each other
    (`TrimFair`).  Assumed: `CutsAssumption`.
  - `WorkingMemoryBounded`: `ContextIInv` says of the list that it is within its
    limit, or guarded, or somebody who has pushed is still to measure it, or to
    rewrite it; and of every list that waits to be written that it is within the
    limit or guarded.  So whoever of several writers comes last leaves it so, even
    with what it read before the others.  `ShortenedInBudget` is the loop:
    as long as it is above the limit, what it has kept is guarded.  Assumed:
    `ContextAssumption`.
  - `HistoriesExact`: `HistoryIInv` says where the rows, events and links of a call
    come from, however far it is.  `SearchInv` is the breadth-first search: what is
    visited is led to by the root, what a visited one leads to is visited or in the
    queue, the chain is what is visited of the timeline, once each, and the turns
    taken and the links still to follow bound the queue, so that it is empty
    after the last turn (`SearchFinds`).  All that
    leads to a fragment in no chain is the set without a beginning that is asked
    for: a beginning would be a root with a chain (`MissedBehindCycle`).
    Assumed: `HistoryAssumption`: links are between fragments and edges between
    events, as their foreign keys say, and finitely many.
- `BreakerHolds` (`ServicesProofs`): in one process an open breaker closes only when
  its time is over or a call in flight has succeeded, for any callers, threshold and
  durations.  `TypeOK` is the invariant: it bounds the age of the open state by
  its duration, and a window by the threshold.  Assumed: `BreakerAssumption`.

Induction over data.  The induction theorems of the library take a predicate as a
parameter, which the installed provers cannot instantiate.  `ContentProofs`
states the induction in sets instead: `LeastNumber` (a set of naturals that is
not empty has a least one, from the well-foundedness of `<`), hence `Upto` (a set
that has 0 and with each number below N the next one has all up to N), and `Loop`
(for any step function there is a function of all the states of the loop,
`Follows`).  A recursive function of a model is `CHOOSE f : f = ...`: `Loop` shows
that there is one, so the chosen one satisfies its equation, and `Upto` proves the
loop's invariant.

What proofs showed about the models: `Retention` allowed a bound of no queued
jobs, with which a new row had one too many (`RetentionAssumption` now excludes
it), and the waiting list of `LlmDispatch` had to say which entry a time-out takes
out.  `Paging` and `Milestones` said in folds and closures what counts and subsets
say as well; without these their properties could be proved.  `Ranking`,
`ContextMemory` and `History` computed by `RECURSIVE` operators what are loops with
a known number of turns; they are recursive functions now.

## 6. What only TLC checks

Every invariant and every action property of the passing runs has a theorem.  What
remains is

- liveness, which the prover cannot reach: `EventuallySettled`,
  `EventuallyForgotten`, the half of `OpenForItsTime` that lets calls pass again
  (`Recovers`), `AnsweredInTime`, `EventuallyEmbedded` and `ScoresAgain` (with the
  whole of `Reranker`);
- `StatusTellsOutcome` with more than one server: it is false, see above; with faults
  the code promises nothing.

## 7. Where code and documentation disagree

Four runs end in a violation on purpose:

1. **`TenantIsolation`** (`supersession_tenants`).  The `embedding_ready` listener
   calls `linkFragment` without a key (`src/lib/scheduler.js:240`), the key filter
   of a null key is empty, and a fragment is expired as a duplicate of another
   key's fragment.  The linker's comment and the documentation of
   `semantic_dedup` say that candidates are of the same key.
2. **`RetryKeepsOne`** (`write_retry`).  A batch does not store or look up
   `idempotencyKey` (`src/lib/memory/write/BatchRememberProcessor.js:306`): once the fragment
   is amended a retry makes a second one, although the tool's schema calls the key
   safe for retries.
3. **`WorkspacesApart`** (`auto_links`).  `requireSameWorkspace` is read by the
   symbolic gate only, which is off by default and compares a column no row has;
   `docs/configuration.en.md:378` excludes other workspaces from automatic links.
4. **`FixedIsResolved`** (`case_fix`).  A recorded fix points at the error with
   `resolved_by`; `reconstruct_history` counts an error as resolved only by an edge
   that *leaves* it, so no recorded fix resolves an error event
   (`docs/architecture.en.md:870`, `docs/internals.en.md:381`).

Others, met while modelling and kept as notes.

*Writing and quotas*

- `remember` with scope `session` returns before the dry run is looked at
  (`docs/api-reference.en.md:502`).  The comments on `dryRun` of `batch_remember`
  and `memory_consolidate` are not borne out either.
- The cached usage lets a request with more room than the margin pass for ten
  seconds, and a burst in that time with it (`QuotaChecker.js:147`).
- `forget` reads the tier and deletes later (`MemoryRememberer.js:866`): a row
  promoted to permanent in between is deleted without `force`.
- `createLink` replaces the relation of a pair; an upsert does not undelete a link
  deleted softly; the advisory locks of a single link and of a batch are of
  different key spaces.  `linked_to` is symmetric, so `wouldCreateCycle` tests connection;
  `isReachable` stops at depth 20.
- `autoLinkSessionFragments` asks for a schema fit of case and session that its
  rows never have, so it only suggests (`docs/architecture.md:1219`).
- Claims of opposite polarity are never found in conflict
  (`ClaimExtractor.js:161-168`, `ClaimStore.js:160-167`, against
  `docs/configuration.en.md:83`); the assertion check runs before the new claims
  exist, and claims are not extracted again after an amendment.  `patchAssertion`
  can overwrite a later status.

*Forgetting and merging*

- Two linker runs on a pair of duplicates can each expire the other's fragment.
- A comment of `MemoryEvaluator` says that dropped rows are marked false so that
  the cycle can retry them; `_requeueHighEmaLowQuality` takes rows whose mark is
  null, and false bars promotion.
- `docs/architecture.en.md:824` calls the tier `permanent` exempt from decay and
  demotion.  `transitionTTL` paroles permanent rows below 0.5 that were not
  recalled for 180 days, and one that was paroled is charged the decay of the
  whole time since its last decay at once; a preference is promoted and paroled
  in the same pass.  A permanent row that is remembered again with an importance
  below 0.3 goes to the tier `short`.
- `docs/architecture.en.md:807-817` and `docs/internals.en.md:127` describe
  demotion from hot to warm and promotion from cold by recalls; the code has
  neither.
- `CHANGELOG.md:317` mentions a collection of split children; nothing calls
  `FragmentGC.deleteExpired`, and `FragmentWriter.deleteExpired` has no such rule.

*Reading*

- The merge of the layers leaves out fragments that both the index and a later
  layer found (`FragmentSearch.js:1055-1075`, filter at 461; against
  `docs/architecture.en.md:793`) for a free-text recall; `StructuredComplete`
  therefore speaks of the recalls by keyword or topic.
- A recall with a `timeRange` and an affect returns rows of any affect: the
  temporal layer is not told the affect.  The hot cache serves the master only:
  the keys of a group are an array, which `keyNs` rejects.
- `LEARNING:` prefixes are stripped from returned objects only.  A context
  ignores workspace and group for learning fragments and takes anchors of every
  agent; ids already shown hide a row that was amended since
  (`docs/api-reference.en.md:487,701,709`).
- Two writers of a working memory can drop an entry of importance above 0.8 that
  the limit guards: the rewrite is from an older reading.
- `tool_recall` attaches previews of linked fragments without regard to key, agent
  or workspace (`tools/memory.js:203-208`, `LinkedFragmentLoader.js:30-42`): where a
  link leads to another key's fragment, as the links of `embedding_ready` may, the
  first 60 characters of its content are in the answer.  `nearby_context` compares key and agent and no
  workspace.  `Sound` claims scope for the rows themselves and says less of these.
- A recall by keyword or topic reads at most 30 rows of importance 0.1 or more
  (`FragmentSearch.js:711-716`): `StructuredComplete` claims no more.
- The sort before the pages has no tie-breaker (`MemoryRecaller.js:196-199`): ties
  keep the order of the search, which access boosts change from page to page, so a
  tied fragment can come twice or not at all.  `PagesPartition` is about the others.
- If the search's own budget binds, boosts raised by earlier pages can make a
  later page skip a fragment.
- `preloadReranker` falls back to the in-process model although the policy is
  `skip`.
- Edges of the case events never reach the causal chains although a comment says
  so (`HistoryReconstructor.js:244-247`); the `root_id` of a chain may be outside
  the timeline; case events are filtered by the key alone while the timeline
  takes its group; the LIMIT keeps the oldest rows; fragments on or behind a
  causal cycle are in no chain.

*Sessions, cases, feedback*

- Entries pushed to the working memory during a reflect are deleted unseen, and
  items of a batch that failed are lost with it.  An automatic reflect marks the
  session even when it fails; a record of another call under way can wipe the
  mark.
- A fix reads the oldest 100 errors of its case (`CaseEventStore.js:151,193-194`,
  called at `MemoryRememberer.js:671-674`): in a longer case the newest errors, those
  it most likely fixed, get no edge.  `FixCoversErrors` claims the others.
- `reconsolidate` keeps a weight between 0 and 2, a co-retrieval adds 1 without a
  bound (`GraphLinker.js:214`).  The next feedback then lowers it to 2 or less,
  whatever it says.
- `preceded_by` of a case event is the oldest event of the case; two recordings
  at the same time can point at each other (`docs/architecture.en.md:874` calls
  the graph acyclic), and `EpisodeContinuityService` writes the edge in the other
  direction.  Sequence numbers can occur twice; the rewards are computed before
  the evidence of the event that closed the case is in; two remembers can split a
  case.

*Access and surfaces*

- Use resets the Redis TTL of an access token and not the `expires_at` in its
  value, so it does expire (`docs/configuration.en.md:180`); the first refresh
  token of an authorization lives 24 times as long as an access token in its value
  and twice as long in Redis.
- `registerClient` never updates `redirect_uris`; requests with the OAuth token
  of a bound key skip the daily limit; nothing calls
  `invalidateHardGateCache`; the daily limit is read and counted in two queries.
- The limiter of `/session/rotate` counts in fixed windows, up to twice its limit
  in a sliding one.
- `jsonrpc.js:78-90` and `_validateProtocolVersion` (`mcp-handler.js:328-359`)
  treat an unknown version differently (`docs/INSTALL.en.md:489`).  A denied tool
  becomes "Internal error"; a recall under a key that may only read counts accesses
  and raises links (`FragmentSearch.js:219-226`, `MemoryRecaller.js:297-302`), and a
  dry run of `remember` counts accesses by its search for conflicts
  (`ConflictResolver.js:75`); modes filter `tools/list` only; `memory_consolidate`
  is listed for every key and open to the master only.
- Console: the `fragment_limit` of the create dialog is ignored; deleting a group
  and adding or removing a member use the group selected when the dialog is
  confirmed (`groups.js:358,371,384`); a dialog can be confirmed twice; session
  buttons are bound twice; late renders paint over another view (`state.js:73-79`);
  the metrics poll is never unmounted (`admin.js:22`); a stale list appears under
  a newer filter; exports and "view in graph" change the filter and not the page;
  the "groups" figure counts memberships (`keys.js:17`); a graph left behind can
  take the animation slot.

*Services*

- The cooldown after a 429 is stored in a provider instance that lives as long
  as one request, so it never delays another request.
- The timeout of a call ends when the headers are there; a stalled body is left
  to the HTTP client.

## 8. What is not modelled

Left out for good, because they have no state of their own or are pure I/O:
ranking weights, wording and layout of answers, hints, logging and metrics,
numeric services (embeddings, NLI, morphemes), protocols of remote services and
child processes, the updater, the command line, migrations, storage adapters,
resources and prompts.  The legacy SSE transport repeats the sessions without
their restore.

Inside the modelled parts:

- Sessions: several processes sharing the Redis copies; two recoveries with
  different keys; the admin's DELETE of a session that is only in Redis.
- Supersession: the children of a split; popped contradictions lost in a crash.
- Consolidation: the queue that serialises cycles, the morpheme backfill, reports.
- Cases: `CaseRewardBackprop` and the case mode of a recall.
- OAuth: client registration, the consent page, PKCE (checks of one request).
- Tools: prompts, resources, the wording of denials.
- Console: the fragment editor, the server's exports, statistics.

Hazards without a property carry a note in `PROJECT.json` that says why.

## 9. What is left

1. Theorems: nothing that a run checks, apart from liveness; the ownership of the
   children of a split, once they are modelled.
2. Compositions: `Sessions` with `Reflection` (a close waits for its reflect, a
   recovery may overtake it); `Recall` with the rows of `FragmentContent`.
3. Components: the queue of consolidation cycles with a crash between stages;
   the children of a split on top of `Supersession`; two processes on one Redis
   in `Sessions`.

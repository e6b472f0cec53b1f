# Verification of ypricemagic-server

TLA+ modules, TLC configurations and TLAPS proofs for the backend of
ypricemagic-server, an asyncio service that answers token prices, runs its
lookups under admission control, warms up while idle, and drains on SIGTERM,
and for the token lists and the quote form of its browser UI.
Run anything from this directory, for instance
`tlc -config Backend_full.cfg MCBackend` or `tlapm Backend_proofs.tla`.
`PROJECT.json` maps every definition to the lines it models.

## The system

One container runs one backend process for one chain behind a proxy. A request
passes, from the outside in:

    Uvicorn -> DeadlineMiddleware -> handler (/price, /prices, /check_bucket)
            -> parameter parsing -> block resolution -> price cache
            -> LookupSupervisor -> price source (ypricemagic) -> price cache

| Component | State | Operations | Talks to |
|---|---|---|---|
| `LookupSupervisor` (runtime.py) | semaphore, `queued`, `tasks`, `closing` | `run`, cancellation, `_finished`, `cancel`, `close` | `on_active`/`on_idle` pause and resume the warm-up |
| `BackgroundWarmup` (runtime.py) | `task`, `paused`, `closing`, `completed` | `pause`, `resume`, `cancel`, `close`, `_finished` | runs `_background_prewarm`, a TaskGroup |
| lifespan, signal handler, `/health` (server.py) | `ready`, `_shutdown_event`, phase of startup and teardown | startup, SIGTERM, teardown, health check | creates and closes both components above |
| required initialization, `_prewarm_with_shutdown` (server.py) | its tasks, their `gather`, the waiter for the shutdown event | create, wait for either, cancel, join | part of startup; decides whether lifespan goes on |
| `DeadlineMiddleware`, `_watch_client` (runtime.py) | per request: application task, watcher, buffered messages | timeout, disconnect, relaying | cancels the handler, whose cancellation reaches `run` |
| Price cache (cache.py) and its users | entries by token and block, TTL of errors | read, write price, write error, list errors | `/price`, `/prices`, `scripts/retry_failed_prices.py` |
| Price endpoints (server.py) | block, attempts, positions, indices to fetch, calls in flight, answers | resolve, attempt twice, prepare, ask, fill, answer with a status | price source, node, cache |
| Token classification (server.py) | one `asyncio.Lock` per token | acquire, classify, release, cancellation | runs inside a lookup slot |
| Parameter parsing (params.py) | none | two parsers | handlers |
| Redaction, metrics, Sentry, docs, request ids | none that requests depend on | | |
| Token lists (tokenlist.ts, TokenlistModal.svelte) | `_lists`, `_userLists`, `_localTokens`, localStorage, open dialogs | load, toggle, add, import, retry, delete, save a token | the sites of the lists; the quote form adds tokens |
| Quote form (QuoteForm.svelte with Autocomplete, UnknownTokenModal, api.ts, App.svelte) | field, chain, requests in flight, `abortController`, dialog, result, timer | submit, answer the dialog, change token or chain, abort, time out | `/price`, `/check_bucket`, the token index |
| Health polling, forms that are not mounted | indicator | poll | `/health` |
| Deployment and scripts | configuration | | |

Hard in this code: everything runs on one event loop, so there are no data
races, but a request can be cancelled at every `await` (deadline, disconnect,
shutdown), futures that were already granted can be cancelled before their
owner runs, done-callbacks run later than what they report, and the signal
handler runs between any two bytecodes of the main thread. In the browser every
`await` lets the user, timers and other answers in between; indexes and flags
that were read before it may be stale after it. What makes each component
correct:

* admission: permits are conserved, the line is bounded, fair and never stuck,
  work never outlives its request unsupervised, closing stops everything;
* warm-up: it never competes with lookups, is never forgotten, never doubled,
  and called complete only when it is;
* process: it serves only with all it requires; SIGTERM withdraws readiness but
  not accepted lookups; after the teardown nothing runs undisturbed;
* deadline: one response within the budget, whatever hangs, and a whole one
  unless Uvicorn itself cuts it short;
* cache: an entry answers exactly the question it was computed for, and only
  definite results are stored;
* price endpoints: no answer slips to another position, the status of a failure
  tells its cause (and no call of the price source should outlive its slot:
  see the disagreements);
* classification: the lock has one holder, survives cancellation, and waiting
  for it does not stop the lookup permits from turning over;
* parsing: accepted parameters are within the documented bounds, but for the
  timestamps listed under the disagreements;
* token lists: the two lists in memory agree, a change is stored as it is shown,
  and no switch turns a list off that is to stay on;
* quote form: it is never left locked, and what it shows belongs together.

## The modules

| Module | Models | Source |
|---|---|---|
| `AdmissionQueue` | abstract specification of what the supervisor promises | runtime.py 68-138 |
| `LookupSupervisor` | the supervisor, its semaphore and their callbacks | runtime.py 68-138 |
| `BackgroundWarmup` | the warm-up and its task group | runtime.py 18-65, server.py 154-297, 343-357 |
| `Startup` | required initialization and its race with the signal | server.py 300-340 |
| `Backend` | `Startup`, the supervisor and the warm-up, wired by lifespan, with SIGTERM and `/health` | server.py 56-66, 360-388, 409-487, 570-622 |
| `Deadline` | one request in the middleware | runtime.py 141-221 |
| `PriceCache` | overlapping requests and the retry tool over one cache | cache.py, server.py 640-695, 827-981, retry_failed_prices.py |
| `Params` | the parsers as operators (no state) | params.py |
| `Responses` | which status an exception becomes, as operators (no state) | server.py 640-648, 827-852, 982-1013, 1182-1191, 1296-1313 |
| `PriceQuery` | one query from its texts to its response or failure | server.py 698-766, 827-852, 982-1222 |
| `CheckBucket` | the per-token lock | server.py 118-131, 1230-1313 |
| `Classification` | that lock inside the permits of the supervisor | server.py 814-820, 1230-1313 |
| `Tokenlists` | the token lists of one page, and localStorage across reloads | tokenlist.ts 101-129, 300-498, TokenlistModal.svelte 63-338 |
| `QuoteForm` | the quote form and the submit of the page itself | QuoteForm.svelte 79-244, api.ts 12-42, App.svelte 14-42, Autocomplete.svelte 108-132 |

The theorems stand in `LookupSupervisor_proofs`, `Backend_proofs`,
`Deadline_proofs`, `CheckBucket_proofs`, `PriceCache_proofs`,
`PriceQuery_proofs`, `QuoteForm_proofs` and `Tokenlists_proofs`, each over the
module it is named after (`CheckBucket_proofs` also over `Classification`).

`MC...` modules give constants their values for TLC. Definitions commented
"Faulty" are wrong variants of the definition below them; `PROJECT.json` lists,
for every property, one that makes the property fail.

### How actions correspond to the code

An action is what the event loop runs between two suspension points.

*LookupSupervisor.* `pc[r]` says where the coroutine `run()` of request `r`
stands. The semaphore is that of CPython 3.12: a deque of futures, `release()`
hands the permit to the first pending future, and every way out of a suspended
`acquire()` ends with a loop that hands out the permits that are still free
(`WakeUp`). `run()` up to its first `await` is `StartAtOnce` or `Enqueue` (or a
refusal, which changes nothing); resumption is `StartWoken`, `Decline`,
`Leave`, `GiveBack` or `Abort`, by how the await ended; `EndWork` and `Collect`
separate the end of a task from its done-callback. The order of the deque is a
relation (`ahead[r]`: who stands before `r`), because the provers handle sets
better than sequences. Without the loop of `WakeUp` the model loses a wake-up:
a newcomer that finds a permit free behind a woken request waits, and only the
woken request, when it leaves, can wake it. The project requires Python 3.12,
where that loop exists.

*BackgroundWarmup.* `task` is the state of `self.task` (`doomed`: cancelled
before its first step). `callback` is the queued call of `_finished`; a child
that fails has priority over the cancellation of the group, as `TaskGroup`
raises it as an ExceptionGroup, which `_background_prewarm` swallows. The signal
handler runs between the test and the assignment in `resume()`:
`ResumePreempted` and `FinishedPreempted`.

*Startup.* `child` holds the tasks of `prewarm_tasks`, `gather` the task of
`_run_prewarm`, which gathers them, `noticed` the one that waits for the
shutdown event. `Wake` is the return of `asyncio.wait`, the choice of the
outcome (if both are done, the shutdown counts) and the cancellation of what
still runs; `Joined` is the end of the finally block. `gather()` ends with the
first child that raises, whose siblings run on. Before the tasks exist lifespan
connects to the node and reads the head block; that stage (`connecting`) looks at
no event and has no bound of its own.

*Backend.* Instances `L`, `W` and `S` share the module's variables; `Admit` is a
start of the supervisor with `on_active`, `Depart` a step that ends in
`_resume_when_idle`. Startup ends by serving, by failing, or by being overtaken
by the signal before `ready = True` (`StartupPreempted`). A second signal to
Uvicorn (forced exit) skips lifespan's teardown and is not modelled.

*Deadline.* The application may answer, raise, be cancelled, hang, and hang in
its cleanup. `wire` records who wrote each message sent to the client.

*PriceCache.* A price is represented by the kind of question it answers, `spot`
or `quote` (an amount or ignored pools). Between the look and the write a
request waits for the source and then for the block's timestamp; for `/price`
the write happens inside the lookup task, for `/prices` and for error entries in
the handler. Expiry, culling and restarts may happen at any time.

*PriceQuery.* A query is a record of abstract texts (absent, empty, garbage,
nan, inf, a number in tenths, a date). A price is the pair of its token and the
amount it is for. The content of the cache and the outcome of each price are
chosen freely when they are looked at. `Resolve` reads the block's number where
none is given; `Attempt` is one of the two attempts `@retry` allows a single
price; `Ask` begins the lookup of a batch with at most two concurrent calls of
`get_prices`, one for spot prices and one for quotes, which `EndCall`,
`FailCall` and `StopCall` end: a failing call ends `gather()` at once and leaves
the other alone, a cancelled lookup cancels both. `cause` is the exception that
ended the request, `status` what `Responses` makes of it; exceptions are
represented by the classes the handlers test for, in their order.

*CheckBucket.* `asyncio.Lock` with its deque; the locks are keyed by the
spelling of the address as in `_get_token_lock`.

*Classification.* `L` is the supervisor and the variables of `CheckBucket` are
the work inside its tasks. `Begin` is the first step of a task, `Finish` its last,
in which the lock is released; cancelling the lookup cancels the wait for the
lock, and a lookup that waits for a lock keeps its permit.

*Tokenlists.* Entries are objects: `_lists`, `_userLists` and a waiting
`retryList` refer to the same ones, so lists hold positions in `heap`, the
entries of the page. `read` is what `initTokenlists` read before its await;
everything else the user can do happens before it returns as well. `deleting`
and `retrying` keep the indexes that the handlers keep. Indexes count from one.

*QuoteForm.* `at[s]` says where a call of `handleSubmit` stands: in the dialog,
waiting for the headers, reading the body. A handler is one action up to its
first await; the rejections an abort causes are microtasks, so `Settled` guards
every other event (`Rejected` and `Garbled` come first). The page's link may
name a chain and a token, which are chosen when `App.svelte` reads them.

## Runs

| Run | Instance | Shows |
|---|---|---|
| `LookupSupervisor_full` | 4 requests, 2 permits, line of 2; 16064 states | `TypeOK`, `PermitConservation`, `QueueAccounting`, `NoLostWakeup`, `ClosingCancelsAll`, `NoOrphanWork`; everybody leaves the line (`LineMoves`); the supervisor implements `AdmissionQueue` |
| `BackgroundWarmup_cutshort` | 3 prewarms, one may raise; 169 states | violation: a paused warm-up whose head-block read fails is taken for complete |
| `Backend_full` | 2 requests, 1 permit, line of 1, 2 prewarms, one may raise, 2 required prewarms; 35192 states | startup, callbacks, warm-up, signal, teardown and health together: what is required is there before serving, the signal ends startup, the warm-up yields, resumes and is not forgotten, a drain spares lookups, the process comes to rest |
| `Deadline_full` | 2 inbound messages; 2328 states | one response, by one author, never more than whole and whole or none in the end unless Uvicorn cut it short (`OneResponse`), in time, and no orphaned application |
| `PriceCache_safety` | 2 requests, 2 keys | entries and answers match their questions |
| `PriceQuery_answers` | numbers around each bound; batches of up to 3 tokens over 2 addresses, lists of up to 4 segments; every exception; 209289 states | parameters within bounds, answers and amounts at their place, the status of a failure tells its cause (`StatusTellsCause`) |
| `PriceQuery_slot` | the same | violation: when one of the two calls of a batch fails, the other outlives the lookup and its slot |
| `CheckBucket_lock` | 3 requests, 2 permits, line of 1, 2 spellings; 57200 states | inside the permits the lock is exclusive (`LockMatchesHolder`) and never waited for in vain (`WaitEnds`), and the permits turn over although lookups in them wait for one another (`SlotsTurnOver`) |
| `CheckBucket_dedup` | 2 requests, 3 spellings | violation: two spellings of one address are classified together |
| `Tokenlists_full` | 1 URL, 1 file, 1 local token; 2 lists of the user and 5 entries on a page, 1 of them made while it loads; 2 fetches awaited | bundled local lists stay on while the default list is there (`LocalListsStayOn`), `_userLists` agrees with `_lists` (`UserListsAreShown`), localStorage holds what is shown after every write, every change of a loaded page and an undisturbed load (`SavedAsShown`), local tokens in use are stored; 2065266 states |
| `Tokenlists_saved` | the same | violation: the default list, switched off, is stored as on |
| `QuoteForm_full` | 3 submits under way, 2 chains, 2 tokens, each listed on one chain; 321464 states up to symmetry | the form is never left locked; age and result belong together |

Why the bounds are enough. *Supervisor*: with four names over two permits both
hand-overs can be in flight while others wait, a newcomer is refused, and two
orphaned tasks can hold all permits; the safety theorems hold for every number
of requests and any capacity, and so is the refinement, so the small instance
matters for liveness only. *Warm-up*: the group distinguishes children
that may fail from those that may not; one and two of them. *Backend*: with one
permit every start pauses and every end is a hand-over or an idle moment; two
requests produce both; Base has two required prewarms, so that one can hang or
run on while the other fails. *Classification*: three lookups of one token fill
both permits and one more waits in the line, or the line waits behind a lookup
that waits for a lock. *Cache*: two keys make a batch mix hits and misses, two
requests make lookups of one key overlap. *Batch*: three positions over two
tokens repeat a token and put a position between a hit and a quote; a third
call of the price source does not exist. *Token
lists*: one URL is retried twice at once, added twice at once, or retried while
the file's list is deleted; five entries are a page with both, or one with a
retried list. *Quote form*: one call in the dialog, one left in flight by a
dialog answered late, and the latest. `CHECK_DEADLOCK
FALSE` is set where the modelled thing stops: a closed supervisor, an exited
process, a request that is over, an exhausted query.

### Fairness

* The event loop runs what is ready: weak fairness of resumptions and callbacks.
* `LookupSupervisor`: a *running* request is cancelled at its deadline if its
  lookup does not end (`DeadlineMiddleware` cancels it), and a task whose
  cancellation was requested ends. A waiting request is not assumed to be
  cancelled, so `LineMoves` rests on the lookups before it alone.
* `BackgroundWarmup`: a cancelled prewarm ends; one nobody cancels may run for
  ever. Nothing obliges anyone to resume.
* `Backend`: in addition the teardown proceeds, each of its waits being bounded
  (Uvicorn's graceful timeout, five seconds in each `close()`), and a required
  prewarm that is cancelled ends. Connecting, and a prewarm nobody cancels, may
  last for ever, so `SignalAbortsStartup` speaks of the time after connecting.
* `Deadline`: the application owes nothing; the timer is not assumed to fire.
* `Classification`: only a lookup that holds a lock is assumed to meet its
  deadline, and what is cancelled ends; neither the line nor a lookup that waits
  for a lock is assumed to be cancelled.
* `Tokenlists`, `QuoteForm`: none. A body that has begun may be read for ever
  (api.ts:22 clears the timer when the headers arrive), so no liveness of the
  form is claimed.

## Proofs

Each theorem holds for every value of the constants that satisfies the named
assumptions, by an inductive invariant `IInv` (except where another argument is
given): a lemma `InitIInv`, lemmas for the actions that have most to show, and
`NextIInv`. The runs check the same properties, under the same names, except
`FirstIsTold`, `LookupsAtLocks` and `LocksWithinPermits`, which are stated beside
their proofs, `InvalidTimesRejectedButFor`, which is about the parser alone, and
the theorems that carry a result of the supervisor over to
`Backend` and `Classification`.

| Module | Theorem | Statement |
|---|---|---|
| `LookupSupervisor_proofs` | `Invariance` | `Spec => []IInv` |
| | `TypeCorrect` | `Spec => []TypeOK` |
| | `PermitsConserved` | `Spec => []PermitConservation` |
| | `QueueAccounted` | `Spec => []QueueAccounting` |
| | `WakeupsNotLost` | `Spec => []NoLostWakeup` |
| | `NothingRunsUnowned` | `Spec => []NoOrphanWork` |
| | `ClosingStopsAll` | `Spec => []ClosingCancelsAll` |
| | `OrderKept` | `Spec => []DequeOrder` |
| | `Implements` | `Spec => ImplementsAdmissionQueue` |
| `Backend_proofs` | `StartupSettles` | `Spec => []StartupSettled` |
| | `WarmupAlwaysYields` | `Spec => []WarmupYields` |
| | `IdleResumes` | `Spec => []IdleMeansResumed` |
| | `Remembers` | `Spec => []ResumeRemembered` |
| | `ExitsQuietly` | `Spec => []ExitIsQuiet` |
| | `HealthyServes` | `Spec => HealthyMeansServing` |
| | `DrainSpares` | `Spec => DrainKeepsLookups` |
| | `LookupsStaySound` | `Spec => [](L!PermitConservation /\ L!NoOrphanWork)` |
| | `AdmitsInOrder` | `Spec => LP!ImplementsAdmissionQueue` |
| `Deadline_proofs` | `OneAuthor` | `Spec => []OneResponse` |
| | `EveryoneAnswered` | `Spec => []Answered` |
| | `NoAppOrphaned` | `Spec => []NoOrphanApp` |
| `CheckBucket_proofs` | `LockExcludes` | `Spec => []LockMatchesHolder` |
| | `LockHandedOn` | `Spec => []FirstIsTold` |
| | `LockExcludesInSlots` | `SlotSpec => []LockMatchesHolder` |
| | `LockHandedOnInSlots` | `SlotSpec => []FirstIsTold` |
| | `SlotsStaySound` | `SlotSpec => [](LookupsAtLocks /\ LocksWithinPermits /\ L!PermitConservation /\ L!NoLostWakeup)` |
| | `AdmitsClassifications` | `SlotSpec => LP!ImplementsAdmissionQueue` |
| `PriceCache_proofs` | `SpotPricesOnly` | `Spec => []OnlySpotPrices` |
| | `ResponsesMatch` | `Spec => []AnswersMatch` |
| | `OnlyDefiniteResults` | `Spec => DefiniteResultsOnly` |
| `PriceQuery_proofs` | `StatusFits` | `Spec => []StatusTellsCause` |
| | `InvalidTimesRejectedButFor` | for every text and clock: what `parse_timestamp` rejects, and what slips through |
| | `TypeCorrect` | `Spec => []TypeOK` |
| | `AmountsMatched` | `Spec => []AmountsKeepPlace` |
| | `PositionsKept` | `Spec => []EveryPositionItsOwn` |
| | `StoredAsReported` | `Spec => []StoresWhatItReports` |
| `QuoteForm_proofs` | `NeverLeftLocked` | `Spec => []LockedMeansFetching` |
| | `AgeFits` | `Spec => []AgeIsOfResult` |
| `Tokenlists_proofs` | `LocalListsOn` | `Spec => []LocalListsStayOn` |
| | `UserListsShown` | `Spec => []UserListsAreShown` |
| | `ChangesSaved` | `Spec => SavedAsShown` |
| | `LocalTokensStored` | `Spec => []LocalTokensSaved` |

*Supervisor* (`RequestsFinite`, `CapacityAssumption`). None of the properties is
inductive alone. Permits are conserved only if a request that was handed one has
no task yet; the number of permits in the pool stays within bounds only by
conservation; the line stays within its bound only if `queued` is its size; and
no wake-up is lost only together with the fact that the order of the deque has no
cycle among the waiting, so that there is a first one to wake. `IInv` is the
conjunction of the typing, the two accounts, `NoLostWakeup`, ownership of the
tasks and these facts. The four ways out of the line share `LeaveLineEffect` and
`PassOnIInv`. Cardinalities go through four lemmas (`CardNat`, `CardAdd`,
`CardRemove`, `CardUnion`) over the library's `FiniteSetTheorems`.

*Refinement.* `DequeOrder` is added to `IInv`: the deque is a strict order in
which requests with a permit stand before those without. From it the first
request woken is the first of the abstract line, whatever was cancelled between
the hand-over and the resumption (`LeaveLineOrder`), and from conservation an
admission always finds room among the abstract lookups (`TasksBounded`).
`InitRefines` maps the initial states, and `NextRefines`, action by action, every
step to a step of `AdmissionQueue` or a stutter.

*Backend* (`LookupAssumption`). Every step of the process is
a step of the supervisor or leaves it alone (`SameNext` and its siblings match
the two instances), so the supervisor's `IInv` is inherited. The invariant adds
what must have been done in each phase (`Phased`), how far required
initialization is (`Started`: an outcome `ok` means that every child is done) and
how warm-up and lookups stand to each other (`Warm`). `StepKinds` sorts the steps
by what they mean for the warm-up before `WarmStep` treats each kind. The warm-up
yields in every phase, because a lookup task implies that it is paused: whoever
resumes it, even with the signal inside `resume()`, has found no lookup task, and
a callback that would start it again finds it paused.
`HealthyServes` and `DrainSpares` are about steps and use the invariant as
context. Since every step is one of the supervisor's or leaves it alone, the
process as a whole implements `AdmissionQueue`, too (`AdmitsInOrder`).

*Deadline* (no assumption). For each place in `__call__` the invariant says
by whom, and how much, has been sent (`Sent`): a whole response or none, once the
middleware leaves on its own account, and at most a whole one if Uvicorn's
cancellation takes it out of the sending. A cancelled application that
still writes fills a buffer nobody sends, which is why the author never changes.

*Lock* (no assumption). `release()` promises the lock to one
waiter and clears it; between the two a newcomer may arrive. The invariant says
that the promise belongs to the first of a deque whose lock is free (`Promised`)
and that a deque is a line (`InOrder`). `FirstIsTold` is the safety under the
liveness `WaitEnds`: at a lock that nobody holds the first of the deque has been
told, or leaves and will tell the next. `LockExcludesInSlots` follows without a
second invariant: each step of `Classification` is a step of `CheckBucket` or
leaves its variables alone (`SlotStep`). It is likewise a step of the supervisor
or leaves that alone (`SlotLookupStep`, with `SlotAssumption` for the capacity),
so both invariants hold and `AdmitsClassifications` follows. What neither half
says is `LookupsAtLocks`: a request at a lock is a lookup whose task has not
ended, and it waits undisturbed only if the lookup has not been cancelled. With
the conservation of permits, no more requests hold a lock or wait for one than
there are permits (`LocksWithinPermits`).

*Cache* (no assumption). A request carries what it got across two awaits, so the
invariant adds that what it got is what it asked for (`GotWanted`) and that who
is about to write a failure got nothing (`MissedNothing`).

*Price endpoints* (`BoundsAssumption`; `QueriesAssumption`, which gives the kinds
of the texts of a query and nothing of their values). `StatusTellsCause` is
inductive as it stands: the status is computed in the step that ends the request,
so each such step is compared with the classes of its exception, including the
overlaps (a timeout is an `OSError`); that the exceptions of a batch's calls are
among those the handlers know follows from the actions (`CallsFromAsk`).
`InvalidTimesRejectedButFor` is a statement about the parser: it rejects exactly
the invalid times, with the exceptions listed under the disagreements.

*Batches* rest on what the positions are. A list comprehension with a condition
keeps positions in order; `IndicesOf` numbers each by how many stand before it.
That these ranks are all different and use every number below their count
(`RankGrows`, `RanksTaken`) follows from cardinalities alone, by an injection
between sets of one size, and takes the place of an induction over the list.
From it: `Counted` (the positions upwards, none missing), `Dropped` (a list has
its own length without its empty segments only if it has none, so that amounts
and tokens written side by side stay so) and `Adapted` (what
`_lookup_batch_prices` puts back together is what one call with all amounts would
answer). The invariant `BatchInv` says when what may be filled (`Ordered`), that
a position without an answer is among those to fetch, and that a fetched price is
for the token and the amount of its position (`Placed`). `Filled` then shows
that the response and the cache get the same prices.

*Quote form* (`FormAssumption`). A form is locked only with a call that will
unlock it: a dialog shown again drops the call it was shown for without its
finally, which is harmless only because that call has sent nothing (`Showing`).

*Token lists* (`SourceAssumption`). The handlers search, insert and remove by
position in two sequences at once, with indexes that may be stale. Each operation
is described position by position (`Removed`, `Inserted`, `FirstRemoved`) and then
by what it does to the range and to the absence of duplicates (`RemovedRange`,
`PlacedRange`, `AppendedRange`); the first position that `findIndex` would
return is a least element, which the library's well-foundedness of `Nat` gives.
The invariant adds to the three properties that the default list, as long as it is
there, stands before the other bundled ones, which share its key, so that the
switch of that key always hits the default list (`DefaultFirst`); that only lists
of the user can have failed or be retried, and only after loading (`Failures`);
and that tokens in use before loading are this page's own or none (`TokensKept`).
`ChangesSaved` is about steps; it needs that a page on which nothing was entered
while it loads has read what is stored (`LeftAlone`).

Only model-checked: liveness (`LineMoves`, `IdleMeansWarming`,
`ShutdownQuiesces`, `SignalAbortsStartup`, `MeetsDeadline`, `DepartureStopsApp`,
`WaitEnds`, `SlotsTurnOver`), which is outside the prover's reach, and the four
runs that show a violation. Every invariant and every action property of the
passing runs is a theorem.

## Disagreements found

1. `BackgroundWarmup_cutshort`: server.py:166 may raise while the group is being
   cancelled; the task then ends uncancelled and counts as completed.
2. `CheckBucket_dedup`: server.py:129 keys locks by spelling, although
   concurrent calls "for the same token address" are said to be deduplicated.
3. `PriceQuery_slot`: server.py:716 ends a lookup with the first of its two calls
   that fails; the other runs on after the slot is returned, although "lookup work
   retains its active slot until cleanup completes"
   (docs/validation/2026-10-01-pricing-repair.md:39-40, likewise runtime.py:69).
   After a cancellation, too, the lookup ends with the first of the calls that has
   cleaned up.
4. `Tokenlists_saved`: tokenlist.ts:314 stores one state for the three bundled
   lists, the last of which is always on, although the default list is to be "on
   unless explicitly disabled".

Three more have no run of their own:

5. params.py:137-140 accepts 0.5 as a timestamp and makes it zero, and raises on
   nan and inf, although `parse_timestamp` documents them as rejected
   (params.py:105-112). The theorem `InvalidTimesRejectedButFor` shows that these
   are all.
6. The confirmation of a deletion keeps an index (TokenlistModal.svelte:210). Opened
   while the page loads and answered afterwards, it can remove the default list,
   which has no delete button and is "bundled and always available"
   (README.md:234); then the next switch of a bundled list turns off the built-in
   pair tokens, which are "always enabled" (tokenlist.ts:351). `LocalListsStayOn`
   holds only as long as the default list is there, and says so.
7. A list added while `initTokenlists` awaits its fetches replaces the stored ones
   (tokenlist.ts:491 is the same for tokens), and the end of the load shows those
   it had read without the new one: memory and storage differ until the next
   change, although `_userLists` is said to be "persisted to localStorage"
   (tokenlist.ts:106). `SavedAsShown` leaves out this end of a load.

Behaviour that no source line forbids but a reader should know, each a hazard in
`PROJECT.json`: a signal inside `resume()` lets the warm-up run on after
it, until a lookup is admitted or the teardown begins (runtime.py:35); an error entry is written over a price stored meanwhile
(server.py:949); a token saved while the lists load erases the stored ones
(tokenlist.ts:491); an index taken before an await deletes another list than the
one meant (TokenlistModal.svelte:210, 222), which the properties of the token
lists allow as long as it goes from both lists and from localStorage; an aborted
request unlocks the form while a newer one is in flight (QuoteForm.svelte:214); a
dialog answered late leaves two requests in flight (QuoteForm.svelte:107); the
signal is not looked at while the process connects (server.py:441); two lookups
of one token can occupy both permits although only one works (server.py:1250).

## Not modelled

* Redaction and log formatting (logger.py), metrics, Sentry, static
  documentation and request ids keep no state that a request depends on.
* The contents of the prewarms, the value of a block's timestamp, and opening
  and closing the cache handle: data or library calls without control of their
  own. Connecting is one stage that ends or fails.
* `parse_bool_param`, which no endpoint uses, and `params.py`'s messages.
* `scripts/validate_prices.py`, the benchmark and the test scripts: sequential
  clients that print tables; they keep no state and the system does not depend on
  them. The retry tool, which writes to the cache, is in `PriceCache`.
* Of the frontend the search index, the custom pairs (which no component saves),
  the health polling and the two forms that `App.svelte` does not mount.
* Deployment: proxy and container configuration.

## Plan

1. `QuoteForm` composed with `Tokenlists` over the token index, which the form
   reads while lists load; the health polling, whose late answer for the previous
   chain overwrites a newer one.
2. `Deadline` as the source of the cancellations of `LookupSupervisor`.
3. `PriceQuery` as the work of a lookup of `LookupSupervisor`, so that the calls
   left behind by a failed sibling are counted against the permits.

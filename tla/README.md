# Content delivery pod: specification, model checking, proofs

This directory specifies the behaviour of the CMS delivery service of this
repository (`src/cmd/server`), checks it with TLC on small instances and proves
the properties that matter most with TLAPS for every instance. Every definition
is a translation of code; `PROJECT.json` ("map") names the lines of each. Paths
below are relative to the repository root; `S` stands for
`cmd/server/service/cms_delivery_service.go` and `U` for
`cmd/server/service/cms_delivery_user_attrs.go`.

## 1. The system

A delivery pod answers "which content does this customer see at these
placements now". Schedules, their occurrences and decision rules live in
PostgreSQL and are edited by a back office that is not part of this repository.
A pod mirrors what is active in memory and answers from the mirror. The mirror
is refreshed by a ticker (every 5 minutes by default), by sync pings on a Redis
Pub/Sub channel, and by requests that find it stale or empty. There is no lock
around any of it: each of the maps is safe for concurrent use, but the four of them
together are not.

| Component (code) | State | Operations | Interacts with |
|---|---|---|---|
| Refresh (`S` 812-967, `UpdateSchedules` 65-136) | four maps: `Schedules`, `DecisionRule`, `VersionHashes`, `LastSync` | full and targeted `evaluate`, orphan pruning | reads PostgreSQL; called by ticker, subscriber, requests, flush |
| Ticker and subscriber (`S` 794-810, 986-1082) | the ping being handled | tick; receive, skip, invalidate and refresh | Redis Pub/Sub (`pubsub/cms_sync.go`, `redis_repository.go`), refresh |
| Content request (`S` 394-579) | what the request has looked up, missed and fetched | staleness check, self-heal, retry, rule attachment and backfill, personalisation | mirror (reads, and writes through shared pointers), refresh, profile, evaluator |
| Flush endpoint (`S` 337-383) | none | full or selective flush, with or without reload | mirror, refresh |
| In-memory cache (`cache/memory.go`, `cache/monitor.go`) | items with TTL; `isUnderPressure` | Get, Set (refuses new keys under pressure), Delete, Flush | heap monitor goroutine |
| Lifecycle (`S` 721-810, 986-1082) | `running`, `stopCh`, `done`, `subDone`, contexts and cancel functions | Start (with warm-up), Stop | starts and ends ticker and subscriber; called by fx, whose hooks close Redis and the pool afterwards |
| Customer attributes (`U`) | the profile envelope in Redis; two caches that live as long as the process | resolve, fetch the missing part, write back, translate to UUIDs | profile client (CLEN), schema and attribute tables, Redis |
| Condition evaluator (`cmd/server/internal/evaluator`) | none | validation, tree, connectors, sentinels, comparators, canonical expression | customer attributes |
| Placement evaluation and ranking (`S` 544-579, `cmd/server/internal/evaluator`) | one result slot per placement | entries per variation, expansion with leads, sort, merge, page | evaluator, lead client |
| Admission (`internal/delivery/http/middleware`) | semaphore, rate bucket | rate limit, concurrency limit, timeout | HTTP server |
| Handlers, DTOs, clients, configuration, wiring, scripts | none of their own | parsing, one call each | |

What is hard about it, and what makes each component correct:

* **Refresh.** Several goroutines run `evaluate` at once; each reads the database,
  then writes four maps one after the other, so an earlier read may be written
  later and maps may describe different reads. Correct means: the recorded
  version of a placement is that of its mirrored schedules; content that is
  mirrored is vouched for by a version and a sync time; a failing query, or a
  lack of memory, never removes what the database still offers; a targeted
  refresh leaves other placements alone; and once edits cease the mirror becomes
  equal to the database.
* **Ticker and subscriber.** A ping may be lost, late, about an old version, or
  interleaved with refreshes by others; the "already mirrored" test is made on
  the version map while an invalidation deletes other maps only. Correct means: a ping is
  ignored only when what it announces is mirrored; a rule it names is not
  evaluated in its old version afterwards.
* **Content request.** It reads the sync time, then the schedules, then rules, with
  a refresh and two queries in between, and writes rules into objects that
  other requests and the mirror share. Correct means: it always ends; it fails only when the
  mirror cannot be verified; on its retry it finds what the database shows; it drops
  a schedule only if its rule is really gone.
* **Flush.** Removes keys under running refreshes and requests. Correct means:
  the invariants above survive it.
* **Cache.** Refusal of new keys under pressure is silent, so one map may
  accept a placement that another refuses.
* **Lifecycle.** `Start` holds the mutex during a database query, the subscriber
  creates `subDone` itself, `Stop` reads it without the lock. Correct means:
  at most one pair of goroutines runs, `Stop` returns, and when it has returned
  nothing refreshes any more.
* **Customer attributes.** The envelope written back holds only what the last
  call fetched; concurrent requests overwrite it, and table rows are kept for ever. Correct
  means: whatever the others write, a request whose own calls succeed hands over
  every attribute CLEN offers of the schemas it touches, and forgets none that it read.
* **Condition evaluator.** Recursive trees given as flat rows, with a depth cap,
  mixed nodes, and values that stand for "any", "none" or a list. Correct
  means: the answer of a tree is that of the formula it stands for; an absent
  attribute matches nothing that does not ask for absence. A comment claims of a rule's
  canonical expression that it identifies the rule; it does not (section 3).
* **Placement evaluation.** Goroutines end in any order. Correct means:
  the page lists every entry that is due as often as it is due, in order, and
  offers the customer only their own leads.
* **Admission.** A blocking semaphore in front of a timeout. Correct means: slots
  are returned on every path and waiting ends.

The `hazards` of `PROJECT.json` list these at their lines, with the property that
watches each of them.

## 2. Modules

| Module | What it is |
|---|---|
| `Mirror` | refresh, ticker, subscriber, requests up to the schedules they evaluate, flush, cache and database |
| `Replica` | what the pod promises of its copies: they come and go with what its refreshes saw |
| `MCMirror` | instances of `Mirror` for TLC; one `.cfg` per run |
| `MirrorProofs` | theorems about `Mirror` |
| `Lifecycle`, `LifecycleProofs` | Start and Stop, the loop, the subscriber and its forwarder; theorems |
| `CustomerProfile`, `MCCustomerProfile` | the attributes of one customer under concurrent requests; instances |
| `CustomerProfileProofs`, `CustomerProfileCalls` | theorems about what a request knows; how often CLEN is called |
| `Conditions`, `MCConditions`, `ConditionsProofs` | what a rule decides about a customer, and the canonical expression that is hashed; instances; theorems |
| `Delivery`, `MCDelivery` | a request from the socket to the reply; instances |
| `DeliveryProofs`, `DeliveryPages` | theorems about admission; about the pages |
| `Recursion` | induction over the natural numbers, and that recursive functions and folds satisfy their equations: the lemmas `ConditionsProofs` and `DeliveryPages` rest on |

`Mirror` and `Lifecycle` describe the same two background goroutines from two sides:
`Mirror` what they do to the maps while they run, `Lifecycle` when they run at all, with
a refresh as one state of each. `Delivery` takes what `Mirror` says of loading (any placement
may hit, miss or come back), what `CustomerProfile` says of attributes (a class
of customers) and what `Conditions` says of a variation (passes or not for
a class) as nondeterministic or constant outcomes. Composing them in one state space would multiply states that
share no variable but these outcomes.

### Mirror: state

| Variable | Code |
|---|---|
| `active`, `hidden`, `upd`, `ruleVer`, `edits` | the tables: schedules with an active occurrence of an active rule, soft-deleted schedules, `schedules.updated_at`, the content of each rule row; a counter for the bound |
| `inbox`, `pings`, `fails`, `pressure` | the subscriber's channel; counters for the bounds; `MemoryMonitor.isUnderPressure` |
| `sched`, `rules`, `vers`, `sync` | `MemoryCache.Schedules`, `.DecisionRule`, `.VersionHashes`, `.LastSync` |
| `heap` | the schedule objects: the mirror and requests hold pointers to them, and requests write `DecisionRule` through those pointers |
| `pc`, `scope`, `cont`, `asked`, `snap`, `fetched`, `msg`, `todo`, `cur`, `missed`, `held` | where each goroutine is and its local variables |

A batch of `heap` is what one `evaluate` loaded. `sched[p]` names the batch whose
objects the placement's key holds; `Group` selects those of the placement. A
batch nobody reaches is freed (Go's collector), so that `Gen`, the set of batch
identities, stays small. At most three batches are alive when one is loaded in
the instances below, so four identities are enough: `Gen \ Live # {}` held wherever `pc[g] = "load"`
when checked as an invariant of each passing run.

### Mirror: actions

| Action | Code |
|---|---|
| `ListOccurrences`, `LoadSchedules`, `ListFails`, `ClearPlacement` | the two occurrence queries and their error, the empty results (`S` 817-897, `schedule_occurrence_repository.go` 148-202) |
| `FetchRules`, `FetchRulesFails` | the rule query (`S` 905-936); on an error evaluate goes on without rules |
| `SyncSchedules`, `SyncRules`, `SyncVersions`, `SyncLastSync` | the four parts of `UpdateSchedules` |
| `SetPlacement`, `SetRules`, `PruneOrphanedRules` | the targeted writes |
| `Tick` | `runLoop` |
| `ReceivePing`, `SkipPing`, `HandlePing` | `subscribeToUpdates` before and after its jitter |
| `StartRequest`, `FindSchedules`, `SelfHeal`, `Healed`, `FailRequest`, `LookedUp`, `RetryMissed` | the lookup loop of `GetPersonalizedContent`, its self-heal, its one retry |
| `AttachRules`, `FetchMissedRules`, `FetchMissedFails`, `Backfill`, `Serve` | the rules of the objects found, and the filter |
| `FlushAll`, `FlushPlacements` | `FlushCache` |
| `OpenOrCloseWindow`, `EditSchedule`, `EditRule`, `SoftDelete`, `SoftDeleteRule`, `Publish` | the back office, outside the repository |
| `Monitor`, `Age`, `Expire`, `ExpireRule` | heap monitor, staleness threshold, TTL |

A goroutine calls `evaluate` by moving to `list` with `cont` as its return
address. `Duties` says which goroutines tick, subscribe, serve requests or
flush, so that the same module describes a serial service and any concurrent
one.

### What is abstracted

* One step is one query, or the cache writes between two points where another
  goroutine could make a difference at the level of whole maps. The loop of
  `UpdateSchedules` over the keys of one map is one step; its four maps are four
  steps. The targeted writes of one placement
  (`SetPlacement`, `S` 940-955), the subscriber's two deletions with its call of `evaluate`
  (`HandlePing`, `S` 1064-1078), and the emptying of the four maps by a flush (`FlushAll`, `S` 337-352)
  are one step each; between those writes no query is made and no lock is taken, but another goroutine could run.
* A placement hash is the set of its schedule IDs with their `UpdatedAt`. The code
  concatenates them in row order and hashes with SHA-256; the model is insensitive to row
  order (the query has no `ORDER BY`, so equal contents may hash
  differently in the code, which costs a refresh and nothing else) and free of collisions.
* `PlacementOf` and `RuleOf` are fixed: schedules are not moved to other placements or
  rules. Contents of schedules and rules are version numbers.
* `Faults` says what time and memory may do in an instance: `age` lets sync times become stale,
  `expiry` lets keys expire, `pressure` lets the heap monitor change its mind.
  The keys of a placement expire together, after their sync time has become
  stale (TTL 15 minutes, threshold twice the tick of 5 minutes). `Age` is not
  possible between the stamp of a self-heal and the check that follows it:
  the threshold is minutes, the check is microseconds later.
* A request asks for a nonempty set of placements, and looks them up in any
  order (the code takes them in the order given). It is followed up to the set
  of schedules it evaluates; the personalisation of that set is another component.
* A ping dropped by a full channel, or lost by a failed subscription, is a ping not
  published. A message that is not JSON is a ping without any field.

### Lifecycle

fx calls `Start` and `Stop` from one goroutine. Each `Start` that launches anything is a
generation; channels, contexts and goroutines bear its number, and a field of
the service holds the number of what it points to.

| Variable or action | Code |
|---|---|
| `running`, `stopCh`, `done`, `bgCancel`, `subCtx`, `subDone`, `mutex` | the fields of the service (`S` 199-213) |
| `Start`, `Launch` | `Start` up to the warm-up, which runs with the mutex held, and after it |
| `Stop`, `StopSeesLoopEnd`, `StopSeesSubscriberEnd` | `Stop` up to its first wait, and its two waits; `subDone` is read without the lock in between |
| `CloseStores` | the other OnStop hooks of fx |
| `LoopBegin`, `LoopTick`, `LoopEvaluated`, `LoopEnd` | `runLoop`; the argument of its deferred `close` is evaluated when it begins |
| `SubscriberBegin`, `SubscriberDefer`, `Subscribe`, `SubscribeFails` | `subscribeToUpdates` up to its loop |
| `SubscriberReceive`, `SubscriberJitter`, `SubscriberEvaluated`, `SubscriberCancelled`, `SubscriberClosed` | its loop; every `select` reads the context field again |
| `Forward`, `ForwarderEnd` | the forwarding goroutine (`redis_repository.go`), which drops pings when the buffer is full |

Closing a channel twice panics: `crashed` stops the model. One order of steps reaches it: `Stop`
returns before the subscriber has run, `Start` is called again, and both
subscribers defer the close of the newer channel. fx starts a service once, so the
liveness properties allow for the panic instead of excluding the restart; the safety
properties hold in the state it leaves as well.
`Stop` may return before a late subscriber has
ended, because `subDone` is nil until the subscriber has run; so no property says that `Stop` waits
for the subscriber, and `NothingLeft` says that it ends all the same.

### CustomerProfile

| Variable or action | Code |
|---|---|
| `envelope` | the JSON under the customer's key in Redis, as the set of facts (datasource, field) it carries |
| `memo` | `schemaFieldsCache` and `attrFieldToUUIDByDsCache` |
| `scope`, `cached`, `known`, `got`, `view`, `resolved` | local variables of `resolveUserAttrs` and what it calls |
| `Ask` | the read of the key, and its failure |
| `LookupCached`, `LookupQuery`, `Keep`, `LookupFails`, `Extracted` | `extractCLENDataSources`, `lookupSchemaFields`, `lookupAttributeUUIDs` |
| `FetchAnswered`, `FetchFails` | the CLEN call of `enrichCustomerProfile`, answered for some datasources or failed |
| `Set` | the write-back, which may fail, and the merge |
| `Transform`, `Return`, `Leave` | `transformToUUIDKeyed` and the end of the request |
| `Expire`, `Edit` | the TTL of the key; the back office edits a table row |

Values are not told apart: a property about an attribute is about whether it is there.
`faults`, `calls`, `asked`, `hurt` and `carried` are history and appear in no
guard other than the fault bound.

### Conditions

The state is one rule, and the values its variation expects. A save changes at most `MaxChanged`
conditions, or one expected value; either way the reachable states are all the rules within the bounds, and
`MaxChanged` bounds which two rules a step relates.
`Evaluate` is `EvaluateLogicConditions`: `Valid` (`ValidateConditionTree`), `Group`,
`Chain` and `NodeValue` (tree, siblings with AND before OR, depth cap), `Single`
(one check: `Sentinel`, `MatchList`, `CompareValues`). `BuildLogicExpression` is the
text `GenerateLogicHash` hashes, as a sequence of tokens. Against it stand
reference definitions that share nothing with the code's folds: `Joined`, `SomeRunHolds` and
`Holding` read a rule as sets. Values are numbers, with 0 for what a JSON null decodes to,
`Garbage` for what does not decode and `v + Blank` for a text with blanks around it.

### Delivery

| Variable or action | Code |
|---|---|
| `tokens`, `Arrive`, `Refill` | the rate limiter |
| `slots`, `waiting`, `Acquire`, `Release` | `ConcurrencyMiddleware`: a buffered channel; its blocked senders are served first come first served, and a receive hands the slot over |
| `Bind` | `ShouldBindQuery` and its two kinds of failure in `getContent` |
| `Load` | the part of `GetPersonalizedContent` that `Mirror` details: each named placement's schedules appended a number of times, some lost for want of a rule, or an error |
| `FetchLeads` | `fetchLeadsForRequest` and `GetLeads` |
| `Launch`, `Finish`, `Collect` | the `errgroup` with its limit, one slot of `results` per placement, `Wait`, merge and page |
| `Entries`, `ExpandWithLeads`, `Rank`, `Evaluate` | `LocalEvaluator.Evaluate`, lead expansion, and `sort.Slice`, which is not stable and promises nothing once a score is NaN |

The timeout starts once the slot is taken and only ends a context that outgoing calls look at, so it
shows as their failure; a request waiting for a slot is not subject to it.

## 3. What TLC checks

| Run | Instance | Shows |
|---|---|---|
| `serial` | 2 placements, 2 schedules, one rule, one goroutine with every duty, 2 edits, 1 ping; 1.4 million states | `TypeOK`, `VersionDescribesMirror`, `MirrorVouchedFor`, `SkipMeansMirrored`, `TargetedLeavesOthersAlone`, `ResponseIsComplete`: what the mirror guarantees as long as refreshes do not overlap, and that a flush of one placement, which takes the shared rule, costs the other nothing |
| `deployed` | one placement; ticker or subscriber on one goroutine, subscriber or request on the other; 1 edit or soft delete, 1 ping; 0.4 million states, with fairness | `MirrorConverges`, `MirrorIsReplica`, `MissIsRetried`, `SkipsLoseNothing` |
| `faults` | one placement; the subscriber on one goroutine, requests and flushes on the other, with staleness, expiry, pressure, a ping and a failing query, over an unchanged database; 0.3 million states, with fairness | `ResponseIsComplete`, `OutageKeepsContent`, `SelfHealSettlesStaleness`, `RequestAnswered` |
| `lifecycle` | 2 generations, a buffer of 1 ping; 48 thousand states, with fairness | `TypeOK`, `OneLoop`, `StopWaitsForLoop`, `StopReturns`, `NothingLeft`, `TickerSurvives` |
| `profile` | 2 concurrent requests, 2 datasources of 3 and 1 fields, 2 scopes, 1 edit of a schema or attribute row, 1 failing call; 3.4 million states, requests symmetric | `TypeOK`, `NothingDropped`, `ExtrasResolved`, `MemoReal`, `CallsBounded` |
| `conditions` | every rule of up to 4 conditions built from the pieces of `MCConditions`, and every type, operator and expected value on a single one; 43 thousand rules | `DecidesAsWritten`, `AbsentNeverMatches`, `ListsDecideAsArrays`, `NegationExcludes` |
| `delivery` | 3 connections on 1 slot, a bucket of 2, 2 goroutines at a time, six queries; 67 thousand states, with fairness | `TypeOK`, `SlotsAccounted`, `RepliesRanked`, `RepliesComplete`, `SalesNeedLead`, `RequestsAnswered` |

Why these bounds.

* **Mirror.** The properties relate one placement to another at most, hence
  two placements, and share a rule because rules are the only thing placements
  share. A version must be able to change twice to be seen out of order within
  one refresh; the serial run has two edits. Overlaps that matter are between two
  goroutines, one that has read and one that writes. `deployed` has every pair of the ticker, the
  subscriber and a request; `faults` sets the subscriber against requests and flushes, because an invalidation, a
  flush and an expiry are what can take away what a self-heal or a retry has just brought.
  One ping and one failing query suffice to reach every branch of the subscriber and every error path, at
  every point of the other goroutine.
* **Lifecycle.** What one Start leaves behind can meet the next Start only; a buffer of one is
  full after one ping.
* **CustomerProfile.** Two requests overwrite each other; two scopes make the two
  deltas differ, over a datasource they share and one they do not. One edit, at any moment, makes every kept row
  stale. One failing call per behaviour can hit each of the calls. `MaxCalls` is one more than `CallsBounded` allows.
* **Conditions.** Four conditions form a chain of four, three levels with siblings, a mixed node
  between a parent and a child, and an orphan; the cap is 3 (4 in the code), so
  that a chain of four crosses it. `MaxChanged` is 1 where every rule is looked at by itself, and 4 in
  `expression_clash`, where one save turns a rule into another.
* **Delivery.** One slot and three connections leave two waiting, in an order. The
  queries are unparsable, invalid, repeat a placement, or ask for pages that are cut, whole or unlimited;
  the inventory has general, targeted and sales-targeted rules, with and without variations; the
  lead answers have the leads of another customer, one without a score and one scored NaN, which stands for every score that parses and that JSON cannot carry (NaN and the
  infinities). `Mirror`
  bounds how often a placement is appended; `Load` allows any number up to that.

**Fairness.** Nothing is assumed of the outside: nobody has to send requests or pings, call
Start or Stop, edit, or let a subscription fail.

* `Mirror`: weak fairness of `Run(g)` for each goroutine: the Go
  scheduler runs what is runnable and the ticker keeps firing while the service is
  started. `deployed` has no flush duty, because an operator who
  flushes for ever keeps the mirror empty and `MirrorConverges` claims nothing of that; `faults` has one, and
  `RequestAnswered` holds however often it is used.
* `Lifecycle`: weak fairness of each goroutine's steps; strong fairness of the cases of a
  `select` that end a goroutine, because Go chooses among ready cases at random, so a
  case that is ready again and again is taken.
* `Delivery`: weak fairness of what an admitted request does: its
  outgoing calls time out. A blocked request is woken by a release only.

`CHECK_DEADLOCK FALSE` in the runs of `Mirror` and `Lifecycle`: with bounded edits, pings and
restarts, a service without a ticker, or stopped for good, stops legitimately.

### Disagreements found

Five runs are expected to be violated. Each checks something the code says of
itself.

* `skipped_ping`. The subscriber invalidates by deleting the rule and the schedules of
  the placement and keeps the version (`S` 1067-1071). If the query of the
  refresh that follows fails, the placement has a version and no schedules, and the next ping
  announcing that version is skipped as "already mirrored, skipping pull" (`S` 1036).
* `targeted_wipe`. A targeted refresh that finds occurrences of soft-deleted
  schedules only (the join sees them, `Preload` does not) ends in the branch for "no
  groups", which empties all four maps for every placement (`S` 894), where the
  comment promises "we only update specific keys" (`S` 941).
* `pinned_rule`. Requests write the rule into schedule objects the mirror
  shares. An invalidation drops the rule's key and one placement's schedules;
  objects of other placements keep the old rule until a refresh
  replaces them, although "the next read can never observe a stale
  `rule:{id}` mirror, even briefly" (`S` 1064).
* `profile_forgets`. The comment says that "the next request will re-fetch any fields the
  latest envelope omits" (`U` 318). The delta leaves out the fields the rules name (`U` 81), so when requests of
  two scopes alternate, a field that CLEN gave, and that a later request's rules
  need, is neither in the envelope nor fetched again; its conditions see no value. `ExtrasResolved`
  says what does hold: the fields the rules do not name are always there.
* `expression_clash`. `BuildLogicExpression` is said to give "a stable hash that identifies both the logic
  structure AND the expected attribute values" (`evaluator/condition_normalization.go` 122). A mixed node is written without
  parentheses around its check and its children (line 225), so a root `a` with the child `b` under OR,
  followed by AND `c`, is written `a OR (b) AND c`, as are the roots `a`, a group holding `b`, and `c`, joined by OR and AND. The first means
  `(a OR b) AND c`, the second `a OR (b AND c)`; a customer with `a` and not `c` tells them apart. Replies carry the hash as `logicHash`.

`VersionDescribesMirror` and `MirrorVouchedFor` are properties of non-overlapping
refreshes: with two at the same time one may write the schedules and the
other the version. `MirrorVouchedFor` further needs memory: when pressure sets in between
two of the four writes, a placement has schedules and no version. `MissIsRetried` and `SkipsLoseNothing` say what remains true
while refreshes overlap and the database is unchanged: content that the database shows is missing only while the subscriber, which has
invalidated it, refills it. `MirrorConverges` shows that overlaps heal after changes, and `MirrorIsReplica` that
at any time what is mirrored is accounted for by some refresh's reads.

## 4. What is proved

`MirrorProofs` proves for every value of the constants that satisfies
`MirrorAssumption` (types of the constants, `None` and `All` distinct from the
values they stand beside), `PingAssumption` (`None` is neither a message nor a hash) and `SightAssumption`
(`None` is not what a refresh has seen):

* **`TypeCorrect`**: `Spec => []TypeOK`. `TypeOK` is not inductive: that a self-heal
  looks at the sync time of a placement, and the subscriber at the fields of a ping, needs
  `Continuation` (a self-heal has its placement while it waits, a jitter
  has its ping, only a running `evaluate` has a return address). `TypeInv` is
  both; `NextType` has one step per action.
* **`VersionsDescribeMirror`**: with one goroutine, `Spec => []VersionDescribesMirror`.
  `UpdateSchedules` writes the schedules two steps before the versions;
  `VersionInv` says that in between every mirrored batch is the one whose
  hash is about to be written. `HeldBatchKept`, that a batch somebody holds
  keeps its schedules across collection, loading and rule attachment, carries
  the proof.
* **`MirrorIsVouchedFor`**: with one goroutine and no memory pressure, `Spec => []MirrorVouchedFor`.
  `VouchInv`: between the four maps, whatever placement still has schedules is one the
  batch has content for, so that the versions and sync times still to be written cover it.
* **`TargetedIsContained`**: unless a row is soft-deleted, `Spec => TargetedLeavesOthersAlone`, for any
  number of goroutines. `ScopeInv`: a targeted refresh stays on the branches meant for it and
  holds schedules of its own placement only. `targeted_wipe` shows why soft deletes are excluded.
* **`RetryFindsWhatIsShown`** (`Spec => MissIsRetried`) and **`SkipsAreSound`** (`Spec => SkipsLoseNothing`), for any number
  of goroutines, any of which may tick, subscribe and serve requests. The hypotheses are that nothing expires, memory suffices and
  nobody flushes; that the database is unchanged and its queries answer is the
  antecedent of the properties themselves. `SteadyInv` is inductive with `ContentInv` and `HealInv`. Its core, `WarmInv`, says: every batch on
  the heap, whoever loaded it and however long ago, is `Exact`, what the database shows of each placement it has
  anything of; every key is `Recorded`, a version is that of the placement and
  stands only for content that is mirrored or being refilled; and from the first write of a full refresh until the
  retry that follows it all placements are `Warm`. The last two hold each other up: an overlapping targeted
  refresh may only remove what the database does not show, and an invalidation makes its placement one that is being refilled. The
  hypotheses are needed: an expiry, a refused key or a flush between two writes of a refresh leaves a version behind for schedules that
  are gone. With an edit, an older read may be written last; with a failing query,
  `skipped_ping` is the counterexample.
* **`OutagesKeepContent`**: `Spec => OutageKeepsContent`, for any number of
  goroutines. `ContentInv` says what each goroutine in the middle of `evaluate` knows while the
  database is unchanged: its query answered with all that is active,
  a placement about to be cleared is empty, the batch of a full refresh leaves no
  placement out. `OthersSame` shows that a step of one goroutine
  leaves the local state of the others alone.
* **`SelfHealSettles`**: `Spec => SelfHealSettlesStaleness`. `HealInv`: a
  self-heal is a full refresh to its end, and no sync time is stale when it returns
  without a failing query.
* **`ResponsesComplete`**: `Spec => ResponseIsComplete`, for any number of goroutines and under every fault. `RulesInv`: as long as the
  database is unchanged, a request asks for the rule of every schedule it holds without one, and
  an answer has them all. `RulesOfRequest` adds that the step that ends the search found every rule, unless it
  was the request's own query that failed. It rests on `RuleKept`: no goroutine ever takes a rule off a shared object.
* **`MirrorImplementsReplica`**: unless a row is soft-deleted, `Spec => MirrorIsReplica`, for any number of
  goroutines and under every other fault. `Replica` is a specification of its own: pulls look at the source, look again at
  what is deleted, and write once; other steps may only forget. The refinement mapping takes a refresh from its first
  query to its first write of schedules for a pull. A write must take on nothing the two queries did not return, keep what they did,
  drop the rest of its scope and leave the other placements alone. `ReplicaInv` carries it: what a refresh is about to write
  is what its queries returned (`SightInv`), and a targeted refresh holds nothing but its own placement (`ScopeInv`). Soft deletes are excluded because of
  `targeted_wipe`: a targeted refresh then writes outside its scope. The run `deployed` has them, with a single placement, where
  that branch is harmless.

The theorems of `Mirror` hold for the grain of steps described in section
2, and the one on self-heals for its assumption on `Age`.

`LifecycleProofs`, for any number of generations, any buffer, and with or without a
tick interval: **`Typed`** (`Spec => []TypeOK`), **`StartsOneLoop`** (`Spec => []OneLoop`)
and **`StopOutlivesLoop`** (`Spec => []StopWaitsForLoop`). `Generations` is inductive with `TypeOK`: the
generations before the last have ended, the last is where fx has got to with it, a
loop was given its own channel, and that channel is closed exactly when the loop has
ended. This is what makes waiting on the field `done` wait for the right loop.

`CustomerProfileProofs`, for any finite number of requests, any datasources, scopes, tables, edits
and failures: **`Typed`**, **`CachesReal`** (`MemoReal`), **`KeepsWhatItRead`** (`NothingDropped`) and
**`ResolvesExtras`** (`ExtrasResolved`). `Tables` says that what is kept, or about to be, is what
a row held; `Pipeline` what a request carries from one stage to the next: the
schema's lasting fields are known, those not cached are asked for, those got are
merged, those merged are translated. It speaks of the request's own
variables and the caches only, which is why no other request can break it.

`CustomerProfileCalls` adds **`CallsAreBounded`** (`Spec => []CallsBounded`). The invariant `CInv`
says, under the hypothesis of the property (`Steady`: nothing failed, one scope was
asked, CLEN serves its unedited schemas in full): the key is empty or holds
what the rules leave of the schemas (`Key`), so that a request that read it
does not call; and calls are counted (`Counted`): while the key is as yet unwritten, every call was made by a
request that has its answer and has not written it (`Setting`), afterwards the calls
and the requests that may still call (`Waiting`) are together no more than the requests. Without `Steady`
only what the caches hold of unedited rows (`Unedited`) is kept, because an edit or a failure ends it for good.

`ConditionsProofs`, for any finite set of ids, any depth cap, expected values
and customers (`ConditionsAssumption`: sequences are integers, lists are finite, JSON null, an
absent attribute and what does not decode are distinct from values and from each other):

* **`DecidesWhatIsWritten`**: `Spec => []DecidesAsWritten`. Places of siblings with distinct sequences are their
  order (`Sorted`), so the runs the loop forms are those with no OR
  in between (`JoinedByPlace`); the loop's two accumulators are whether an ended run holds
  and whether the present one does (`RunsReads`), by induction over the siblings; a tree of
  n conditions is at most n deep (`LevelsBounded`); from the deepest level up every
  node has the value it is read with (`NodeReads`, `ValuesRead`), by induction over depth. The hypotheses on
  sequences and depth are needed: equal sequences are ordered by id, and a group at the cap
  counts as true.
* **`AbsentNeverMatchesAnything`**, **`ListsDecideAsTheirArrays`**, **`NegationExcludesItsCondition`**: by the forms an
  expected value may have, for lists of any length and values of any size.

`DeliveryProofs`, for every finite set of connections, every capacity, inventory and query: **`NoSlotLost`**
(`Spec => []SlotsAccounted`) and **`Typed`**. `Semaphore` relates the number of slots taken to the
cardinality of the set of admitted requests through each acquire, hand-over and
release; that no release drives the count below zero follows from it and not from types.

`DeliveryPages`, in addition, for every number of goroutines, length of the page, and CLEN answer with any number of
groups and leads: **`PagesAreRanked`** (`RepliesRanked`), **`PagesAreComplete`** (`RepliesComplete`) and
**`SalesAreOffers`** (`SalesNeedLead`). Two things carry them.

* `Served`, the inductive invariant: a request's outcome of loading and its leads are among those `Load` and
  `FetchLeads` can have, the slot of every placement whose goroutine has
  ended holds `Evaluate` of that very placement, and the reply is made once all
  have ended. `RepliesRanked` alone is not inductive, since it says nothing of the
  slots the next reply is made of. `Served` speaks of one request's variables, which no other request writes.
* What `Evaluate`, `Merge` and the page are made of, followed with `Times(s, T)`, how often the sequence `s` holds members of
  `T`: loading gives each schedule as often as its placement was appended, less what was lost; the
  filter (`Sift`) and expansion keep or multiply it entry by entry;
  ranking only permutes; merging adds up the slots; a page is a piece of that. Each is an induction over the sequence
  a fold is built from. Where a score is NaN, ranking promises a permutation and no
  order at all, which is all `sort.Slice` guarantees then.

`DeliveryAssumption` gives the constants their types (a CLEN score is a number, absent or NaN) and says that a placement lists a schedule at most once: the refresh
leaves out the schedules it has seen (`S` 859). `RepliesComplete` counts by schedule and would
count two rows of one schedule as one.

`Recursion` derives induction from the library's theorem that the order of the natural
numbers is well-founded, stated for a set of numbers instead of a predicate (`NatInd`), and from it that a function defined by
recursion over an interval, or a fold over a sequence, satisfies its equation. The models therefore write recursion as functions and folds.

Only model-checked:

* all liveness, `RequestAnswered`, `MirrorConverges`, `StopReturns`, `NothingLeft`, `TickerSurvives`,
  `RequestsAnswered`: fairness and ENABLED are out of the prover's reach;
* the five properties that are expected to be violated.

## 5. Not modelled, and why

* Developer scripts (`scripts/`) and the API docs: not part of the running service.
* Configuration, logging, wiring, entities, enums: data definitions and set-up
  without behaviour of their own. What wiring decides, the order of the OnStop hooks, is in `Lifecycle`.
* Health check, CORS, response headers, the two status endpoints: they read, or set
  headers, and change nothing.
* HTTP clients: headers, addresses, and the retries within one call. What a
  caller can tell is in the models: an answer, a partial answer, or a failure.
* Repository methods no code of the service calls: those that write
  occurrences, rules and leads, and the unused queries of the attribute repository. `GenerateConditionHash` has no caller either.
* Counters and gauges, and the forced garbage collection of the heap monitor: the service writes them and never reads them. One
  observation from reading the code: `UpdateSchedules` stores a placement's new version (`S` 105) before `updateVersionMetric` looks up
  the old one to delete its label (`S` 975-977), so what it finds is the new version and the old label stays.
* Moving a schedule to another placement or rule while a refresh is under way; hash
  collisions; row order of a hash (section 2).

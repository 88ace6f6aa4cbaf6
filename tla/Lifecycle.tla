----------------------------- MODULE Lifecycle -----------------------------
(***************************************************************************)
(* Start and Stop of the CMS delivery service, and the two goroutines they *)
(* own: runLoop, which refreshes the mirror on every tick, and             *)
(* subscribeToUpdates, which refreshes it on every ping                    *)
(* (cmd/server/service/cms_delivery_service.go), with the goroutine that   *)
(* forwards pings from Redis (internal/repository/redis_repository.go).    *)
(*                                                                         *)
(* fx calls Start and Stop one after the other, from one goroutine.  The   *)
(* n-th Start that launches anything makes generation n: its channels, its *)
(* contexts and its goroutines all bear the number n, and a field of the   *)
(* service that points to one of them holds that number (0 for nil).       *)
(***************************************************************************)
EXTENDS Integers, FiniteSets

CONSTANTS
  MaxStarts,    \* bound: generations
  BufferCap,    \* capacity of the channel between forwarder and subscriber
  TickerOn      \* tickInterval > 0

ASSUME LifecycleAssumption ==
  MaxStarts \in Nat /\ BufferCap \in Nat \ {0} /\ TickerOn \in BOOLEAN

VARIABLES
  fx,         \* where fx's goroutine is
  awaited,    \* the channel Stop is blocked on
  mutex,      \* whether Start holds mu across a step
  running, stopCh, done, bgCancel, subCtx, subDone,  \* fields of the service
  gen,        \* generations made
  stopped,    \* generations whose stopCh is closed
  cancelled,  \* generations whose background context is cancelled
  subCancelled, \* generations whose subscriber context is cancelled
  loop,       \* runLoop of each generation
  loopEnds,   \* the channel its defer closes
  sub,        \* subscribeToUpdates of each generation
  subEnds,    \* the channel its defer closes
  watched,    \* the context its select is blocked on
  forwarder,  \* the forwarding goroutine of each subscription
  forwards,   \* the context that goroutine was given
  buffer,     \* pings between the two
  closed,     \* channels done and subDone that are closed
  stores,     \* whether the Redis client and the database are open
  crashed     \* a channel was closed twice: the process panics

service == <<running, stopCh, done, bgCancel>>
subscription == <<subCtx, subDone>>
looping == <<loop, loopEnds>>
listening == <<sub, subEnds, watched>>
forwarding == <<forwarder, forwards, buffer>>
signals == <<stopped, cancelled, subCancelled>>

vars == <<fx, awaited, mutex, service, subscription, gen, signals, looping, listening,
          forwarding, closed, stores, crashed>>

Gens == 1..MaxStarts

\* The channels one generation closes when its goroutines end.
Done(n) == <<"done", n>>
SubDone(n) == <<"subDone", n>>

\* The subscriber's context is a child of the background context.
Over(n) == n \in cancelled \cup subCancelled

-----------------------------------------------------------------------------
(* Start and Stop *)

Init ==
  /\ fx = "idle" /\ awaited = SubDone(0) /\ mutex = FALSE
  /\ running = FALSE /\ stopCh = 0 /\ done = 0 /\ bgCancel = 0 /\ subCtx = 0 /\ subDone = 0
  /\ gen = 0
  /\ stopped = {} /\ cancelled = {} /\ subCancelled = {}
  /\ loop = [n \in Gens |-> "none"] /\ loopEnds = [n \in Gens |-> 0]
  /\ sub = [n \in Gens |-> "none"] /\ subEnds = [n \in Gens |-> 0]
  /\ watched = [n \in Gens |-> 0]
  /\ forwarder = [n \in Gens |-> "none"] /\ forwards = [n \in Gens |-> 0]
  /\ buffer = [n \in Gens |-> 0]
  /\ closed = {}
  /\ stores = "open"
  /\ crashed = FALSE

\* MUTANT: Start does not look whether the loop already runs.
StartAgain ==
  /\ TickerOn /\ fx = "idle" /\ ~mutex /\ stores = "open"
  /\ gen < MaxStarts
  /\ mutex' = TRUE
  /\ running' = TRUE
  /\ gen' = gen + 1 /\ stopCh' = gen + 1 /\ done' = gen + 1
  /\ fx' = "warmup"
  /\ UNCHANGED <<awaited, bgCancel, subscription, signals, looping, listening, forwarding,
                 closed, stores, crashed>>

\* Start up to the warm-up, which runs with mu held.  A Start of a running
\* service, or without a tick interval, changes nothing.
Start ==
  /\ TickerOn /\ fx = "idle" /\ ~mutex /\ stores = "open"
  /\ ~running
  /\ gen < MaxStarts
  /\ mutex' = TRUE
  /\ running' = TRUE
  /\ gen' = gen + 1 /\ stopCh' = gen + 1 /\ done' = gen + 1
  /\ fx' = "warmup"
  /\ UNCHANGED <<awaited, bgCancel, subscription, signals, looping, listening, forwarding,
                 closed, stores, crashed>>

\* MUTANT: the goroutines get a context nothing cancels.
LaunchUncancelled ==
  /\ fx = "warmup"
  /\ loop' = [loop EXCEPT ![gen] = "new"]
  /\ sub' = [sub EXCEPT ![gen] = "new"]
  /\ mutex' = FALSE
  /\ fx' = "idle"
  /\ UNCHANGED <<awaited, service, subscription, gen, signals, loopEnds, subEnds, watched,
                 forwarding, closed, stores, crashed>>

\* evaluate has returned, with or without data: the goroutines are launched.
Launch ==
  /\ fx = "warmup"
  /\ bgCancel' = gen
  /\ loop' = [loop EXCEPT ![gen] = "new"]
  /\ sub' = [sub EXCEPT ![gen] = "new"]
  /\ mutex' = FALSE
  /\ fx' = "idle"
  /\ UNCHANGED <<awaited, running, stopCh, done, subscription, gen, signals, loopEnds,
                 subEnds, watched, forwarding, closed, stores, crashed>>

\* Stop up to its first wait; a Stop of a stopped service changes nothing.
Stop ==
  /\ fx = "idle" /\ ~mutex
  /\ running
  /\ running' = FALSE
  /\ stopped' = stopped \cup {stopCh}
  /\ subCancelled' = subCancelled \cup ({subCtx} \ {0})
  /\ cancelled' = cancelled \cup ({bgCancel} \ {0})
  /\ awaited' = Done(done)
  /\ fx' = "awaitLoop"
  /\ UNCHANGED <<mutex, stopCh, done, bgCancel, subscription, gen, looping, listening,
                 forwarding, closed, stores, crashed>>

\* MUTANT: Stop does not wait for the loop.
StopWithoutWaiting ==
  /\ fx = "awaitLoop"
  /\ \/ subDone = 0 /\ fx' = "idle" /\ UNCHANGED awaited
     \/ subDone # 0 /\ fx' = "awaitSub" /\ awaited' = SubDone(subDone)
  /\ UNCHANGED <<mutex, service, subscription, gen, signals, looping, listening,
                 forwarding, closed, stores, crashed>>

\* The loop has ended; subDone is read without the lock, and what it holds then
\* is all Stop waits for.
StopSeesLoopEnd ==
  /\ fx = "awaitLoop"
  /\ awaited \in closed
  /\ \/ subDone = 0 /\ fx' = "idle" /\ UNCHANGED awaited
     \/ subDone # 0 /\ fx' = "awaitSub" /\ awaited' = SubDone(subDone)
  /\ UNCHANGED <<mutex, service, subscription, gen, signals, looping, listening,
                 forwarding, closed, stores, crashed>>

StopSeesSubscriberEnd ==
  /\ fx = "awaitSub"
  /\ awaited \in closed
  /\ fx' = "idle"
  /\ UNCHANGED <<awaited, mutex, service, subscription, gen, signals, looping, listening,
                 forwarding, closed, stores, crashed>>

\* fx runs the OnStop hooks in reverse: the service's first, then those that
\* close the Redis client and the connection pool; then the process exits.
CloseStores ==
  /\ fx = "idle" /\ stores = "open" /\ gen > 0 /\ ~running
  /\ stores' = "closed"
  /\ UNCHANGED <<fx, awaited, mutex, service, subscription, gen, signals, looping,
                 listening, forwarding, closed, crashed>>

Fx == Start \/ Launch \/ Stop \/ StopSeesLoopEnd \/ StopSeesSubscriberEnd \/ CloseStores

-----------------------------------------------------------------------------
(* runLoop *)

\* The argument of the deferred close is evaluated here.
LoopBegin(n) ==
  /\ loop[n] = "new"
  /\ loop' = [loop EXCEPT ![n] = "select"]
  /\ loopEnds' = [loopEnds EXCEPT ![n] = done]
  /\ UNCHANGED <<fx, awaited, mutex, service, subscription, gen, signals, listening,
                 forwarding, closed, stores, crashed>>

LoopTick(n) ==
  /\ loop[n] = "select"
  /\ loop' = [loop EXCEPT ![n] = "evaluate"]
  /\ UNCHANGED <<fx, awaited, mutex, service, subscription, gen, signals, loopEnds,
                 listening, forwarding, closed, stores, crashed>>

LoopEvaluated(n) ==
  /\ loop[n] = "evaluate"
  /\ loop' = [loop EXCEPT ![n] = "select"]
  /\ UNCHANGED <<fx, awaited, mutex, service, subscription, gen, signals, loopEnds,
                 listening, forwarding, closed, stores, crashed>>

\* MUTANT: the loop runs on a context fx cancels as soon as Start returns.
LoopEndsWithStart(n) ==
  /\ loop[n] = "select"
  /\ loop' = [loop EXCEPT ![n] = "ended"]
  /\ closed' = closed \cup {Done(loopEnds[n])}
  /\ crashed' = (Done(loopEnds[n]) \in closed)
  /\ UNCHANGED <<fx, awaited, mutex, service, subscription, gen, signals, loopEnds,
                 listening, forwarding, stores>>

\* MUTANT: the loop returns without closing done.
LoopEndsSilently(n) ==
  /\ loop[n] = "select"
  /\ n \in cancelled \/ stopCh \in stopped
  /\ loop' = [loop EXCEPT ![n] = "ended"]
  /\ UNCHANGED <<fx, awaited, mutex, service, subscription, gen, signals, loopEnds,
                 listening, forwarding, closed, stores, crashed>>

LoopEnd(n) ==
  /\ loop[n] = "select"
  /\ n \in cancelled \/ stopCh \in stopped
  /\ loop' = [loop EXCEPT ![n] = "ended"]
  /\ closed' = closed \cup {Done(loopEnds[n])}
  /\ crashed' = (Done(loopEnds[n]) \in closed)
  /\ UNCHANGED <<fx, awaited, mutex, service, subscription, gen, signals, loopEnds,
                 listening, forwarding, stores>>

Loop(n) == LoopBegin(n) \/ LoopTick(n) \/ LoopEvaluated(n) \/ LoopEnd(n)

-----------------------------------------------------------------------------
(* subscribeToUpdates and the forwarder of its subscription *)

\* Both fields are set with mu held.
SubscriberBegin(n) ==
  /\ sub[n] = "new"
  /\ ~mutex
  /\ subCtx' = n /\ subDone' = n
  /\ sub' = [sub EXCEPT ![n] = "begun"]
  /\ UNCHANGED <<fx, awaited, mutex, service, gen, signals, looping, subEnds, watched,
                 forwarding, closed, stores, crashed>>

\* The argument of the deferred close is evaluated, and the context passed to
\* Subscribe is read, after mu is released.
SubscriberDefer(n) ==
  /\ sub[n] = "begun"
  /\ subEnds' = [subEnds EXCEPT ![n] = subDone]
  /\ watched' = [watched EXCEPT ![n] = subCtx]
  /\ sub' = [sub EXCEPT ![n] = "subscribing"]
  /\ UNCHANGED <<fx, awaited, mutex, service, subscription, gen, signals, looping,
                 forwarding, closed, stores, crashed>>

\* Redis confirms the subscription; its forwarder starts.
Subscribe(n) ==
  /\ sub[n] = "subscribing"
  /\ stores = "open"
  /\ forwarder' = [forwarder EXCEPT ![n] = "open"]
  /\ forwards' = [forwards EXCEPT ![n] = watched[n]]
  /\ watched' = [watched EXCEPT ![n] = subCtx]
  /\ sub' = [sub EXCEPT ![n] = "select"]
  /\ UNCHANGED <<fx, awaited, mutex, service, subscription, gen, signals, looping, subEnds,
                 buffer, closed, stores, crashed>>

\* The subscriber returns and closes the channel its defer was given.
EndSubscriber(n) ==
  /\ sub' = [sub EXCEPT ![n] = "ended"]
  /\ closed' = closed \cup {SubDone(subEnds[n])}
  /\ crashed' = (SubDone(subEnds[n]) \in closed)
  /\ UNCHANGED <<fx, awaited, mutex, service, subscription, gen, signals, looping, subEnds,
                 watched, forwarder, forwards, stores>>

\* Subscribe fails: the subscriber is gone for as long as the service runs.
SubscribeFails(n) ==
  /\ sub[n] = "subscribing"
  /\ EndSubscriber(n)
  /\ UNCHANGED buffer

\* The context the select is blocked on is over, in front of the channel or
\* during the jitter.
SubscriberCancelled(n) ==
  /\ sub[n] \in {"select", "jitter"}
  /\ Over(watched[n])
  /\ EndSubscriber(n)
  /\ UNCHANGED buffer

\* The forwarder is gone and the channel is drained.
SubscriberClosed(n) ==
  /\ sub[n] = "select"
  /\ forwarder[n] = "ended" /\ buffer[n] = 0
  /\ EndSubscriber(n)
  /\ UNCHANGED buffer

\* A ping is taken: skipped, or kept for the jitter.  Entering a select reads
\* subCtx again.
SubscriberReceive(n) ==
  /\ sub[n] = "select"
  /\ buffer[n] > 0
  /\ buffer' = [buffer EXCEPT ![n] = @ - 1]
  /\ \E next \in {"select", "jitter"} : sub' = [sub EXCEPT ![n] = next]
  /\ watched' = [watched EXCEPT ![n] = subCtx]
  /\ UNCHANGED <<fx, awaited, mutex, service, subscription, gen, signals, looping, subEnds,
                 forwarder, forwards, closed, stores, crashed>>

\* The jitter has passed: the ping is skipped after all, or evaluate runs.
SubscriberJitter(n) ==
  /\ sub[n] = "jitter"
  /\ \E next \in {"select", "evaluate"} : sub' = [sub EXCEPT ![n] = next]
  /\ watched' = [watched EXCEPT ![n] = subCtx]
  /\ UNCHANGED <<fx, awaited, mutex, service, subscription, gen, signals, looping, subEnds,
                 forwarding, closed, stores, crashed>>

SubscriberEvaluated(n) ==
  /\ sub[n] = "evaluate"
  /\ sub' = [sub EXCEPT ![n] = "select"]
  /\ watched' = [watched EXCEPT ![n] = subCtx]
  /\ UNCHANGED <<fx, awaited, mutex, service, subscription, gen, signals, looping, subEnds,
                 forwarding, closed, stores, crashed>>

\* MUTANT: nothing is dropped.
ForwardAll(n) ==
  /\ forwarder[n] = "open"
  /\ stores = "open"
  /\ buffer' = [buffer EXCEPT ![n] = @ + 1]
  /\ UNCHANGED <<fx, awaited, mutex, service, subscription, gen, signals, looping,
                 listening, forwarder, forwards, closed, stores, crashed>>

\* A ping is forwarded, or dropped when the buffer is full.
Forward(n) ==
  /\ forwarder[n] = "open"
  /\ stores = "open"
  /\ buffer' = [buffer EXCEPT ![n] = IF @ < BufferCap THEN @ + 1 ELSE @]
  /\ UNCHANGED <<fx, awaited, mutex, service, subscription, gen, signals, looping,
                 listening, forwarder, forwards, closed, stores, crashed>>

\* The forwarder's context is over, or the client is closed: it returns and the
\* subscriber's channel is closed.
ForwarderEnd(n) ==
  /\ forwarder[n] = "open"
  /\ Over(forwards[n]) \/ stores = "closed"
  /\ forwarder' = [forwarder EXCEPT ![n] = "ended"]
  /\ UNCHANGED <<fx, awaited, mutex, service, subscription, gen, signals, looping,
                 listening, forwards, buffer, closed, stores, crashed>>

Opening(n) == SubscriberBegin(n) \/ SubscriberDefer(n) \/ Subscribe(n) \/ SubscribeFails(n)
Serving(n) ==
  \/ SubscriberReceive(n) \/ SubscriberJitter(n) \/ SubscriberEvaluated(n)
  \/ SubscriberCancelled(n) \/ SubscriberClosed(n)

Next ==
  /\ ~crashed
  /\ \/ Fx
     \/ \E n \in Gens : Loop(n) \/ Opening(n) \/ Serving(n) \/ Forward(n) \/ ForwarderEnd(n)

Spec == Init /\ [][Next]_vars

\* Every goroutine that can run does; of the ready cases of a select Go takes
\* one at random, so a case that keeps being ready is taken.  Nothing makes fx
\* call Start or Stop, Redis send a ping or a subscription fail.
Fair ==
  /\ WF_vars(~crashed /\ (Launch \/ StopSeesLoopEnd \/ StopSeesSubscriberEnd))
  /\ \A n \in Gens :
       /\ WF_vars(~crashed /\ (LoopBegin(n) \/ LoopEvaluated(n)))
       /\ WF_vars(~crashed /\ LoopTick(n))
       /\ SF_vars(~crashed /\ LoopEnd(n))
       /\ WF_vars(~crashed /\ Opening(n))
       /\ WF_vars(~crashed /\ (SubscriberJitter(n) \/ SubscriberEvaluated(n)))
       /\ SF_vars(~crashed /\ SubscriberCancelled(n))
       /\ WF_vars(~crashed /\ ForwarderEnd(n))

FairSpec == Spec /\ Fair

-----------------------------------------------------------------------------
(* Properties *)

TypeOK ==
  /\ fx \in {"idle", "warmup", "awaitLoop", "awaitSub"}
  /\ mutex \in BOOLEAN /\ running \in BOOLEAN /\ crashed \in BOOLEAN
  /\ gen \in 0..MaxStarts
  /\ stopCh \in 0..MaxStarts /\ done \in 0..MaxStarts /\ bgCancel \in 0..MaxStarts
  /\ subCtx \in 0..MaxStarts /\ subDone \in 0..MaxStarts
  /\ stopped \subseteq Gens /\ cancelled \subseteq Gens /\ subCancelled \subseteq Gens
  /\ loop \in [Gens -> {"none", "new", "select", "evaluate", "ended"}]
  /\ sub \in [Gens -> {"none", "new", "begun", "subscribing", "select", "jitter",
                       "evaluate", "ended"}]
  /\ forwarder \in [Gens -> {"none", "open", "ended"}]
  /\ loopEnds \in [Gens -> 0..MaxStarts] /\ subEnds \in [Gens -> 0..MaxStarts]
  /\ watched \in [Gens -> 0..MaxStarts] /\ forwards \in [Gens -> 0..MaxStarts]
  /\ buffer \in [Gens -> 0..BufferCap]
  /\ awaited \in {"done", "subDone"} \X (0..MaxStarts)
  /\ closed \subseteq {"done", "subDone"} \X (0..MaxStarts)
  /\ stores \in {"open", "closed"}

\* Start "is safe to call multiple times; only the first call starts the loop":
\* of the loops launched, at most one has not been told to end, and only while
\* the service is running.
OneLoop ==
  \A n \in Gens : loop[n] \notin {"none", "ended"} /\ n \notin cancelled => running /\ n = gen

\* "Stop signals the background loop to exit and waits for it to finish": when
\* Stop has returned no loop is left, so none can use a store fx then closes.
StopWaitsForLoop ==
  ~running /\ fx = "idle" => \A n \in Gens : loop[n] \in {"none", "ended"}

\* Stop always returns, unless the process has panicked.
StopReturns == fx \in {"awaitLoop", "awaitSub"} ~> fx = "idle" \/ crashed

\* Once told to stop for good, everything the service launched ends, the
\* subscriber Stop did not wait for included.
NothingLeft ==
  (gen = MaxStarts /\ ~running) ~>
     \/ crashed
     \/ \A n \in Gens : loop[n] = "ended" /\ sub[n] = "ended" /\ forwarder[n] # "open"

\* Whatever becomes of the subscriber, the ticker refreshes the mirror again and
\* again until the loop is told to stop.
TickerSurvives ==
  \A n \in Gens : loop[n] = "select" ~> loop[n] = "evaluate" \/ n \in cancelled \/ crashed

=============================================================================

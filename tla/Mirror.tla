------------------------------- MODULE Mirror -------------------------------
(***************************************************************************)
(* The in-memory mirror of the CMS delivery service                        *)
(* (cmd/server/service/cms_delivery_service.go): four maps, filled from    *)
(* PostgreSQL by evaluate(), which the ticker, the Pub/Sub subscriber,     *)
(* content requests and the flush endpoint all call without a lock.        *)
(*                                                                         *)
(* One step is one database query, or one run of cache writes between two  *)
(* points where the code hands control to another store; every goroutine   *)
(* may be preempted between two steps.                                     *)
(***************************************************************************)
EXTENDS Integers, Sequences, FiniteSets

CONSTANTS
  Placement,    \* placement names
  Schedule,     \* schedule IDs
  Rule,         \* decision rule IDs
  PlacementOf,  \* the placement a schedule row references
  RuleOf,       \* the decision rule a schedule row references
  Proc,         \* goroutines
  Duties,       \* what each goroutine does: "tick", "ping", "request", "flush"
  Gen,          \* identities of the batches of schedule objects on the heap
  None,         \* absent key, nil pointer, empty string
  All,          \* scope of a full refresh
  Faults,       \* which of "softdelete", "pressure", "age", "expiry" may happen
  MaxEdits,     \* bound: changes the back office makes to the database
  MaxFails,     \* bound: database queries that fail
  MaxPings,     \* bound: sync pings published
  InboxCap      \* capacity of the subscriber's channel

ASSUME MirrorAssumption ==
  /\ PlacementOf \in [Schedule -> Placement]
  /\ RuleOf \in [Schedule -> Rule]
  /\ Duties \in [Proc -> SUBSET {"tick", "ping", "request", "flush"}]
  /\ Faults \subseteq {"softdelete", "pressure", "age", "expiry"}
  /\ MaxEdits \in Nat /\ MaxFails \in Nat /\ MaxPings \in Nat
  /\ InboxCap \in Nat
  /\ None \notin Nat \cup Gen \cup Placement \cup Rule \cup Schedule
  /\ None \notin {"fresh", "stale"}
  /\ All \notin Placement

VARIABLES
  \* PostgreSQL
  active,    \* schedules with an ACTIVE occurrence now, of an ACTIVE rule
  hidden,    \* soft-deleted schedules (the joins still see them, Preload does not)
  upd,       \* UpdatedAt of each schedule row
  ruleVer,   \* content version of each rule row, None once soft-deleted
  edits,     \* changes made so far
  \* the environment
  inbox,     \* sync pings delivered to the subscriber's channel
  pings,     \* pings published so far
  fails,     \* queries failed so far
  pressure,  \* MemoryMonitor.isUnderPressure
  \* MemoryCache
  sched,     \* Schedules: the batch whose objects the placement's key holds
  rules,     \* DecisionRule: the version the rule's key holds
  vers,      \* VersionHashes
  sync,      \* LastSync, as "fresh" or "stale" against the threshold
  heap,      \* the schedule objects of each batch, shared by whoever holds it
  \* goroutines
  pc,        \* where each goroutine is
  scope,     \* evaluate's placementNames: a placement, or All
  cont,      \* where the goroutine continues after evaluate
  asked,     \* schedule IDs of the query under way
  snap,      \* the batch evaluate loaded
  fetched,   \* the rules its last rule query returned
  msg,       \* the ping the subscriber is handling
  todo,      \* placements the request has not looked up yet
  cur,       \* the placement whose self-heal is under way
  missed,    \* placements the request did not find
  held       \* the batch the request read for each placement

catalogue == <<active, hidden, upd, ruleVer, edits>>
env == <<inbox, pings, fails, pressure>>
mirror == <<sched, rules, vers, sync>>
refresh == <<scope, cont, asked, snap, fetched>>
request == <<todo, cur, missed, held>>

vars == <<catalogue, env, mirror, heap, pc, refresh, msg, request>>

-----------------------------------------------------------------------------
(* Values *)

\* The hash of some rows, which tells exactly those apart.
Hash == [of : SUBSET (Schedule \X Nat)]

Message == [place : Placement \cup {None}, rule : Rule \cup {None},
            hash : {None} \cup Hash]

ASSUME PingAssumption == None \notin Message /\ None \notin Hash

\* A batch: the rows one query loaded as objects, and the rule each object's
\* DecisionRule pointer holds.
Batch == [ids : SUBSET Schedule, upd : [Schedule -> Nat],
          rule : [Schedule -> Nat \cup {None}]]

Freed == [ids |-> {}, upd |-> [s \in Schedule |-> 0],
          rule |-> [s \in Schedule |-> None]]

NoRules == [r \in Rule |-> None]
NoBatch == [p \in Placement |-> None]

\* evaluate groups the objects of a batch by the placement they reference.
Group(x, p) ==
  IF x = None THEN {} ELSE {s \in heap[x].ids : PlacementOf[s] = p}

\* computePlacementHash: IDs and UpdatedAt, nothing of the rules.
HashOf(x, p) == [of |-> {<<s, heap[x].upd[s]>> : s \in Group(x, p)}]

\* What the database would answer for a placement now.
Visible(p) == {s \in active \ hidden : PlacementOf[s] = p}
VisibleHash(p) == [of |-> {<<s, upd[s]>> : s \in Visible(p)}]

\* GetDecisionRuleByScheduleIDs: soft-deleted rows are absent from the answer.
RulesFor(ids) ==
  [r \in Rule |-> IF \E s \in ids \ hidden : RuleOf[s] = r THEN ruleVer[r] ELSE None]

-----------------------------------------------------------------------------
(* Memory *)

\* CacheMemory.Set is refused for a brand-new key under memory pressure.
CanSet(entry) == ~pressure \/ entry # None

\* Batches reachable from the mirror or from a goroutine.
Live ==
  {sched[p] : p \in Placement} \cup {snap[g] : g \in Proc}
    \cup UNION {{held[g][p] : p \in Placement} : g \in Proc}

\* Unreachable batches are collected (the step must fix sched', snap', held').
Collected(h) == [x \in Gen |-> IF x \in Live' THEN h[x] ELSE Freed]
Collect == heap' = Collected(heap)

-----------------------------------------------------------------------------
(* PostgreSQL and the back office, outside this repository's process *)

Changing == edits < MaxEdits /\ edits' = edits + 1

OpenOrCloseWindow(s) ==
  /\ Changing
  /\ active' = IF s \in active THEN active \ {s} ELSE active \cup {s}
  /\ UNCHANGED <<hidden, upd, ruleVer, env, mirror, heap, pc, refresh, msg, request>>

EditSchedule(s) ==
  /\ Changing
  /\ upd' = [upd EXCEPT ![s] = @ + 1]
  /\ UNCHANGED <<active, hidden, ruleVer, env, mirror, heap, pc, refresh, msg, request>>

EditRule(r) ==
  /\ Changing
  /\ ruleVer[r] # None
  /\ ruleVer' = [ruleVer EXCEPT ![r] = @ + 1]
  /\ UNCHANGED <<active, hidden, upd, env, mirror, heap, pc, refresh, msg, request>>

SoftDelete(s) ==
  /\ "softdelete" \in Faults
  /\ Changing
  /\ s \notin hidden
  /\ hidden' = hidden \cup {s}
  /\ UNCHANGED <<active, upd, ruleVer, env, mirror, heap, pc, refresh, msg, request>>

SoftDeleteRule(r) ==
  /\ "softdelete" \in Faults
  /\ Changing
  /\ ruleVer[r] # None
  /\ ruleVer' = [ruleVer EXCEPT ![r] = None]
  /\ UNCHANGED <<active, hidden, upd, env, mirror, heap, pc, refresh, msg, request>>

\* Publisher.PingSync, received by this pod's channel.  A ping that finds the
\* channel full is dropped, which is a ping not published.
Publish(p, r, h) ==
  /\ pings < MaxPings
  /\ pings' = pings + 1
  /\ Len(inbox) < InboxCap
  /\ inbox' = Append(inbox, [place |-> p, rule |-> r, hash |-> h])
  /\ UNCHANGED <<catalogue, fails, pressure, mirror, heap, pc, refresh, msg, request>>

BackOffice ==
  \/ \E s \in Schedule : OpenOrCloseWindow(s) \/ EditSchedule(s) \/ SoftDelete(s)
  \/ \E r \in Rule : EditRule(r) \/ SoftDeleteRule(r)
  \/ \E r \in Rule \cup {None} :
        \/ Publish(None, r, None)
        \/ \E p \in Placement : Publish(p, r, None) \/ Publish(p, r, VisibleHash(p))

\* The heap monitor crosses its threshold.
Monitor ==
  /\ "pressure" \in Faults
  /\ pressure' = ~pressure
  /\ UNCHANGED <<catalogue, inbox, pings, fails, mirror, heap, pc, refresh, msg, request>>

\* The staleness threshold passes for a placement.  It is far longer than a
\* request may take: a time stamped during a self-heal is not old at its end.
Age(p) ==
  /\ "age" \in Faults
  /\ sync[p] = "fresh"
  /\ \A g \in Proc : pc[g] # "recheck"
  /\ sync' = [sync EXCEPT ![p] = "stale"]
  /\ UNCHANGED <<catalogue, env, sched, rules, vers, heap, pc, refresh, msg, request>>

\* The TTL, longer than the threshold, passes for the keys of a placement.
Expire(p) ==
  /\ "expiry" \in Faults
  /\ sync[p] = "stale"
  /\ sched' = [sched EXCEPT ![p] = None]
  /\ vers' = [vers EXCEPT ![p] = None]
  /\ sync' = [sync EXCEPT ![p] = None]
  /\ UNCHANGED <<catalogue, env, rules, pc, refresh, msg, request>>
  /\ Collect

ExpireRule(r) ==
  /\ "expiry" \in Faults
  /\ rules[r] # None
  /\ rules' = [rules EXCEPT ![r] = None]
  /\ UNCHANGED <<catalogue, env, sched, vers, sync, heap, pc, refresh, msg, request>>

Clock == \/ \E p \in Placement : Age(p) \/ Expire(p)
         \/ \E r \in Rule : ExpireRule(r)

-----------------------------------------------------------------------------
(* evaluate *)

Goto(g, label) == pc' = [pc EXCEPT ![g] = label]

\* Calls evaluate(scope) and continues at `then' when it returns.
CallEvaluate(g, sc, then) ==
  /\ Goto(g, "list")
  /\ scope' = [scope EXCEPT ![g] = sc]
  /\ cont' = [cont EXCEPT ![g] = then]
  /\ UNCHANGED <<asked, snap, fetched>>

Return(g) ==
  /\ Goto(g, cont[g])
  /\ scope' = [scope EXCEPT ![g] = All]
  /\ cont' = [cont EXCEPT ![g] = "idle"]
  /\ asked' = [asked EXCEPT ![g] = {}]
  /\ snap' = [snap EXCEPT ![g] = None]
  /\ fetched' = [fetched EXCEPT ![g] = NoRules]

\* The occurrence query of ListActiveAt / ListActiveByPlacementsAt.
ListOccurrences(g) ==
  LET found == {s \in active : scope[g] \in {All, PlacementOf[s]}} IN
  /\ pc[g] = "list"
  /\ asked' = [asked EXCEPT ![g] = found]
  /\ Goto(g, IF found # {} THEN "load"
             ELSE IF scope[g] = All THEN "syncSchedules" ELSE "clear")
  /\ UNCHANGED <<catalogue, env, mirror, heap, scope, cont, snap, fetched, msg, request>>

\* Preload of Schedule and Placement: the objects, without the soft-deleted
\* rows.  When no object is left the full mirror is wiped, whatever the scope.
LoadSchedules(g) ==
  LET ids == asked[g] \ hidden
      x == CHOOSE y \in Gen : y \notin Live
  IN
  /\ pc[g] = "load"
  /\ Gen \ Live # {}
  /\ asked' = [asked EXCEPT ![g] = ids]
  /\ IF ids = {}
     THEN Goto(g, "syncSchedules") /\ UNCHANGED <<snap, heap>>
     ELSE /\ Goto(g, "fetch")
          /\ snap' = [snap EXCEPT ![g] = x]
          /\ heap' = [heap EXCEPT ![x] =
               [ids |-> ids,
                upd |-> [s \in Schedule |-> IF s \in ids THEN upd[s] ELSE 0],
                rule |-> [s \in Schedule |-> None]]]
  /\ UNCHANGED <<catalogue, env, mirror, scope, cont, fetched, msg, request>>

\* MUTANT: the error is ignored and the missing answer read as an empty one.
ListFailsUnnoticed(g) ==
  /\ pc[g] \in {"list", "load"}
  /\ fails < MaxFails
  /\ fails' = fails + 1
  /\ Goto(g, IF scope[g] = All THEN "syncSchedules" ELSE "clear")
  /\ UNCHANGED <<catalogue, inbox, pings, pressure, mirror, heap, refresh, msg, request>>

\* Either query of the list fails: evaluate logs and returns.
ListFails(g) ==
  /\ pc[g] \in {"list", "load"}
  /\ fails < MaxFails
  /\ fails' = fails + 1
  /\ Return(g)
  /\ UNCHANGED <<catalogue, inbox, pings, pressure, mirror, heap, msg, request>>

\* MUTANT: the schedules of the cleared placement stay.
ClearVersionOnly(g) ==
  LET p == scope[g] IN
  /\ pc[g] = "clear"
  /\ vers' = [vers EXCEPT ![p] = None]
  /\ sync' = IF CanSet(sync[p]) THEN [sync EXCEPT ![p] = "fresh"] ELSE sync
  /\ Return(g)
  /\ UNCHANGED <<catalogue, env, sched, rules, msg, request>>
  /\ Collect

\* A targeted refresh that finds no occurrence clears the placement, keeps the
\* rules, and stamps LastSync.
ClearPlacement(g) ==
  LET p == scope[g] IN
  /\ pc[g] = "clear"
  /\ sched' = [sched EXCEPT ![p] = None]
  /\ vers' = [vers EXCEPT ![p] = None]
  /\ sync' = IF CanSet(sync[p]) THEN [sync EXCEPT ![p] = "fresh"] ELSE sync
  /\ Return(g)
  /\ UNCHANGED <<catalogue, env, rules, msg, request>>
  /\ Collect

\* MUTANT: the targeted refresh too goes through UpdateSchedules.
AlwaysReplace(g) == "syncSchedules"

AfterFetch(g) == IF scope[g] = All THEN "syncSchedules" ELSE "setPlacement"

FetchRules(g) ==
  /\ pc[g] = "fetch"
  /\ fetched' = [fetched EXCEPT ![g] = RulesFor(asked[g])]
  /\ Goto(g, AfterFetch(g))
  /\ UNCHANGED <<catalogue, env, mirror, heap, scope, cont, asked, snap, msg, request>>

\* The error is logged and evaluate carries on without rules.
FetchRulesFails(g) ==
  /\ pc[g] = "fetch"
  /\ fails < MaxFails
  /\ fails' = fails + 1
  /\ Goto(g, AfterFetch(g))
  /\ UNCHANGED <<catalogue, inbox, pings, pressure, mirror, heap, refresh, msg, request>>

\* MUTANT: keys without new content stay.
ReplaceKeepingOld(g, map, value) ==
  [p \in Placement |->
     IF Group(snap[g], p) # {} /\ CanSet(map[p]) THEN value[p] ELSE map[p]]

\* UpdateSchedules on one of the maps: set the new keys, delete the others.
Replace(g, map, value) ==
  [p \in Placement |->
     IF Group(snap[g], p) # {} /\ CanSet(map[p]) THEN value[p] ELSE None]

SyncSchedules(g) ==
  /\ pc[g] = "syncSchedules"
  /\ sched' = Replace(g, sched, [p \in Placement |-> snap[g]])
  /\ Goto(g, "syncRules")
  /\ UNCHANGED <<catalogue, env, rules, vers, sync, refresh, msg, request>>
  /\ Collect

\* MUTANT: a rule already cached is not overwritten.
SyncNewRules(g) ==
  /\ pc[g] = "syncRules"
  /\ rules' = [r \in Rule |-> IF rules[r] # None /\ fetched[g][r] # None THEN rules[r]
                               ELSE fetched[g][r]]
  /\ Goto(g, "syncVersions")
  /\ UNCHANGED <<catalogue, env, sched, vers, sync, heap, refresh, msg, request>>

SyncRules(g) ==
  /\ pc[g] = "syncRules"
  /\ rules' = [r \in Rule |-> IF CanSet(rules[r]) THEN fetched[g][r] ELSE None]
  /\ Goto(g, "syncVersions")
  /\ UNCHANGED <<catalogue, env, sched, vers, sync, heap, refresh, msg, request>>

\* MUTANT: only placements without a version get one.
SyncNewVersions(g) ==
  /\ pc[g] = "syncVersions"
  /\ vers' = [p \in Placement |-> IF vers[p] # None /\ Group(snap[g], p) # {} THEN vers[p]
                ELSE Replace(g, vers, [q \in Placement |-> HashOf(snap[g], q)])[p]]
  /\ Goto(g, "syncLastSync")
  /\ UNCHANGED <<catalogue, env, sched, rules, sync, heap, refresh, msg, request>>

SyncVersions(g) ==
  /\ pc[g] = "syncVersions"
  /\ vers' = Replace(g, vers, [p \in Placement |-> HashOf(snap[g], p)])
  /\ Goto(g, "syncLastSync")
  /\ UNCHANGED <<catalogue, env, sched, rules, sync, heap, refresh, msg, request>>

\* MUTANT: sync times of placements without schedules are not deleted.
SyncLastSyncKeepingOld(g) ==
  /\ pc[g] = "syncLastSync"
  /\ sync' = ReplaceKeepingOld(g, sync, [p \in Placement |-> "fresh"])
  /\ Return(g)
  /\ UNCHANGED <<catalogue, env, sched, rules, vers, msg, request>>
  /\ Collect

SyncLastSync(g) ==
  /\ pc[g] = "syncLastSync"
  /\ sync' = Replace(g, sync, [p \in Placement |-> "fresh"])
  /\ Return(g)
  /\ UNCHANGED <<catalogue, env, sched, rules, vers, msg, request>>
  /\ Collect

\* The targeted refresh on one of the maps: set the keys of its own placement.
Overwrite(g, map, value) ==
  [p \in Placement |->
     IF Group(snap[g], p) # {} /\ CanSet(map[p]) THEN value[p] ELSE map[p]]

SetPlacement(g) ==
  /\ pc[g] = "setPlacement"
  /\ sched' = Overwrite(g, sched, [p \in Placement |-> snap[g]])
  /\ sync' = Overwrite(g, sync, [p \in Placement |-> "fresh"])
  /\ vers' = Overwrite(g, vers, [p \in Placement |-> HashOf(snap[g], p)])
  /\ Goto(g, "setRules")
  /\ UNCHANGED <<catalogue, env, rules, refresh, msg, request>>
  /\ Collect

SetRules(g) ==
  /\ pc[g] = "setRules"
  /\ rules' = [r \in Rule |->
                 IF fetched[g][r] # None /\ CanSet(rules[r]) THEN fetched[g][r] ELSE rules[r]]
  /\ Goto(g, "prune")
  /\ UNCHANGED <<catalogue, env, sched, vers, sync, heap, refresh, msg, request>>

PruneOrphanedRules(g) ==
  LET used == {RuleOf[s] : s \in UNION {Group(sched[p], p) : p \in Placement}} IN
  /\ pc[g] = "prune"
  /\ rules' = [r \in Rule |-> IF r \in used THEN rules[r] ELSE None]
  /\ Return(g)
  /\ UNCHANGED <<catalogue, env, sched, vers, sync, msg, request>>
  /\ Collect

Evaluate(g) ==
  \/ ListOccurrences(g) \/ LoadSchedules(g) \/ ListFails(g) \/ ClearPlacement(g)
  \/ FetchRules(g) \/ FetchRulesFails(g)
  \/ SyncSchedules(g) \/ SyncRules(g) \/ SyncVersions(g) \/ SyncLastSync(g)
  \/ SetPlacement(g) \/ SetRules(g) \/ PruneOrphanedRules(g)

-----------------------------------------------------------------------------
(* The ticker and the subscriber *)

May(g, duty) == pc[g] = "idle" /\ duty \in Duties[g]

Tick(g) ==
  /\ May(g, "tick")
  /\ CallEvaluate(g, All, "idle")
  /\ UNCHANGED <<catalogue, env, mirror, heap, msg, request>>

\* MUTANT: any local version will do.
AnyVersionMirrored(m) == m.place # None /\ m.hash # None /\ vers[m.place] # None

\* MUTANT: a placement without a version counts as mirrored.
NoVersionMirrored(m) == m.place # None /\ m.hash # None /\ vers[m.place] \in {None, m.hash}

\* The local version is the one the ping announces.
AlreadyMirrored(m) == m.place # None /\ m.hash # None /\ vers[m.place] = m.hash

ReceivePing(g) ==
  LET m == Head(inbox) IN
  /\ May(g, "ping")
  /\ inbox # <<>>
  /\ inbox' = Tail(inbox)
  /\ IF AlreadyMirrored(m) THEN UNCHANGED <<pc, msg>>
     ELSE Goto(g, "jitter") /\ msg' = [msg EXCEPT ![g] = m]
  /\ UNCHANGED <<catalogue, pings, fails, pressure, mirror, heap, refresh, request>>

\* After the jitter the version is verified again.
SkipPing(g) ==
  /\ pc[g] = "jitter"
  /\ AlreadyMirrored(msg[g])
  /\ Goto(g, "idle")
  /\ msg' = [msg EXCEPT ![g] = None]
  /\ UNCHANGED <<catalogue, env, mirror, heap, refresh, request>>

\* MUTANT: no full refresh for a ping without a placement.
NamedScope(m) == m.place

PingScope(m) == IF m.place = None THEN All ELSE m.place

\* A ping that names a rule drops the rule's key and the placement's Schedules
\* key; then evaluate runs for the placement, or for everything.
HandlePing(g) ==
  LET m == msg[g] IN
  /\ pc[g] = "jitter"
  /\ ~AlreadyMirrored(m)
  /\ rules' = [r \in Rule |-> IF r = m.rule THEN None ELSE rules[r]]
  /\ sched' = [p \in Placement |-> IF m.rule # None /\ p = m.place THEN None ELSE sched[p]]
  /\ CallEvaluate(g, PingScope(m), "idle")
  /\ msg' = [msg EXCEPT ![g] = None]
  /\ UNCHANGED <<catalogue, env, vers, sync, request>>
  /\ Collect

Subscriber(g) == ReceivePing(g) \/ SkipPing(g) \/ HandlePing(g)

-----------------------------------------------------------------------------
(* GetPersonalizedContent, up to the schedules it evaluates *)

\* The objects a request holds: schedule s through the batch of its placement.
HeldBatch(g, s) == held[g][PlacementOf[s]]
HeldSchedules(g) == {s \in Schedule : s \in Group(HeldBatch(g, s), PlacementOf[s])}

\* What the objects' DecisionRule pointers hold once g has set those of `ids'.
Attached(g, ids, version) ==
  [x \in Gen |-> [heap[x] EXCEPT !.rule =
     [s \in Schedule |-> IF s \in ids /\ HeldBatch(g, s) = x THEN version[RuleOf[s]]
                         ELSE heap[x].rule[s]]]]

StartRequest(g) ==
  /\ May(g, "request")
  /\ \E names \in SUBSET Placement \ {{}} : todo' = [todo EXCEPT ![g] = names]
  /\ Goto(g, "check")
  /\ UNCHANGED <<catalogue, env, mirror, heap, refresh, msg, cur, missed, held>>

\* Schedules.Get of a placement whose LastSync is absent or within the threshold.
Lookup(g, p) ==
  /\ todo' = [todo EXCEPT ![g] = @ \ {p}]
  /\ IF sched[p] = None
     THEN missed' = [missed EXCEPT ![g] = @ \cup {p}] /\ UNCHANGED held
     ELSE held' = [held EXCEPT ![g][p] = sched[p]] /\ UNCHANGED missed
  /\ Goto(g, "check")

FindSchedules(g, p) ==
  /\ pc[g] = "check"
  /\ p \in todo[g]
  /\ sync[p] # "stale"
  /\ Lookup(g, p)
  /\ UNCHANGED <<catalogue, env, mirror, heap, refresh, msg, cur>>

\* A stale mirror: one synchronous full evaluate, then the verdict.
SelfHeal(g, p) ==
  /\ pc[g] = "check"
  /\ p \in todo[g]
  /\ sync[p] = "stale"
  /\ cur' = [cur EXCEPT ![g] = p]
  /\ CallEvaluate(g, All, "recheck")
  /\ UNCHANGED <<catalogue, env, mirror, heap, msg, todo, missed, held>>

Healed(g) ==
  /\ pc[g] = "recheck"
  /\ sync[cur[g]] = "fresh"
  /\ Lookup(g, cur[g])
  /\ cur' = [cur EXCEPT ![g] = None]
  /\ UNCHANGED <<catalogue, env, mirror, heap, refresh, msg>>

EndRequest(g) ==
  /\ Goto(g, "idle")
  /\ todo' = [todo EXCEPT ![g] = {}]
  /\ cur' = [cur EXCEPT ![g] = None]
  /\ missed' = [missed EXCEPT ![g] = {}]
  /\ held' = [held EXCEPT ![g] = NoBatch]

\* MUTANT: a mirror that cannot be verified is refreshed once more.
HealAgain(g) ==
  /\ pc[g] = "recheck"
  /\ sync[cur[g]] # "fresh"
  /\ CallEvaluate(g, All, "recheck")
  /\ UNCHANGED <<catalogue, env, mirror, heap, msg, request>>

\* The request fails as a whole: the mirror cannot be verified.
FailRequest(g) ==
  /\ pc[g] = "recheck"
  /\ sync[cur[g]] # "fresh"
  /\ EndRequest(g)
  /\ UNCHANGED <<catalogue, env, mirror, refresh, msg>>
  /\ Collect

\* MUTANT: the missed placements are looked up again without a refresh.
LookedUpWithoutRefresh(g) ==
  /\ pc[g] = "check"
  /\ todo[g] = {}
  /\ Goto(g, IF missed[g] = {} THEN "attach" ELSE "retry")
  /\ UNCHANGED <<catalogue, env, mirror, heap, refresh, msg, request>>

\* Every placement looked up: refresh once if any was missed.
LookedUp(g) ==
  /\ pc[g] = "check"
  /\ todo[g] = {}
  /\ IF missed[g] = {} THEN Goto(g, "attach") /\ UNCHANGED refresh
     ELSE CallEvaluate(g, All, "retry")
  /\ UNCHANGED <<catalogue, env, mirror, heap, msg, request>>

RetryMissed(g) ==
  /\ pc[g] = "retry"
  /\ held' = [held EXCEPT ![g] =
                [p \in Placement |-> IF p \in missed[g] THEN sched[p] ELSE @[p]]]
  /\ missed' = [missed EXCEPT ![g] = {}]
  /\ Goto(g, "attach")
  /\ UNCHANGED <<catalogue, env, mirror, heap, refresh, msg, todo, cur>>

\* Objects without a rule get the cached one, through the shared pointer.
AttachRules(g) ==
  LET bare == {s \in HeldSchedules(g) : heap[HeldBatch(g, s)].rule[s] = None}
      miss == {s \in bare : rules[RuleOf[s]] = None}
  IN
  /\ pc[g] = "attach"
  /\ heap' = Attached(g, bare, rules)
  /\ asked' = [asked EXCEPT ![g] = miss]
  /\ Goto(g, IF miss = {} THEN "serve" ELSE "fetchMissed")
  /\ UNCHANGED <<catalogue, env, mirror, scope, cont, snap, fetched, msg, request>>

FetchMissedRules(g) ==
  /\ pc[g] = "fetchMissed"
  /\ asked' = [asked EXCEPT ![g] = @ \ hidden]
  /\ fetched' = [fetched EXCEPT ![g] = RulesFor(asked[g])]
  /\ Goto(g, "backfill")
  /\ UNCHANGED <<catalogue, env, mirror, heap, scope, cont, snap, msg, request>>

FetchMissedFails(g) ==
  /\ pc[g] = "fetchMissed"
  /\ fails < MaxFails
  /\ fails' = fails + 1
  /\ asked' = [asked EXCEPT ![g] = {}]
  /\ Goto(g, "serve")
  /\ UNCHANGED <<catalogue, inbox, pings, pressure, mirror, heap, scope, cont, snap,
                 fetched, msg, request>>

\* MUTANT: the answer goes into the rule cache only.
BackfillCacheOnly(g) ==
  /\ pc[g] = "backfill"
  /\ rules' = [r \in Rule |->
                 IF fetched[g][r] # None /\ CanSet(rules[r]) THEN fetched[g][r] ELSE rules[r]]
  /\ asked' = [asked EXCEPT ![g] = {}]
  /\ fetched' = [fetched EXCEPT ![g] = NoRules]
  /\ Goto(g, "serve")
  /\ UNCHANGED <<catalogue, env, sched, vers, sync, heap, scope, cont, snap, msg,
                 request>>

\* The answer goes into the objects and into the rule cache.
Backfill(g) ==
  LET answered == {s \in asked[g] : fetched[g][RuleOf[s]] # None} IN
  /\ pc[g] = "backfill"
  /\ heap' = Attached(g, answered, fetched[g])
  /\ rules' = [r \in Rule |->
                 IF fetched[g][r] # None /\ CanSet(rules[r]) THEN fetched[g][r] ELSE rules[r]]
  /\ asked' = [asked EXCEPT ![g] = {}]
  /\ fetched' = [fetched EXCEPT ![g] = NoRules]
  /\ Goto(g, "serve")
  /\ UNCHANGED <<catalogue, env, sched, vers, sync, scope, cont, snap, msg, request>>

\* The schedules the response is evaluated from: those with a rule.
Served(g) == {s \in HeldSchedules(g) : heap[HeldBatch(g, s)].rule[s] # None}

Serve(g) ==
  /\ pc[g] = "serve"
  /\ EndRequest(g)
  /\ UNCHANGED <<catalogue, env, mirror, refresh, msg>>
  /\ Collect

Request(g) ==
  \/ \E p \in Placement : FindSchedules(g, p) \/ SelfHeal(g, p)
  \/ Healed(g) \/ FailRequest(g) \/ LookedUp(g) \/ RetryMissed(g)
  \/ AttachRules(g) \/ FetchMissedRules(g) \/ FetchMissedFails(g) \/ Backfill(g)
  \/ Serve(g)

-----------------------------------------------------------------------------
(* FlushCache *)

AfterFlush(g, reload) ==
  IF reload THEN CallEvaluate(g, All, "idle") ELSE UNCHANGED <<pc, refresh>>

FlushAll(g, reload) ==
  /\ May(g, "flush")
  /\ sched' = [p \in Placement |-> None]
  /\ rules' = [r \in Rule |-> None]
  /\ vers' = [p \in Placement |-> None]
  /\ sync' = [p \in Placement |-> None]
  /\ AfterFlush(g, reload)
  /\ UNCHANGED <<catalogue, env, msg, request>>
  /\ Collect

FlushPlacements(g, names, reload) ==
  LET flushed(map) == [p \in Placement |-> IF p \in names THEN None ELSE map[p]]
      used == {RuleOf[s] : s \in UNION {Group(sched[p], p) : p \in names}}
  IN
  /\ May(g, "flush")
  /\ sched' = flushed(sched)
  /\ rules' = [r \in Rule |-> IF r \in used THEN None ELSE rules[r]]
  /\ vers' = flushed(vers)
  /\ sync' = flushed(sync)
  /\ AfterFlush(g, reload)
  /\ UNCHANGED <<catalogue, env, msg, request>>
  /\ Collect

Flush(g) ==
  \E reload \in BOOLEAN :
    \/ FlushAll(g, reload)
    \/ \E names \in SUBSET Placement \ {{}} : FlushPlacements(g, names, reload)

-----------------------------------------------------------------------------
(* Specification *)

\* The process starts with an empty mirror and idle goroutines.
Init ==
  /\ active \in SUBSET Schedule /\ hidden = {}
  /\ upd = [s \in Schedule |-> 0]
  /\ ruleVer = [r \in Rule |-> 0]
  /\ edits = 0 /\ inbox = <<>> /\ pings = 0 /\ fails = 0 /\ pressure = FALSE
  /\ sched = NoBatch
  /\ rules = NoRules
  /\ vers = NoBatch
  /\ sync = NoBatch
  /\ heap = [x \in Gen |-> Freed]
  /\ pc = [g \in Proc |-> "idle"]
  /\ scope = [g \in Proc |-> All]
  /\ cont = [g \in Proc |-> "idle"]
  /\ asked = [g \in Proc |-> {}]
  /\ snap = [g \in Proc |-> None]
  /\ fetched = [g \in Proc |-> NoRules]
  /\ msg = [g \in Proc |-> None]
  /\ todo = [g \in Proc |-> {}]
  /\ cur = [g \in Proc |-> None]
  /\ missed = [g \in Proc |-> {}]
  /\ held = [g \in Proc |-> NoBatch]

\* What a goroutine does once it has something to do; callers of the API decide
\* for themselves when to come.
Run(g) == Evaluate(g) \/ Tick(g) \/ Subscriber(g) \/ Request(g)
Call(g) == StartRequest(g) \/ Flush(g)

Next ==
  \/ BackOffice \/ Monitor \/ Clock
  \/ \E g \in Proc : Run(g) \/ Call(g)

Spec == Init /\ [][Next]_vars

\* The Go scheduler runs every runnable goroutine and the ticker keeps firing.
FairSpec == Spec /\ \A g \in Proc : WF_vars(Run(g))

-----------------------------------------------------------------------------
(* Properties *)

PC == {"idle", "list", "load", "clear", "fetch", "syncSchedules", "syncRules",
       "syncVersions", "syncLastSync", "setPlacement", "setRules", "prune",
       "jitter", "check", "recheck", "retry", "attach", "fetchMissed", "backfill",
       "serve"}

TypeOK ==
  /\ active \subseteq Schedule /\ hidden \subseteq Schedule
  /\ upd \in [Schedule -> Nat]
  /\ ruleVer \in [Rule -> Nat \cup {None}]
  /\ edits \in Nat /\ pings \in Nat /\ fails \in Nat
  /\ inbox \in Seq(Message)
  /\ pressure \in BOOLEAN
  /\ sched \in [Placement -> Gen \cup {None}]
  /\ rules \in [Rule -> Nat \cup {None}]
  /\ vers \in [Placement -> {None} \cup Hash]
  /\ sync \in [Placement -> {"fresh", "stale", None}]
  /\ heap \in [Gen -> Batch]
  /\ pc \in [Proc -> PC]
  /\ scope \in [Proc -> Placement \cup {All}]
  /\ cont \in [Proc -> {"idle", "recheck", "retry"}]
  /\ asked \in [Proc -> SUBSET Schedule]
  /\ snap \in [Proc -> Gen \cup {None}]
  /\ fetched \in [Proc -> [Rule -> Nat \cup {None}]]
  /\ msg \in [Proc -> {None} \cup Message]
  /\ todo \in [Proc -> SUBSET Placement]
  /\ cur \in [Proc -> Placement \cup {None}]
  /\ missed \in [Proc -> SUBSET Placement]
  /\ held \in [Proc -> [Placement -> Gen \cup {None}]]

\* No full refresh is between its writes.
Settled == \A g \in Proc : pc[g] \notin {"syncRules", "syncVersions", "syncLastSync"}

\* The UpdatedAt of the schedule a request would read, and the version of the
\* rule it would evaluate it with.
Mirrored(s) ==
  LET x == sched[PlacementOf[s]] IN
  IF s \in Group(x, PlacementOf[s]) THEN heap[x].upd[s] ELSE None

RuleInUse(s) ==
  LET x == sched[PlacementOf[s]] IN
  IF s \in Group(x, PlacementOf[s]) /\ heap[x].rule[s] # None
  THEN heap[x].rule[s] ELSE rules[RuleOf[s]]

\* The version recorded for a placement is the hash of the schedules mirrored
\* under it, whichever of full refresh, targeted refresh, flush, expiry and
\* invalidation wrote the two keys: the subscriber skips pings on its word.
VersionDescribesMirror ==
  Settled => \A p \in Placement :
    sched[p] # None /\ vers[p] # None => vers[p] = HashOf(sched[p], p)

\* Mirrored schedules carry a version and a sync time: otherwise the staleness
\* check of GetPersonalizedContent lets them through unseen.
MirrorVouchedFor ==
  Settled => \A p \in Placement : sched[p] # None => vers[p] # None /\ sync[p] # None

\* The subscriber ignores a ping ("already mirrored, skipping pull") only if the
\* mirror holds the schedules the ping announces.
PingIgnored(g, m) ==
  \/ inbox # <<>> /\ m = Head(inbox) /\ inbox' = Tail(inbox) /\ msg' = msg
  \/ m # None /\ m = msg[g] /\ msg'[g] = None /\ pc'[g] = "idle"

SkipMeansMirrored ==
  [][\A g \in Proc : \A m \in {msg[g]} \cup {inbox[i] : i \in DOMAIN inbox} :
       PingIgnored(g, m) => sched[m.place] # None /\ HashOf(sched[m.place], m.place) = m.hash]_vars

\* A targeted refresh leaves the entries of the other placements alone ("we only
\* update specific keys").
TargetedLeavesOthersAlone ==
  [][\A g \in Proc : scope[g] # All /\ pc'[g] # pc[g] =>
       \A p \in Placement \ {scope[g]} :
         sched'[p] = sched[p] /\ vers'[p] = vers[p] /\ sync'[p] = sync[p]]_vars

\* A targeted refresh of placement p is on its way to write it.
Refilling(p) ==
  \E g \in Proc : scope[g] = p /\ pc[g] \in {"list", "load", "fetch", "setPlacement"}

\* A request that missed placements and refreshed finds on its second try those
\* that the database shows as active and no others ("ensure caches are populated
\* before the retry"), whatever refreshes overlap with its own: it misses one only
\* while the subscriber, which has invalidated it, refills it.
MissIsRetried ==
  [][\A g \in Proc : pc[g] = "retry" /\ pc'[g] = "attach" /\ edits = 0 /\ fails = 0 =>
       \A p \in missed[g] :
         /\ held'[g][p] # None => Visible(p) # {}
         /\ Visible(p) # {} => held'[g][p] # None \/ Refilling(p)]_vars

\* The subscriber ignores no ping while the schedules it announces are missing and
\* nobody is bringing them: with several goroutines refreshing, a version stands
\* without its schedules only while the refresh that follows an invalidation runs.
SkipsLoseNothing ==
  [][\A g \in Proc : \A m \in {msg[g]} \cup {inbox[i] : i \in DOMAIN inbox} :
       PingIgnored(g, m) /\ edits = 0 /\ fails = 0 =>
         \/ sched[m.place] # None /\ HashOf(sched[m.place], m.place) = m.hash
         \/ Refilling(m.place)]_vars

\* Whatever queries fail and however little memory is left, no write of evaluate
\* takes a placement off the mirror that the database has offered all along.
OutageKeepsContent ==
  [][\A g \in Proc : pc[g] \notin {"idle", "jitter"} /\ pc'[g] # pc[g] =>
       \A p \in Placement :
         edits = 0 /\ Visible(p) # {} /\ sched[p] # None => sched'[p] # None]_vars

\* A request refused after a self-heal met a failing query, or a placement with
\* no sync time left: a refresh never leaves the stale time standing, not even
\* for placements without schedules.
SelfHealSettlesStaleness ==
  [][\A g \in Proc : pc[g] = "recheck" /\ pc'[g] = "idle" =>
       fails > 0 \/ sync[cur[g]] = None]_vars

\* A request leaves out a schedule it read only if the rule is gone from the
\* database or its own query for it failed: rules that the mirror has lost to
\* expiry, pressure, a flush, an invalidation or a refresh whose rule query failed
\* are fetched on demand, into the objects the request holds.
Incomplete(g) == pc[g] = "serve" /\ Served(g) # HeldSchedules(g)

ResponseIsComplete ==
  [][\A g \in Proc :
       edits = 0 /\ Incomplete(g)' => Incomplete(g) \/ pc[g] = "fetchMissed"]_vars

\* Every content request is answered, with content or with an error, although
\* pings, flushes and expiry take away what its self-heal and its retry brought,
\* and queries fail: neither is repeated, and they do not feed each other.
RequestAnswered == \A g \in Proc : pc[g] = "check" ~> pc[g] = "idle"

\* Once the back office leaves the catalogue alone, requests read the current
\* schedules and the current rules, for good, whatever refreshes, backfills and
\* pings were under way at that moment.
MirrorCurrent ==
  \A p \in Placement :
    /\ Group(sched[p], p) = Visible(p)
    /\ \A s \in Visible(p) : Mirrored(s) = upd[s] /\ RuleInUse(s) = ruleVer[RuleOf[s]]

MirrorConverges == <>[]MirrorCurrent

\* The mirror is a replica of the catalogue whose copies are accounted for by what
\* refreshes saw, however many overlap: a write takes on no schedule its queries
\* did not return, drops none they returned, and leaves those outside its scope
\* alone.  A refresh pulls from its first query to its first write.
Pulling(g) == pc[g] \in {"load", "clear", "fetch", "syncSchedules", "setPlacement"}

Covered(g) == {s \in Schedule : scope[g] \in {All, PlacementOf[s]}}

Sighted(g) ==
  IF Pulling(g) THEN [over |-> Covered(g), seen |-> asked[g], sure |-> pc[g] # "load"]
  ELSE None

Kept == {s \in Schedule : s \in Group(sched[PlacementOf[s]], PlacementOf[s])}

Copies == INSTANCE Replica WITH
  Item <- Schedule, Puller <- Proc, listed <- active, deleted <- hidden,
  kept <- Kept, sight <- [g \in Proc |-> Sighted(g)]

ASSUME SightAssumption == None \notin Copies!Sight

MirrorIsReplica == Copies!Spec

\* Said where the subscriber invalidates: after a ping that names a rule, the
\* next read can never observe a stale copy of that rule.
PingDropsStaleRule ==
  [][\A g \in Proc : pc[g] = "jitter" /\ pc'[g] = "list" =>
       \A s \in Schedule : RuleOf[s] = msg[g].rule => RuleInUse(s)' \in {None, ruleVer[RuleOf[s]]}]_vars
=============================================================================

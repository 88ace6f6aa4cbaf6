---------------------------- MODULE MirrorProofs ----------------------------
(***************************************************************************)
(* Theorems about Mirror, for any number of placements, schedules, rules,  *)
(* goroutines and batches, and any bounds.                                 *)
(***************************************************************************)
EXTENDS Mirror, TLAPS

-----------------------------------------------------------------------------
(* Type correctness *)

\* Where evaluate is under way.
EvaluatePC == {"list", "load", "clear", "fetch", "syncSchedules", "syncRules",
               "syncVersions", "syncLastSync", "setPlacement", "setRules", "prune"}

\* What TypeOK needs to be inductive: a subscriber in its jitter has a ping, a
\* self-heal has its placement, and only evaluate has somewhere to return to.
Continuation ==
  \A g \in Proc :
    /\ pc[g] = "jitter" => msg[g] # None
    /\ pc[g] = "recheck" \/ cont[g] = "recheck" => cur[g] # None
    /\ cont[g] # "idle" => pc[g] \in EvaluatePC

TypeInv == TypeOK /\ Continuation

\* Hashes have the type of a version.
LEMMA HashOfType ==
  ASSUME TypeOK, NEW x \in Gen \cup {None}, NEW p \in Placement
  PROVE  HashOf(x, p) \in Hash
BY MirrorAssumption DEF TypeOK, HashOf, Hash, Group, Batch

\* A collection leaves a heap of the type of a heap.
LEMMA CollectType ==
  ASSUME TypeOK, Collect
  PROVE  heap' \in [Gen -> Batch]
BY DEF TypeOK, Collect, Collected, Freed, Batch

LEMMA InitType == Init => TypeInv
<1> SUFFICES ASSUME Init PROVE TypeInv
  OBVIOUS
<1>1. TypeOK
  <2>1. heap \in [Gen -> Batch]
    BY DEF Init, Freed, Batch
  <2>2. inbox \in Seq(Message)
    BY DEF Init
  <2>3. /\ sched \in [Placement -> Gen \cup {None}]
        /\ rules \in [Rule -> Nat \cup {None}]
        /\ vers \in [Placement -> {None} \cup Hash]
        /\ sync \in [Placement -> {"fresh", "stale", None}]
    BY DEF Init, NoBatch, NoRules
  <2>4. /\ fetched \in [Proc -> [Rule -> Nat \cup {None}]]
        /\ held \in [Proc -> [Placement -> Gen \cup {None}]]
    BY DEF Init, NoBatch, NoRules
  <2>5. /\ active \subseteq Schedule /\ hidden \subseteq Schedule
        /\ upd \in [Schedule -> Nat]
        /\ ruleVer \in [Rule -> Nat \cup {None}]
        /\ edits \in Nat /\ pings \in Nat /\ fails \in Nat
        /\ pressure \in BOOLEAN
    BY DEF Init
  <2>6. /\ pc \in [Proc -> PC]
        /\ scope \in [Proc -> Placement \cup {All}]
        /\ cont \in [Proc -> {"idle", "recheck", "retry"}]
        /\ asked \in [Proc -> SUBSET Schedule]
        /\ snap \in [Proc -> Gen \cup {None}]
        /\ msg \in [Proc -> {None} \cup Message]
        /\ todo \in [Proc -> SUBSET Placement]
        /\ cur \in [Proc -> Placement \cup {None}]
        /\ missed \in [Proc -> SUBSET Placement]
    BY DEF Init, PC
  <2> QED BY <2>1, <2>2, <2>3, <2>4, <2>5, <2>6 DEF TypeOK
<1>2. Continuation
  BY DEF Init, Continuation
<1> QED BY <1>1, <1>2 DEF TypeInv

LEMMA EnvironmentType ==
  ASSUME TypeInv, BackOffice \/ Monitor \/ Clock
  PROVE  TypeInv'
<1> USE DEF TypeInv, TypeOK, Continuation, env, mirror, refresh, request
<1>1. ASSUME NEW s \in Schedule, OpenOrCloseWindow(s) PROVE TypeInv'
  BY <1>1 DEF OpenOrCloseWindow, Changing
<1>2. ASSUME NEW s \in Schedule, EditSchedule(s) PROVE TypeInv'
  BY <1>2 DEF EditSchedule, Changing
<1>3. ASSUME NEW s \in Schedule, SoftDelete(s) PROVE TypeInv'
  BY <1>3 DEF SoftDelete, Changing
<1>4. ASSUME NEW r \in Rule, EditRule(r) PROVE TypeInv'
  BY <1>4, MirrorAssumption DEF EditRule, Changing
<1>5. ASSUME NEW r \in Rule, SoftDeleteRule(r) PROVE TypeInv'
  BY <1>5 DEF SoftDeleteRule, Changing
<1>6. ASSUME NEW p \in Placement \cup {None}, NEW r \in Rule \cup {None},
             NEW h \in {None} \cup Hash, Publish(p, r, h)
      PROVE  TypeInv'
  BY <1>6 DEF Publish, Message, catalogue
<1>7. ASSUME Monitor PROVE TypeInv'
  BY <1>7 DEF Monitor, catalogue
<1>8. ASSUME NEW p \in Placement, Age(p) PROVE TypeInv'
  BY <1>8 DEF Age, catalogue
<1>9. ASSUME NEW p \in Placement, Expire(p) PROVE TypeInv'
  <2>1. heap' \in [Gen -> Batch]
    BY <1>9, CollectType DEF Expire
  <2> QED BY <1>9, <2>1 DEF Expire, catalogue
<1>10. ASSUME NEW r \in Rule, ExpireRule(r) PROVE TypeInv'
  BY <1>10 DEF ExpireRule, catalogue
<1>11. ASSUME NEW p \in Placement PROVE VisibleHash(p) \in Hash
  BY DEF VisibleHash, Visible, Hash
<1> QED
  BY <1>1, <1>2, <1>3, <1>4, <1>5, <1>6, <1>7, <1>8, <1>9, <1>10, <1>11
  DEF BackOffice, Clock

\* What the callers of evaluate need to know of the call.
Called(g, then) ==
  /\ pc' = [pc EXCEPT ![g] = "list"]
  /\ scope' \in [Proc -> Placement \cup {All}]
  /\ cont' = [cont EXCEPT ![g] = then]
  /\ UNCHANGED <<asked, snap, fetched>>

LEMMA CallType ==
  ASSUME TypeInv, NEW g \in Proc, NEW sc \in Placement \cup {All},
         NEW then \in {"idle", "recheck", "retry"}, CallEvaluate(g, sc, then)
  PROVE  Called(g, then)
BY DEF CallEvaluate, Called, Goto, TypeInv, TypeOK

LEMMA ReturnType ==
  ASSUME TypeInv, NEW g \in Proc, Return(g)
  PROVE  /\ pc' \in [Proc -> PC]
         /\ scope' \in [Proc -> Placement \cup {All}]
         /\ cont' \in [Proc -> {"idle", "recheck", "retry"}]
         /\ asked' \in [Proc -> SUBSET Schedule]
         /\ snap' \in [Proc -> Gen \cup {None}]
         /\ fetched' \in [Proc -> [Rule -> Nat \cup {None}]]
         /\ pc' = [pc EXCEPT ![g] = cont[g]]
         /\ cont' = [cont EXCEPT ![g] = "idle"]
BY DEF Return, Goto, TypeInv, TypeOK, PC, NoRules

\* A step of evaluate that returns keeps the state well-formed if what it writes
\* to the mirror, the heap and the error budget is.
LEMMA ReturnedType ==
  ASSUME TypeInv, NEW g \in Proc, Return(g), pc[g] \in EvaluatePC,
         UNCHANGED <<catalogue, inbox, pings, pressure, msg, request>>,
         fails' \in Nat, heap' \in [Gen -> Batch],
         sched' \in [Placement -> Gen \cup {None}],
         rules' \in [Rule -> Nat \cup {None}],
         vers' \in [Placement -> {None} \cup Hash],
         sync' \in [Placement -> {"fresh", "stale", None}]
  PROVE  TypeInv'
<1>1. TypeOK'
  BY ReturnType DEF TypeInv, TypeOK, catalogue, request
<1>2. pc'[g] = cont[g] /\ cont'[g] = "idle"
  BY ReturnType DEF TypeInv, TypeOK
<1>3. \A h \in Proc : h # g => pc'[h] = pc[h] /\ cont'[h] = cont[h]
  BY ReturnType DEF TypeInv, TypeOK
<1>4. msg' = msg /\ cur' = cur
  BY DEF request
<1>5. cont[g] # "jitter"
  BY DEF TypeInv, TypeOK
<1>6. Continuation'
  BY <1>2, <1>3, <1>4, <1>5 DEF TypeInv, Continuation
<1> QED BY <1>1, <1>6 DEF TypeInv

\* What a batch loaded by LoadSchedules looks like.
LEMMA FreshBatch ==
  ASSUME Gen \ Live # {}
  PROVE  /\ (CHOOSE y \in Gen : y \notin Live) \in Gen
         /\ (CHOOSE y \in Gen : y \notin Live) \notin Live
OBVIOUS

LEMMA RulesForType ==
  ASSUME TypeOK, NEW ids
  PROVE  RulesFor(ids) \in [Rule -> Nat \cup {None}]
BY DEF RulesFor, TypeOK

LEMMA EvaluateType ==
  ASSUME TypeInv, NEW g \in Proc, Evaluate(g)
  PROVE  TypeInv'
<1> USE DEF TypeInv, TypeOK, Continuation, catalogue, env, mirror, refresh, request
<1>1. ASSUME ListOccurrences(g) PROVE TypeInv'
  BY <1>1 DEF ListOccurrences, Goto, PC, EvaluatePC
<1>2. ASSUME LoadSchedules(g) PROVE TypeInv'
  <2> DEFINE ids == asked[g] \ hidden
             x == CHOOSE y \in Gen : y \notin Live
             b == [ids |-> ids,
                   upd |-> [s \in Schedule |-> IF s \in ids THEN upd[s] ELSE 0],
                   rule |-> [s \in Schedule |-> None]]
  <2>1. x \in Gen
    BY <1>2, FreshBatch DEF LoadSchedules
  <2>2. b \in Batch
    BY DEF Batch
  <2> HIDE DEF x, b
  <2>3. CASE ids = {}
    <3>1. /\ pc[g] = "load"
          /\ pc' = [pc EXCEPT ![g] = "syncSchedules"]
          /\ asked' = [asked EXCEPT ![g] = ids]
          /\ UNCHANGED <<catalogue, env, mirror, heap, scope, cont, snap, fetched, msg, request>>
      BY <1>2, <2>3 DEF LoadSchedules, Goto, x, b
    <3> QED BY <3>1 DEF PC, EvaluatePC
  <2>4. CASE ids # {}
    <3>1. /\ pc[g] = "load"
          /\ pc' = [pc EXCEPT ![g] = "fetch"]
          /\ asked' = [asked EXCEPT ![g] = ids]
          /\ snap' = [snap EXCEPT ![g] = x]
          /\ heap' = [heap EXCEPT ![x] = b]
          /\ UNCHANGED <<catalogue, env, mirror, scope, cont, fetched, msg, request>>
      BY <1>2, <2>4 DEF LoadSchedules, Goto, x, b
    <3>2. heap' \in [Gen -> Batch]
      BY <2>1, <2>2, <3>1
    <3> QED BY <2>1, <3>1, <3>2 DEF PC, EvaluatePC
  <2> QED BY <2>3, <2>4
<1>3. ASSUME ListFails(g) PROVE TypeInv'
  <2>1. fails' \in Nat
    BY <1>3 DEF ListFails
  <2> QED BY <1>3, <2>1, ReturnedType DEF ListFails, EvaluatePC
<1>4. ASSUME ClearPlacement(g) PROVE TypeInv'
  <2>1. heap' \in [Gen -> Batch]
    BY <1>4, CollectType DEF ClearPlacement
  <2>2. /\ sched' \in [Placement -> Gen \cup {None}]
        /\ vers' \in [Placement -> {None} \cup Hash]
        /\ sync' \in [Placement -> {"fresh", "stale", None}]
    BY <1>4 DEF ClearPlacement
  <2>3. /\ Return(g) /\ pc[g] = "clear"
        /\ UNCHANGED <<catalogue, env, rules, msg, request>>
    BY <1>4 DEF ClearPlacement
  <2> QED BY <2>1, <2>2, <2>3, ReturnedType DEF EvaluatePC
<1>5. ASSUME FetchRules(g) PROVE TypeInv'
  <2>1. RulesFor(asked[g]) \in [Rule -> Nat \cup {None}]
    BY RulesForType
  <2>2. /\ pc[g] = "fetch"
        /\ fetched' = [fetched EXCEPT ![g] = RulesFor(asked[g])]
        /\ UNCHANGED <<catalogue, env, mirror, heap, scope, cont, asked, snap, msg, request>>
    BY <1>5 DEF FetchRules
  <2>3. \/ pc' = [pc EXCEPT ![g] = "syncSchedules"]
        \/ pc' = [pc EXCEPT ![g] = "setPlacement"]
    BY <1>5 DEF FetchRules, AfterFetch, Goto
  <2> QED BY <2>1, <2>2, <2>3 DEF PC, EvaluatePC
<1>6. ASSUME FetchRulesFails(g) PROVE TypeInv'
  BY <1>6 DEF FetchRulesFails, AfterFetch, Goto, PC, EvaluatePC
<1>7. ASSUME SyncSchedules(g) PROVE TypeInv'
  <2>1. heap' \in [Gen -> Batch]
    BY <1>7, CollectType DEF SyncSchedules
  <2>2. sched' \in [Placement -> Gen \cup {None}]
    BY <1>7 DEF SyncSchedules, Replace
  <2>3. /\ pc[g] = "syncSchedules" /\ pc' = [pc EXCEPT ![g] = "syncRules"]
        /\ UNCHANGED <<catalogue, env, rules, vers, sync, refresh, msg, request>>
    BY <1>7 DEF SyncSchedules, Goto
  <2> QED BY <2>1, <2>2, <2>3 DEF PC, EvaluatePC
<1>8. ASSUME SyncRules(g) PROVE TypeInv'
  BY <1>8 DEF SyncRules, Goto, PC, EvaluatePC
<1>9. ASSUME SyncVersions(g) PROVE TypeInv'
  <2>1. vers' \in [Placement -> {None} \cup Hash]
    BY <1>9, HashOfType DEF SyncVersions, Replace
  <2>2. /\ pc[g] = "syncVersions" /\ pc' = [pc EXCEPT ![g] = "syncLastSync"]
        /\ UNCHANGED <<catalogue, env, sched, rules, sync, heap, refresh, msg, request>>
    BY <1>9 DEF SyncVersions, Goto
  <2> QED BY <2>1, <2>2 DEF PC, EvaluatePC
<1>10. ASSUME SyncLastSync(g) PROVE TypeInv'
  <2>1. heap' \in [Gen -> Batch]
    BY <1>10, CollectType DEF SyncLastSync
  <2>2. sync' \in [Placement -> {"fresh", "stale", None}]
    BY <1>10 DEF SyncLastSync, Replace
  <2>3. /\ Return(g) /\ pc[g] = "syncLastSync"
        /\ UNCHANGED <<catalogue, env, sched, rules, vers, msg, request>>
    BY <1>10 DEF SyncLastSync
  <2> QED BY <2>1, <2>2, <2>3, ReturnedType DEF EvaluatePC
<1>11. ASSUME SetPlacement(g) PROVE TypeInv'
  <2>1. heap' \in [Gen -> Batch]
    BY <1>11, CollectType DEF SetPlacement
  <2>2. /\ sched' \in [Placement -> Gen \cup {None}]
        /\ sync' \in [Placement -> {"fresh", "stale", None}]
    BY <1>11 DEF SetPlacement, Overwrite
  <2>3. vers' \in [Placement -> {None} \cup Hash]
    BY <1>11, HashOfType DEF SetPlacement, Overwrite
  <2>4. /\ pc[g] = "setPlacement" /\ pc' = [pc EXCEPT ![g] = "setRules"]
        /\ UNCHANGED <<catalogue, env, rules, refresh, msg, request>>
    BY <1>11 DEF SetPlacement, Goto
  <2> QED BY <2>1, <2>2, <2>3, <2>4 DEF PC, EvaluatePC
<1>12. ASSUME SetRules(g) PROVE TypeInv'
  BY <1>12 DEF SetRules, Goto, PC, EvaluatePC
<1>13. ASSUME PruneOrphanedRules(g) PROVE TypeInv'
  <2>1. heap' \in [Gen -> Batch]
    BY <1>13, CollectType DEF PruneOrphanedRules
  <2>2. rules' \in [Rule -> Nat \cup {None}]
    BY <1>13 DEF PruneOrphanedRules
  <2>3. /\ Return(g) /\ pc[g] = "prune"
        /\ UNCHANGED <<catalogue, env, sched, vers, sync, msg, request>>
    BY <1>13 DEF PruneOrphanedRules
  <2> QED BY <2>1, <2>2, <2>3, ReturnedType DEF EvaluatePC
<1> QED
  BY <1>1, <1>2, <1>3, <1>4, <1>5, <1>6, <1>7, <1>8, <1>9, <1>10, <1>11, <1>12, <1>13
  DEF Evaluate

LEMMA NoMessage == \A m \in Message : m # None
BY PingAssumption

LEMMA SubscriberType ==
  ASSUME TypeInv, NEW g \in Proc, Tick(g) \/ Subscriber(g)
  PROVE  TypeInv'
<1> USE DEF TypeInv, TypeOK, Continuation, catalogue, env, mirror, request
<1>1. ASSUME Tick(g) PROVE TypeInv'
  <2>1. CallEvaluate(g, All, "idle") /\ pc[g] = "idle"
    BY <1>1 DEF Tick, May
  <2>2. UNCHANGED <<catalogue, env, mirror, heap, msg, request>>
    BY <1>1 DEF Tick
  <2>3. Called(g, "idle")
    BY <2>1, CallType
  <2> QED BY <2>1, <2>2, <2>3 DEF Called, PC, EvaluatePC
<1>2. ASSUME ReceivePing(g) PROVE TypeInv'
  <2>1. /\ pc[g] = "idle"
        /\ inbox # <<>>
        /\ inbox' = Tail(inbox)
        /\ UNCHANGED <<catalogue, pings, fails, pressure, mirror, heap, refresh, request>>
        /\ \/ UNCHANGED <<pc, msg>>
           \/ pc' = [pc EXCEPT ![g] = "jitter"] /\ msg' = [msg EXCEPT ![g] = Head(inbox)]
    BY <1>2 DEF ReceivePing, May, Goto
  <2>2. Head(inbox) \in Message /\ inbox' \in Seq(Message)
    BY <2>1
  <2>3. Head(inbox) # None
    BY <2>2, NoMessage
  <2>4. CASE UNCHANGED <<pc, msg>>
    BY <2>1, <2>2, <2>4 DEF refresh
  <2>5. CASE pc' = [pc EXCEPT ![g] = "jitter"] /\ msg' = [msg EXCEPT ![g] = Head(inbox)]
    <3>1. msg' \in [Proc -> {None} \cup Message]
      BY <2>2, <2>5
    <3>2. pc' \in [Proc -> PC]
      BY <2>5 DEF PC
    <3>3. TypeOK'
      BY <2>1, <2>2, <3>1, <3>2 DEF refresh
    <3> HIDE DEF TypeOK
    <3>4. Continuation'
      BY <2>1, <2>3, <2>5 DEF TypeOK, EvaluatePC, refresh
    <3> QED BY <3>3, <3>4
  <2> QED BY <2>1, <2>4, <2>5
<1>3. ASSUME SkipPing(g) PROVE TypeInv'
  BY <1>3 DEF SkipPing, Goto, PC, EvaluatePC, refresh
<1>4. ASSUME HandlePing(g) PROVE TypeInv'
  <2>1. msg[g] \in Message /\ pc[g] = "jitter"
    BY <1>4 DEF HandlePing
  <2>2. PingScope(msg[g]) \in Placement \cup {All}
    BY <2>1 DEF PingScope, Message
  <2>3. CallEvaluate(g, PingScope(msg[g]), "idle")
    BY <1>4 DEF HandlePing
  <2>4. heap' \in [Gen -> Batch]
    BY <1>4, CollectType DEF HandlePing
  <2>5. /\ rules' \in [Rule -> Nat \cup {None}]
        /\ sched' \in [Placement -> Gen \cup {None}]
    BY <1>4 DEF HandlePing
  <2>6. /\ msg' = [msg EXCEPT ![g] = None]
        /\ UNCHANGED <<catalogue, env, vers, sync, request>>
    BY <1>4 DEF HandlePing
  <2>7. Called(g, "idle")
    BY <2>2, <2>3, CallType
  <2> QED BY <2>1, <2>4, <2>5, <2>6, <2>7 DEF Called, PC, EvaluatePC
<1> QED BY <1>1, <1>2, <1>3, <1>4 DEF Subscriber

LEMMA AttachedType ==
  ASSUME TypeOK, NEW g \in Proc, NEW ids,
         NEW version \in [Rule -> Nat \cup {None}]
  PROVE  Attached(g, ids, version) \in [Gen -> Batch]
<1> SUFFICES ASSUME NEW x \in Gen PROVE Attached(g, ids, version)[x] \in Batch
  BY DEF Attached
<1> DEFINE rule == [s \in Schedule |-> IF s \in ids /\ HeldBatch(g, s) = x
                                       THEN version[RuleOf[s]] ELSE heap[x].rule[s]]
<1>1. heap[x] \in Batch
  BY DEF TypeOK
<1>2. rule \in [Schedule -> Nat \cup {None}]
  BY <1>1, MirrorAssumption DEF Batch
<1>3. Attached(g, ids, version)[x] = [heap[x] EXCEPT !.rule = rule]
  BY DEF Attached
<1> HIDE DEF rule
<1> QED BY <1>1, <1>2, <1>3 DEF Batch

\* What the steps of a request need to know of a lookup, and of its end.
Found(g) ==
  /\ pc' = [pc EXCEPT ![g] = "check"]
  /\ todo' \in [Proc -> SUBSET Placement]
  /\ missed' \in [Proc -> SUBSET Placement]
  /\ held' \in [Proc -> [Placement -> Gen \cup {None}]]

Ended(g) ==
  /\ pc' = [pc EXCEPT ![g] = "idle"]
  /\ cur' = [cur EXCEPT ![g] = None]
  /\ todo' \in [Proc -> SUBSET Placement]
  /\ missed' \in [Proc -> SUBSET Placement]
  /\ held' \in [Proc -> [Placement -> Gen \cup {None}]]

LEMMA LookupType ==
  ASSUME TypeInv, NEW g \in Proc, NEW p \in Placement, Lookup(g, p)
  PROVE  Found(g)
<1>1. /\ todo' = [todo EXCEPT ![g] = @ \ {p}]
      /\ pc' = [pc EXCEPT ![g] = "check"]
      /\ \/ missed' = [missed EXCEPT ![g] = @ \cup {p}] /\ held' = held
         \/ held' = [held EXCEPT ![g][p] = sched[p]] /\ missed' = missed
  BY DEF Lookup, Goto
<1>2. /\ todo \in [Proc -> SUBSET Placement]
      /\ missed \in [Proc -> SUBSET Placement]
      /\ held \in [Proc -> [Placement -> Gen \cup {None}]]
      /\ sched[p] \in Gen \cup {None}
  BY DEF TypeInv, TypeOK
<1>3. [held[g] EXCEPT ![p] = sched[p]] \in [Placement -> Gen \cup {None}]
  BY <1>2
<1>4. held' \in [Proc -> [Placement -> Gen \cup {None}]]
  BY <1>1, <1>2, <1>3
<1>5. todo' \in [Proc -> SUBSET Placement] /\ missed' \in [Proc -> SUBSET Placement]
  BY <1>1, <1>2
<1> QED BY <1>1, <1>4, <1>5 DEF Found

LEMMA EndRequestType ==
  ASSUME TypeInv, NEW g \in Proc, EndRequest(g)
  PROVE  Ended(g)
BY DEF EndRequest, Ended, Goto, NoBatch, TypeInv, TypeOK

LEMMA EndedType ==
  ASSUME TypeInv, NEW g \in Proc, Ended(g), pc[g] \in {"recheck", "serve"},
         heap' \in [Gen -> Batch],
         UNCHANGED <<catalogue, env, mirror, refresh, msg>>
  PROVE  TypeInv'
<1>1. /\ pc' \in [Proc -> PC]
      /\ cur' \in [Proc -> Placement \cup {None}]
  BY DEF Ended, TypeInv, TypeOK, PC
<1>2. TypeOK'
  BY <1>1 DEF Ended, TypeInv, TypeOK, catalogue, env, mirror, refresh
<1>3. \A h \in Proc : h # g => pc'[h] = pc[h] /\ cur'[h] = cur[h]
  BY DEF Ended, TypeInv, TypeOK
<1>4. pc'[g] = "idle" /\ cont[g] = "idle"
  BY DEF Ended, TypeInv, TypeOK, Continuation, EvaluatePC
<1>5. cont' = cont /\ msg' = msg
  BY DEF refresh
<1>6. Continuation'
  BY <1>3, <1>4, <1>5 DEF Continuation, TypeInv
<1> QED BY <1>2, <1>6 DEF TypeInv

LEMMA RequestType ==
  ASSUME TypeInv, NEW g \in Proc, StartRequest(g) \/ Request(g)
  PROVE  TypeInv'
<1> USE DEF TypeInv, TypeOK, Continuation, catalogue, env, mirror, refresh
<1>1. ASSUME StartRequest(g) PROVE TypeInv'
  BY <1>1 DEF StartRequest, May, Goto, PC, EvaluatePC
<1>2. ASSUME NEW p \in Placement, FindSchedules(g, p) PROVE TypeInv'
  <2>1. /\ Lookup(g, p) /\ pc[g] = "check"
        /\ UNCHANGED <<catalogue, env, mirror, heap, refresh, msg, cur>>
    BY <1>2 DEF FindSchedules
  <2>2. Found(g)
    BY <2>1, LookupType
  <2> QED BY <2>1, <2>2 DEF Found, PC, EvaluatePC
<1>3. ASSUME NEW p \in Placement, SelfHeal(g, p) PROVE TypeInv'
  <2>1. CallEvaluate(g, All, "recheck") /\ pc[g] = "check" /\ p # None
    BY <1>3, MirrorAssumption DEF SelfHeal
  <2>2. Called(g, "recheck")
    BY <2>1, CallType
  <2> QED BY <1>3, <2>1, <2>2 DEF SelfHeal, Called, PC, EvaluatePC
<1>4. ASSUME Healed(g) PROVE TypeInv'
  <2>1. cur[g] \in Placement /\ pc[g] = "recheck" /\ Lookup(g, cur[g])
    BY <1>4 DEF Healed
  <2>2. /\ cur' = [cur EXCEPT ![g] = None]
        /\ UNCHANGED <<catalogue, env, mirror, heap, refresh, msg>>
    BY <1>4 DEF Healed
  <2>3. Found(g)
    BY <2>1, LookupType
  <2> QED BY <2>1, <2>2, <2>3 DEF Found, PC, EvaluatePC
<1>5. ASSUME FailRequest(g) PROVE TypeInv'
  <2>1. heap' \in [Gen -> Batch]
    BY <1>5, CollectType DEF FailRequest
  <2>2. /\ EndRequest(g) /\ pc[g] = "recheck"
        /\ UNCHANGED <<catalogue, env, mirror, refresh, msg>>
    BY <1>5 DEF FailRequest
  <2>3. Ended(g)
    BY <2>2, EndRequestType
  <2> HIDE DEF TypeInv
  <2> QED BY <2>1, <2>2, <2>3, EndedType
<1>6. ASSUME LookedUp(g) PROVE TypeInv'
  <2>1. CASE missed[g] = {}
    <3>1. /\ pc[g] = "check" /\ pc' = [pc EXCEPT ![g] = "attach"]
          /\ UNCHANGED <<catalogue, env, mirror, heap, refresh, msg, request>>
      BY <1>6, <2>1 DEF LookedUp, Goto
    <3> QED BY <3>1 DEF PC, EvaluatePC, request
  <2>2. CASE missed[g] # {}
    <3>1. /\ CallEvaluate(g, All, "retry") /\ pc[g] = "check"
          /\ UNCHANGED <<catalogue, env, mirror, heap, msg, request>>
      BY <1>6, <2>2 DEF LookedUp
    <3>2. Called(g, "retry")
      BY <3>1, CallType
    <3> QED BY <3>1, <3>2 DEF Called, PC, EvaluatePC, request
  <2> QED BY <2>1, <2>2
<1>7. ASSUME RetryMissed(g) PROVE TypeInv'
  BY <1>7 DEF RetryMissed, Goto, PC, EvaluatePC
<1>8. ASSUME AttachRules(g) PROVE TypeInv'
  <2> DEFINE bare == {s \in HeldSchedules(g) : heap[HeldBatch(g, s)].rule[s] = None}
  <2>1. heap' = Attached(g, bare, rules)
    BY <1>8 DEF AttachRules
  <2>2. heap' \in [Gen -> Batch]
    BY <2>1, AttachedType
  <2>3. asked' \in [Proc -> SUBSET Schedule]
    BY <1>8 DEF AttachRules, HeldSchedules
  <2>4. \/ pc' = [pc EXCEPT ![g] = "serve"]
        \/ pc' = [pc EXCEPT ![g] = "fetchMissed"]
    BY <1>8 DEF AttachRules, Goto
  <2> HIDE DEF bare
  <2> QED BY <1>8, <2>2, <2>3, <2>4 DEF AttachRules, PC, EvaluatePC, request
<1>9. ASSUME FetchMissedRules(g) PROVE TypeInv'
  <2>1. RulesFor(asked[g]) \in [Rule -> Nat \cup {None}]
    BY RulesForType
  <2> QED BY <1>9, <2>1 DEF FetchMissedRules, Goto, PC, EvaluatePC, request
<1>10. ASSUME FetchMissedFails(g) PROVE TypeInv'
  BY <1>10 DEF FetchMissedFails, Goto, PC, EvaluatePC, request
<1>11. ASSUME Backfill(g) PROVE TypeInv'
  <2>1. heap' \in [Gen -> Batch]
    BY <1>11, AttachedType DEF Backfill
  <2>2. rules' \in [Rule -> Nat \cup {None}]
    BY <1>11 DEF Backfill
  <2> QED BY <1>11, <2>1, <2>2 DEF Backfill, NoRules, Goto, PC, EvaluatePC, request
<1>12. ASSUME Serve(g) PROVE TypeInv'
  <2>1. heap' \in [Gen -> Batch]
    BY <1>12, CollectType DEF Serve
  <2>2. /\ EndRequest(g) /\ pc[g] = "serve"
        /\ UNCHANGED <<catalogue, env, mirror, refresh, msg>>
    BY <1>12 DEF Serve
  <2>3. Ended(g)
    BY <2>2, EndRequestType
  <2> HIDE DEF TypeInv
  <2> QED BY <2>1, <2>2, <2>3, EndedType
<1> QED
  BY <1>1, <1>2, <1>3, <1>4, <1>5, <1>6, <1>7, <1>8, <1>9, <1>10, <1>11, <1>12
  DEF Request

LEMMA FlushType ==
  ASSUME TypeInv, NEW g \in Proc, Flush(g)
  PROVE  TypeInv'
<1> USE DEF TypeInv, TypeOK, Continuation, catalogue, env, request
<1>1. ASSUME NEW reload \in BOOLEAN, AfterFlush(g, reload), May(g, "flush"),
             heap' \in [Gen -> Batch],
             sched' \in [Placement -> Gen \cup {None}],
             rules' \in [Rule -> Nat \cup {None}],
             vers' \in [Placement -> {None} \cup Hash],
             sync' \in [Placement -> {"fresh", "stale", None}],
             UNCHANGED <<catalogue, env, msg, request>>
      PROVE  TypeInv'
  <2>1. CASE reload
    <3>1. CallEvaluate(g, All, "idle") /\ pc[g] = "idle"
      BY <1>1, <2>1 DEF AfterFlush, May
    <3>2. Called(g, "idle")
      BY <3>1, CallType
    <3> QED BY <1>1, <3>1, <3>2 DEF Called, PC, EvaluatePC
  <2>2. CASE ~reload
    BY <1>1, <2>2 DEF AfterFlush, refresh
  <2> QED BY <2>1, <2>2
<1>2. ASSUME NEW reload \in BOOLEAN, FlushAll(g, reload) PROVE TypeInv'
  <2>1. heap' \in [Gen -> Batch]
    BY <1>2, CollectType DEF FlushAll
  <2> QED BY <1>1, <1>2, <2>1 DEF FlushAll
<1>3. ASSUME NEW reload \in BOOLEAN, NEW names \in SUBSET Placement,
             FlushPlacements(g, names, reload)
      PROVE  TypeInv'
  <2>1. heap' \in [Gen -> Batch]
    BY <1>3, CollectType DEF FlushPlacements
  <2> QED BY <1>1, <1>3, <2>1 DEF FlushPlacements
<1> QED BY <1>2, <1>3 DEF Flush

LEMMA NextType == TypeInv /\ [Next]_vars => TypeInv'
<1> SUFFICES ASSUME TypeInv, [Next]_vars PROVE TypeInv'
  OBVIOUS
<1>1. CASE Next
  <2>1. CASE BackOffice \/ Monitor \/ Clock
    BY <2>1, EnvironmentType
  <2>2. ASSUME NEW g \in Proc, Run(g) PROVE TypeInv'
    BY <2>2, EvaluateType, SubscriberType, RequestType DEF Run
  <2>3. ASSUME NEW g \in Proc, Call(g) PROVE TypeInv'
    BY <2>3, RequestType, FlushType DEF Call
  <2> QED BY <1>1, <2>1, <2>2, <2>3 DEF Next
<1>2. CASE UNCHANGED vars
  BY <1>2 DEF vars, TypeInv, TypeOK, Continuation, catalogue, env, mirror, refresh, request
<1> QED BY <1>1, <1>2

LEMMA TypeInvariant == Spec => []TypeInv
<1>1. Init => TypeInv
  BY InitType
<1>2. TypeInv /\ [Next]_vars => TypeInv'
  BY NextType
<1> QED BY <1>1, <1>2, PTL DEF Spec

\* The state of the service is always well-formed: what each cache map, batch,
\* ping and goroutine can hold, whatever is interleaved with what.
THEOREM TypeCorrect == Spec => []TypeOK
<1>1. TypeInv => TypeOK
  BY DEF TypeInv
<1> QED BY <1>1, TypeInvariant, PTL

-----------------------------------------------------------------------------
(* The heap *)

\* How a step may touch the heap: not at all, by a collection, by setting rule
\* pointers, or by loading a batch.
LEMMA HeapStep ==
  ASSUME TypeInv, [Next]_vars
  PROVE  \/ heap' = heap
         \/ Collect
         \/ \E g \in Proc : \E ids, version : heap' = Attached(g, ids, version)
         \/ \E g \in Proc : LoadSchedules(g)
<1>1. CASE BackOffice \/ Monitor \/ Clock
  BY <1>1 DEF BackOffice, Monitor, Clock, OpenOrCloseWindow, EditSchedule, SoftDelete,
     EditRule, SoftDeleteRule, Publish, Age, Expire, ExpireRule
<1>2. ASSUME NEW g \in Proc, Evaluate(g)
      PROVE  heap' = heap \/ Collect \/ LoadSchedules(g)
  BY <1>2 DEF Evaluate, ListOccurrences, ListFails, ClearPlacement, FetchRules,
     FetchRulesFails, SyncSchedules, SyncRules, SyncVersions, SyncLastSync, SetPlacement,
     SetRules, PruneOrphanedRules
<1>3. ASSUME NEW g \in Proc, Tick(g) \/ Subscriber(g) \/ Call(g)
      PROVE  heap' = heap \/ Collect
  BY <1>3 DEF Tick, Subscriber, ReceivePing, SkipPing, HandlePing, Call, StartRequest,
     Flush, FlushAll, FlushPlacements
<1>4. ASSUME NEW g \in Proc, Request(g)
      PROVE  heap' = heap \/ Collect \/ \E ids, version : heap' = Attached(g, ids, version)
  BY <1>4 DEF Request, FindSchedules, SelfHeal, Healed, FailRequest, LookedUp, RetryMissed,
     AttachRules, FetchMissedRules, FetchMissedFails, Backfill, Serve
<1>5. CASE UNCHANGED vars
  BY <1>5 DEF vars
<1> QED BY <1>1, <1>2, <1>3, <1>4, <1>5 DEF Next, Run

\* Attaching rules changes nothing else of a batch.
LEMMA AttachedKeeps ==
  ASSUME TypeOK, NEW g \in Proc, NEW ids, NEW version, NEW x \in Gen
  PROVE  /\ Attached(g, ids, version)[x].ids = heap[x].ids
         /\ Attached(g, ids, version)[x].upd = heap[x].upd
<1>1. heap[x] \in Batch
  BY DEF TypeOK
<1> QED BY <1>1 DEF Attached, Batch

\* A batch that somebody holds before and after a step has the same schedules
\* with the same UpdatedAt.
LEMMA HeldBatchKept ==
  ASSUME TypeInv, [Next]_vars, NEW x \in Gen, x \in Live, x \in Live'
  PROVE  heap'[x].ids = heap[x].ids /\ heap'[x].upd = heap[x].upd
<1>1. CASE heap' = heap
  BY <1>1
<1>2. CASE Collect
  BY <1>2 DEF Collect, Collected
<1>3. ASSUME NEW g \in Proc, NEW ids, NEW version, heap' = Attached(g, ids, version)
      PROVE  heap'[x].ids = heap[x].ids /\ heap'[x].upd = heap[x].upd
  BY <1>3, AttachedKeeps DEF TypeInv
<1>4. ASSUME NEW g \in Proc, LoadSchedules(g)
      PROVE  heap'[x] = heap[x]
  <2> DEFINE y == CHOOSE z \in Gen : z \notin Live
  <2>1. CASE asked[g] \ hidden = {}
    BY <1>4, <2>1 DEF LoadSchedules
  <2>2. CASE asked[g] \ hidden # {}
    <3>1. y \in Gen /\ y # x
      BY <1>4, FreshBatch DEF LoadSchedules
    <3>2. \E b : heap' = [heap EXCEPT ![y] = b]
      BY <1>4, <2>2 DEF LoadSchedules
    <3> HIDE DEF y
    <3> QED BY <3>1, <3>2 DEF TypeInv, TypeOK
  <2> QED BY <2>1, <2>2
<1> QED BY <1>1, <1>2, <1>3, <1>4, HeapStep

LEMMA SchedLive ==
  ASSUME NEW p \in Placement
  PROVE  sched[p] \in Live
BY DEF Live

LEMMA HashKept ==
  ASSUME TypeInv, [Next]_vars, NEW p \in Placement, sched[p] # None, sched'[p] = sched[p]
  PROVE  HashOf(sched[p], p)' = HashOf(sched[p], p)
<1>1. sched[p] \in Gen /\ sched[p] \in Live
  BY SchedLive DEF TypeInv, TypeOK
<1>2. sched[p] \in Live'
  BY DEF Live
<1>3. heap'[sched[p]].ids = heap[sched[p]].ids /\ heap'[sched[p]].upd = heap[sched[p]].upd
  BY <1>1, <1>2, HeldBatchKept
<1> QED BY <1>3 DEF HashOf, Group

-----------------------------------------------------------------------------
(* The version of a placement describes its schedules *)

Agrees(p) == sched[p] # None /\ vers[p] # None => vers[p] = HashOf(sched[p], p)

\* UpdateSchedules writes the schedules two steps before the versions: meanwhile
\* the schedules are those of the batch the versions will be computed from.
Writing(g) == pc[g] \in {"syncRules", "syncVersions"}

VersionInv(g) ==
  \A p \in Placement :
    IF Writing(g) THEN sched[p] \in {None, snap[g]} ELSE Agrees(p)

Syncing(g) == pc[g] \in {"syncRules", "syncVersions", "syncLastSync"}

\* A step that writes no schedules and no version that are new, and takes the
\* version or the sync time only from a placement it takes the schedules from.
Quiet ==
  \A p \in Placement :
    /\ sched'[p] \in {sched[p], None} /\ vers'[p] \in {vers[p], None}
    /\ sched'[p] # None => vers'[p] = vers[p] /\ (sync[p] # None => sync'[p] # None)

LEMMA QuietAgrees ==
  ASSUME TypeInv, [Next]_vars, NEW p \in Placement, Agrees(p),
         sched'[p] \in {sched[p], None}, vers'[p] \in {vers[p], None}
  PROVE  Agrees(p)'
BY HashKept DEF Agrees

LEMMA QuietSteps ==
  ASSUME TypeInv, NEW g \in Proc,
         \/ Tick(g) \/ Subscriber(g) \/ Request(g) \/ Call(g)
         \/ ListOccurrences(g) \/ LoadSchedules(g) \/ ListFails(g) \/ ClearPlacement(g)
         \/ FetchRules(g) \/ FetchRulesFails(g)
         \/ SetRules(g) \/ PruneOrphanedRules(g)
  PROVE  Quiet /\ ~Syncing(g) /\ ~Syncing(g)'
<1> USE MirrorAssumption DEF TypeInv, TypeOK, Quiet, Syncing
<1>1. CASE Tick(g)
  BY <1>1 DEF Tick, May, CallEvaluate, Goto, mirror
<1>2. CASE Subscriber(g)
  <2>1. CASE ReceivePing(g) \/ SkipPing(g)
    BY <2>1 DEF ReceivePing, SkipPing, May, Goto, mirror
  <2>2. CASE HandlePing(g)
    BY <2>2 DEF HandlePing, CallEvaluate, Goto
  <2> QED BY <1>2, <2>1, <2>2 DEF Subscriber
<1>3. CASE Request(g)
  <2>1. /\ UNCHANGED <<sched, vers, sync>>
        /\ pc[g] \in {"check", "recheck", "retry", "attach", "fetchMissed", "backfill", "serve"}
    BY <1>3 DEF Request, FindSchedules, SelfHeal, Healed, FailRequest, LookedUp,
       RetryMissed, AttachRules, FetchMissedRules, FetchMissedFails, Backfill, Serve, mirror
  <2>2. \E l \in {"check", "list", "idle", "attach", "serve", "fetchMissed", "backfill"} :
          pc' = [pc EXCEPT ![g] = l]
    BY <1>3, Zenon DEF Request, FindSchedules, SelfHeal, Healed, FailRequest, LookedUp,
       RetryMissed, AttachRules, FetchMissedRules, FetchMissedFails, Backfill, Serve,
       Lookup, EndRequest, CallEvaluate, Goto
  <2> QED BY <2>1, <2>2
<1>4. CASE Call(g)
  <2>1. CASE StartRequest(g)
    BY <2>1 DEF StartRequest, May, Goto, mirror
  <2>2. ASSUME NEW reload \in BOOLEAN, FlushAll(g, reload)
        PROVE  Quiet /\ ~Syncing(g) /\ ~Syncing(g)'
    BY <2>2 DEF FlushAll, AfterFlush, CallEvaluate, May, Goto
  <2>3. ASSUME NEW reload \in BOOLEAN, NEW names \in SUBSET Placement,
               FlushPlacements(g, names, reload)
        PROVE  Quiet /\ ~Syncing(g) /\ ~Syncing(g)'
    BY <2>3 DEF FlushPlacements, AfterFlush, CallEvaluate, May, Goto
  <2> QED BY <1>4, <2>1, <2>2, <2>3 DEF Call, Flush
<1>5. CASE \/ ListOccurrences(g) \/ LoadSchedules(g)
           \/ FetchRules(g) \/ FetchRulesFails(g) \/ SetRules(g)
  BY <1>5 DEF ListOccurrences, LoadSchedules, FetchRules, FetchRulesFails, SetRules,
     AfterFetch, Goto, mirror
<1>6. CASE ListFails(g) \/ ClearPlacement(g) \/ PruneOrphanedRules(g)
  <2>1. ~Syncing(g) /\ ~Syncing(g)'
    BY <1>6 DEF ListFails, ClearPlacement, PruneOrphanedRules, Return, Goto
  <2>2. CASE UNCHANGED <<sched, vers, sync>>
    BY <2>1, <2>2
  <2>3. CASE ClearPlacement(g)
    <3>1. ASSUME NEW p \in Placement
          PROVE  IF p = scope[g] THEN sched'[p] = None /\ vers'[p] = None
                 ELSE sched'[p] = sched[p] /\ vers'[p] = vers[p] /\ sync'[p] = sync[p]
      BY <2>3 DEF ClearPlacement
    <3> QED BY <2>1, <3>1
  <2> QED BY <1>6, <2>2, <2>3 DEF ListFails, PruneOrphanedRules, mirror
<1> QED BY <1>1, <1>2, <1>3, <1>4, <1>5, <1>6

LEMMA QuietEnvironment ==
  ASSUME TypeInv, BackOffice \/ Monitor \/ Clock
  PROVE  Quiet /\ UNCHANGED <<pc, snap>>
<1>1. CASE BackOffice
  BY <1>1 DEF BackOffice, OpenOrCloseWindow, EditSchedule, SoftDelete, EditRule,
     SoftDeleteRule, Publish, Quiet, mirror, refresh
<1>2. CASE Monitor
  BY <1>2 DEF Monitor, Quiet, mirror, refresh
<1>3. ASSUME NEW p \in Placement, Age(p) PROVE Quiet /\ UNCHANGED <<pc, snap>>
  BY <1>3, MirrorAssumption DEF Age, Quiet, refresh, TypeInv, TypeOK
<1>4. ASSUME NEW p \in Placement, Expire(p) PROVE Quiet /\ UNCHANGED <<pc, snap>>
  BY <1>4 DEF Expire, Quiet, refresh, TypeInv, TypeOK
<1>5. ASSUME NEW r \in Rule, ExpireRule(r) PROVE Quiet /\ UNCHANGED <<pc, snap>>
  BY <1>5 DEF ExpireRule, Quiet, refresh
<1> QED BY <1>1, <1>2, <1>3, <1>4, <1>5 DEF Clock

LEMMA VersionStep ==
  ASSUME NEW g \in Proc, Proc = {g}, TypeInv, VersionInv(g), [Next]_vars
  PROVE  VersionInv(g)'
<1>0. CASE /\ Quiet
           /\ \/ ~Syncing(g) /\ ~Syncing(g)'
              \/ UNCHANGED <<pc, snap>>
  BY <1>0, QuietAgrees DEF VersionInv, Quiet, Writing, Syncing
<1>1. CASE BackOffice \/ Monitor \/ Clock
  BY <1>0, <1>1, QuietEnvironment
<1>2. CASE SyncSchedules(g)
  <2>1. /\ sched' = Replace(g, sched, [p \in Placement |-> snap[g]])
        /\ snap' = snap
        /\ Writing(g)'
    BY <1>2 DEF SyncSchedules, Goto, Writing, refresh, TypeInv, TypeOK
  <2> QED BY <2>1 DEF VersionInv, Replace
<1>3. CASE SyncRules(g)
  BY <1>3 DEF SyncRules, Goto, Writing, VersionInv, refresh, TypeInv, TypeOK
<1>4. CASE SyncVersions(g)
  <2>1. /\ Writing(g) /\ ~Writing(g)'
        /\ vers' = [p \in Placement |-> IF Group(snap[g], p) # {} /\ CanSet(vers[p])
                                       THEN HashOf(snap[g], p) ELSE None]
        /\ UNCHANGED <<sched, heap>>
    BY <1>4 DEF SyncVersions, Replace, Goto, Writing, TypeInv, TypeOK
  <2>2. ASSUME NEW p \in Placement PROVE Agrees(p)'
    BY <2>1 DEF VersionInv, Agrees, HashOf, Group
  <2> QED BY <2>1, <2>2 DEF VersionInv
<1>9. CASE SyncLastSync(g)
  BY <1>9, QuietAgrees DEF SyncLastSync, Return, Goto, Writing, VersionInv, TypeInv, TypeOK
<1>5. CASE SetPlacement(g)
  <2>1. /\ ~Writing(g) /\ ~Writing(g)'
        /\ sched' = Overwrite(g, sched, [p \in Placement |-> snap[g]])
        /\ vers' = Overwrite(g, vers, [p \in Placement |-> HashOf(snap[g], p)])
        /\ snap' = snap
        /\ Collect
    BY <1>5 DEF SetPlacement, Goto, Writing, refresh, TypeInv, TypeOK
  <2>2. ASSUME NEW p \in Placement PROVE Agrees(p)'
    <3>1. CASE Group(snap[g], p) = {}
      <4>1. sched'[p] = sched[p] /\ vers'[p] = vers[p]
        BY <2>1, <3>1 DEF Overwrite
      <4> QED BY <2>1, <4>1, QuietAgrees DEF VersionInv
    <3>2. CASE Group(snap[g], p) # {}
      <4>1. /\ sched'[p] \in {None, snap[g]} \/ sched'[p] = None
            /\ vers'[p] \in {None, HashOf(snap[g], p)}
        BY <2>1, <3>2 DEF Overwrite, CanSet, TypeInv, TypeOK
      <4>2. snap[g] \in Gen /\ snap[g] \in Live /\ snap[g] \in Live'
        BY <2>1, <3>2 DEF Group, Live, TypeInv, TypeOK
      <4>3. HashOf(snap[g], p)' = HashOf(snap[g], p)
        BY <2>1, <4>2, HeldBatchKept DEF HashOf, Group
      <4> QED BY <2>1, <4>1, <4>3 DEF Agrees
    <3> QED BY <3>1, <3>2
  <2> QED BY <2>1, <2>2 DEF VersionInv
<1>6. CASE UNCHANGED vars
  <2>1. Quiet /\ UNCHANGED <<pc, snap>>
    BY <1>6 DEF vars, Quiet, mirror, refresh
  <2> QED BY <1>0, <2>1
<1>7. CASE /\ Run(g) \/ Call(g)
           /\ ~(SyncSchedules(g) \/ SyncRules(g) \/ SyncVersions(g)
             \/ SyncLastSync(g) \/ SetPlacement(g))
  BY <1>0, <1>7, QuietSteps DEF Run, Evaluate
<1>8. (\E h \in Proc : Run(h) \/ Call(h)) => Run(g) \/ Call(g)
  OBVIOUS
<1> QED BY <1>1, <1>2, <1>3, <1>4, <1>5, <1>6, <1>7, <1>8, <1>9 DEF Next

LEMMA VersionInvariant ==
  ASSUME NEW g \in Proc, Proc = {g}
  PROVE  Spec => []VersionInv(g)
<1>1. Init => VersionInv(g)
  BY DEF Init, VersionInv, Writing, Agrees, NoBatch
<1>2. TypeInv /\ VersionInv(g) /\ [Next]_vars => VersionInv(g)'
  BY VersionStep
<1> QED BY <1>1, <1>2, TypeInvariant, PTL DEF Spec

\* As long as refreshes do not overlap, the version the subscriber compares pings
\* with is that of the mirrored schedules: through failing queries, memory
\* pressure, expiry, soft deletes, flushes and invalidations, in any order.
THEOREM VersionsDescribeMirror ==
  ASSUME NEW g \in Proc, Proc = {g}
  PROVE  Spec => []VersionDescribesMirror
<1>1. VersionInv(g) => VersionDescribesMirror
  BY DEF VersionInv, Writing, Agrees, VersionDescribesMirror, Settled
<1> QED BY <1>1, VersionInvariant, PTL

-----------------------------------------------------------------------------
(* Mirrored schedules carry a version and a sync time *)

Vouched(p) == sched[p] # None => vers[p] # None /\ sync[p] # None

\* Without pressure every write is accepted: between the four maps of a full
\* refresh, whatever placement still has schedules is one the batch has content
\* for, so the versions and sync times that follow will cover it.
VouchInv(g) ==
  \A p \in Placement :
    /\ ~Syncing(g) => Vouched(p)
    /\ Syncing(g) /\ sched[p] # None => Group(snap[g], p) # {}
    /\ pc[g] = "syncLastSync" /\ sched[p] # None => vers[p] # None

\* Goroutines neither delete rows nor cause memory pressure.
LEMMA Untouched ==
  ASSUME NEW g \in Proc, Run(g) \/ Call(g)
  PROVE  pressure' = pressure /\ active' = active /\ hidden' = hidden
<1> USE DEF env, catalogue
<1>1. CASE Evaluate(g)
  BY <1>1 DEF Evaluate, ListOccurrences, LoadSchedules, ListFails, ClearPlacement,
     FetchRules, FetchRulesFails, SyncSchedules, SyncRules, SyncVersions, SyncLastSync,
     SetPlacement, SetRules, PruneOrphanedRules
<1>2. CASE Tick(g) \/ Subscriber(g) \/ Call(g)
  BY <1>2 DEF Tick, Subscriber, ReceivePing, SkipPing, HandlePing, Call, StartRequest,
     Flush, FlushAll, FlushPlacements
<1>3. CASE Request(g)
  BY <1>3 DEF Request, FindSchedules, SelfHeal, Healed, FailRequest, LookedUp,
     RetryMissed, AttachRules, FetchMissedRules, FetchMissedFails, Backfill, Serve
<1> QED BY <1>1, <1>2, <1>3 DEF Run

\* What cannot happen in the environment never does.
LEMMA FaultStep ==
  ASSUME [Next]_vars
  PROVE  /\ "pressure" \notin Faults => pressure' = pressure
         /\ "softdelete" \notin Faults => hidden' = hidden
<1>1. CASE BackOffice \/ Monitor \/ Clock
  BY <1>1 DEF BackOffice, OpenOrCloseWindow, EditSchedule, SoftDelete, EditRule,
     SoftDeleteRule, Publish, Monitor, Clock, Age, Expire, ExpireRule, env, catalogue
<1>2. CASE UNCHANGED vars
  BY <1>2 DEF vars, env, catalogue
<1> QED BY <1>1, <1>2, Untouched DEF Next

\* The batch of a full refresh keeps its schedules while it is written.
LEMMA GroupKept ==
  ASSUME TypeInv, [Next]_vars, NEW g \in Proc, snap'[g] = snap[g], NEW p \in Placement
  PROVE  Group(snap[g], p)' = Group(snap[g], p)
<1>1. CASE snap[g] = None
  BY <1>1 DEF Group
<1>2. CASE snap[g] # None
  <2>1. snap[g] \in Gen /\ snap[g] \in Live /\ snap[g] \in Live'
    BY <1>2 DEF Live, TypeInv, TypeOK
  <2> QED BY <2>1, HeldBatchKept DEF Group
<1> QED BY <1>1, <1>2

LEMMA VouchStep ==
  ASSUME NEW g \in Proc, Proc = {g}, TypeInv, ~pressure, VouchInv(g), [Next]_vars
  PROVE  VouchInv(g)'
<1> USE MirrorAssumption, PingAssumption
<1>0. CASE Quiet /\ ~Syncing(g) /\ ~Syncing(g)'
  BY <1>0 DEF VouchInv, Quiet, Vouched, Syncing
<1>1. CASE Quiet /\ UNCHANGED <<pc, snap>>
  BY <1>1, GroupKept DEF VouchInv, Quiet, Vouched, Syncing
<1>2. CASE BackOffice \/ Monitor \/ Clock
  BY <1>1, <1>2, QuietEnvironment
<1>3. CASE SyncSchedules(g)
  <2>1. /\ Syncing(g)' /\ pc'[g] # "syncLastSync"
        /\ snap' = snap
        /\ \A p \in Placement : sched'[p] # None => Group(snap[g], p) # {}
    BY <1>3 DEF SyncSchedules, Replace, Goto, Syncing, refresh, TypeInv, TypeOK
  <2> QED BY <2>1, GroupKept DEF VouchInv
<1>4. CASE SyncRules(g)
  <2>1. /\ Syncing(g) /\ Syncing(g)' /\ pc'[g] # "syncLastSync"
        /\ snap' = snap /\ sched' = sched
    BY <1>4 DEF SyncRules, Goto, Syncing, refresh, TypeInv, TypeOK
  <2> QED BY <2>1, GroupKept DEF VouchInv
<1>5. CASE SyncVersions(g)
  <2>1. /\ Syncing(g) /\ Syncing(g)'
        /\ snap' = snap /\ sched' = sched
    BY <1>5 DEF SyncVersions, Goto, Syncing, refresh, TypeInv, TypeOK
  <2>2. ASSUME NEW p \in Placement, Group(snap[g], p) # {} PROVE vers'[p] # None
    <3>1. vers'[p] = HashOf(snap[g], p)
      BY <1>5, <2>2 DEF SyncVersions, Replace, CanSet
    <3>2. snap[g] \in Gen
      BY <2>2 DEF Group, TypeInv, TypeOK
    <3>3. HashOf(snap[g], p) \in Hash
      BY <3>2 DEF HashOf, Group, Hash, TypeInv, TypeOK, Batch
    <3> QED BY <3>1, <3>3
  <2> QED BY <2>1, <2>2, GroupKept DEF VouchInv
<1>6. CASE SyncLastSync(g)
  <2>1. /\ pc[g] = "syncLastSync" /\ Syncing(g) /\ ~Syncing(g)'
        /\ sched' = sched /\ vers' = vers
    BY <1>6 DEF SyncLastSync, Return, Goto, Syncing, TypeInv, TypeOK
  <2>2. ASSUME NEW p \in Placement, Group(snap[g], p) # {} PROVE sync'[p] # None
    BY <1>6, <2>2 DEF SyncLastSync, Replace, CanSet
  <2> QED BY <2>1, <2>2 DEF VouchInv, Vouched, Syncing
<1>7. CASE SetPlacement(g)
  <2>1. ~Syncing(g) /\ ~Syncing(g)'
    BY <1>7 DEF SetPlacement, Goto, Syncing, TypeInv, TypeOK
  <2>2. ASSUME NEW p \in Placement PROVE Vouched(p)'
    <3>1. CASE Group(snap[g], p) = {}
      <4>1. sched'[p] = sched[p] /\ vers'[p] = vers[p] /\ sync'[p] = sync[p]
        BY <1>7, <3>1 DEF SetPlacement, Overwrite
      <4> QED BY <2>1, <4>1 DEF VouchInv, Vouched
    <3>2. CASE Group(snap[g], p) # {}
      <4>1. sync'[p] = "fresh" /\ vers'[p] = HashOf(snap[g], p)
        BY <1>7, <3>2 DEF SetPlacement, Overwrite, CanSet
      <4>2. snap[g] \in Gen
        BY <3>2 DEF Group, TypeInv, TypeOK
      <4>3. HashOf(snap[g], p) \in Hash
        BY <4>2 DEF HashOf, Group, Hash, TypeInv, TypeOK, Batch
      <4> QED BY <4>1, <4>3 DEF Vouched
    <3> QED BY <3>1, <3>2
  <2> QED BY <2>1, <2>2 DEF VouchInv, Syncing
<1>8. CASE UNCHANGED vars
  BY <1>1, <1>8 DEF vars, Quiet, mirror, refresh
<1>9. CASE /\ Run(g) \/ Call(g)
           /\ ~(SyncSchedules(g) \/ SyncRules(g) \/ SyncVersions(g)
             \/ SyncLastSync(g) \/ SetPlacement(g))
  BY <1>0, <1>9, QuietSteps DEF Run, Evaluate
<1>10. (\E h \in Proc : Run(h) \/ Call(h)) => Run(g) \/ Call(g)
  OBVIOUS
<1> QED BY <1>2, <1>3, <1>4, <1>5, <1>6, <1>7, <1>8, <1>9, <1>10 DEF Next

\* As long as refreshes do not overlap and memory suffices, no mirrored schedule
\* escapes the staleness check for want of a sync time, nor the subscriber's
\* comparison for want of a version.
THEOREM MirrorIsVouchedFor ==
  ASSUME NEW g \in Proc, Proc = {g}, "pressure" \notin Faults
  PROVE  Spec => []MirrorVouchedFor
<1> DEFINE VInv == ~pressure /\ VouchInv(g)
<1>1. Init => VInv
  BY DEF Init, VouchInv, Vouched, Syncing, NoBatch
<1>2. TypeInv /\ VInv /\ [Next]_vars => VInv'
  BY VouchStep, FaultStep
<1>3. VInv => MirrorVouchedFor
  BY DEF VouchInv, Vouched, Syncing, MirrorVouchedFor, Settled
<1> QED BY <1>1, <1>2, <1>3, TypeInvariant, PTL DEF Spec

-----------------------------------------------------------------------------
(* A failing store takes nothing off the mirror *)

\* The batch that g is about to write leaves out no placement with content.
Complete(g) == \A p \in Placement : Visible(p) # {} => Group(snap[g], p) # {}

\* As long as the database has not changed, what evaluate knows is what the
\* database shows: the schedules it asks for, a placement it is about to clear,
\* the batch of a full refresh.
KnowsContent(g) ==
  /\ pc[g] = "load" =>
       /\ asked[g] = {s \in active : scope[g] \in {All, PlacementOf[s]}}
       /\ asked[g] # {}
  /\ pc[g] = "clear" => scope[g] # All /\ Visible(scope[g]) = {}
  /\ pc[g] = "fetch" /\ scope[g] = All => Complete(g)
  /\ pc[g] = "syncSchedules" => Complete(g)

ContentInv == edits = 0 => hidden = {} /\ \A g \in Proc : KnowsContent(g)

\* A goroutine that is where it was, with the same local variables.
Same(g) ==
  /\ pc'[g] = pc[g] /\ scope'[g] = scope[g] /\ cont'[g] = cont[g]
  /\ asked'[g] = asked[g] /\ snap'[g] = snap[g] /\ fetched'[g] = fetched[g]
  /\ held'[g] = held[g]

\* Only the back office changes the schedules, and it counts its changes.
LEMMA QuietDatabase ==
  ASSUME TypeInv, [Next]_vars, edits' = 0
  PROVE  edits = 0 /\ UNCHANGED <<active, hidden, upd, ruleVer>>
<1> USE DEF TypeInv, TypeOK
<1>1. CASE BackOffice
  <2>1. ~Changing
    BY DEF Changing
  <2> QED BY <1>1, <2>1 DEF BackOffice, OpenOrCloseWindow, EditSchedule, SoftDelete,
     EditRule, SoftDeleteRule, Publish, catalogue
<1>2. CASE Monitor \/ Clock
  BY <1>2 DEF Monitor, Clock, Age, Expire, ExpireRule, catalogue
<1>3. ASSUME NEW g \in Proc, Evaluate(g) PROVE UNCHANGED <<active, hidden, upd, ruleVer, edits>>
  BY <1>3 DEF Evaluate, ListOccurrences, LoadSchedules, ListFails, ClearPlacement,
     FetchRules, FetchRulesFails, SyncSchedules, SyncRules, SyncVersions, SyncLastSync,
     SetPlacement, SetRules, PruneOrphanedRules, catalogue
<1>4. ASSUME NEW g \in Proc, Tick(g) \/ Subscriber(g) \/ Call(g)
      PROVE  UNCHANGED <<active, hidden, upd, ruleVer, edits>>
  BY <1>4 DEF Tick, Subscriber, ReceivePing, SkipPing, HandlePing, Call, StartRequest,
     Flush, FlushAll, FlushPlacements, catalogue
<1>5. ASSUME NEW g \in Proc, Request(g) PROVE UNCHANGED <<active, hidden, upd, ruleVer, edits>>
  BY <1>5 DEF Request, FindSchedules, SelfHeal, Healed, FailRequest, LookedUp, RetryMissed,
     AttachRules, FetchMissedRules, FetchMissedFails, Backfill, Serve, catalogue
<1>6. CASE UNCHANGED vars
  BY <1>6 DEF vars, catalogue
<1> QED BY <1>1, <1>2, <1>3, <1>4, <1>5, <1>6 DEF Next, Run

\* Steps of the environment leave every goroutine as it is.
LEMMA EnvironmentSame ==
  ASSUME BackOffice \/ Monitor \/ Clock \/ UNCHANGED vars, NEW g \in Proc
  PROVE  Same(g)
BY DEF BackOffice, Monitor, Clock, OpenOrCloseWindow, EditSchedule, SoftDelete, EditRule,
   SoftDeleteRule, Publish, Age, Expire, ExpireRule, vars, refresh, request, Same

\* So do the steps of another goroutine.
LEMMA OthersSame ==
  ASSUME TypeInv, NEW h \in Proc, Run(h) \/ Call(h), NEW g \in Proc \ {h}
  PROVE  Same(g)
<1> USE DEF TypeInv, TypeOK, Same, Goto, refresh, request
<1>1. CASE Evaluate(h)
  <2>1. CASE LoadSchedules(h)
    BY <2>1 DEF LoadSchedules
  <2>2. CASE ~LoadSchedules(h)
    BY <1>1, <2>2 DEF Evaluate, ListOccurrences, ListFails, ClearPlacement, FetchRules,
       FetchRulesFails, SyncSchedules, SyncRules, SyncVersions, SyncLastSync,
       SetPlacement, SetRules, PruneOrphanedRules, Return
  <2> QED BY <2>1, <2>2
<1>2. CASE Tick(h) \/ Subscriber(h)
  BY <1>2 DEF Tick, Subscriber, ReceivePing, SkipPing, HandlePing, CallEvaluate
<1>3. CASE Request(h)
  BY <1>3 DEF Request, FindSchedules, SelfHeal, Healed, FailRequest, LookedUp, RetryMissed,
     AttachRules, FetchMissedRules, FetchMissedFails, Backfill, Serve, CallEvaluate, Lookup,
     EndRequest
<1>4. CASE Call(h)
  BY <1>4 DEF Call, StartRequest, Flush, FlushAll, FlushPlacements, AfterFlush, CallEvaluate
<1> QED BY <1>1, <1>2, <1>3, <1>4 DEF Run

\* A goroutine that took no step knows what it knew.
LEMMA SameKnows ==
  ASSUME TypeInv, [Next]_vars, UNCHANGED <<active, hidden>>,
         NEW g \in Proc, Same(g), KnowsContent(g)
  PROVE  KnowsContent(g)'
<1>1. \A p : Visible(p)' = Visible(p)
  BY DEF Visible
<1>2. ASSUME Complete(g) PROVE Complete(g)'
  <2> SUFFICES ASSUME NEW p \in Placement, Visible(p) # {}
               PROVE  Group(snap[g], p)' # {}
    BY <1>1 DEF Complete
  <2>1. Group(snap[g], p) # {}
    BY <1>2 DEF Complete
  <2>2. snap[g] \in Gen /\ snap[g] # None /\ snap[g] \in Live /\ snap[g] \in Live'
    BY <2>1 DEF Group, Live, Same, TypeInv, TypeOK
  <2>3. heap'[snap[g]].ids = heap[snap[g]].ids
    BY <2>2, HeldBatchKept
  <2> QED BY <2>1, <2>2, <2>3 DEF Group, Same
<1> QED BY <1>1, <1>2 DEF KnowsContent, Same

\* Only evaluate's own queries lead to the points ContentInv speaks of.
LEMMA ElsewhereKnows ==
  ASSUME TypeInv, NEW g \in Proc,
         \/ Tick(g) \/ Subscriber(g) \/ Request(g) \/ Call(g)
         \/ ListFails(g) \/ ClearPlacement(g) \/ SyncSchedules(g) \/ SyncRules(g)
         \/ SyncVersions(g) \/ SyncLastSync(g) \/ SetPlacement(g) \/ SetRules(g)
         \/ PruneOrphanedRules(g)
  PROVE  KnowsContent(g)'
<1>1. pc'[g] \notin {"load", "clear", "fetch", "syncSchedules"}
  <2> USE DEF TypeInv, TypeOK, Goto, refresh, Return, CallEvaluate
  <2>1. CASE \/ ListFails(g) \/ ClearPlacement(g) \/ SyncSchedules(g) \/ SyncRules(g)
             \/ SyncVersions(g) \/ SyncLastSync(g) \/ SetPlacement(g) \/ SetRules(g)
             \/ PruneOrphanedRules(g)
    BY <2>1 DEF ListFails, ClearPlacement, SyncSchedules, SyncRules, SyncVersions,
       SyncLastSync, SetPlacement, SetRules, PruneOrphanedRules
  <2>2. CASE Tick(g) \/ Subscriber(g)
    BY <2>2 DEF Tick, Subscriber, ReceivePing, SkipPing, HandlePing, May
  <2>3. CASE Request(g)
    <3>1. CASE \E p \in Placement : FindSchedules(g, p) \/ SelfHeal(g, p)
      BY <3>1 DEF FindSchedules, SelfHeal, Lookup
    <3>2. CASE Healed(g) \/ FailRequest(g) \/ LookedUp(g)
      BY <3>2 DEF Healed, FailRequest, LookedUp, Lookup, EndRequest
    <3>3. CASE \/ RetryMissed(g) \/ AttachRules(g) \/ FetchMissedRules(g)
               \/ FetchMissedFails(g) \/ Backfill(g) \/ Serve(g)
      BY <3>3 DEF RetryMissed, AttachRules, FetchMissedRules, FetchMissedFails, Backfill,
         Serve, EndRequest
    <3> QED BY <2>3, <3>1, <3>2, <3>3 DEF Request
  <2>4. CASE Call(g)
    BY <2>4 DEF Call, StartRequest, Flush, FlushAll, FlushPlacements, AfterFlush, May
  <2> QED BY <2>1, <2>2, <2>3, <2>4
<1> QED BY <1>1 DEF KnowsContent

LEMMA QueryKnows ==
  ASSUME TypeInv, [Next]_vars, UNCHANGED <<active, hidden>>, hidden = {},
         NEW g \in Proc, KnowsContent(g),
         ListOccurrences(g) \/ LoadSchedules(g) \/ FetchRules(g) \/ FetchRulesFails(g)
  PROVE  KnowsContent(g)'
<1> USE DEF TypeInv, TypeOK
<1>0. All \notin Placement
  BY MirrorAssumption
<1>1. CASE ListOccurrences(g)
  <2> DEFINE found == {s \in active : scope[g] \in {All, PlacementOf[s]}}
  <2>1. /\ asked'[g] = found
        /\ pc'[g] = IF found # {} THEN "load"
                    ELSE IF scope[g] = All THEN "syncSchedules" ELSE "clear"
        /\ scope' = scope
    BY <1>1 DEF ListOccurrences, Goto
  <2>2. found = {} /\ scope[g] # All => Visible(scope[g])' = {}
    BY <2>1 DEF Visible
  <2>3. found = {} /\ scope[g] = All => \A p \in Placement : Visible(p)' = {}
    BY DEF Visible
  <2> HIDE DEF found
  <2>4. CASE found # {}
    BY <2>1, <2>4 DEF KnowsContent, found
  <2>5. CASE found = {}
    BY <2>1, <2>2, <2>3, <2>5 DEF KnowsContent, Complete
  <2> QED BY <2>4, <2>5
<1>2. CASE LoadSchedules(g)
  <2> DEFINE x == CHOOSE y \in Gen : y \notin Live
             found == {s \in active : scope[g] \in {All, PlacementOf[s]}}
  <2>1. asked[g] = found /\ asked[g] # {} /\ asked[g] \ hidden = asked[g]
    BY <1>2 DEF LoadSchedules, KnowsContent
  <2>2. /\ pc'[g] = "fetch" /\ scope' = scope
        /\ snap'[g] = x /\ heap'[x].ids = asked[g]
        /\ x \in Gen
    <3> DEFINE b == [ids |-> asked[g],
                     upd |-> [s \in Schedule |-> IF s \in asked[g] THEN upd[s] ELSE 0],
                     rule |-> [s \in Schedule |-> None]]
    <3>1. x \in Gen
      BY <1>2, FreshBatch DEF LoadSchedules
    <3>2. heap' = [heap EXCEPT ![x] = b]
      BY <1>2, <2>1 DEF LoadSchedules
    <3>3. pc' = [pc EXCEPT ![g] = "fetch"] /\ scope' = scope /\ snap' = [snap EXCEPT ![g] = x]
      BY <1>2, <2>1 DEF LoadSchedules, Goto
    <3> HIDE DEF x
    <3> QED BY <3>1, <3>2, <3>3
  <2>3. x # None
    BY <2>2, MirrorAssumption
  <2>4. ASSUME scope[g] = All, NEW p \in Placement, Visible(p)' # {}
        PROVE  Group(snap[g], p)' # {}
    <3>1. PICK s \in active : PlacementOf[s] = p
      BY <2>4 DEF Visible
    <3>2. s \in asked[g]
      BY <2>1, <2>4, <3>1
    <3> HIDE DEF x
    <3> QED BY <2>2, <2>3, <3>1, <3>2 DEF Group
  <2> HIDE DEF x, found
  <2> QED BY <2>2, <2>4 DEF KnowsContent, Complete
<1>3. CASE FetchRules(g) \/ FetchRulesFails(g)
  <2>1. /\ pc[g] = "fetch"
        /\ pc'[g] = IF scope[g] = All THEN "syncSchedules" ELSE "setPlacement"
        /\ UNCHANGED <<scope, snap, heap>>
    BY <1>3 DEF FetchRules, FetchRulesFails, Goto, AfterFetch, refresh
  <2>2. scope[g] = All => Complete(g)'
    BY <2>1 DEF KnowsContent, Complete, Visible, Group
  <2> QED BY <2>1, <2>2 DEF KnowsContent
<1> QED BY <1>1, <1>2, <1>3

LEMMA ContentStep == TypeInv /\ ContentInv /\ [Next]_vars => ContentInv'
<1> SUFFICES ASSUME TypeInv, ContentInv, [Next]_vars, edits' = 0
             PROVE  hidden' = {} /\ \A g \in Proc : KnowsContent(g)'
  BY DEF ContentInv
<1>1. UNCHANGED <<active, hidden>> /\ hidden = {} /\ \A g \in Proc : KnowsContent(g)
  BY QuietDatabase DEF ContentInv
<1> SUFFICES ASSUME NEW g \in Proc PROVE KnowsContent(g)'
  BY <1>1
<1>2. CASE Same(g)
  BY <1>1, <1>2, SameKnows
<1>3. CASE BackOffice \/ Monitor \/ Clock \/ UNCHANGED vars
  BY <1>2, <1>3, EnvironmentSame
<1>4. ASSUME NEW h \in Proc \ {g}, Run(h) \/ Call(h) PROVE KnowsContent(g)'
  BY <1>2, <1>4, OthersSame
<1>5. CASE Run(g) \/ Call(g)
  BY <1>1, <1>5, ElsewhereKnows, QueryKnows DEF Run, Evaluate
<1> QED BY <1>3, <1>4, <1>5 DEF Next

LEMMA ContentInvariant == Spec => []ContentInv
<1>1. Init => ContentInv
  BY DEF Init, ContentInv, KnowsContent
<1>2. TypeInv /\ ContentInv /\ [Next]_vars => ContentInv'
  BY ContentStep
<1> QED BY <1>1, <1>2, TypeInvariant, PTL DEF Spec

\* A write of evaluate, by any of its goroutines, keeps what the database offers.
LEMMA WritesKeepContent ==
  ASSUME TypeInv, ContentInv, NEW g \in Proc, Run(g) \/ Call(g),
         pc[g] \notin {"idle", "jitter"}, edits = 0,
         NEW p \in Placement, Visible(p) # {}, sched[p] # None
  PROVE  sched'[p] # None
<1> USE DEF TypeInv, TypeOK
<1>0. KnowsContent(g)
  BY DEF ContentInv
<1>1. CASE SyncSchedules(g)
  <2>1. Group(snap[g], p) # {}
    BY <1>0, <1>1 DEF SyncSchedules, KnowsContent, Complete
  <2>2. sched'[p] = snap[g]
    BY <1>1, <2>1 DEF SyncSchedules, Replace, CanSet
  <2> QED BY <2>1, <2>2 DEF Group
<1>2. CASE ClearPlacement(g)
  <2>1. p # scope[g]
    BY <1>0, <1>2 DEF ClearPlacement, KnowsContent
  <2> QED BY <1>2, <2>1 DEF ClearPlacement
<1>3. CASE SetPlacement(g)
  BY <1>3 DEF SetPlacement, Overwrite, Group
<1>4. CASE Evaluate(g) /\ ~SyncSchedules(g) /\ ~ClearPlacement(g) /\ ~SetPlacement(g)
  BY <1>4 DEF Evaluate, ListOccurrences, LoadSchedules, ListFails, FetchRules,
     FetchRulesFails, SyncRules, SyncVersions, SyncLastSync, SetRules,
     PruneOrphanedRules, mirror
<1>5. CASE Request(g)
  BY <1>5 DEF Request, FindSchedules, SelfHeal, Healed, FailRequest, LookedUp, RetryMissed,
     AttachRules, FetchMissedRules, FetchMissedFails, Backfill, Serve, mirror
<1>6. ~(Tick(g) \/ Subscriber(g) \/ Call(g))
  BY DEF Tick, Subscriber, ReceivePing, SkipPing, HandlePing, Call, StartRequest, Flush,
     FlushAll, FlushPlacements, May
<1> QED BY <1>1, <1>2, <1>3, <1>4, <1>5, <1>6 DEF Run

\* Whatever queries fail and however little memory is left, with any number of
\* goroutines refreshing at once, no write of evaluate takes a placement off the
\* mirror that the database has offered all along.
THEOREM OutagesKeepContent == Spec => OutageKeepsContent
<1> DEFINE Keeps ==
      \A g \in Proc : pc[g] \notin {"idle", "jitter"} /\ pc'[g] # pc[g] =>
        \A p \in Placement :
          edits = 0 /\ Visible(p) # {} /\ sched[p] # None => sched'[p] # None
<1>1. TypeInv /\ ContentInv /\ [Next]_vars => [Keeps]_vars
  <2> SUFFICES ASSUME TypeInv, ContentInv, [Next]_vars, NEW g \in Proc,
                      pc[g] \notin {"idle", "jitter"}, pc'[g] # pc[g],
                      NEW p \in Placement, edits = 0, Visible(p) # {}, sched[p] # None
               PROVE  sched'[p] # None
    OBVIOUS
  <2>1. Run(g) \/ Call(g)
    BY EnvironmentSame, OthersSame DEF Next, Same
  <2> QED BY <2>1, WritesKeepContent
<1> QED BY <1>1, TypeInvariant, ContentInvariant, PTL DEF Spec, OutageKeepsContent

-----------------------------------------------------------------------------
(* A self-heal settles the staleness it was called for *)

\* Targeted refreshes have a placement; a self-heal is a full refresh; and when
\* it has returned without a failing query, no sync time is past the threshold.
HealInv ==
  \A g \in Proc :
    /\ pc[g] \in {"clear", "setPlacement", "setRules", "prune"} => scope[g] # All
    /\ cont[g] = "recheck" => scope[g] = All
    /\ pc[g] = "recheck" /\ fails = 0 => \A p \in Placement : sync[p] # "stale"

\* Sync times only become stale by the passing of time, which HealInv's third
\* part waits out, and failures are never forgotten.
LEMMA StaleStep ==
  ASSUME TypeInv, [Next]_vars
  PROVE  /\ fails' = 0 => fails = 0
         /\ \/ \A p \in Placement : sync'[p] \in {sync[p], "fresh", None}
            \/ \A g \in Proc : pc[g] # "recheck" /\ Same(g)
<1> USE DEF TypeInv, TypeOK
<1>1. CASE \E p \in Placement : Age(p)
  BY <1>1 DEF Age, env, refresh, request, Same
<1>2. CASE BackOffice \/ Monitor \/ \E p \in Placement : Expire(p)
  BY <1>2 DEF BackOffice, Monitor, Expire, OpenOrCloseWindow, EditSchedule, SoftDelete,
     EditRule, SoftDeleteRule, Publish, env, mirror
<1>3. CASE \E r \in Rule : ExpireRule(r)
  BY <1>3 DEF ExpireRule, env, mirror
<1>4. ASSUME NEW g \in Proc, Evaluate(g)
      PROVE  /\ fails' = 0 => fails = 0
             /\ \A p \in Placement : sync'[p] \in {sync[p], "fresh", None}
  <2>1. CASE ListFails(g) \/ FetchRulesFails(g)
    BY <2>1 DEF ListFails, FetchRulesFails, mirror
  <2>2. CASE ClearPlacement(g)
    BY <2>2 DEF ClearPlacement, env
  <2>3. CASE SyncLastSync(g) \/ SetPlacement(g)
    BY <2>3 DEF SyncLastSync, SetPlacement, Replace, Overwrite, env
  <2>4. CASE ~(ListFails(g) \/ FetchRulesFails(g) \/ ClearPlacement(g)
               \/ SyncLastSync(g) \/ SetPlacement(g))
    BY <1>4, <2>4 DEF Evaluate, ListOccurrences, LoadSchedules, FetchRules, SyncSchedules,
       SyncRules, SyncVersions, SetRules, PruneOrphanedRules, env, mirror
  <2> QED BY <2>1, <2>2, <2>3, <2>4
<1>5. ASSUME NEW g \in Proc, Tick(g) \/ Subscriber(g) \/ Call(g)
      PROVE  /\ fails' = 0 => fails = 0
             /\ \A p \in Placement : sync'[p] \in {sync[p], "fresh", None}
  BY <1>5 DEF Tick, Subscriber, ReceivePing, SkipPing, HandlePing, Call, StartRequest,
     Flush, FlushAll, FlushPlacements, env, mirror
<1>6. ASSUME NEW g \in Proc, Request(g)
      PROVE  /\ fails' = 0 => fails = 0
             /\ \A p \in Placement : sync'[p] \in {sync[p], "fresh", None}
  BY <1>6 DEF Request, FindSchedules, SelfHeal, Healed, FailRequest, LookedUp, RetryMissed,
     AttachRules, FetchMissedRules, FetchMissedFails, Backfill, Serve, env, mirror
<1>7. CASE UNCHANGED vars
  BY <1>7 DEF vars, env, mirror
<1> QED BY <1>1, <1>2, <1>3, <1>4, <1>5, <1>6, <1>7 DEF Next, Run, Clock

\* The part of HealInv that a goroutine's own step can disturb.
LEMMA OwnHeal ==
  ASSUME TypeInv, HealInv, NEW g \in Proc, Run(g) \/ Call(g)
  PROVE  /\ pc'[g] \in {"clear", "setPlacement", "setRules", "prune"} => scope'[g] # All
         /\ cont'[g] = "recheck" => scope'[g] = All
         /\ pc'[g] = "recheck" /\ fails' = 0 => \A p \in Placement : sync'[p] # "stale"
<1> USE DEF TypeInv, TypeOK, HealInv, Goto
<1>1. CASE ListFails(g)
  <2>1. fails' = fails + 1 /\ fails \in Nat
    BY <1>1 DEF ListFails
  <2>2. pc'[g] \in {"idle", "recheck", "retry"} /\ cont'[g] = "idle"
    BY <1>1 DEF ListFails, Return
  <2> QED BY <2>1, <2>2
<1>2. CASE ClearPlacement(g) \/ PruneOrphanedRules(g)
  BY <1>2 DEF ClearPlacement, PruneOrphanedRules, Return
<1>3. CASE SyncLastSync(g)
  <2>1. \A p \in Placement : sync'[p] # "stale"
    BY <1>3, MirrorAssumption DEF SyncLastSync, Replace
  <2>2. pc'[g] \in {"idle", "recheck", "retry"} /\ cont'[g] = "idle"
    BY <1>3 DEF SyncLastSync, Return
  <2> QED BY <2>1, <2>2
<1>4. CASE \/ ListOccurrences(g) \/ LoadSchedules(g) \/ FetchRules(g) \/ FetchRulesFails(g)
           \/ SyncSchedules(g) \/ SyncRules(g) \/ SyncVersions(g) \/ SetPlacement(g)
           \/ SetRules(g)
  <2>1. /\ UNCHANGED <<scope, cont>>
        /\ pc'[g] # "recheck"
        /\ pc'[g] \in {"clear", "setPlacement"} => scope[g] # All
        /\ pc'[g] \in {"setRules", "prune"} => pc[g] \in {"setPlacement", "setRules"}
    <3>1. CASE LoadSchedules(g)
      BY <3>1 DEF LoadSchedules
    <3>2. CASE ListOccurrences(g)
      BY <3>2 DEF ListOccurrences
    <3>3. CASE FetchRules(g) \/ FetchRulesFails(g)
      BY <3>3 DEF FetchRules, FetchRulesFails, AfterFetch, refresh
    <3>4. CASE SyncSchedules(g) \/ SyncRules(g) \/ SyncVersions(g) \/ SetPlacement(g)
               \/ SetRules(g)
      BY <3>4 DEF SyncSchedules, SyncRules, SyncVersions, SetPlacement, SetRules, refresh
    <3> QED BY <1>4, <3>1, <3>2, <3>3, <3>4
  <2> QED BY <2>1
<1>5. CASE Tick(g) \/ Subscriber(g) \/ Call(g)
  BY <1>5 DEF Tick, Subscriber, ReceivePing, SkipPing, HandlePing, Call, StartRequest,
     Flush, FlushAll, FlushPlacements, AfterFlush, CallEvaluate, May, refresh, Continuation,
     EvaluatePC
<1>6. CASE Request(g)
  <2>1. CASE (\E p \in Placement : SelfHeal(g, p)) \/ LookedUp(g)
    BY <2>1 DEF SelfHeal, LookedUp, CallEvaluate, refresh
  <2>2. CASE ~(\E p \in Placement : SelfHeal(g, p)) /\ ~LookedUp(g)
    <3>1. UNCHANGED <<scope, cont>>
      BY <1>6, <2>2 DEF Request, FindSchedules, Healed, FailRequest, RetryMissed,
         AttachRules, FetchMissedRules, FetchMissedFails, Backfill, Serve, refresh
    <3>2. pc'[g] \in {"check", "idle", "attach", "serve", "fetchMissed", "backfill"}
      BY <1>6, <2>2 DEF Request, FindSchedules, Healed, FailRequest, RetryMissed,
         AttachRules, FetchMissedRules, FetchMissedFails, Backfill, Serve, Lookup,
         EndRequest
    <3> QED BY <3>1, <3>2
  <2> QED BY <2>1, <2>2
<1> QED BY <1>1, <1>2, <1>3, <1>4, <1>5, <1>6 DEF Run, Evaluate

LEMMA HealStep == TypeInv /\ HealInv /\ [Next]_vars => HealInv'
<1> SUFFICES ASSUME TypeInv, HealInv, [Next]_vars, NEW g \in Proc
             PROVE  /\ pc'[g] \in {"clear", "setPlacement", "setRules", "prune"} => scope'[g] # All
                    /\ cont'[g] = "recheck" => scope'[g] = All
                    /\ pc'[g] = "recheck" /\ fails' = 0 =>
                         \A p \in Placement : sync'[p] # "stale"
  BY DEF HealInv
<1>1. CASE Run(g) \/ Call(g)
  BY <1>1, OwnHeal
<1>2. CASE ~(Run(g) \/ Call(g))
  <2>1. \/ BackOffice \/ Monitor \/ Clock \/ UNCHANGED vars
        \/ \E h \in Proc \ {g} : Run(h) \/ Call(h)
    BY <1>2 DEF Next
  <2>2. Same(g)
    BY <2>1, EnvironmentSame, OthersSame
  <2>3. pc'[g] = "recheck" /\ fails' = 0 => \A p \in Placement : sync'[p] # "stale"
    BY <2>2, StaleStep, MirrorAssumption DEF HealInv, Same
  <2> QED BY <2>2, <2>3 DEF HealInv, Same
<1> QED BY <1>1, <1>2

LEMMA HealInvariant == Spec => []HealInv
<1>1. Init => HealInv
  BY DEF Init, HealInv
<1>2. TypeInv /\ HealInv /\ [Next]_vars => HealInv'
  BY HealStep
<1> QED BY <1>1, <1>2, TypeInvariant, PTL DEF Spec

\* With any number of goroutines, a request is refused after its self-heal only
\* if a query failed, or if somebody took the placement's sync time away.
THEOREM SelfHealSettles == Spec => SelfHealSettlesStaleness
<1> DEFINE Settles ==
      \A g \in Proc : pc[g] = "recheck" /\ pc'[g] = "idle" =>
        fails > 0 \/ sync[cur[g]] = None
<1>1. TypeInv /\ HealInv /\ [Next]_vars => [Settles]_vars
  <2> SUFFICES ASSUME TypeInv, HealInv, [Next]_vars, NEW g \in Proc,
                      pc[g] = "recheck", pc'[g] = "idle", fails = 0
               PROVE  sync[cur[g]] = None
    BY DEF TypeInv, TypeOK
  <2>1. cur[g] \in Placement
    BY DEF TypeInv, TypeOK, Continuation
  <2>2. sync[cur[g]] # "stale"
    BY <2>1 DEF HealInv
  <2>3. Run(g) \/ Call(g)
    BY EnvironmentSame, OthersSame DEF Next, Same
  <2>4. FailRequest(g)
    <3> USE DEF TypeInv, TypeOK
    <3>1. ~Evaluate(g)
      BY DEF Evaluate, ListOccurrences, LoadSchedules, ListFails, ClearPlacement,
         FetchRules, FetchRulesFails, SyncSchedules, SyncRules, SyncVersions, SyncLastSync,
         SetPlacement, SetRules, PruneOrphanedRules
    <3>2. ~(Tick(g) \/ Subscriber(g) \/ Call(g))
      BY DEF Tick, Subscriber, ReceivePing, SkipPing, HandlePing, Call, StartRequest,
         Flush, FlushAll, FlushPlacements, May
    <3>3. ~Healed(g)
      BY DEF Healed, Lookup, Goto
    <3> QED BY <2>3, <3>1, <3>2, <3>3 DEF Run, Request, FindSchedules, SelfHeal, LookedUp,
         RetryMissed, AttachRules, FetchMissedRules, FetchMissedFails, Backfill, Serve
  <2> QED BY <2>1, <2>2, <2>4 DEF FailRequest, TypeInv, TypeOK
<1> QED BY <1>1, TypeInvariant, HealInvariant, PTL DEF Spec, SelfHealSettlesStaleness

-----------------------------------------------------------------------------
(* A targeted refresh leaves the other placements alone *)

Targeted == {"list", "load", "clear", "fetch", "setPlacement", "setRules", "prune"}

\* A targeted evaluate stays on the branches meant for it, and loads schedules
\* of its own placement only.
InScope(g) ==
  scope[g] # All =>
    /\ pc[g] \in Targeted
    /\ pc[g] = "load" => asked[g] # {} /\ \A s \in asked[g] : PlacementOf[s] = scope[g]
    /\ pc[g] \in {"fetch", "setPlacement"} =>
         \A p \in Placement \ {scope[g]} : Group(snap[g], p) = {}

ScopeInv == hidden = {} /\ \A g \in Proc : InScope(g)

LEMMA SameScope ==
  ASSUME TypeInv, [Next]_vars, NEW g \in Proc, Same(g), InScope(g)
  PROVE  InScope(g)'
BY GroupKept DEF InScope, Same

LEMMA OwnScope ==
  ASSUME TypeInv, [Next]_vars, hidden = {}, NEW g \in Proc, InScope(g), Run(g) \/ Call(g)
  PROVE  InScope(g)'
<1> SUFFICES ASSUME scope'[g] # All PROVE InScope(g)'
  BY DEF InScope
<1> USE DEF TypeInv, TypeOK, Targeted
<1>1. CASE \/ ListFails(g) \/ ClearPlacement(g) \/ SyncLastSync(g) \/ PruneOrphanedRules(g)
           \/ Tick(g)
  BY <1>1 DEF ListFails, ClearPlacement, SyncLastSync, PruneOrphanedRules, Return,
     Tick, CallEvaluate
<1>2. CASE ListOccurrences(g)
  BY <1>2 DEF ListOccurrences, Goto, InScope
<1>3. CASE LoadSchedules(g)
  <2> DEFINE x == CHOOSE y \in Gen : y \notin Live
  <2>1. pc[g] = "load" /\ scope' = scope /\ asked[g] \ hidden = asked[g] /\ asked[g] # {}
    BY <1>3 DEF LoadSchedules, InScope
  <2>2. x \in Gen
    BY <1>3, FreshBatch DEF LoadSchedules
  <2>3. /\ pc'[g] = "fetch" /\ snap'[g] = x /\ heap'[x].ids = asked[g]
    BY <1>3, <2>1, <2>2 DEF LoadSchedules, Goto
  <2> HIDE DEF x
  <2>4. \A p \in Placement \ {scope[g]} : Group(snap[g], p)' = {}
    BY <2>1, <2>2, <2>3 DEF Group, InScope
  <2> QED BY <2>1, <2>3, <2>4 DEF InScope
<1>4. CASE FetchRules(g) \/ FetchRulesFails(g)
  <2>1. /\ pc[g] = "fetch" /\ pc'[g] = "setPlacement"
        /\ UNCHANGED <<scope, snap>>
    BY <1>4 DEF FetchRules, FetchRulesFails, AfterFetch, Goto, refresh
  <2> QED BY <2>1, GroupKept DEF InScope
<1>5. CASE SetPlacement(g) \/ SetRules(g)
  BY <1>5 DEF SetPlacement, SetRules, Goto, refresh, InScope
<1>6. CASE SyncSchedules(g) \/ SyncRules(g) \/ SyncVersions(g)
  BY <1>6 DEF SyncSchedules, SyncRules, SyncVersions, refresh, InScope
<1>7. CASE Subscriber(g)
  BY <1>7 DEF Subscriber, ReceivePing, SkipPing, HandlePing, May, CallEvaluate, Goto,
     refresh, InScope
<1>8. CASE Request(g)
  <2>1. pc[g] \in {"check", "recheck", "retry", "attach", "fetchMissed", "backfill", "serve"}
    BY <1>8 DEF Request, FindSchedules, SelfHeal, Healed, FailRequest, LookedUp,
       RetryMissed, AttachRules, FetchMissedRules, FetchMissedFails, Backfill, Serve
  <2>2. scope'[g] \in {scope[g], All}
    BY <1>8 DEF Request, FindSchedules, SelfHeal, Healed, FailRequest, LookedUp,
       RetryMissed, AttachRules, FetchMissedRules, FetchMissedFails, Backfill, Serve,
       CallEvaluate, refresh
  <2> QED BY <2>1, <2>2 DEF InScope
<1>9. CASE Call(g)
  BY <1>9 DEF Call, StartRequest, Flush, FlushAll, FlushPlacements, AfterFlush,
     CallEvaluate, May, refresh, InScope
<1> QED BY <1>1, <1>2, <1>3, <1>4, <1>5, <1>6, <1>7, <1>8, <1>9 DEF Run, Evaluate

LEMMA ScopeStep ==
  ASSUME "softdelete" \notin Faults, TypeInv, ScopeInv, [Next]_vars
  PROVE  ScopeInv'
<1>1. hidden' = {}
  BY FaultStep DEF ScopeInv
<1>2. ASSUME NEW g \in Proc PROVE InScope(g)'
  <2>1. CASE Same(g)
    BY <2>1, SameScope DEF ScopeInv
  <2>2. CASE Run(g) \/ Call(g)
    BY <2>2, OwnScope DEF ScopeInv
  <2> QED BY <2>1, <2>2, EnvironmentSame, OthersSame DEF Next
<1> QED BY <1>1, <1>2 DEF ScopeInv

\* With any number of goroutines, and whatever queries fail and keys are refused:
\* while no row is soft-deleted, a refresh of one placement writes no key of
\* another.
THEOREM TargetedIsContained ==
  ASSUME "softdelete" \notin Faults
  PROVE  Spec => TargetedLeavesOthersAlone
<1> DEFINE Contained ==
      \A g \in Proc : scope[g] # All /\ pc'[g] # pc[g] =>
        \A p \in Placement \ {scope[g]} :
          sched'[p] = sched[p] /\ vers'[p] = vers[p] /\ sync'[p] = sync[p]
<1>1. Init => ScopeInv
  BY DEF Init, ScopeInv, InScope
<1>2. TypeInv /\ ScopeInv /\ [Next]_vars => ScopeInv'
  BY ScopeStep
<1>3. TypeInv /\ ScopeInv /\ [Next]_vars => [Contained]_vars
  <2> SUFFICES ASSUME TypeInv, ScopeInv, [Next]_vars, NEW g \in Proc,
                      scope[g] # All, pc'[g] # pc[g],
                      NEW p \in Placement \ {scope[g]}
               PROVE  sched'[p] = sched[p] /\ vers'[p] = vers[p] /\ sync'[p] = sync[p]
    OBVIOUS
  <2> USE DEF TypeInv, TypeOK
  <2>1. pc[g] \in Targeted
    BY DEF ScopeInv, InScope
  <2>2. Run(g) \/ Call(g)
    BY EnvironmentSame, OthersSame DEF Next, Same
  <2>3. Evaluate(g)
    BY <2>1, <2>2, Zenon DEF Targeted, Run, Call, Tick, Subscriber, ReceivePing, SkipPing,
       HandlePing, Request, FindSchedules, SelfHeal, Healed, FailRequest, LookedUp,
       RetryMissed, AttachRules, FetchMissedRules, FetchMissedFails, Backfill, Serve,
       StartRequest, Flush, FlushAll, FlushPlacements, May
  <2>4. CASE SetPlacement(g)
    <3>1. Group(snap[g], p) = {}
      BY <2>4 DEF SetPlacement, ScopeInv, InScope
    <3> QED BY <2>4, <3>1 DEF SetPlacement, Overwrite
  <2>5. CASE ClearPlacement(g)
    BY <2>5 DEF ClearPlacement
  <2>6. CASE ~SetPlacement(g) /\ ~ClearPlacement(g)
    BY <2>1, <2>3, <2>6 DEF Targeted, Evaluate, ListOccurrences, LoadSchedules, ListFails,
       FetchRules, FetchRulesFails, SyncSchedules, SyncRules, SyncVersions, SyncLastSync,
       SetRules, PruneOrphanedRules, mirror
  <2> QED BY <2>4, <2>5, <2>6
<1> QED BY <1>1, <1>2, <1>3, TypeInvariant, PTL DEF Spec, TargetedLeavesOthersAlone

-----------------------------------------------------------------------------
(* Responses are complete *)

\* The schedules a request holds without a rule.
Bare(g) == {s \in HeldSchedules(g) : heap[HeldBatch(g, s)].rule[s] = None}

\* As long as the database offers every rule: the request asks for every rule it
\* lacks, and what was answered holds them all.
HasRules(g) ==
  /\ pc[g] \in {"fetchMissed", "backfill"} => Bare(g) \subseteq asked[g]
  /\ pc[g] = "backfill" => \A s \in asked[g] : fetched[g][RuleOf[s]] # None

\* The step that ends the search for rules, but by a failing query, found them all.
FindsRules(g) == pc'[g] = "serve" /\ pc[g] # "fetchMissed" => Bare(g)' = {}

RulesInv ==
  edits = 0 =>
    /\ hidden = {}
    /\ \A r \in Rule : ruleVer[r] # None
    /\ \A g \in Proc : HasRules(g)

\* No step takes the rule off an object that somebody holds.
LEMMA RuleKept ==
  ASSUME TypeInv, [Next]_vars, NEW x \in Gen, x \in Live, x \in Live',
         NEW s \in Schedule, heap[x].rule[s] # None
  PROVE  heap'[x].rule[s] # None
<1> USE DEF TypeInv, TypeOK
<1>1. CASE heap' = heap \/ Collect
  BY <1>1 DEF Collect, Collected
<1>2. ASSUME NEW g \in Proc, LoadSchedules(g) PROVE heap'[x] = heap[x]
  <2> DEFINE y == CHOOSE z \in Gen : z \notin Live
  <2>1. y # x
    BY <1>2, FreshBatch DEF LoadSchedules
  <2>2. heap' = heap \/ \E b : heap' = [heap EXCEPT ![y] = b]
    BY <1>2 DEF LoadSchedules
  <2> HIDE DEF y
  <2> QED BY <2>1, <2>2
<1>3. ASSUME NEW g \in Proc, NEW ids, NEW version, heap' = Attached(g, ids, version),
             s \in ids /\ HeldBatch(g, s) = x => version[RuleOf[s]] # None
      PROVE  heap'[x].rule[s] # None
  <2>1. heap[x] \in Batch
    OBVIOUS
  <2>2. heap'[x].rule[s] = IF s \in ids /\ HeldBatch(g, s) = x THEN version[RuleOf[s]]
                           ELSE heap[x].rule[s]
    BY <1>3, <2>1 DEF Attached, Batch
  <2> QED BY <1>3, <2>2
<1>4. ASSUME NEW g \in Proc, AttachRules(g) PROVE heap'[x].rule[s] # None
  <2> DEFINE bare == {r \in HeldSchedules(g) : heap[HeldBatch(g, r)].rule[r] = None}
  <2>1. heap' = Attached(g, bare, rules)
    BY <1>4 DEF AttachRules
  <2>2. ~(s \in bare /\ HeldBatch(g, s) = x)
    OBVIOUS
  <2> HIDE DEF bare
  <2> QED BY <1>3, <2>1, <2>2
<1>5. ASSUME NEW g \in Proc, Backfill(g) PROVE heap'[x].rule[s] # None
  <2> DEFINE answered == {r \in asked[g] : fetched[g][RuleOf[r]] # None}
  <2>1. heap' = Attached(g, answered, fetched[g])
    BY <1>5 DEF Backfill
  <2>2. s \in answered => fetched[g][RuleOf[s]] # None
    OBVIOUS
  <2> HIDE DEF answered
  <2> QED BY <1>3, <2>1, <2>2
<1>6. ASSUME NEW g \in Proc, Request(g)
      PROVE  heap' = heap \/ Collect \/ AttachRules(g) \/ Backfill(g)
  BY <1>6 DEF Request, FindSchedules, SelfHeal, Healed, FailRequest, LookedUp, RetryMissed,
     FetchMissedRules, FetchMissedFails, Serve
<1>7. ASSUME NEW g \in Proc, Evaluate(g)
      PROVE  heap' = heap \/ Collect \/ LoadSchedules(g)
  BY <1>7 DEF Evaluate, ListOccurrences, ListFails, ClearPlacement, FetchRules,
     FetchRulesFails, SyncSchedules, SyncRules, SyncVersions, SyncLastSync, SetPlacement,
     SetRules, PruneOrphanedRules
<1>8. ASSUME NEW g \in Proc, Tick(g) \/ Subscriber(g) \/ Call(g)
      PROVE  heap' = heap \/ Collect
  BY <1>8 DEF Tick, Subscriber, ReceivePing, SkipPing, HandlePing, Call, StartRequest,
     Flush, FlushAll, FlushPlacements
<1>9. CASE BackOffice \/ Monitor \/ Clock \/ UNCHANGED vars
  <2>1. heap' = heap \/ Collect
    BY <1>9 DEF BackOffice, Monitor, Clock, OpenOrCloseWindow, EditSchedule, SoftDelete,
       EditRule, SoftDeleteRule, Publish, Age, Expire, ExpireRule, vars
  <2> QED BY <1>1, <2>1
<1> QED BY <1>1, <1>2, <1>4, <1>5, <1>6, <1>7, <1>8, <1>9 DEF Next, Run

\* The batch through which a request holds a schedule is on the heap.
LEMMA HeldLive ==
  ASSUME TypeInv, NEW g \in Proc, NEW s \in HeldSchedules(g)
  PROVE  /\ s \in Schedule /\ PlacementOf[s] \in Placement
         /\ HeldBatch(g, s) \in Gen /\ HeldBatch(g, s) # None /\ HeldBatch(g, s) \in Live
BY MirrorAssumption DEF HeldSchedules, HeldBatch, Group, Live, TypeInv, TypeOK

\* A request holds what it held, with no fewer rules.
LEMMA BareShrinks ==
  ASSUME TypeInv, [Next]_vars, NEW g \in Proc, held'[g] = held[g]
  PROVE  /\ HeldSchedules(g)' = HeldSchedules(g)
         /\ Bare(g)' \subseteq Bare(g)
<1>1. ASSUME NEW s \in Schedule, HeldBatch(g, s) # None
      PROVE  /\ HeldBatch(g, s)' = HeldBatch(g, s)
             /\ HeldBatch(g, s) \in Gen
             /\ HeldBatch(g, s) \in Live /\ HeldBatch(g, s) \in Live'
             /\ heap'[HeldBatch(g, s)].ids = heap[HeldBatch(g, s)].ids
  <2>1. HeldBatch(g, s)' = HeldBatch(g, s)
    BY DEF HeldBatch
  <2>2. PlacementOf[s] \in Placement
    BY MirrorAssumption
  <2>3. HeldBatch(g, s) \in Gen /\ HeldBatch(g, s) \in Live /\ HeldBatch(g, s) \in Live'
    BY <1>1, <2>2 DEF HeldBatch, Live, TypeInv, TypeOK
  <2> QED BY <2>1, <2>3, HeldBatchKept
<1>2. HeldSchedules(g)' = HeldSchedules(g)
  <2>1. ASSUME NEW s \in Schedule
        PROVE  s \in Group(HeldBatch(g, s), PlacementOf[s])' <=>
               s \in Group(HeldBatch(g, s), PlacementOf[s])
    <3>1. CASE HeldBatch(g, s) = None
      BY <3>1 DEF HeldBatch, Group
    <3>2. CASE HeldBatch(g, s) # None
      BY <1>1, <3>2 DEF Group
    <3> QED BY <3>1, <3>2
  <2> QED BY <2>1 DEF HeldSchedules
<1>3. ASSUME NEW s \in HeldSchedules(g), heap[HeldBatch(g, s)].rule[s] # None
      PROVE  heap'[HeldBatch(g, s)].rule[s] # None /\ HeldBatch(g, s)' = HeldBatch(g, s)
  BY <1>1, <1>3, HeldLive, RuleKept
<1> QED BY <1>2, <1>3 DEF Bare

\* What a request's own step does to the rules it holds.
LEMMA OwnRules ==
  ASSUME TypeInv, [Next]_vars, NEW g \in Proc, Run(g) \/ Call(g), HasRules(g),
         hidden = {}, \A r \in Rule : ruleVer[r] # None
  PROVE  HasRules(g)' /\ FindsRules(g)
<1> USE DEF TypeInv, TypeOK, Goto
<1>1. CASE AttachRules(g)
  <2> DEFINE miss == {s \in Bare(g) : rules[RuleOf[s]] = None}
  <2>1. /\ heap' = Attached(g, Bare(g), rules)
        /\ asked'[g] = miss
        /\ pc'[g] = IF miss = {} THEN "serve" ELSE "fetchMissed"
        /\ held' = held
    BY <1>1 DEF AttachRules, Bare, request
  <2>2. Bare(g)' \subseteq miss
    <3> SUFFICES ASSUME NEW s \in Bare(g)', rules[RuleOf[s]] # None PROVE FALSE
      BY <2>1, BareShrinks
    <3>1. s \in Bare(g) /\ s \in HeldSchedules(g)
      BY <2>1, BareShrinks DEF Bare
    <3>2. HeldBatch(g, s) \in Gen /\ s \in Schedule /\ HeldBatch(g, s)' = HeldBatch(g, s)
      BY <2>1, <3>1, HeldLive DEF HeldBatch
    <3>3. heap[HeldBatch(g, s)] \in Batch
      BY <3>2
    <3>4. heap'[HeldBatch(g, s)].rule[s] = rules[RuleOf[s]]
      BY <2>1, <3>1, <3>2, <3>3 DEF Attached, Batch
    <3> QED BY <3>2, <3>4 DEF Bare
  <2> HIDE DEF miss
  <2> QED BY <2>1, <2>2 DEF HasRules, FindsRules
<1>2. CASE FetchMissedRules(g)
  <2>1. /\ pc[g] = "fetchMissed" /\ pc'[g] = "backfill"
        /\ asked'[g] = asked[g] /\ fetched'[g] = RulesFor(asked[g]) /\ held' = held
    BY <1>2 DEF FetchMissedRules, request
  <2>2. \A s \in asked[g] : RulesFor(asked[g])[RuleOf[s]] # None
    BY MirrorAssumption DEF RulesFor
  <2> QED BY <2>1, <2>2, BareShrinks DEF HasRules, FindsRules
<1>3. CASE Backfill(g)
  <2> DEFINE answered == {s \in asked[g] : fetched[g][RuleOf[s]] # None}
  <2>1. /\ pc[g] = "backfill" /\ pc'[g] = "serve" /\ held' = held
        /\ heap' = Attached(g, answered, fetched[g])
    BY <1>3 DEF Backfill, request
  <2>2. Bare(g)' = {}
    <3> SUFFICES ASSUME NEW s \in Bare(g)' PROVE FALSE
      OBVIOUS
    <3>1. s \in Bare(g) /\ s \in HeldSchedules(g)
      BY <2>1, BareShrinks DEF Bare
    <3>2. s \in answered
      BY <2>1, <3>1 DEF HasRules
    <3>3. HeldBatch(g, s) \in Gen /\ s \in Schedule /\ HeldBatch(g, s)' = HeldBatch(g, s)
      BY <2>1, <3>1, HeldLive DEF HeldBatch
    <3>4. heap[HeldBatch(g, s)] \in Batch
      BY <3>3
    <3>5. heap'[HeldBatch(g, s)].rule[s] = fetched[g][RuleOf[s]]
      BY <2>1, <3>2, <3>3, <3>4 DEF Attached, Batch
    <3> QED BY <3>2, <3>3, <3>5 DEF Bare
  <2> QED BY <2>1, <2>2 DEF HasRules, FindsRules
<1>4. CASE FetchMissedFails(g)
  <2>1. pc[g] = "fetchMissed" /\ pc'[g] = "serve"
    BY <1>4 DEF FetchMissedFails
  <2> QED BY <2>1 DEF HasRules, FindsRules
<1>5. CASE ~(AttachRules(g) \/ FetchMissedRules(g) \/ FetchMissedFails(g) \/ Backfill(g))
  <2>1. pc'[g] \notin {"fetchMissed", "backfill", "serve"}
    <3>1. CASE Evaluate(g)
      <4>1. CASE \/ ListOccurrences(g) \/ LoadSchedules(g) \/ FetchRules(g)
                 \/ FetchRulesFails(g) \/ SyncSchedules(g) \/ SyncRules(g)
                 \/ SyncVersions(g) \/ SetPlacement(g) \/ SetRules(g)
        BY <4>1 DEF ListOccurrences, LoadSchedules, FetchRules, FetchRulesFails,
           SyncSchedules, SyncRules, SyncVersions, SetPlacement, SetRules, AfterFetch
      <4>2. CASE ListFails(g) \/ ClearPlacement(g) \/ SyncLastSync(g) \/ PruneOrphanedRules(g)
        BY <4>2 DEF ListFails, ClearPlacement, SyncLastSync, PruneOrphanedRules, Return
      <4> QED BY <3>1, <4>1, <4>2 DEF Evaluate
    <3>2. CASE Tick(g) \/ Subscriber(g) \/ Call(g)
      BY <3>2 DEF Tick, Subscriber, ReceivePing, SkipPing, HandlePing, Call, StartRequest,
         Flush, FlushAll, FlushPlacements, AfterFlush, CallEvaluate, May, refresh
    <3>3. CASE Request(g)
      BY <1>5, <3>3 DEF Request, FindSchedules, SelfHeal, Healed, FailRequest,
         LookedUp, RetryMissed, Serve, CallEvaluate, Lookup, EndRequest
    <3> QED BY <3>1, <3>2, <3>3 DEF Run
  <2> QED BY <2>1 DEF HasRules, FindsRules
<1> QED BY <1>1, <1>2, <1>3, <1>4, <1>5

\* What any step does to the rules of a request.
LEMMA RulesOfRequest ==
  ASSUME TypeInv, RulesInv, [Next]_vars, edits = 0, NEW g \in Proc
  PROVE  \/ HasRules(g)' /\ FindsRules(g)
         \/ HasRules(g)' /\ Same(g)
<1>1. hidden = {} /\ (\A r \in Rule : ruleVer[r] # None) /\ HasRules(g)
  BY DEF RulesInv
<1>2. CASE Same(g)
  BY <1>1, <1>2, BareShrinks DEF HasRules, Same
<1>3. CASE BackOffice \/ Monitor \/ Clock \/ UNCHANGED vars
  BY <1>2, <1>3, EnvironmentSame
<1>4. ASSUME NEW h \in Proc \ {g}, Run(h) \/ Call(h)
      PROVE  HasRules(g)' /\ Same(g)
  BY <1>2, <1>4, OthersSame
<1>5. CASE Run(g) \/ Call(g)
  BY <1>1, <1>5, OwnRules
<1> QED BY <1>2, <1>3, <1>4, <1>5 DEF Next

LEMMA RulesInvariant == Spec => []RulesInv
<1>1. Init => RulesInv
  BY MirrorAssumption DEF Init, RulesInv, HasRules
<1>2. TypeInv /\ RulesInv /\ [Next]_vars => RulesInv'
  <2> SUFFICES ASSUME TypeInv, RulesInv, [Next]_vars, edits' = 0
               PROVE  /\ hidden' = {}
                      /\ \A r \in Rule : ruleVer'[r] # None
                      /\ \A g \in Proc : HasRules(g)'
    BY DEF RulesInv
  <2>1. edits = 0 /\ UNCHANGED <<hidden, ruleVer>>
    BY QuietDatabase
  <2> QED BY <2>1, RulesOfRequest DEF RulesInv
<1> QED BY <1>1, <1>2, TypeInvariant, PTL DEF Spec

\* With any number of goroutines, whatever expiry, pressure, flushes, invalidations
\* and failing refreshes took from the rule cache in the meantime: a response of an
\* unchanged database leaves out no schedule the request holds, unless the
\* request's own query for the rule failed.
THEOREM ResponsesComplete == Spec => ResponseIsComplete
<1>1. TypeInv /\ RulesInv /\ [Next]_vars =>
        [\A g \in Proc : edits = 0 /\ Incomplete(g)' => Incomplete(g) \/ pc[g] = "fetchMissed"]_vars
  <2> SUFFICES ASSUME TypeInv, RulesInv, [Next]_vars, NEW g \in Proc,
                      edits = 0, Incomplete(g)', ~Incomplete(g), pc[g] # "fetchMissed"
               PROVE  FALSE
    OBVIOUS
  <2>1. pc'[g] = "serve" /\ Bare(g)' # {}
    BY DEF Incomplete, Served, Bare
  <2>2. CASE FindsRules(g)
    BY <2>1, <2>2 DEF FindsRules
  <2>3. CASE Same(g)
    <3>1. pc[g] = "serve" /\ held'[g] = held[g]
      BY <2>1, <2>3 DEF Same
    <3>2. Bare(g) # {}
      BY <2>1, <3>1, BareShrinks
    <3> QED BY <3>1, <3>2 DEF Incomplete, Served, Bare
  <2> QED BY <2>2, <2>3, RulesOfRequest
<1> QED BY <1>1, RulesInvariant, TypeInvariant, PTL DEF Spec, ResponseIsComplete

-----------------------------------------------------------------------------
(* The mirror is a replica *)

Loaded == {"fetch", "syncSchedules", "syncRules", "syncVersions", "syncLastSync",
           "setPlacement", "setRules", "prune"}

Ids(x) == IF x = None THEN {} ELSE heap[x].ids

\* What a refresh is about to write is what its queries returned.
SightInv(g) ==
  /\ pc[g] \notin Loaded => snap[g] = None
  /\ pc[g] \in {"fetch", "syncSchedules", "setPlacement"} => asked[g] = Ids(snap[g])
  /\ pc[g] \in {"fetch", "setPlacement"} => asked[g] # {}
  /\ pc[g] = "clear" => asked[g] = {}

ReplicaInv == ScopeInv /\ HealInv /\ \A g \in Proc : SightInv(g)

LEMMA IdsKept ==
  ASSUME TypeInv, [Next]_vars, NEW g \in Proc, snap'[g] = snap[g]
  PROVE  Ids(snap[g])' = Ids(snap[g])
<1>1. CASE snap[g] = None
  BY <1>1 DEF Ids
<1>2. CASE snap[g] # None
  <2>1. snap[g] \in Gen /\ snap[g] \in Live /\ snap[g] \in Live'
    BY <1>2 DEF Live, TypeInv, TypeOK
  <2> QED BY <2>1, HeldBatchKept DEF Ids
<1> QED BY <1>1, <1>2

LEMMA SameSight ==
  ASSUME TypeInv, [Next]_vars, NEW g \in Proc, Same(g), SightInv(g)
  PROVE  SightInv(g)'
BY IdsKept DEF SightInv, Same

\* What LoadSchedules puts on the heap.
LEMMA LoadedBatch ==
  ASSUME TypeInv, NEW g \in Proc, LoadSchedules(g), asked[g] \ hidden # {}
  PROVE  \E x \in Gen :
           /\ x # None /\ snap' = [snap EXCEPT ![g] = x]
           /\ pc' = [pc EXCEPT ![g] = "fetch"]
           /\ heap' = [heap EXCEPT ![x] =
                [ids |-> asked[g] \ hidden,
                 upd |-> [s \in Schedule |-> IF s \in asked[g] \ hidden THEN upd[s] ELSE 0],
                 rule |-> [s \in Schedule |-> None]]]
           /\ heap'[x].ids = asked[g] \ hidden
<1> DEFINE x == CHOOSE y \in Gen : y \notin Live
           b == [ids |-> asked[g] \ hidden,
                 upd |-> [s \in Schedule |-> IF s \in asked[g] \ hidden THEN upd[s] ELSE 0],
                 rule |-> [s \in Schedule |-> None]]
<1>1. x \in Gen /\ x # None
  BY FreshBatch, MirrorAssumption DEF LoadSchedules
<1>2. /\ snap' = [snap EXCEPT ![g] = x] /\ pc' = [pc EXCEPT ![g] = "fetch"]
      /\ heap' = [heap EXCEPT ![x] = b]
  BY DEF LoadSchedules, Goto
<1>3. b.ids = asked[g] \ hidden
  OBVIOUS
<1> HIDE DEF x
<1>4. heap'[x] = b
  BY <1>1, <1>2 DEF TypeInv, TypeOK
<1> QED BY <1>1, <1>2, <1>3, <1>4

LEMMA OwnSight ==
  ASSUME TypeInv, [Next]_vars, NEW g \in Proc, SightInv(g),
         Run(g) \/ Call(g)
  PROVE  SightInv(g)'
<1> USE DEF TypeInv, TypeOK, Loaded
<1>1. CASE ListOccurrences(g)
  <2>1. /\ pc[g] = "list" /\ snap' = snap
        /\ pc'[g] \in {"load", "clear", "syncSchedules"}
        /\ pc'[g] # "load" => asked'[g] = {}
    BY <1>1 DEF ListOccurrences, Goto
  <2>2. snap'[g] = None
    BY <2>1 DEF SightInv
  <2> QED BY <2>1, <2>2 DEF SightInv, Ids
<1>2. CASE LoadSchedules(g)
  <2>1. CASE asked[g] \ hidden = {}
    <3>1. pc[g] = "load" /\ pc'[g] = "syncSchedules" /\ asked'[g] = {} /\ snap' = snap
      BY <1>2, <2>1 DEF LoadSchedules, Goto
    <3> QED BY <3>1 DEF SightInv, Ids
  <2>2. CASE asked[g] \ hidden # {}
    <3>1. asked'[g] = asked[g] \ hidden
      BY <1>2 DEF LoadSchedules
    <3>2. PICK x \in Gen : /\ x # None /\ snap' = [snap EXCEPT ![g] = x]
                           /\ pc' = [pc EXCEPT ![g] = "fetch"]
                           /\ heap'[x].ids = asked[g] \ hidden
      BY <1>2, <2>2, LoadedBatch
    <3>3. snap'[g] = x /\ pc'[g] = "fetch"
      BY <3>2
    <3>4. Ids(snap[g])' = asked'[g]
      BY <3>1, <3>2, <3>3 DEF Ids
    <3> QED BY <2>2, <3>1, <3>2, <3>3, <3>4 DEF SightInv
  <2> QED BY <2>1, <2>2
<1>3. CASE FetchRules(g) \/ FetchRulesFails(g)
  <2>1. /\ pc[g] = "fetch" /\ pc'[g] \in {"syncSchedules", "setPlacement"}
        /\ UNCHANGED <<snap, asked>>
    BY <1>3 DEF FetchRules, FetchRulesFails, AfterFetch, Goto, refresh
  <2> QED BY <2>1, IdsKept DEF SightInv
<1>4. CASE \/ SyncSchedules(g) \/ SyncRules(g) \/ SyncVersions(g) \/ SetPlacement(g)
           \/ SetRules(g)
  BY <1>4 DEF SyncSchedules, SyncRules, SyncVersions, SetPlacement, SetRules, Goto, refresh,
     SightInv
<1>5. CASE ListFails(g) \/ ClearPlacement(g) \/ SyncLastSync(g) \/ PruneOrphanedRules(g)
  <2>1. pc'[g] \in {"idle", "recheck", "retry"} /\ snap'[g] = None
    BY <1>5 DEF ListFails, ClearPlacement, SyncLastSync, PruneOrphanedRules, Return, Goto
  <2> QED BY <2>1 DEF SightInv
<1>6. CASE Tick(g) \/ Subscriber(g) \/ Call(g)
  <2>1. pc[g] \in {"idle", "jitter"} /\ pc'[g] \in {"idle", "jitter", "list", "check"}
    BY <1>6 DEF Tick, Subscriber, ReceivePing, SkipPing, HandlePing, Call, StartRequest,
       Flush, FlushAll, FlushPlacements, AfterFlush, CallEvaluate, May, Goto
  <2>2. snap' = snap
    BY <1>6 DEF Tick, Subscriber, ReceivePing, SkipPing, HandlePing, Call, StartRequest,
       Flush, FlushAll, FlushPlacements, AfterFlush, CallEvaluate, refresh
  <2> QED BY <2>1, <2>2 DEF SightInv
<1>7. CASE Request(g)
  <2>1. pc[g] \in {"check", "recheck", "retry", "attach", "fetchMissed", "backfill", "serve"}
    BY <1>7 DEF Request, FindSchedules, SelfHeal, Healed, FailRequest, LookedUp,
       RetryMissed, AttachRules, FetchMissedRules, FetchMissedFails, Backfill, Serve
  <2>2. snap' = snap
    BY <1>7 DEF Request, FindSchedules, SelfHeal, Healed, FailRequest, LookedUp,
       RetryMissed, AttachRules, FetchMissedRules, FetchMissedFails, Backfill, Serve,
       CallEvaluate, refresh
  <2>3. \E l \in {"check", "list", "idle", "attach", "serve", "fetchMissed", "backfill"} :
          pc' = [pc EXCEPT ![g] = l]
    BY <1>7, Zenon DEF Request, FindSchedules, SelfHeal, Healed, FailRequest, LookedUp,
       RetryMissed, AttachRules, FetchMissedRules, FetchMissedFails, Backfill, Serve,
       Lookup, EndRequest, CallEvaluate, Goto
  <2> QED BY <2>1, <2>2, <2>3 DEF SightInv
<1> QED BY <1>1, <1>2, <1>3, <1>4, <1>5, <1>6, <1>7 DEF Run, Evaluate

LEMMA ReplicaStep ==
  ASSUME "softdelete" \notin Faults, TypeInv, ReplicaInv, [Next]_vars
  PROVE  ReplicaInv'
<1>1. ScopeInv' /\ HealInv'
  BY ScopeStep, HealStep DEF ReplicaInv
<1>2. ASSUME NEW g \in Proc PROVE SightInv(g)'
  <2>1. CASE Same(g)
    BY <2>1, SameSight DEF ReplicaInv
  <2>2. CASE Run(g) \/ Call(g)
    BY <2>2, OwnSight DEF ReplicaInv
  <2> QED BY <2>1, <2>2, EnvironmentSame, OthersSame DEF Next
<1> QED BY <1>1, <1>2 DEF ReplicaInv

\* Schedules are kept as long as the key of their placement is not written.
LEMMA KeptUnwritten ==
  ASSUME TypeInv, [Next]_vars, NEW s \in Schedule,
         sched'[PlacementOf[s]] = sched[PlacementOf[s]]
  PROVE  s \in Kept' <=> s \in Kept
<1> DEFINE p == PlacementOf[s]
<1>1. p \in Placement
  BY MirrorAssumption
<1>2. CASE sched[p] = None
  BY <1>2 DEF Kept, Group
<1>3. CASE sched[p] # None
  <2>1. sched[p] \in Gen /\ sched[p] \in Live /\ sched[p] \in Live'
    BY <1>1, <1>3 DEF Live, TypeInv, TypeOK
  <2>2. heap'[sched[p]].ids = heap[sched[p]].ids
    BY <2>1, HeldBatchKept
  <2> QED BY <1>3, <2>2 DEF Kept, Group
<1> QED BY <1>2, <1>3

\* The key of a placement set to the batch of g holds what the batch holds.
LEMMA KeptWritten ==
  ASSUME TypeInv, [Next]_vars, NEW g \in Proc, snap'[g] = snap[g], NEW s \in Schedule,
         sched'[PlacementOf[s]] = snap[g]
  PROVE  s \in Kept' <=> s \in Ids(snap[g])
<1>1. Ids(snap[g])' = Ids(snap[g])
  BY IdsKept
<1>2. s \in Kept' <=> s \in Ids(snap[g])'
  BY DEF Kept, Group, Ids
<1> QED BY <1>1, <1>2

LEMMA SameSighted ==
  ASSUME NEW g \in Proc, Same(g)
  PROVE  Sighted(g)' = Sighted(g)
BY DEF Same, Sighted, Pulling, Covered

\* Steps that only delete keys, and are no part of a pull.
LEMMA Forgets ==
  ASSUME TypeInv, [Next]_vars, UNCHANGED <<active, hidden>>,
         \A p \in Placement : sched'[p] \in {sched[p], None},
         \A g \in Proc : Sighted(g)' = Sighted(g)
  PROVE  Copies!Forget
<1>1. ASSUME NEW s \in Kept' PROVE s \in Kept
  <2>1. s \in Schedule /\ PlacementOf[s] \in Placement
    BY <1>1, MirrorAssumption DEF Kept
  <2>2. sched'[PlacementOf[s]] # None
    BY <1>1 DEF Kept, Group
  <2>3. sched'[PlacementOf[s]] = sched[PlacementOf[s]]
    BY <2>1, <2>2
  <2> QED BY <1>1, <2>1, <2>3, KeptUnwritten
<1>2. Kept' \in SUBSET Kept
  BY <1>1
<1> QED BY <1>2 DEF Copies!Forget

LEMMA EnvironmentCopies ==
  ASSUME TypeInv, TypeInv', [Next]_vars, BackOffice \/ Monitor \/ Clock
  PROVE  Copies!Change \/ Copies!Forget
<1>1. \A g \in Proc : Sighted(g)' = Sighted(g)
  BY EnvironmentSame, SameSighted
<1>2. CASE BackOffice
  <2>1. UNCHANGED <<sched, heap>>
    BY <1>2 DEF BackOffice, OpenOrCloseWindow, EditSchedule, SoftDelete, EditRule,
       SoftDeleteRule, Publish, mirror
  <2>2. Kept' = Kept
    BY <2>1 DEF Kept, Group
  <2>3. hidden \subseteq hidden'
    BY <1>2 DEF BackOffice, OpenOrCloseWindow, EditSchedule, SoftDelete, EditRule,
       SoftDeleteRule, Publish, catalogue
  <2>4. active' \in SUBSET Schedule /\ hidden' \in SUBSET Schedule
    BY DEF TypeInv, TypeOK
  <2> QED BY <1>1, <2>2, <2>3, <2>4 DEF Copies!Change
<1>3. CASE Monitor \/ Clock
  <2>1. UNCHANGED <<active, hidden>>
    BY <1>3 DEF Monitor, Clock, Age, Expire, ExpireRule, catalogue
  <2>2. \A p \in Placement : sched'[p] \in {sched[p], None}
    BY <1>3 DEF Monitor, Clock, Age, Expire, ExpireRule, mirror, TypeInv, TypeOK
  <2> QED BY <1>1, <2>1, <2>2, Forgets
<1> QED BY <1>2, <1>3

LEMMA SightType ==
  ASSUME TypeInv, NEW g \in Proc, NEW ids \in SUBSET Schedule, NEW sure \in BOOLEAN
  PROVE  [over |-> Covered(g), seen |-> ids, sure |-> sure] # None
<1>1. Covered(g) \in SUBSET Schedule
  BY DEF Covered
<1> QED BY <1>1, SightAssumption DEF Copies!Sight

\* What g has seen changes in a step of g only.
LEMMA OthersSighted ==
  ASSUME TypeInv, NEW g \in Proc, Run(g) \/ Call(g)
  PROVE  \A h \in Proc \ {g} : Sighted(h)' = Sighted(h)
BY OthersSame, SameSighted

LEMMA QueriesCopy ==
  ASSUME TypeInv, ReplicaInv, [Next]_vars, NEW g \in Proc,
         ListOccurrences(g) \/ LoadSchedules(g) \/ ListFails(g)
  PROVE  [Copies!Next]_(Copies!vars)
<1> USE DEF TypeInv, TypeOK
<1> DEFINE S == [h \in Proc |-> Sighted(h)]
<1>1. UNCHANGED <<active, hidden, sched>>
  BY DEF ListOccurrences, LoadSchedules, ListFails, catalogue, mirror
<1>2. Run(g) \/ Call(g)
  BY DEF Run, Evaluate
<1>3. \A h \in Proc \ {g} : Sighted(h)' = Sighted(h)
  BY <1>2, OthersSighted
<1>4. Kept' = Kept
  <2>1. \A s \in Schedule : s \in Kept' <=> s \in Kept
    BY <1>1, KeptUnwritten
  <2> QED BY <2>1 DEF Kept
<1>8. S' = [S EXCEPT ![g] = Sighted(g)']
  BY <1>3
<1>5. CASE ListOccurrences(g)
  <2>1. /\ pc[g] = "list" /\ scope' = scope
        /\ asked'[g] = {s \in active : scope[g] \in {All, PlacementOf[s]}}
        /\ pc'[g] \in {"load", "clear", "syncSchedules"}
        /\ pc'[g] # "load" <=> asked'[g] = {}
    BY <1>5 DEF ListOccurrences, Goto
  <2>2. asked'[g] = Covered(g) \cap active
    BY <2>1 DEF Covered
  <2>3. Sighted(g) = None
    BY <2>1 DEF Sighted, Pulling
  <2>4. Sighted(g)' = [over |-> Covered(g), seen |-> Covered(g) \cap active,
                       sure |-> Covered(g) \cap active = {}]
    BY <2>1, <2>2 DEF Sighted, Pulling, Covered
  <2>5. Covered(g) \in SUBSET Schedule
    BY DEF Covered
  <2>6. Copies!Look(g, Covered(g))
    BY <1>1, <1>3, <1>4, <2>3, <2>4 DEF Copies!Look
  <2> QED BY <2>5, <2>6 DEF Copies!Next
<1>6. CASE LoadSchedules(g)
  <2>1. /\ pc[g] = "load" /\ scope' = scope /\ asked'[g] = asked[g] \ hidden
        /\ pc'[g] \in {"fetch", "syncSchedules"}
    BY <1>6 DEF LoadSchedules, Goto
  <2>2. Sighted(g) = [over |-> Covered(g), seen |-> asked[g], sure |-> FALSE]
    BY <2>1 DEF Sighted, Pulling
  <2>3. Sighted(g)' = [over |-> Covered(g), seen |-> asked[g] \ hidden, sure |-> TRUE]
    BY <2>1 DEF Sighted, Pulling, Covered
  <2>4. Sighted(g) # None
    BY <2>2, SightType
  <2>5. S' = [S EXCEPT ![g] = [over |-> S[g].over, seen |-> S[g].seen \ hidden, sure |-> TRUE]]
    <3>1. S[g].over = Covered(g) /\ S[g].seen = asked[g]
      BY <2>2
    <3> QED BY <1>8, <2>3, <3>1
  <2>6. S[g] # None
    BY <2>4
  <2>7. Copies!LookAgain(g)
    BY ONLY <1>1, <1>4, <2>5, <2>6 DEF Copies!LookAgain
  <2> QED BY <2>7 DEF Copies!Next
<1>7. CASE ListFails(g)
  <2>1. /\ pc[g] \in {"list", "load"} /\ pc'[g] \in {"idle", "recheck", "retry"}
    BY <1>7 DEF ListFails, Return, Goto
  <2>2. Sighted(g)' = None
    BY <2>1 DEF Sighted, Pulling
  <2>3. CASE pc[g] = "list"
    <3>1. \A h \in Proc : Sighted(h)' = Sighted(h)
      BY <1>3, <2>2, <2>3 DEF Sighted, Pulling
    <3> QED BY <1>1, <1>4, <3>1 DEF Copies!vars
  <2>4. CASE pc[g] = "load"
    <3>1. Sighted(g) = [over |-> Covered(g), seen |-> asked[g], sure |-> FALSE]
      BY <2>4 DEF Sighted, Pulling
    <3>2. Sighted(g) # None
      BY <3>1, SightType
    <3>3. S' = [S EXCEPT ![g] = None] /\ S[g] # None /\ ~S[g].sure
      <4>1. ~S[g].sure
        BY <3>1
      <4> QED BY <1>8, <2>2, <3>2, <4>1
    <3>4. Copies!GiveUp(g)
      BY ONLY <1>1, <1>4, <3>3 DEF Copies!GiveUp
    <3> QED BY <3>4 DEF Copies!Next
  <2> QED BY <2>1, <2>3, <2>4
<1> QED BY <1>5, <1>6, <1>7

\* The first write of a refresh, as KeptWritten and KeptUnwritten see it.
LEMMA WriteCopies ==
  ASSUME TypeInv, ReplicaInv, [Next]_vars, NEW g \in Proc,
         ClearPlacement(g) \/ SyncSchedules(g) \/ SetPlacement(g)
  PROVE  Copies!Write(g)
<1> USE DEF TypeInv, TypeOK
<1>1. UNCHANGED <<active, hidden>>
  BY DEF ClearPlacement, SyncSchedules, SetPlacement, catalogue
<1>2. Run(g) \/ Call(g)
  BY DEF Run, Evaluate
<1>3. \A h \in Proc \ {g} : Sighted(h)' = Sighted(h)
  BY <1>2, OthersSighted
<1>4. Sighted(g) = [over |-> Covered(g), seen |-> asked[g], sure |-> TRUE]
  BY DEF ClearPlacement, SyncSchedules, SetPlacement, Sighted, Pulling
<1>5. Sighted(g) # None
  BY <1>4, SightType
<1>6. Sighted(g)' = None
  BY DEF ClearPlacement, SyncSchedules, SetPlacement, Sighted, Pulling, Goto, Return
<1>7. SightInv(g) /\ InScope(g) /\ All \notin Placement
  BY MirrorAssumption DEF ReplicaInv, ScopeInv
<1> DEFINE Takes(s) ==
      /\ s \in Kept /\ s \in asked[g] => s \in Kept'
      /\ s \in Kept' /\ s \in Covered(g) => s \in asked[g]
      /\ s \notin Covered(g) => (s \in Kept' <=> s \in Kept)
<1>8. ASSUME NEW s \in Schedule PROVE Takes(s)
  <2> DEFINE p == PlacementOf[s]
  <2>1. p \in Placement
    BY MirrorAssumption
  <2>2. s \in Covered(g) <=> scope[g] \in {All, p}
    BY DEF Covered
  <2>3. s \in Ids(snap[g]) => snap[g] # None /\ Group(snap[g], p) # {}
    BY DEF Ids, Group
  <2>4. s \in Kept => sched[p] # None
    BY DEF Kept, Group
  <2>5. sched'[p] = None => s \notin Kept'
    BY DEF Kept, Group
  <2>6. CASE ClearPlacement(g)
    <3>1. asked[g] = {} /\ scope[g] # All
      BY <1>7, <2>6 DEF ClearPlacement, SightInv, ReplicaInv, HealInv
    <3>2. sched' = [sched EXCEPT ![scope[g]] = None]
      BY <2>6 DEF ClearPlacement
    <3>3. CASE p = scope[g]
      BY <2>1, <2>2, <2>5, <3>1, <3>2, <3>3
    <3>4. CASE p # scope[g]
      <4>1. sched'[p] = sched[p]
        BY <3>2, <3>4
      <4>2. s \notin Covered(g)
        BY <2>2, <3>1, <3>4
      <4> QED BY <3>1, <4>1, <4>2, KeptUnwritten
    <3> QED BY <3>3, <3>4
  <2>7. CASE SyncSchedules(g)
    <3>1. asked[g] = Ids(snap[g]) /\ scope[g] = All /\ snap' = snap
      BY <1>7, <2>7 DEF SyncSchedules, SightInv, InScope, Targeted, refresh
    <3>2. sched'[p] = IF Group(snap[g], p) # {} /\ CanSet(sched[p]) THEN snap[g] ELSE None
      BY <2>1, <2>7 DEF SyncSchedules, Replace
    <3>3. sched'[p] = snap[g] => (s \in Kept' <=> s \in Ids(snap[g]))
      BY <3>1, KeptWritten
    <3> QED BY <2>2, <2>3, <2>4, <2>5, <3>1, <3>2, <3>3 DEF CanSet
  <2>8. CASE SetPlacement(g)
    <3>1. asked[g] = Ids(snap[g]) /\ asked[g] # {} /\ scope[g] # All /\ snap' = snap
      BY <1>7, <2>8 DEF SetPlacement, SightInv, ReplicaInv, HealInv, refresh
    <3>2. \A q \in Placement \ {scope[g]} : Group(snap[g], q) = {}
      BY <1>7, <2>8, <3>1 DEF SetPlacement, InScope
    <3>3. sched'[p] = IF Group(snap[g], p) # {} /\ CanSet(sched[p]) THEN snap[g] ELSE sched[p]
      BY <2>1, <2>8 DEF SetPlacement, Overwrite
    <3>4. CASE p = scope[g]
      <4>1. Group(snap[g], p) # {}
        <5>1. PICK t \in Ids(snap[g]) : TRUE
          BY <3>1
        <5>2. t \in Schedule
          BY <3>1, <5>1
        <5>3. PlacementOf[t] \in Placement /\ t \in Group(snap[g], PlacementOf[t])
          BY <5>1, <5>2, MirrorAssumption DEF Group, Ids
        <5> QED BY <3>2, <3>4, <5>3
      <4>2. sched'[p] = snap[g] => (s \in Kept' <=> s \in Ids(snap[g]))
        BY <3>1, KeptWritten
      <4> QED BY <2>2, <2>4, <2>5, <3>1, <3>3, <3>4, <4>1, <4>2 DEF CanSet
    <3>5. CASE p # scope[g]
      <4>1. sched'[p] = sched[p] /\ s \notin Ids(snap[g])
        BY <2>1, <2>3, <3>2, <3>3, <3>5
      <4>2. s \notin Covered(g)
        BY <2>2, <3>1, <3>5
      <4> QED BY <3>1, <4>1, <4>2, KeptUnwritten
    <3> QED BY <3>4, <3>5
  <2> QED BY <2>6, <2>7, <2>8
<1>9. /\ Kept' \in SUBSET Schedule
      /\ Kept \cap asked[g] \subseteq Kept'
      /\ Kept' \cap Covered(g) \subseteq asked[g]
      /\ Kept' \ Covered(g) = Kept \ Covered(g)
  <2>1. Kept \subseteq Schedule /\ Kept' \subseteq Schedule
    BY DEF Kept
  <2> QED BY <1>8, <2>1
<1> HIDE DEF Takes
<1> DEFINE S == [h \in Proc |-> Sighted(h)]
<1>10. /\ S' = [S EXCEPT ![g] = None] /\ S[g] # None
       /\ S[g].sure /\ S[g].seen = asked[g] /\ S[g].over = Covered(g)
  <2>1. S' = [S EXCEPT ![g] = Sighted(g)']
    BY <1>3
  <2>2. S[g].sure /\ S[g].seen = asked[g] /\ S[g].over = Covered(g)
    BY <1>4
  <2>3. S[g] # None
    BY <1>5
  <2> QED BY <1>6, <2>1, <2>2, <2>3
<1> QED BY ONLY <1>1, <1>9, <1>10 DEF Copies!Write

\* Everything else a goroutine does is no part of a pull, or leaves what it has
\* seen as it is.
LEMMA ElsewhereForgets ==
  ASSUME TypeInv, [Next]_vars, NEW g \in Proc,
         \/ FetchRules(g) \/ FetchRulesFails(g) \/ SyncRules(g) \/ SyncVersions(g)
         \/ SyncLastSync(g) \/ SetRules(g) \/ PruneOrphanedRules(g)
         \/ Tick(g) \/ Subscriber(g) \/ Request(g) \/ Call(g)
  PROVE  Copies!Forget
<1> USE DEF TypeInv, TypeOK
<1>1. Run(g) \/ Call(g)
  BY DEF Run, Evaluate
<1>2. UNCHANGED <<active, hidden>>
  BY <1>1, Untouched
<1>3. CASE \/ FetchRules(g) \/ FetchRulesFails(g) \/ SyncRules(g) \/ SyncVersions(g)
           \/ SyncLastSync(g) \/ SetRules(g) \/ PruneOrphanedRules(g)
  <2>1. sched' = sched
    BY <1>3 DEF FetchRules, FetchRulesFails, SyncRules, SyncVersions, SyncLastSync, SetRules,
       PruneOrphanedRules, mirror
  <2>2. CASE FetchRules(g) \/ FetchRulesFails(g)
    <3>1. /\ pc[g] = "fetch" /\ pc'[g] \in {"syncSchedules", "setPlacement"}
          /\ UNCHANGED <<scope, asked>>
      BY <2>2 DEF FetchRules, FetchRulesFails, AfterFetch, Goto, refresh
    <3>2. Sighted(g)' = Sighted(g)
      BY <3>1 DEF Sighted, Pulling, Covered
    <3> QED BY <1>1, <1>2, <2>1, <3>2, OthersSighted, Forgets
  <2>3. CASE ~(FetchRules(g) \/ FetchRulesFails(g))
    <3>1. /\ pc[g] \in {"syncRules", "syncVersions", "syncLastSync", "setRules", "prune"}
          /\ pc'[g] \in {"syncVersions", "syncLastSync", "prune", "idle", "recheck", "retry"}
      BY <1>3, <2>3 DEF SyncRules, SyncVersions, SyncLastSync, SetRules, PruneOrphanedRules,
         Return, Goto
    <3>2. Sighted(g)' = Sighted(g)
      BY <3>1 DEF Sighted, Pulling
    <3> QED BY <1>1, <1>2, <2>1, <3>2, OthersSighted, Forgets
  <2> QED BY <2>2, <2>3
<1>4. CASE Tick(g) \/ Subscriber(g) \/ Call(g)
  <2>1. pc[g] \in {"idle", "jitter"} /\ pc'[g] \in {"idle", "jitter", "list", "check"}
    BY <1>4 DEF Tick, Subscriber, ReceivePing, SkipPing, HandlePing, Call, StartRequest,
       Flush, FlushAll, FlushPlacements, AfterFlush, CallEvaluate, May, Goto
  <2>2. \A p \in Placement : sched'[p] \in {sched[p], None}
    BY <1>4 DEF Tick, Subscriber, ReceivePing, SkipPing, HandlePing, Call, StartRequest,
       Flush, FlushAll, FlushPlacements, mirror
  <2>3. Sighted(g)' = Sighted(g)
    BY <2>1 DEF Sighted, Pulling
  <2> QED BY <1>1, <1>2, <2>2, <2>3, OthersSighted, Forgets
<1>5. CASE Request(g)
  <2>1. pc[g] \in {"check", "recheck", "retry", "attach", "fetchMissed", "backfill", "serve"}
    BY <1>5 DEF Request, FindSchedules, SelfHeal, Healed, FailRequest, LookedUp,
       RetryMissed, AttachRules, FetchMissedRules, FetchMissedFails, Backfill, Serve
  <2>2. sched' = sched
    BY <1>5 DEF Request, FindSchedules, SelfHeal, Healed, FailRequest, LookedUp,
       RetryMissed, AttachRules, FetchMissedRules, FetchMissedFails, Backfill, Serve, mirror
  <2>3. \E l \in {"check", "list", "idle", "attach", "serve", "fetchMissed", "backfill"} :
          pc' = [pc EXCEPT ![g] = l]
    BY <1>5, Zenon DEF Request, FindSchedules, SelfHeal, Healed, FailRequest, LookedUp,
       RetryMissed, AttachRules, FetchMissedRules, FetchMissedFails, Backfill, Serve,
       Lookup, EndRequest, CallEvaluate, Goto
  <2>4. Sighted(g)' = Sighted(g)
    BY <2>1, <2>3 DEF Sighted, Pulling
  <2> QED BY <1>1, <1>2, <2>2, <2>4, OthersSighted, Forgets
<1> QED BY <1>3, <1>4, <1>5

LEMMA CopiesStep ==
  ASSUME TypeInv, TypeInv', ReplicaInv, [Next]_vars
  PROVE  [Copies!Next]_(Copies!vars)
<1>1. CASE BackOffice \/ Monitor \/ Clock
  BY <1>1, EnvironmentCopies DEF Copies!Next
<1>2. ASSUME NEW g \in Proc, Run(g) \/ Call(g) PROVE [Copies!Next]_(Copies!vars)
  <2>1. CASE ListOccurrences(g) \/ LoadSchedules(g) \/ ListFails(g)
    BY <2>1, QueriesCopy
  <2>2. CASE ClearPlacement(g) \/ SyncSchedules(g) \/ SetPlacement(g)
    <3>1. Copies!Write(g)
      BY <2>2, WriteCopies
    <3> QED BY <3>1 DEF Copies!Next
  <2>3. CASE \/ FetchRules(g) \/ FetchRulesFails(g) \/ SyncRules(g) \/ SyncVersions(g)
             \/ SyncLastSync(g) \/ SetRules(g) \/ PruneOrphanedRules(g)
             \/ Tick(g) \/ Subscriber(g) \/ Request(g) \/ Call(g)
    <3>1. Copies!Forget
      BY <2>3, ElsewhereForgets
    <3> QED BY <3>1 DEF Copies!Next
  <2> QED BY <1>2, <2>1, <2>2, <2>3 DEF Run, Evaluate
<1>3. CASE UNCHANGED vars
  <2>1. \A g \in Proc : Sighted(g)' = Sighted(g)
    BY <1>3 DEF vars, refresh, Sighted, Pulling, Covered
  <2>2. Kept' = Kept /\ UNCHANGED <<active, hidden>>
    BY <1>3 DEF vars, catalogue, mirror, Kept, Group
  <2> QED BY <2>1, <2>2 DEF Copies!vars
<1> QED BY <1>1, <1>2, <1>3 DEF Next

\* The mirror implements Replica: with any number of goroutines refreshing at
\* once, whatever queries fail, keys expire or are refused, flushed or
\* invalidated, the schedules that requests find are accounted for by what
\* refreshes saw.  (A soft-deleted row is enough to break it.)
THEOREM MirrorImplementsReplica ==
  ASSUME "softdelete" \notin Faults
  PROVE  Spec => MirrorIsReplica
<1>1. Init => ReplicaInv
  BY DEF Init, ReplicaInv, ScopeInv, InScope, HealInv, SightInv, Loaded
<1>2. Init => Copies!Init
  <2> SUFFICES ASSUME Init PROVE Copies!Init
    OBVIOUS
  <2>1. Kept = {}
    BY MirrorAssumption DEF Init, Kept, Group, NoBatch
  <2>2. \A g \in Proc : Sighted(g) = None
    BY DEF Init, Sighted, Pulling
  <2>3. active \in SUBSET Schedule /\ hidden = {}
    BY DEF Init
  <2> QED BY <2>1, <2>2, <2>3 DEF Copies!Init
<1>3. TypeInv /\ ReplicaInv /\ [Next]_vars => ReplicaInv'
  BY ReplicaStep
<1>4. TypeInv /\ TypeInv' /\ ReplicaInv /\ [Next]_vars => [Copies!Next]_(Copies!vars)
  BY CopiesStep
<1> QED BY <1>1, <1>2, <1>3, <1>4, TypeInvariant, PTL DEF Spec, MirrorIsReplica, Copies!Spec

-----------------------------------------------------------------------------
(* Retries and skips, while the back office changes nothing *)

\* Nothing but evaluate and the subscriber's invalidation takes keys away.
Undisturbed ==
  /\ "expiry" \notin Faults /\ "pressure" \notin Faults
  /\ \A g \in Proc : "flush" \notin Duties[g]

\* A batch is what the database shows of each placement it holds anything of.
Exact(x) ==
  /\ \A p \in Placement : Group(x, p) # {} => Group(x, p) = Visible(p)
  /\ \A s \in heap[x].ids : heap[x].upd[s] = upd[s]

\* What the database shows of p is mirrored, or about to be.
Warm(p) == Visible(p) # {} => sched[p] # None \/ Refilling(p)

\* No key of p is empty, and its version is the one the database shows.
Recorded(p) ==
  /\ sched[p] # None => Group(sched[p], p) # {}
  /\ vers[p] # None => vers[p] = VisibleHash(p) /\ Visible(p) # {} /\ Warm(p)

\* Before a retry all placements are written; messages are held for the jitter.
DutyInv(g) ==
  /\ pc[g] # "jitter" => msg[g] = None
  /\ cont[g] = "retry" => scope[g] = All
  /\ pc[g] \in {"load", "fetch", "setPlacement"} => asked[g] \subseteq Covered(g)

Replaced == {"syncRules", "syncVersions", "syncLastSync", "retry"}

WarmInv ==
  /\ \A x \in Gen : Exact(x)
  /\ \A p \in Placement : Recorded(p)
  /\ \A g \in Proc : pc[g] \in Replaced => \A p \in Placement : Warm(p)

SteadyInv ==
  /\ ~pressure
  /\ \A g \in Proc : SightInv(g) /\ DutyInv(g)
  /\ edits = 0 /\ fails = 0 => WarmInv

LEMMA SightStep ==
  ASSUME TypeInv, [Next]_vars, NEW g \in Proc, SightInv(g)
  PROVE  SightInv(g)'
<1>1. CASE Same(g)
  BY <1>1, SameSight
<1>2. CASE Run(g) \/ Call(g)
  BY <1>2, OwnSight
<1> QED BY <1>1, <1>2, EnvironmentSame, OthersSame DEF Next

\* Messages are received and handled by their own goroutine.
LEMMA MessageKept ==
  ASSUME TypeInv, [Next]_vars, NEW g \in Proc, ~(Run(g) \/ Call(g))
  PROVE  msg'[g] = msg[g]
<1> USE DEF TypeInv, TypeOK
<1>1. CASE BackOffice \/ Monitor \/ Clock \/ UNCHANGED vars
  BY <1>1 DEF BackOffice, OpenOrCloseWindow, EditSchedule, SoftDelete, EditRule,
     SoftDeleteRule, Publish, Monitor, Clock, Age, Expire, ExpireRule, vars
<1>2. ASSUME NEW h \in Proc \ {g}, Evaluate(h) \/ Tick(h) \/ Subscriber(h) PROVE msg'[g] = msg[g]
  BY <1>2 DEF Evaluate, ListOccurrences, LoadSchedules, ListFails, ClearPlacement, FetchRules,
     FetchRulesFails, SyncSchedules, SyncRules, SyncVersions, SyncLastSync, SetPlacement,
     SetRules, PruneOrphanedRules, Tick, Subscriber, ReceivePing, SkipPing, HandlePing
<1>3. ASSUME NEW h \in Proc \ {g}, Request(h) \/ Call(h) PROVE msg'[g] = msg[g]
  BY <1>3 DEF Request, FindSchedules, SelfHeal, Healed, FailRequest, LookedUp, RetryMissed,
     AttachRules, FetchMissedRules, FetchMissedFails, Backfill, Serve, Call, StartRequest,
     Flush, FlushAll, FlushPlacements
<1> QED BY <1>1, <1>2, <1>3 DEF Next, Run

LEMMA OwnDuty ==
  ASSUME TypeInv, NEW g \in Proc, DutyInv(g), Run(g) \/ Call(g)
  PROVE  DutyInv(g)'
<1> USE DEF TypeInv, TypeOK
<1>1. CASE ListOccurrences(g)
  <2>1. /\ pc[g] = "list" /\ pc'[g] \in {"load", "clear", "syncSchedules"}
        /\ asked'[g] \subseteq Covered(g) /\ UNCHANGED <<msg, scope, cont>>
    BY <1>1 DEF ListOccurrences, Goto, Covered
  <2> QED BY <2>1 DEF DutyInv, Covered
<1>2. CASE LoadSchedules(g)
  <2>1. /\ pc[g] = "load" /\ pc'[g] \in {"fetch", "syncSchedules"}
        /\ asked'[g] \subseteq asked[g] /\ UNCHANGED <<msg, scope, cont>>
    BY <1>2 DEF LoadSchedules, Goto
  <2> QED BY <2>1 DEF DutyInv, Covered
<1>3. CASE FetchRules(g) \/ FetchRulesFails(g)
  <2>1. /\ pc[g] = "fetch" /\ pc'[g] \in {"syncSchedules", "setPlacement"}
        /\ UNCHANGED <<msg, scope, cont, asked>>
    BY <1>3 DEF FetchRules, FetchRulesFails, AfterFetch, Goto, refresh
  <2> QED BY <2>1 DEF DutyInv, Covered
<1>4. CASE \/ SyncSchedules(g) \/ SyncRules(g) \/ SyncVersions(g) \/ SetPlacement(g)
           \/ SetRules(g)
  <2>1. /\ pc[g] # "jitter"
        /\ pc'[g] \in {"syncRules", "syncVersions", "syncLastSync", "setRules", "prune"}
        /\ UNCHANGED <<msg, scope, cont>>
    BY <1>4 DEF SyncSchedules, SyncRules, SyncVersions, SetPlacement, SetRules, Goto, refresh
  <2> QED BY <2>1 DEF DutyInv
<1>5. CASE ListFails(g) \/ ClearPlacement(g) \/ SyncLastSync(g) \/ PruneOrphanedRules(g)
  <2>1. /\ pc[g] # "jitter" /\ pc'[g] \in {"idle", "recheck", "retry"}
        /\ cont'[g] = "idle" /\ msg' = msg
    BY <1>5 DEF ListFails, ClearPlacement, SyncLastSync, PruneOrphanedRules, Return, Goto
  <2> QED BY <2>1 DEF DutyInv
<1>6. CASE Tick(g) \/ Call(g)
  <2>1. pc[g] = "idle" /\ pc'[g] \in {"idle", "list", "check"} /\ msg' = msg
    BY <1>6 DEF Tick, Call, StartRequest, Flush, FlushAll, FlushPlacements, AfterFlush,
       CallEvaluate, May, Goto
  <2>2. cont'[g] \in {cont[g], "idle"}
    BY <1>6 DEF Tick, Call, StartRequest, Flush, FlushAll, FlushPlacements, AfterFlush,
       CallEvaluate, refresh
  <2>3. cont[g] = "idle"
    BY <2>1 DEF Continuation, EvaluatePC
  <2> QED BY <2>1, <2>2, <2>3 DEF DutyInv
<1>7. CASE ReceivePing(g) \/ SkipPing(g)
  <2>1. /\ pc[g] \in {"idle", "jitter"} /\ pc'[g] \in {"idle", "jitter"} /\ cont' = cont
        /\ pc'[g] = "idle" => msg'[g] = None \/ (pc[g] = "idle" /\ msg'[g] = msg[g])
    BY <1>7 DEF ReceivePing, SkipPing, May, Goto, refresh
  <2>2. cont[g] = "idle"
    BY <2>1 DEF Continuation, EvaluatePC
  <2> QED BY <2>1, <2>2 DEF DutyInv
<1>8. CASE HandlePing(g)
  BY <1>8 DEF HandlePing, CallEvaluate, Goto, DutyInv
<1>9. CASE Request(g)
  <2>1. /\ pc[g] \in {"check", "recheck", "retry", "attach", "fetchMissed", "backfill", "serve"}
        /\ msg' = msg
    BY <1>9 DEF Request, FindSchedules, SelfHeal, Healed, FailRequest, LookedUp,
       RetryMissed, AttachRules, FetchMissedRules, FetchMissedFails, Backfill, Serve
  <2>2. scope'[g] = All \/ UNCHANGED <<scope, cont>>
    BY <1>9 DEF Request, FindSchedules, SelfHeal, Healed, FailRequest, LookedUp,
       RetryMissed, AttachRules, FetchMissedRules, FetchMissedFails, Backfill, Serve,
       CallEvaluate, refresh
  <2>3. \E l \in {"check", "list", "idle", "attach", "serve", "fetchMissed", "backfill"} :
          pc' = [pc EXCEPT ![g] = l]
    BY <1>9, Zenon DEF Request, FindSchedules, SelfHeal, Healed, FailRequest, LookedUp,
       RetryMissed, AttachRules, FetchMissedRules, FetchMissedFails, Backfill, Serve,
       Lookup, EndRequest, CallEvaluate, Goto
  <2> QED BY <2>1, <2>2, <2>3 DEF DutyInv
<1> QED BY <1>1, <1>2, <1>3, <1>4, <1>5, <1>6, <1>7, <1>8, <1>9
        DEF Run, Call, Evaluate, Subscriber

LEMMA DutyStep ==
  ASSUME TypeInv, [Next]_vars, NEW g \in Proc, DutyInv(g)
  PROVE  DutyInv(g)'
<1>1. CASE Run(g) \/ Call(g)
  BY <1>1, OwnDuty
<1>2. CASE ~(Run(g) \/ Call(g))
  <2>1. Same(g) /\ msg'[g] = msg[g]
    BY <1>2, MessageKept, EnvironmentSame, OthersSame DEF Next
  <2> QED BY <2>1 DEF DutyInv, Same, Covered
<1> QED BY <1>1, <1>2

\* Batches are loaded as the database shows them, and are not changed after that.
LEMMA ExactStep ==
  ASSUME TypeInv, ContentInv, [Next]_vars, edits' = 0, NEW x \in Gen, Exact(x)
  PROVE  Exact(x)'
<1> USE DEF TypeInv, TypeOK
<1>1. /\ UNCHANGED <<active, hidden, upd>> /\ hidden = {}
      /\ \A g \in Proc : KnowsContent(g)
  BY QuietDatabase DEF ContentInv
<1>2. \A p \in Placement : Visible(p)' = Visible(p)
  BY <1>1 DEF Visible
<1>3. x # None
  BY MirrorAssumption
<1>4. ASSUME heap'[x].ids = heap[x].ids, heap'[x].upd = heap[x].upd PROVE Exact(x)'
  BY <1>1, <1>2, <1>4 DEF Exact, Group
<1>5. CASE heap'[x] = heap[x]
  BY <1>4, <1>5
<1>6. CASE heap'[x] = Freed
  <2>1. heap'[x].ids = {}
    BY <1>6 DEF Freed
  <2> QED BY <1>3, <2>1 DEF Exact, Group
<1>7. ASSUME NEW g \in Proc, NEW ids, NEW version, heap' = Attached(g, ids, version)
      PROVE  Exact(x)'
  BY <1>4, <1>7, AttachedKeeps
<1>8. ASSUME NEW g \in Proc, LoadSchedules(g) PROVE Exact(x)'
  <2>1. /\ asked[g] = {s \in active : scope[g] \in {All, PlacementOf[s]}}
        /\ asked[g] # {} /\ asked[g] \ hidden = asked[g]
    BY <1>1, <1>8 DEF LoadSchedules, KnowsContent
  <2>2. PICK y \in Gen :
          heap' = [heap EXCEPT ![y] =
            [ids |-> asked[g] \ hidden,
             upd |-> [s \in Schedule |-> IF s \in asked[g] \ hidden THEN upd[s] ELSE 0],
             rule |-> [s \in Schedule |-> None]]]
    <3>1. asked[g] \ hidden # {}
      BY <2>1
    <3> QED BY <1>8, <3>1, LoadedBatch
  <2>3. CASE x # y
    <3>1. heap'[x] = heap[x]
      BY <2>2, <2>3
    <3> QED BY <1>5, <3>1
  <2>4. CASE x = y
    <3>1. /\ heap'[x].ids = asked[g]
          /\ \A s \in asked[g] : heap'[x].upd[s] = upd[s]
      <4>1. heap'[x] =
              [ids |-> asked[g] \ hidden,
               upd |-> [s \in Schedule |-> IF s \in asked[g] \ hidden THEN upd[s] ELSE 0],
               rule |-> [s \in Schedule |-> None]]
        BY <2>2, <2>4
      <4>2. asked[g] \subseteq Schedule
        OBVIOUS
      <4> QED BY ONLY <2>1, <4>1, <4>2
    <3>2. ASSUME NEW p \in Placement, Group(x, p)' # {} PROVE Group(x, p)' = Visible(p)
      <4>1. Group(x, p)' = {s \in asked[g] : PlacementOf[s] = p}
        BY <1>3, <3>1 DEF Group
      <4>2. scope[g] \in {All, p}
        BY <2>1, <3>2, <4>1
      <4>3. \A s \in active : PlacementOf[s] = p => s \in asked[g]
        BY <2>1, <4>2
      <4> QED BY <1>1, <2>1, <4>1, <4>3 DEF Visible
    <3> QED BY <1>1, <1>2, <3>1, <3>2 DEF Exact
  <2> QED BY <2>3, <2>4
<1>9. Collect => heap'[x] \in {heap[x], Freed}
  BY DEF Collect, Collected
<1> QED BY <1>5, <1>6, <1>7, <1>8, <1>9, HeapStep

\* With keys neither expiring nor flushed, and with memory enough: the key of a
\* placement is dropped, or set to a batch that holds some of its schedules.
Set(g, p) == /\ SyncSchedules(g) \/ SetPlacement(g)
             /\ Group(snap[g], p) # {} /\ sched'[p] = snap[g]

Versioned(g, p) == /\ SyncVersions(g) \/ (SetPlacement(g) /\ sched'[p] = snap[g])
                   /\ Group(snap[g], p) # {} /\ vers'[p] = HashOf(snap[g], p)

LEMMA QuietKeys ==
  ASSUME "expiry" \notin Faults, BackOffice \/ Monitor \/ Clock \/ UNCHANGED vars
  PROVE  sched' = sched /\ vers' = vers
BY DEF BackOffice, OpenOrCloseWindow, EditSchedule, SoftDelete, EditRule, SoftDeleteRule,
   Publish, Monitor, Clock, Age, Expire, ExpireRule, vars, mirror

LEMMA KeyWrites ==
  ASSUME Undisturbed, ~pressure, TypeInv, [Next]_vars, NEW p \in Placement
  PROVE  /\ sched'[p] \in {sched[p], None} \/ \E g \in Proc : Set(g, p)
         /\ vers'[p] \in {vers[p], None} \/ \E g \in Proc : Versioned(g, p)
<1> USE DEF TypeInv, TypeOK
<1>1. CASE BackOffice \/ Monitor \/ Clock \/ UNCHANGED vars
  BY <1>1, QuietKeys DEF Undisturbed
<1> SUFFICES ASSUME NEW g \in Proc, Run(g) \/ Call(g)
             PROVE  /\ sched'[p] \in {sched[p], None} \/ Set(g, p)
                    /\ vers'[p] \in {vers[p], None} \/ Versioned(g, p)
  BY <1>1 DEF Next
<1>2. CASE SyncSchedules(g)
  <2>1. sched'[p] = IF Group(snap[g], p) # {} THEN snap[g] ELSE None
    BY <1>2 DEF SyncSchedules, Replace, CanSet
  <2>2. vers' = vers
    BY <1>2 DEF SyncSchedules
  <2> QED BY <1>2, <2>1, <2>2 DEF Set
<1>3. CASE SyncVersions(g)
  <2>1. vers'[p] = IF Group(snap[g], p) # {} THEN HashOf(snap[g], p) ELSE None
    BY <1>3 DEF SyncVersions, Replace, CanSet
  <2>2. sched' = sched
    BY <1>3 DEF SyncVersions
  <2> QED BY <1>3, <2>1, <2>2 DEF Versioned
<1>4. CASE SetPlacement(g)
  <2>1. /\ sched'[p] = IF Group(snap[g], p) # {} THEN snap[g] ELSE sched[p]
        /\ vers'[p] = IF Group(snap[g], p) # {} THEN HashOf(snap[g], p) ELSE vers[p]
    BY <1>4 DEF SetPlacement, Overwrite, CanSet
  <2> QED BY <1>4, <2>1 DEF Set, Versioned
<1>5. CASE ClearPlacement(g)
  BY <1>5 DEF ClearPlacement
<1>6. CASE /\ Evaluate(g)
           /\ ~SyncSchedules(g) /\ ~SyncVersions(g) /\ ~SetPlacement(g) /\ ~ClearPlacement(g)
  BY <1>6 DEF Evaluate, ListOccurrences, LoadSchedules, ListFails, FetchRules,
     FetchRulesFails, SyncRules, SyncLastSync, SetRules, PruneOrphanedRules, mirror
<1>7. CASE Tick(g) \/ Subscriber(g)
  BY <1>7 DEF Tick, Subscriber, ReceivePing, SkipPing, HandlePing, mirror
<1>8. CASE Request(g) \/ Call(g)
  <2>1. ~Flush(g)
    BY DEF Flush, FlushAll, FlushPlacements, May, Undisturbed
  <2> QED BY <1>8, <2>1 DEF Request, FindSchedules, SelfHeal, Healed, FailRequest,
         LookedUp, RetryMissed, AttachRules, FetchMissedRules, FetchMissedFails, Backfill,
         Serve, Call, StartRequest, mirror
<1> QED BY <1>2, <1>3, <1>4, <1>5, <1>6, <1>7, <1>8 DEF Run

\* A targeted refresh on its way ends in a write of its placement, unless the
\* database shows nothing of it.
LEMMA RefillStep ==
  ASSUME Undisturbed, SteadyInv, TypeInv, ContentInv, [Next]_vars, edits = 0, fails' = 0,
         NEW p \in Placement, Visible(p) # {}, Refilling(p)
  PROVE  Refilling(p)' \/ sched'[p] # None
<1> USE DEF TypeInv, TypeOK
<1>1. PICK h \in Proc : scope[h] = p /\ pc[h] \in {"list", "load", "fetch", "setPlacement"}
  BY DEF Refilling
<1>2. hidden = {} /\ KnowsContent(h) /\ SightInv(h) /\ DutyInv(h) /\ p # All
  BY MirrorAssumption DEF ContentInv, SteadyInv
<1>3. CASE Same(h)
  BY <1>1, <1>3 DEF Same, Refilling
<1>4. CASE Run(h) \/ Call(h)
  <2>1. Evaluate(h)
    BY <1>1, <1>4, Zenon DEF Run, Call, Tick, Subscriber, ReceivePing, SkipPing,
       HandlePing, Request, FindSchedules, SelfHeal, Healed, FailRequest, LookedUp,
       RetryMissed, AttachRules, FetchMissedRules, FetchMissedFails, Backfill, Serve,
       StartRequest, Flush, FlushAll, FlushPlacements, May
  <2>2. CASE ListOccurrences(h)
    <3>1. {s \in active : scope[h] \in {All, PlacementOf[s]}} # {}
      BY <1>1 DEF Visible
    <3>2. scope'[h] = p /\ pc'[h] = "load"
      BY <1>1, <2>2, <3>1 DEF ListOccurrences, Goto
    <3> QED BY <3>2 DEF Refilling
  <2>3. CASE LoadSchedules(h)
    <3>1. asked[h] \ hidden # {}
      BY <1>2, <2>3 DEF LoadSchedules, KnowsContent
    <3>2. scope'[h] = p /\ pc'[h] = "fetch"
      BY <1>1, <2>3, <3>1 DEF LoadSchedules, Goto
    <3> QED BY <3>2 DEF Refilling
  <2>4. CASE FetchRules(h) \/ FetchRulesFails(h)
    <3>1. scope'[h] = p /\ pc'[h] = "setPlacement"
      BY <1>1, <1>2, <2>4 DEF FetchRules, FetchRulesFails, AfterFetch, Goto, refresh
    <3> QED BY <3>1 DEF Refilling
  <2>5. CASE SetPlacement(h)
    <3>1. PICK s \in Ids(snap[h]) : s \in Covered(h)
      BY <2>5, <1>2 DEF SetPlacement, SightInv, DutyInv
    <3>2. s \in Group(snap[h], p)
      BY <1>1, <1>2, <3>1 DEF Covered, Ids, Group
    <3>3. sched'[p] = snap[h] /\ snap[h] # None
      BY <2>5, <3>2 DEF SetPlacement, Overwrite, CanSet, SteadyInv, Group
    <3> QED BY <3>3
  <2>6. ~ListFails(h)
    BY DEF ListFails
  <2> QED BY <1>1, <2>1, <2>2, <2>3, <2>4, <2>5, <2>6 DEF Evaluate, ClearPlacement,
         SyncSchedules, SyncRules, SyncVersions, SyncLastSync, SetRules, PruneOrphanedRules
<1> QED BY <1>3, <1>4, EnvironmentSame, OthersSame DEF Next

\* What is mirrored and shown is dropped only for a refresh that brings it back.
LEMMA MirroredStep ==
  ASSUME Undisturbed, TypeInv, ContentInv, [Next]_vars, edits = 0,
         NEW p \in Placement, Visible(p) # {}, sched[p] # None
  PROVE  Refilling(p)' \/ sched'[p] # None
<1> USE DEF TypeInv, TypeOK
<1>1. CASE BackOffice \/ Monitor \/ Clock \/ UNCHANGED vars
  BY <1>1, QuietKeys DEF Undisturbed
<1>2. ASSUME NEW g \in Proc, Run(g) \/ Call(g), pc[g] \notin {"idle", "jitter"}
      PROVE  sched'[p] # None
  BY <1>2, WritesKeepContent
<1>3. ASSUME NEW g \in Proc, Run(g) \/ Call(g), pc[g] \in {"idle", "jitter"}
      PROVE  Refilling(p)' \/ sched'[p] # None
  <2>1. ~Flush(g)
    BY DEF Flush, FlushAll, FlushPlacements, May, Undisturbed
  <2>2. Tick(g) \/ Subscriber(g) \/ StartRequest(g)
    BY <1>3, <2>1, Zenon DEF Run, Call, Evaluate, ListOccurrences, LoadSchedules,
       ListFails, ClearPlacement, FetchRules, FetchRulesFails, SyncSchedules, SyncRules,
       SyncVersions, SyncLastSync, SetPlacement, SetRules, PruneOrphanedRules, Request,
       FindSchedules, SelfHeal, Healed, FailRequest, LookedUp, RetryMissed, AttachRules,
       FetchMissedRules, FetchMissedFails, Backfill, Serve
  <2>3. CASE HandlePing(g)
    <3>1. CASE p = msg[g].place
      <4>1. p # None
        BY MirrorAssumption
      <4>2. scope'[g] = p /\ pc'[g] = "list"
        BY <2>3, <3>1, <4>1 DEF HandlePing, CallEvaluate, Goto, PingScope
      <4> QED BY <4>2 DEF Refilling
    <3>2. CASE p # msg[g].place
      BY <2>3, <3>2 DEF HandlePing
    <3> QED BY <3>1, <3>2
  <2>4. CASE Tick(g) \/ ReceivePing(g) \/ SkipPing(g) \/ StartRequest(g)
    BY <2>4 DEF Tick, ReceivePing, SkipPing, StartRequest, mirror
  <2> QED BY <2>2, <2>3, <2>4 DEF Subscriber
<1> QED BY <1>1, <1>2, <1>3 DEF Next

LEMMA WarmStep ==
  ASSUME Undisturbed, SteadyInv, TypeInv, ContentInv, [Next]_vars, edits' = 0, fails' = 0,
         NEW p \in Placement, Warm(p)
  PROVE  Warm(p)'
<1>1. Visible(p)' = Visible(p) /\ edits = 0
  BY QuietDatabase DEF Visible
<1> QED BY <1>1, RefillStep, MirroredStep DEF Warm

LEMMA RecordedStep ==
  ASSUME Undisturbed, SteadyInv, WarmInv, TypeInv, ContentInv, [Next]_vars,
         edits' = 0, fails' = 0, NEW p \in Placement
  PROVE  Recorded(p)'
<1> USE DEF TypeInv, TypeOK
<1>1. /\ edits = 0 /\ Visible(p)' = Visible(p) /\ VisibleHash(p)' = VisibleHash(p)
      /\ Recorded(p) /\ ~pressure
  BY QuietDatabase DEF Visible, VisibleHash, WarmInv, SteadyInv
<1>2. ASSUME NEW g \in Proc, snap[g] # None, Group(snap[g], p) # {}
      PROVE  Group(snap[g], p) = Visible(p) /\ HashOf(snap[g], p) = VisibleHash(p)
  <2>1. snap[g] \in Gen /\ Exact(snap[g])
    BY <1>2 DEF WarmInv
  <2>2. Group(snap[g], p) = Visible(p)
    BY <1>2, <2>1 DEF Exact
  <2>3. \A s \in Visible(p) : heap[snap[g]].upd[s] = upd[s]
    BY <1>2, <2>1, <2>2 DEF Exact, Group
  <2> QED BY <2>2, <2>3 DEF HashOf, VisibleHash
<1>3. \A g \in Proc : Group(snap[g], p) # {} => snap[g] # None
  BY DEF Group
<1>4. ASSUME sched'[p] # None PROVE Group(sched[p], p)' # {}
  <2>1. CASE sched'[p] = sched[p]
    <3>1. sched[p] \in Gen /\ sched[p] \in Live /\ sched[p] \in Live'
      BY <1>4, <2>1 DEF Live
    <3>2. heap'[sched[p]].ids = heap[sched[p]].ids
      BY <3>1, HeldBatchKept
    <3> QED BY <1>1, <1>4, <2>1, <3>2 DEF Recorded, Group
  <2>2. ASSUME NEW g \in Proc, Set(g, p) PROVE Group(sched[p], p)' # {}
    <3>1. snap'[g] = snap[g]
      BY <2>2 DEF Set, SyncSchedules, SetPlacement, refresh
    <3>2. Group(snap[g], p)' # {}
      BY <2>2, <3>1, GroupKept DEF Set
    <3> QED BY <2>2, <3>1, <3>2 DEF Set, Group
  <2> QED BY <1>1, <1>4, <2>1, <2>2, KeyWrites
<1>5. ASSUME vers'[p] # None
      PROVE  vers'[p] = VisibleHash(p) /\ Visible(p) # {} /\ Warm(p)'
  <2>1. CASE vers'[p] = vers[p]
    BY <1>1, <1>5, <2>1, WarmStep DEF Recorded
  <2>2. ASSUME NEW g \in Proc, Versioned(g, p)
        PROVE  vers'[p] = VisibleHash(p) /\ Visible(p) # {} /\ Warm(p)'
    <3>1. vers'[p] = VisibleHash(p) /\ Visible(p) # {} /\ snap[g] # None
      BY <1>2, <1>3, <2>2 DEF Versioned
    <3>2. CASE SyncVersions(g)
      <4>1. Warm(p)
        BY <3>2 DEF SyncVersions, WarmInv, Replaced
      <4> QED BY <3>1, <4>1, WarmStep
    <3>3. CASE sched'[p] = snap[g]
      BY <3>1, <3>3 DEF Warm
    <3> QED BY <2>2, <3>1, <3>2, <3>3 DEF Versioned
  <2> QED BY <1>1, <1>5, <2>1, <2>2, KeyWrites
<1> QED BY <1>1, <1>4, <1>5 DEF Recorded

\* A full refresh is through with the schedules: all that is shown is mirrored.
LEMMA ReplacedStep ==
  ASSUME Undisturbed, SteadyInv, WarmInv, TypeInv, ContentInv, HealInv, [Next]_vars,
         edits' = 0, fails' = 0, NEW g \in Proc, pc'[g] \in Replaced, NEW p \in Placement
  PROVE  Warm(p)'
<1> USE DEF TypeInv, TypeOK
<1>1. edits = 0 /\ Visible(p)' = Visible(p) /\ ~pressure /\ KnowsContent(g) /\ DutyInv(g)
  BY QuietDatabase DEF Visible, ContentInv, SteadyInv
<1>2. CASE pc[g] \in Replaced
  BY <1>2, WarmStep DEF WarmInv
<1>3. CASE SyncSchedules(g)
  <2>1. Visible(p) # {} => Group(snap[g], p) # {}
    BY <1>1, <1>3 DEF SyncSchedules, KnowsContent, Complete
  <2>2. Group(snap[g], p) # {} => sched'[p] = snap[g] /\ snap[g] # None
    BY <1>1, <1>3 DEF SyncSchedules, Replace, CanSet, Group
  <2> QED BY <1>1, <2>1, <2>2 DEF Warm
<1>4. CASE pc[g] \notin Replaced /\ ~SyncSchedules(g)
  <2>1. Run(g) \/ Call(g)
    BY <1>4, EnvironmentSame, OthersSame DEF Next, Same
  <2>2. CASE ListFails(g) \/ ClearPlacement(g) \/ PruneOrphanedRules(g)
    <3>1. ~ListFails(g)
      BY DEF ListFails
    <3>2. scope[g] # All /\ pc'[g] = cont[g] /\ cont[g] \in {"idle", "recheck", "retry"}
      BY <2>2, <3>1 DEF ClearPlacement, PruneOrphanedRules, Return, Goto, HealInv
    <3> QED BY <1>1, <3>2 DEF DutyInv, Replaced
  <2>3. CASE \/ ListOccurrences(g) \/ LoadSchedules(g) \/ FetchRules(g)
             \/ FetchRulesFails(g) \/ SetPlacement(g) \/ SetRules(g)
    BY <2>3 DEF ListOccurrences, LoadSchedules, FetchRules, FetchRulesFails, SetPlacement,
       SetRules, AfterFetch, Goto, Replaced
  <2>4. CASE Tick(g) \/ Subscriber(g) \/ Call(g)
    BY <1>4, <2>4 DEF Tick, Subscriber, ReceivePing, SkipPing, HandlePing, Call,
       StartRequest, Flush, FlushAll, FlushPlacements, AfterFlush, CallEvaluate, May, Goto,
       Replaced
  <2>5. CASE Request(g)
    <3>1. \E l \in {"check", "list", "idle", "attach", "serve", "fetchMissed", "backfill"} :
            pc' = [pc EXCEPT ![g] = l]
      BY <2>5, Zenon DEF Request, FindSchedules, SelfHeal, Healed, FailRequest, LookedUp,
         RetryMissed, AttachRules, FetchMissedRules, FetchMissedFails, Backfill, Serve,
         Lookup, EndRequest, CallEvaluate, Goto
    <3> QED BY <3>1 DEF Replaced
  <2>6. ~(SyncRules(g) \/ SyncVersions(g) \/ SyncLastSync(g))
    BY <1>4 DEF SyncRules, SyncVersions, SyncLastSync, Replaced
  <2> QED BY <1>4, <2>1, <2>2, <2>3, <2>4, <2>5, <2>6 DEF Run, Evaluate
<1> QED BY <1>2, <1>3, <1>4

LEMMA SteadyStep ==
  ASSUME Undisturbed, TypeInv, ContentInv, HealInv, SteadyInv, [Next]_vars
  PROVE  SteadyInv'
<1>1. ~pressure'
  BY FaultStep DEF Undisturbed, SteadyInv
<1>2. \A g \in Proc : SightInv(g)' /\ DutyInv(g)'
  BY SightStep, DutyStep DEF SteadyInv
<1>3. ASSUME edits' = 0, fails' = 0 PROVE WarmInv'
  <2>1. WarmInv
    BY <1>3, QuietDatabase, StaleStep DEF SteadyInv
  <2>2. \A x \in Gen : Exact(x)'
    BY <1>3, <2>1, ExactStep DEF WarmInv
  <2>3. \A p \in Placement : Recorded(p)'
    BY <1>3, <2>1, RecordedStep
  <2>4. \A g \in Proc : pc'[g] \in Replaced => \A p \in Placement : Warm(p)'
    BY <1>3, <2>1, ReplacedStep
  <2> QED BY <2>2, <2>3, <2>4 DEF WarmInv
<1> QED BY <1>1, <1>2, <1>3 DEF SteadyInv

LEMMA SteadyInvariant ==
  ASSUME Undisturbed
  PROVE  Spec => []SteadyInv
<1>1. Init => SteadyInv
  <2> SUFFICES ASSUME Init PROVE SteadyInv
    OBVIOUS
  <2>1. \A g \in Proc : SightInv(g) /\ DutyInv(g)
    BY DEF Init, SightInv, DutyInv, Loaded
  <2>2. \A x \in Gen : Exact(x)
    BY MirrorAssumption DEF Init, Exact, Group, Freed
  <2>3. \A p \in Placement : Recorded(p)
    BY DEF Init, Recorded, NoBatch
  <2> QED BY <2>1, <2>2, <2>3 DEF Init, SteadyInv, WarmInv, Replaced
<1>2. TypeInv /\ ContentInv /\ HealInv /\ SteadyInv /\ [Next]_vars => SteadyInv'
  BY SteadyStep
<1> QED BY <1>1, <1>2, TypeInvariant, ContentInvariant, HealInvariant, PTL DEF Spec

\* With any number of tickers, subscribers and requests refreshing at once: a
\* request of an unchanged database whose queries answer finds, after its refresh,
\* each placement it had missed if the database shows it (unless the subscriber,
\* having invalidated it, is refilling it), and only then.
THEOREM RetryFindsWhatIsShown ==
  ASSUME "expiry" \notin Faults, "pressure" \notin Faults,
         \A g \in Proc : "flush" \notin Duties[g]
  PROVE  Spec => MissIsRetried
<1> DEFINE Retried ==
      \A g \in Proc : pc[g] = "retry" /\ pc'[g] = "attach" /\ edits = 0 /\ fails = 0 =>
        \A p \in missed[g] :
          /\ held'[g][p] # None => Visible(p) # {}
          /\ Visible(p) # {} => held'[g][p] # None \/ Refilling(p)
<1>1. TypeInv /\ SteadyInv /\ [Next]_vars => [Retried]_vars
  <2> SUFFICES ASSUME TypeInv, SteadyInv, [Next]_vars, NEW g \in Proc, pc[g] = "retry",
                      pc'[g] = "attach", edits = 0, fails = 0, NEW p \in missed[g]
               PROVE  /\ held'[g][p] # None => Visible(p) # {}
                      /\ Visible(p) # {} => held'[g][p] # None \/ Refilling(p)
    OBVIOUS
  <2> USE DEF TypeInv, TypeOK
  <2>1. p \in Placement /\ Warm(p) /\ Recorded(p)
    BY DEF SteadyInv, WarmInv, Replaced
  <2>2. Run(g) \/ Call(g)
    BY EnvironmentSame, OthersSame DEF Next, Same
  <2>3. RetryMissed(g)
    BY <2>2, Zenon DEF Run, Call, Evaluate, Tick, Subscriber, Request, ListOccurrences,
       LoadSchedules, ListFails, ClearPlacement, FetchRules, FetchRulesFails,
       SyncSchedules, SyncRules, SyncVersions, SyncLastSync, SetPlacement, SetRules,
       PruneOrphanedRules, ReceivePing, SkipPing, HandlePing, FindSchedules, SelfHeal,
       Healed, FailRequest, LookedUp, AttachRules, FetchMissedRules, FetchMissedFails,
       Backfill, Serve, StartRequest, Flush, FlushAll, FlushPlacements, May
  <2>4. held'[g][p] = sched[p]
    BY <2>1, <2>3 DEF RetryMissed
  <2>5. sched[p] # None => Visible(p) # {}
    <3>1. ASSUME sched[p] # None PROVE Visible(p) # {}
      <4>1. Group(sched[p], p) # {} /\ sched[p] \in Gen
        BY <2>1, <3>1 DEF Recorded
      <4>2. Exact(sched[p])
        BY <4>1 DEF SteadyInv, WarmInv
      <4> QED BY <2>1, <4>1, <4>2 DEF Exact
    <3> QED BY <3>1
  <2> QED BY <2>1, <2>4, <2>5 DEF Warm
<1>2. Spec => []SteadyInv
  BY SteadyInvariant DEF Undisturbed
<1> QED BY <1>1, <1>2, TypeInvariant, PTL DEF Spec, MissIsRetried

\* A step that ignores a ping found its version mirrored.
LEMMA IgnoredIsMirrored ==
  ASSUME TypeInv, SteadyInv, [Next]_vars, NEW g \in Proc, NEW m, PingIgnored(g, m)
  PROVE  AlreadyMirrored(m) /\ m \in Message
<1> USE DEF TypeInv, TypeOK
<1>1. CASE inbox # <<>> /\ m = Head(inbox) /\ inbox' = Tail(inbox) /\ msg' = msg
  <2>1. m \in Message /\ inbox' # inbox /\ \A n \in Message : inbox' # Append(inbox, n)
    BY <1>1
  <2>2. ~(BackOffice \/ Monitor \/ Clock \/ UNCHANGED vars)
    <3>1. ASSUME NEW p \in Placement \cup {None}, NEW r \in Rule \cup {None},
                 NEW h \in {None} \cup Hash, Publish(p, r, h)
          PROVE  FALSE
      BY <2>1, <3>1 DEF Publish, Message
    <3>2. \A p \in Placement : VisibleHash(p) \in Hash
      BY DEF VisibleHash, Visible, Hash
    <3>3. CASE BackOffice
      <4>1. \A p \in Placement \cup {None}, r \in Rule \cup {None}, h \in {None} \cup Hash :
              ~Publish(p, r, h)
        BY <3>1
      <4>2. \/ \E s \in Schedule : OpenOrCloseWindow(s) \/ EditSchedule(s) \/ SoftDelete(s)
            \/ \E r \in Rule : EditRule(r) \/ SoftDeleteRule(r)
        BY <3>2, <3>3, <4>1 DEF BackOffice
      <4> QED BY <2>1, <4>2 DEF OpenOrCloseWindow, EditSchedule, SoftDelete, EditRule,
             SoftDeleteRule, env
    <3>4. ~(Monitor \/ Clock \/ UNCHANGED vars)
      BY <2>1 DEF Monitor, Clock, Age, Expire, ExpireRule, vars, env
    <3> QED BY <3>3, <3>4
  <2>3. PICK h \in Proc : Run(h) \/ Call(h)
    BY <2>2 DEF Next
  <2>4. ~Evaluate(h)
    BY <2>1 DEF Evaluate, ListOccurrences, LoadSchedules, ListFails, ClearPlacement,
       FetchRules, FetchRulesFails, SyncSchedules, SyncRules, SyncVersions, SyncLastSync,
       SetPlacement, SetRules, PruneOrphanedRules, env
  <2>5. ~(Request(h) \/ Tick(h) \/ Call(h) \/ SkipPing(h) \/ HandlePing(h))
    BY <2>1 DEF Request, FindSchedules, SelfHeal, Healed, FailRequest, LookedUp,
       RetryMissed, AttachRules, FetchMissedRules, FetchMissedFails, Backfill, Serve,
       Tick, Call, StartRequest, Flush, FlushAll, FlushPlacements, SkipPing, HandlePing, env
  <2>6. ReceivePing(h)
    BY <2>3, <2>4, <2>5 DEF Run, Subscriber
  <2>7. pc[h] = "idle" /\ msg[h] = None
    BY <2>6 DEF ReceivePing, May, SteadyInv, DutyInv
  <2>8. AlreadyMirrored(m)
    BY <1>1, <2>1, <2>6, <2>7, NoMessage DEF ReceivePing
  <2> QED BY <2>1, <2>8
<1>2. CASE m # None /\ m = msg[g] /\ msg'[g] = None /\ pc'[g] = "idle"
  <2>1. pc[g] = "jitter" /\ m \in Message
    BY <1>2 DEF SteadyInv, DutyInv
  <2>2. Run(g) \/ Call(g)
    BY <1>2, MessageKept
  <2>3. SkipPing(g) \/ HandlePing(g)
    BY <2>1, <2>2, Zenon DEF Run, Call, Evaluate, Tick, Subscriber, Request, ListOccurrences,
       LoadSchedules, ListFails, ClearPlacement, FetchRules, FetchRulesFails,
       SyncSchedules, SyncRules, SyncVersions, SyncLastSync, SetPlacement, SetRules,
       PruneOrphanedRules, ReceivePing, FindSchedules, SelfHeal,
       Healed, FailRequest, LookedUp, RetryMissed, AttachRules, FetchMissedRules,
       FetchMissedFails, Backfill, Serve, StartRequest, Flush, FlushAll, FlushPlacements, May
  <2>4. ~HandlePing(g)
    BY <1>2 DEF HandlePing, CallEvaluate, Goto
  <2> QED BY <1>2, <2>1, <2>3, <2>4 DEF SkipPing
<1> QED BY <1>1, <1>2 DEF PingIgnored

\* With any number of tickers, subscribers and requests refreshing at once, while
\* nothing changes or fails: the subscriber ignores no ping whose schedules are
\* neither mirrored nor on their way.
THEOREM SkipsAreSound ==
  ASSUME "expiry" \notin Faults, "pressure" \notin Faults,
         \A g \in Proc : "flush" \notin Duties[g]
  PROVE  Spec => SkipsLoseNothing
<1> DEFINE Sound ==
      \A g \in Proc : \A m \in {msg[g]} \cup {inbox[i] : i \in DOMAIN inbox} :
        PingIgnored(g, m) /\ edits = 0 /\ fails = 0 =>
          \/ sched[m.place] # None /\ HashOf(sched[m.place], m.place) = m.hash
          \/ Refilling(m.place)
<1>1. TypeInv /\ SteadyInv /\ [Next]_vars => [Sound]_vars
  <2> SUFFICES ASSUME TypeInv, SteadyInv, [Next]_vars, NEW g \in Proc, NEW m,
                      PingIgnored(g, m), edits = 0, fails = 0
               PROVE  \/ sched[m.place] # None /\ HashOf(sched[m.place], m.place) = m.hash
                      \/ Refilling(m.place)
    OBVIOUS
  <2> USE DEF TypeInv, TypeOK
  <2> DEFINE p == m.place
  <2>1. AlreadyMirrored(m) /\ m \in Message
    BY IgnoredIsMirrored
  <2>2. p \in Placement /\ vers[p] = m.hash /\ m.hash # None
    BY <2>1 DEF AlreadyMirrored, Message
  <2> HIDE DEF p
  <2>3. /\ m.hash = VisibleHash(p) /\ Visible(p) # {} /\ Warm(p)
        /\ sched[p] # None => Group(sched[p], p) # {}
    BY <2>2 DEF SteadyInv, WarmInv, Recorded
  <2>4. ASSUME sched[p] # None PROVE HashOf(sched[p], p) = m.hash
    <3>1. sched[p] \in Gen /\ Exact(sched[p])
      BY <2>2, <2>4 DEF SteadyInv, WarmInv
    <3>2. Group(sched[p], p) = Visible(p)
      BY <2>2, <2>3, <2>4, <3>1 DEF Exact
    <3>3. \A s \in Visible(p) : heap[sched[p]].upd[s] = upd[s]
      BY <2>4, <3>1, <3>2 DEF Exact, Group
    <3>4. HashOf(sched[p], p) = VisibleHash(p)
      BY ONLY <3>2, <3>3 DEF HashOf, VisibleHash
    <3> QED BY <2>3, <3>4
  <2> QED BY <2>3, <2>4 DEF Warm, p
<1>2. Spec => []SteadyInv
  BY SteadyInvariant DEF Undisturbed
<1> QED BY <1>1, <1>2, TypeInvariant, PTL DEF Spec, SkipsLoseNothing

==============================================================================

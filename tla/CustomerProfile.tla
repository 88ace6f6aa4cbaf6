-------------------------- MODULE CustomerProfile --------------------------
(***************************************************************************)
(* The attributes of one customer, as resolveUserAttrs builds them for the *)
(* rules of a request (cmd/server/service/cms_delivery_user_attrs.go).     *)
(*                                                                         *)
(* Redis holds the last answer of CLEN verbatim; a request asks CLEN for   *)
(* the fields of the schemas that its rules do not name and that the       *)
(* answer it read does not carry, overwrites the key with what it got, and *)
(* works on the merge of both.  Two tables are read through caches that    *)
(* live as long as the process: the fields of a schema and the attribute   *)
(* UUIDs of a datasource.                                                  *)
(*                                                                         *)
(* An attribute is a fact <<datasource, field>>; every datasource has one  *)
(* schema.  Values are not told apart.  The back office edits a row of     *)
(* either table at most once, from Before to After.                        *)
(***************************************************************************)
EXTENDS Integers, FiniteSets

CONSTANTS
  Req,             \* concurrent requests for the customer
  DS, Field,       \* datasources and their fields
  Scopes,          \* the facts the rules of a request may reference, one set per request
  Offered,         \* the facts CLEN can give
  Before, After,   \* what the tables hold before and after an edit
  Editable,        \* the rows the back office may edit
  MaxEdits,        \* bound: edits
  MaxFaults,       \* bound: calls of Redis, CLEN or the database that fail
  MaxCalls,        \* bound: calls of CLEN that are told apart
  None

Fact == DS \X Field
Table == {"schema", "attrs"}
Row == Table \X DS

ASSUME ProfileAssumption ==
  /\ IsFiniteSet(Req)
  /\ Scopes \subseteq SUBSET Fact /\ Offered \subseteq Fact
  /\ Before \in [Row -> SUBSET Field] /\ After \in [Row -> SUBSET Field]
  /\ Editable \subseteq Row
  /\ MaxEdits \in Nat /\ MaxFaults \in Nat /\ MaxCalls \in Nat
  /\ \A fields \in SUBSET Field : fields # None

VARIABLES
  envelope,  \* the facts of the answer under the customer's key in Redis
  edited,    \* rows edited so far
  memo,      \* schemaFieldsCache and attrFieldToUUIDByDsCache
  pc,        \* where each request is
  scope,     \* facts its rules reference
  cached,    \* facts it read from Redis
  todo,      \* datasources it has not looked up yet
  loaded,    \* the row it has queried and not yet kept in memo
  known,     \* facts of the schemas it has looked up
  got,       \* facts CLEN gave it, until they are merged
  view,      \* cached, with got merged into it
  resolved,  \* facts of view it found the attribute UUID of
  faults,    \* history: calls that failed, or that CLEN answered in part
  calls,     \* history: calls of CLEN since the key last expired
  asked,     \* history: scopes requested so far
  hurt,      \* history: requests whose CLEN or database call failed
  carried    \* history: facts an answer carried since then

store == <<envelope, edited, memo>>
reading == <<scope, cached, known>>
history == <<faults, calls, asked, hurt, carried>>

vars == <<store, pc, reading, todo, loaded, got, view, resolved, history>>

\* MUTANT: one query per field instead of one per datasource.
TouchedFields(facts) == facts

Touched(facts) == {fact[1] : fact \in facts}
Of(ds, fields) == {ds} \X fields

\* What a table holds now.
Held(row) == IF row \in edited THEN After[row] ELSE Before[row]

\* (schema - rule) - cache, over the datasources looked up.
Missing(r) == (known[r] \ scope[r]) \ cached[r]

Init ==
  /\ envelope = {}
  /\ edited = {}
  /\ memo = [row \in Row |-> None]
  /\ pc = [r \in Req |-> "idle"]
  /\ scope = [r \in Req |-> {}]
  /\ cached = [r \in Req |-> {}]
  /\ todo = [r \in Req |-> {}]
  /\ loaded = [r \in Req |-> None]
  /\ known = [r \in Req |-> {}]
  /\ got = [r \in Req |-> {}]
  /\ view = [r \in Req |-> {}]
  /\ resolved = [r \in Req |-> {}]
  /\ faults = 0 /\ calls = 0 /\ asked = {} /\ hurt = {} /\ carried = {}

Fault == faults < MaxFaults /\ faults' = faults + 1
Call == calls' = IF calls < MaxCalls THEN calls + 1 ELSE calls

-----------------------------------------------------------------------------
(* One request *)

\* resolveUserAttrs starts: it reads the key, and goes on without it when
\* Redis fails.
Ask(r) ==
  /\ pc[r] = "idle"
  /\ \E s \in Scopes :
       /\ scope' = [scope EXCEPT ![r] = s]
       /\ todo' = [todo EXCEPT ![r] = Touched(s)]
       /\ asked' = asked \cup {s}
  /\ \/ cached' = [cached EXCEPT ![r] = envelope] /\ UNCHANGED faults
     \/ cached' = [cached EXCEPT ![r] = {}] /\ Fault
  /\ pc' = [pc EXCEPT ![r] = "schema"]
  /\ UNCHANGED <<store, known, loaded, got, view, resolved, calls, hurt, carried>>

\* The table a request looks up, and what it does with the fields it finds
\* for a datasource, in each of its two passes.
TableOf(r) == IF pc[r] = "schema" THEN "schema" ELSE "attrs"

Found(r, ds, fields) ==
  /\ todo' = [todo EXCEPT ![r] = @ \ {ds}]
  /\ IF pc[r] = "schema"
     THEN known' = [known EXCEPT ![r] = @ \cup Of(ds, fields)] /\ UNCHANGED resolved
     ELSE resolved' = [resolved EXCEPT ![r] = @ \cup (view[r] \cap Of(ds, fields))]
          /\ UNCHANGED known

LookingUp(r, ds) == pc[r] \in {"schema", "transform"} /\ loaded[r] = None /\ ds \in todo[r]

\* lookupSchemaFields and lookupAttributeUUIDs, answered by the process's cache.
LookupCached(r, ds) ==
  /\ LookingUp(r, ds)
  /\ memo[<<TableOf(r), ds>>] # None
  /\ Found(r, ds, memo[<<TableOf(r), ds>>])
  /\ UNCHANGED <<store, pc, scope, cached, loaded, got, view, history>>

\* The same on a miss: the query reads the row (an absent one has no fields) ...
LookupQuery(r, ds) ==
  /\ LookingUp(r, ds)
  /\ memo[<<TableOf(r), ds>>] = None
  /\ loaded' = [loaded EXCEPT ![r] = [row |-> <<TableOf(r), ds>>,
                                      fields |-> Held(<<TableOf(r), ds>>)]]
  /\ Found(r, ds, Held(<<TableOf(r), ds>>))
  /\ UNCHANGED <<store, pc, scope, cached, got, view, history>>

\* ... and the row is kept, over what another request may have kept meanwhile ...
Keep(r) ==
  /\ loaded[r] # None
  /\ memo' = [memo EXCEPT ![loaded[r].row] = loaded[r].fields]
  /\ loaded' = [loaded EXCEPT ![r] = None]
  /\ UNCHANGED <<envelope, edited, pc, reading, todo, got, view, resolved, history>>

\* MUTANT: a query that failed is kept as a row without fields.
LookupFailsKept(r, ds) ==
  /\ LookingUp(r, ds)
  /\ memo[<<TableOf(r), ds>>] = None
  /\ Fault
  /\ hurt' = hurt \cup {r}
  /\ memo' = [memo EXCEPT ![<<TableOf(r), ds>>] = {}]
  /\ Found(r, ds, {})
  /\ UNCHANGED <<envelope, edited, pc, scope, cached, loaded, got, view, calls, asked, carried>>

\* ... or fails: the datasource is left out of this request, and nothing is kept.
LookupFails(r, ds) ==
  /\ LookingUp(r, ds)
  /\ memo[<<TableOf(r), ds>>] = None
  /\ Fault
  /\ hurt' = hurt \cup {r}
  /\ Found(r, ds, {})
  /\ UNCHANGED <<store, pc, scope, cached, loaded, got, view, calls, asked, carried>>

\* extractCLENDataSources returns: CLEN is called when a field is missing.
Extracted(r) ==
  /\ pc[r] = "schema" /\ todo[r] = {} /\ loaded[r] = None
  /\ pc' = [pc EXCEPT ![r] = IF Missing(r) = {} THEN "merged" ELSE "fetch"]
  /\ view' = [view EXCEPT ![r] = cached[r]]
  /\ UNCHANGED <<store, reading, todo, loaded, got, resolved, history>>

\* enrichCustomerProfile calls CLEN.  It answers each datasource in full,
\* not at all ("not_found", "error"), and gives no field it does not offer.
FetchAnswered(r) ==
  /\ pc[r] = "fetch"
  /\ Call
  /\ \E answering \in SUBSET Touched(Missing(r)) :
       /\ got' = [got EXCEPT ![r] = {fact \in Missing(r) \cap Offered : fact[1] \in answering}]
       /\ IF answering = Touched(Missing(r))
          THEN UNCHANGED <<faults, hurt>>
          ELSE Fault /\ hurt' = hurt \cup {r}
  /\ pc' = [pc EXCEPT ![r] = "set"]
  /\ UNCHANGED <<store, reading, todo, loaded, view, resolved, asked, carried>>

\* Transport error, status outside 2xx or empty body: the request goes on
\* with what it read, and the key is left alone.
FetchFails(r) ==
  /\ pc[r] = "fetch"
  /\ Call
  /\ Fault
  /\ hurt' = hurt \cup {r}
  /\ pc' = [pc EXCEPT ![r] = "merged"]
  /\ UNCHANGED <<store, reading, todo, loaded, got, view, resolved, asked, carried>>

\* MUTANT: a datasource CLEN answered replaces the one that was cached.
SetReplacing(r) ==
  /\ pc[r] = "set"
  /\ envelope' = got[r] /\ carried' = carried \cup got[r]
  /\ view' = [view EXCEPT ![r] = {fact \in @ : fact[1] \notin Touched(got[r])} \cup got[r]]
  /\ got' = [got EXCEPT ![r] = {}]
  /\ pc' = [pc EXCEPT ![r] = "merged"]
  /\ UNCHANGED <<edited, memo, reading, todo, loaded, resolved, faults, calls, asked, hurt>>

\* MUTANT: the answer is merged and never written to Redis.
SetForgotten(r) ==
  /\ pc[r] = "set"
  /\ view' = [view EXCEPT ![r] = @ \cup got[r]]
  /\ got' = [got EXCEPT ![r] = {}]
  /\ pc' = [pc EXCEPT ![r] = "merged"]
  /\ UNCHANGED <<store, reading, todo, loaded, resolved, history>>

\* MUTANT: the merge needs the key to be written.
SetMergesWritten(r) ==
  /\ pc[r] = "set"
  /\ \/ /\ envelope' = got[r] /\ carried' = carried \cup got[r]
        /\ view' = [view EXCEPT ![r] = @ \cup got[r]]
        /\ UNCHANGED faults
     \/ Fault /\ UNCHANGED <<envelope, carried, view>>
  /\ got' = [got EXCEPT ![r] = {}]
  /\ pc' = [pc EXCEPT ![r] = "merged"]
  /\ UNCHANGED <<edited, memo, reading, todo, loaded, resolved, calls, asked, hurt>>

\* The answer overwrites the key (a failure of Redis is ignored), and is
\* merged, field by field, into what the request read.
Set(r) ==
  /\ pc[r] = "set"
  /\ \/ envelope' = got[r] /\ carried' = carried \cup got[r] /\ UNCHANGED faults
     \/ Fault /\ UNCHANGED <<envelope, carried>>
  /\ view' = [view EXCEPT ![r] = @ \cup got[r]]
  /\ got' = [got EXCEPT ![r] = {}]
  /\ pc' = [pc EXCEPT ![r] = "merged"]
  /\ UNCHANGED <<edited, memo, reading, todo, loaded, resolved, calls, asked, hurt>>

\* transformToUUIDKeyed looks up every datasource of the merge ...
Transform(r) ==
  /\ pc[r] = "merged"
  /\ todo' = [todo EXCEPT ![r] = Touched(view[r])]
  /\ pc' = [pc EXCEPT ![r] = "transform"]
  /\ UNCHANGED <<store, reading, loaded, got, view, resolved, history>>

\* ... and its result goes to the evaluator.
Return(r) ==
  /\ pc[r] = "transform" /\ todo[r] = {} /\ loaded[r] = None
  /\ pc' = [pc EXCEPT ![r] = "done"]
  /\ UNCHANGED <<store, reading, todo, loaded, got, view, resolved, history>>

\* The caller has used the attributes, and nothing of the request remains.
Leave(r) ==
  /\ pc[r] = "done"
  /\ pc' = [pc EXCEPT ![r] = "idle"]
  /\ scope' = [scope EXCEPT ![r] = {}]
  /\ cached' = [cached EXCEPT ![r] = {}]
  /\ known' = [known EXCEPT ![r] = {}]
  /\ view' = [view EXCEPT ![r] = {}]
  /\ resolved' = [resolved EXCEPT ![r] = {}]
  /\ hurt' = hurt \ {r}
  /\ UNCHANGED <<store, todo, loaded, got, faults, calls, asked, carried>>

-----------------------------------------------------------------------------
(* Redis and the back office *)

\* The time to live of the key runs out.
Expire ==
  /\ envelope # {}
  /\ envelope' = {}
  /\ calls' = 0 /\ carried' = {}
  /\ UNCHANGED <<edited, memo, pc, reading, todo, loaded, got, view, resolved, faults, asked,
                 hurt>>

Edit(row) ==
  /\ row \in Editable \ edited /\ Cardinality(edited) < MaxEdits
  /\ edited' = edited \cup {row}
  /\ UNCHANGED <<envelope, memo, pc, reading, todo, loaded, got, view, resolved, history>>

Request(r) ==
  \/ Ask(r)
  \/ \E ds \in DS : LookupCached(r, ds) \/ LookupQuery(r, ds) \/ LookupFails(r, ds)
  \/ Keep(r) \/ Extracted(r)
  \/ FetchAnswered(r) \/ FetchFails(r) \/ Set(r)
  \/ Transform(r) \/ Return(r) \/ Leave(r)

Next == (\E r \in Req : Request(r)) \/ Expire \/ (\E row \in Row : Edit(row))

Spec == Init /\ [][Next]_vars

-----------------------------------------------------------------------------
(* Properties *)

\* Every variable has its type.
TypeOK ==
  /\ envelope \subseteq Fact /\ carried \subseteq Fact
  /\ edited \subseteq Editable
  /\ memo \in [Row -> (SUBSET Field) \cup {None}]
  /\ pc \in [Req -> {"idle", "schema", "fetch", "set", "merged", "transform", "done"}]
  /\ scope \in [Req -> SUBSET Fact]
  /\ cached \in [Req -> SUBSET Fact]
  /\ todo \in [Req -> SUBSET DS]
  /\ loaded \in [Req -> [row : Row, fields : SUBSET Field] \cup {None}]
  /\ known \in [Req -> SUBSET Fact]
  /\ got \in [Req -> SUBSET Fact]
  /\ view \in [Req -> SUBSET Fact]
  /\ resolved \in [Req -> SUBSET Fact]
  /\ faults \in 0..MaxFaults /\ calls \in 0..MaxCalls
  /\ asked \subseteq Scopes /\ hurt \subseteq Req

Ended(r) == pc[r] = "done"

\* A request never loses an attribute it read from Redis because CLEN was
\* asked for others of the same datasource.
NothingDropped == \A r \in Req : pc[r] \in {"merged", "transform", "done"} => cached[r] \subseteq view[r]

\* A row's content that neither edit can take away.
Lasting(row) == IF row \in Editable THEN Before[row] \cap After[row] ELSE Before[row]

\* Whatever Redis does, whatever other requests write under the key or keep in
\* the process's caches, and however stale those are: a request none of whose
\* calls to CLEN or the database failed hands the evaluator every field CLEN
\* offers of the schemas its rules touch, but those the rules name.
ExtrasResolved ==
  \A r \in Req : Ended(r) /\ r \notin hurt =>
    \A ds \in Touched(scope[r]) : \A field \in Lasting(<<"schema", ds>>) \cap Lasting(<<"attrs", ds>>) :
      <<ds, field>> \in Offered \ scope[r] => <<ds, field>> \in resolved[r]

\* The process's caches hold what a row held once: the outcome of no failed
\* query, and of no race between two.
MemoReal == \A row \in Row : memo[row] \in {None, Before[row]} \cup (IF row \in Editable THEN {After[row]} ELSE {})

\* Facts whose schema CLEN can serve in full, whatever the edits.
Served(ds) == \A field \in Before[<<"schema", ds>>] : <<ds, field>> \in Offered

\* While every request has the same scope and nothing failed, CLEN is called
\* at most once by each concurrent request per life of the key.  (Requests of
\* two scopes, or one answer in part, make every request call: each answer
\* overwrites the one before with another part of the schema.)
CallsBounded ==
  /\ faults = 0 /\ Cardinality(asked) <= 1
  /\ \A ds \in DS : Served(ds) /\ <<"schema", ds>> \notin edited
  => calls <= Cardinality(Req)

\* "the next request will re-fetch any fields the latest envelope omits": what
\* CLEN gave during the life of the key, and the schemas of a later request
\* list, is in that request's view.
RefetchesOmitted ==
  \A r \in Req : Ended(r) /\ r \notin hurt => known[r] \cap carried \subseteq view[r]
=============================================================================

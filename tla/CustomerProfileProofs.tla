----------------------- MODULE CustomerProfileProofs -----------------------
(***************************************************************************)
(* What a request for a customer's attributes can rely on, for any number  *)
(* of concurrent requests, any schemas and any edits: the caches of the    *)
(* process hold what the tables held (Tables), so each stage of a request  *)
(* adds what the next one needs (Pipeline), whoever else writes the key.   *)
(***************************************************************************)
EXTENDS CustomerProfile, TLAPS

Merged == {"merged", "transform", "done"}

Contents(row) == {Before[row]} \cup (IF row \in Editable THEN {After[row]} ELSE {})

Tables ==
  /\ \A row \in Row : memo[row] # None => memo[row] \in Contents(row)
  /\ \A r \in Req : loaded[r] # None => loaded[r].fields \in Contents(loaded[r].row)

\* A fact of ds that no edit takes from the schema, or from the attributes.
Lasts(table, ds) == Of(ds, Lasting(<<table, ds>>))

\* What a request carries from one stage to the next.
Read(r) == pc[r] \in {"fetch", "set"} \cup Merged => cached[r] \subseteq view[r]

Looked(r) ==
  /\ pc[r] = "schema" =>
       \A ds \in Touched(scope[r]) \ todo[r] : Lasts("schema", ds) \subseteq known[r]
  /\ pc[r] \in {"fetch", "set"} \cup Merged =>
       \A ds \in Touched(scope[r]) : Lasts("schema", ds) \subseteq known[r]

Fetched(r) ==
  /\ pc[r] = "set" => Missing(r) \cap Offered \subseteq got[r]
  /\ pc[r] \in Merged => (known[r] \ scope[r]) \cap Offered \subseteq view[r]

Translated(r) ==
  /\ pc[r] = "transform" =>
       \A ds \in Touched(view[r]) \ todo[r] : view[r] \cap Lasts("attrs", ds) \subseteq resolved[r]
  /\ pc[r] = "done" =>
       \A ds \in Touched(view[r]) : view[r] \cap Lasts("attrs", ds) \subseteq resolved[r]

Pipeline(r) == Read(r) /\ (r \notin hurt => Looked(r) /\ Fetched(r) /\ Translated(r))

IInv == TypeOK /\ Tables /\ \A r \in Req : Pipeline(r)

-----------------------------------------------------------------------------
(* Types *)

LEMMA HeldIsContents ==
  ASSUME TypeOK, NEW row \in Row
  PROVE  Held(row) \in Contents(row) /\ Held(row) \in SUBSET Field
BY ProfileAssumption DEF TypeOK, Held, Contents

LEMMA ContentsLast ==
  ASSUME NEW row \in Row, NEW fields \in Contents(row)
  PROVE  Lasting(row) \subseteq fields /\ fields \in SUBSET Field
BY ProfileAssumption DEF Contents, Lasting

LEMMA TouchedDS == ASSUME NEW facts \in SUBSET Fact PROVE Touched(facts) \in SUBSET DS
BY DEF Touched, Fact

LEMMA InitTypes == Init => TypeOK
<1> SUFFICES ASSUME Init PROVE TypeOK
  OBVIOUS
<1>1. memo \in [Row -> (SUBSET Field) \cup {None}]
  BY DEF Init
<1>2. loaded \in [Req -> [row : Row, fields : SUBSET Field] \cup {None}]
  BY DEF Init
<1>3. faults \in 0..MaxFaults /\ calls \in 0..MaxCalls
  BY ProfileAssumption DEF Init
<1> QED BY <1>1, <1>2, <1>3 DEF Init, TypeOK

LEMMA FaultType == TypeOK /\ Fault => faults' \in 0..MaxFaults
BY ProfileAssumption DEF TypeOK, Fault

LEMMA CallType == TypeOK /\ Call => calls' \in 0..MaxCalls
BY ProfileAssumption DEF TypeOK, Call

LEMMA FoundType ==
  ASSUME TypeOK, NEW r \in Req, NEW ds \in DS, NEW fields \in SUBSET Field, Found(r, ds, fields)
  PROVE  /\ todo' \in [Req -> SUBSET DS]
         /\ known' \in [Req -> SUBSET Fact]
         /\ resolved' \in [Req -> SUBSET Fact]
<1>1. Of(ds, fields) \in SUBSET Fact
  BY DEF Of, Fact
<1>2. todo' = [todo EXCEPT ![r] = @ \ {ds}]
  BY DEF Found
<1>3. known' \in [Req -> SUBSET Fact] /\ resolved' \in [Req -> SUBSET Fact]
  <2>1. CASE pc[r] = "schema"
    <3>1. known' = [known EXCEPT ![r] = @ \cup Of(ds, fields)] /\ resolved' = resolved
      BY <2>1 DEF Found
    <3> QED BY <1>1, <3>1 DEF TypeOK
  <2>2. CASE pc[r] # "schema"
    <3>1. /\ resolved' = [resolved EXCEPT ![r] = @ \cup (view[r] \cap Of(ds, fields))]
          /\ known' = known
      BY <2>2 DEF Found
    <3> QED BY <1>1, <3>1 DEF TypeOK
  <2> QED BY <2>1, <2>2
<1> QED BY <1>2, <1>3 DEF TypeOK

LEMMA RequestTypes ==
  ASSUME IInv, NEW r \in Req, Request(r)
  PROVE  TypeOK'
<1> USE DEF IInv
<1>1. CASE Ask(r)
  <2>1. PICK s \in Scopes : /\ scope' = [scope EXCEPT ![r] = s]
                            /\ todo' = [todo EXCEPT ![r] = Touched(s)]
                            /\ asked' = asked \cup {s}
    BY <1>1 DEF Ask
  <2>2. s \in SUBSET Fact /\ Touched(s) \in SUBSET DS
    BY ProfileAssumption, TouchedDS
  <2>3. cached' \in [Req -> SUBSET Fact] /\ faults' \in 0..MaxFaults
    BY <1>1, FaultType DEF Ask, TypeOK
  <2>4. scope' \in [Req -> SUBSET Fact] /\ todo' \in [Req -> SUBSET DS] /\ asked' \subseteq Scopes
    BY <2>1, <2>2 DEF TypeOK
  <2>5. /\ pc' = [pc EXCEPT ![r] = "schema"]
        /\ UNCHANGED <<envelope, edited, memo, known, loaded, got, view, resolved, calls, hurt,
                       carried>>
    BY <1>1 DEF Ask, store
  <2> QED BY <2>3, <2>4, <2>5 DEF TypeOK
<1>2. ASSUME NEW ds \in DS, LookupCached(r, ds)
      PROVE  TypeOK'
  <2>1. pc[r] \in {"schema", "transform"} /\ <<TableOf(r), ds>> \in Row
    BY <1>2 DEF LookupCached, LookingUp, TableOf, Row, Table
  <2>2. memo[<<TableOf(r), ds>>] \in SUBSET Field
    BY <1>2, <2>1 DEF LookupCached, TypeOK
  <2>3. /\ todo' \in [Req -> SUBSET DS] /\ known' \in [Req -> SUBSET Fact]
        /\ resolved' \in [Req -> SUBSET Fact]
    BY <1>2, <2>2, FoundType DEF LookupCached
  <2> QED BY <1>2, <2>3 DEF LookupCached, TypeOK, store, history
<1>3. ASSUME NEW ds \in DS, LookupQuery(r, ds)
      PROVE  TypeOK'
  <2>1. <<TableOf(r), ds>> \in Row
    BY DEF TableOf, Row, Table
  <2>2. Held(<<TableOf(r), ds>>) \in SUBSET Field
    BY <2>1, HeldIsContents
  <2>3. /\ todo' \in [Req -> SUBSET DS] /\ known' \in [Req -> SUBSET Fact]
        /\ resolved' \in [Req -> SUBSET Fact]
    BY <1>3, <2>2, FoundType DEF LookupQuery
  <2>4. loaded' \in [Req -> [row : Row, fields : SUBSET Field] \cup {None}]
    BY <1>3, <2>1, <2>2 DEF LookupQuery, TypeOK
  <2> QED BY <1>3, <2>3, <2>4 DEF LookupQuery, TypeOK, store, history
<1>4. ASSUME NEW ds \in DS, LookupFails(r, ds)
      PROVE  TypeOK'
  <2>1. /\ todo' \in [Req -> SUBSET DS] /\ known' \in [Req -> SUBSET Fact]
        /\ resolved' \in [Req -> SUBSET Fact]
    BY <1>4, FoundType DEF LookupFails
  <2>2. faults' \in 0..MaxFaults
    BY <1>4, FaultType DEF LookupFails
  <2> QED BY <1>4, <2>1, <2>2 DEF LookupFails, TypeOK, store
<1>5. CASE Keep(r)
  <2>1. loaded[r] \in [row : Row, fields : SUBSET Field]
    BY <1>5 DEF Keep, TypeOK
  <2>2. memo' \in [Row -> (SUBSET Field) \cup {None}]
    BY <1>5, <2>1 DEF Keep, TypeOK
  <2>3. loaded' \in [Req -> [row : Row, fields : SUBSET Field] \cup {None}]
    BY <1>5 DEF Keep, TypeOK
  <2> QED BY <1>5, <2>2, <2>3 DEF Keep, TypeOK, reading, history
<1>6. CASE Extracted(r)
  <2>1. /\ pc' \in [Req -> {"idle", "schema", "fetch", "set", "merged", "transform", "done"}]
        /\ view' \in [Req -> SUBSET Fact]
    BY <1>6 DEF Extracted, TypeOK
  <2> QED BY <1>6, <2>1 DEF Extracted, TypeOK, store, reading, history
<1>7. CASE FetchAnswered(r)
  <2>1. PICK answering \in SUBSET Touched(Missing(r)) :
          /\ got' = [got EXCEPT ![r] = {fact \in Missing(r) \cap Offered : fact[1] \in answering}]
          /\ \/ UNCHANGED <<faults, hurt>>
             \/ Fault /\ hurt' = hurt \cup {r}
    BY <1>7 DEF FetchAnswered
  <2>2. got' \in [Req -> SUBSET Fact]
    <3>1. {fact \in Missing(r) \cap Offered : fact[1] \in answering} \in SUBSET Fact
      BY ProfileAssumption
    <3> QED BY <2>1, <3>1 DEF TypeOK
  <2>3. faults' \in 0..MaxFaults /\ hurt' \subseteq Req
    BY <2>1, FaultType DEF TypeOK
  <2>4. calls' \in 0..MaxCalls
    BY <1>7, CallType DEF FetchAnswered
  <2> QED BY <1>7, <2>2, <2>3, <2>4 DEF FetchAnswered, TypeOK, store, reading
<1>8. CASE FetchFails(r)
  <2>1. faults' \in 0..MaxFaults /\ calls' \in 0..MaxCalls
    BY <1>8, FaultType, CallType DEF FetchFails
  <2> QED BY <1>8, <2>1 DEF FetchFails, TypeOK, store, reading
<1>9. CASE Set(r)
  <2>1. faults' \in 0..MaxFaults /\ envelope' \subseteq Fact /\ carried' \subseteq Fact
    BY <1>9, FaultType DEF Set, TypeOK
  <2>2. view' \in [Req -> SUBSET Fact] /\ got' \in [Req -> SUBSET Fact]
    BY <1>9 DEF Set, TypeOK
  <2> QED BY <1>9, <2>1, <2>2 DEF Set, TypeOK, reading
<1>10. CASE Transform(r)
  <2>1. Touched(view[r]) \in SUBSET DS
    BY TouchedDS DEF TypeOK
  <2> QED BY <1>10, <2>1 DEF Transform, TypeOK, store, reading, history
<1>11. CASE Return(r)
  BY <1>11 DEF Return, TypeOK, store, reading, history
<1>12. CASE Leave(r)
  BY <1>12 DEF Leave, TypeOK, store
<1> QED BY <1>1, <1>2, <1>3, <1>4, <1>5, <1>6, <1>7, <1>8, <1>9, <1>10, <1>11, <1>12 DEF Request

LEMMA StoreTypes ==
  ASSUME TypeOK, Expire \/ (\E row \in Row : Edit(row)) \/ UNCHANGED vars
  PROVE  TypeOK'
<1>1. CASE Expire
  BY <1>1, ProfileAssumption DEF Expire, TypeOK, reading
<1>2. ASSUME NEW row \in Row, Edit(row)
      PROVE  TypeOK'
  BY <1>2 DEF Edit, TypeOK, reading, history
<1>3. CASE UNCHANGED vars
  BY <1>3 DEF vars, store, reading, history, TypeOK
<1> QED BY <1>1, <1>2, <1>3

-----------------------------------------------------------------------------
(* The caches of the process *)

LEMMA NextTables ==
  ASSUME IInv, [Next]_vars
  PROVE  Tables'
<1> USE DEF IInv
<1>1. ASSUME UNCHANGED <<memo, loaded>>
      PROVE  Tables'
  BY <1>1 DEF Tables, Contents
<1>2. ASSUME NEW r \in Req, NEW ds \in DS, LookupQuery(r, ds)
      PROVE  Tables'
  <2>1. <<TableOf(r), ds>> \in Row
    BY DEF TableOf, Row, Table
  <2>2. Held(<<TableOf(r), ds>>) \in Contents(<<TableOf(r), ds>>)
    BY <2>1, HeldIsContents
  <2>3. /\ memo' = memo
        /\ loaded' = [loaded EXCEPT ![r] = [row |-> <<TableOf(r), ds>>,
                                           fields |-> Held(<<TableOf(r), ds>>)]]
    BY <1>2 DEF LookupQuery, store
  <2>4. \A q \in Req : loaded'[q] # None => loaded'[q].fields \in Contents(loaded'[q].row)
    BY <2>2, <2>3 DEF Tables, TypeOK
  <2> QED BY <2>3, <2>4 DEF Tables, Contents
<1>3. ASSUME NEW r \in Req, Keep(r)
      PROVE  Tables'
  <2>1. loaded[r].row \in Row /\ loaded[r].fields \in Contents(loaded[r].row)
    BY <1>3 DEF Keep, Tables, TypeOK
  <2>2. /\ memo' = [memo EXCEPT ![loaded[r].row] = loaded[r].fields]
        /\ loaded' = [loaded EXCEPT ![r] = None]
    BY <1>3 DEF Keep
  <2>3. \A row \in Row : memo'[row] # None => memo'[row] \in Contents(row)
    BY <2>1, <2>2 DEF Tables, TypeOK
  <2>4. \A q \in Req : loaded'[q] # None => loaded'[q].fields \in Contents(loaded'[q].row)
    BY <2>2 DEF Tables, TypeOK
  <2> QED BY <2>3, <2>4 DEF Tables, Contents
<1>4. ASSUME NEW r \in Req, Request(r)
      PROVE  Tables'
  <2>1. CASE Ask(r) BY <1>1, <2>1 DEF Ask, store
  <2>2. ASSUME NEW ds \in DS, LookupCached(r, ds) \/ LookupFails(r, ds)
        PROVE  Tables'
    BY <1>1, <2>2 DEF LookupCached, LookupFails, store
  <2>3. CASE Extracted(r) BY <1>1, <2>3 DEF Extracted, store
  <2>4. CASE FetchAnswered(r) \/ FetchFails(r)
    BY <1>1, <2>4 DEF FetchAnswered, FetchFails, store
  <2>5. CASE Set(r) BY <1>1, <2>5 DEF Set
  <2>6. CASE Transform(r) \/ Return(r) \/ Leave(r)
    BY <1>1, <2>6 DEF Transform, Return, Leave, store
  <2> QED BY <1>2, <1>3, <1>4, <2>1, <2>2, <2>3, <2>4, <2>5, <2>6 DEF Request
<1>5. CASE Expire \/ (\E row \in Row : Edit(row)) \/ UNCHANGED vars
  BY <1>1, <1>5 DEF Expire, Edit, vars, store
<1> QED BY <1>4, <1>5 DEF Next

-----------------------------------------------------------------------------
(* The stages of a request *)

\* A step of one request leaves the stages of every other as they are.
LEMMA Others ==
  ASSUME NEW q \in Req, Pipeline(q), q \in hurt' <=> q \in hurt,
         pc'[q] = pc[q], scope'[q] = scope[q], cached'[q] = cached[q], todo'[q] = todo[q],
         known'[q] = known[q], got'[q] = got[q], view'[q] = view[q], resolved'[q] = resolved[q]
  PROVE  Pipeline(q)'
BY DEF Pipeline, Read, Looked, Fetched, Translated, Missing, Lasts, Lasting, Of, Touched

\* One datasource is looked up: from the cache or the table, or in vain.
LEMMA FoundStep ==
  ASSUME IInv, NEW r \in Req, NEW ds \in DS, NEW fields \in SUBSET Field,
         LookingUp(r, ds), Found(r, ds, fields),
         Lasting(<<TableOf(r), ds>>) \subseteq fields \/ r \in hurt',
         r \in hurt => r \in hurt',
         UNCHANGED <<pc, scope, cached, got, view>>
  PROVE  Pipeline(r)'
<1> USE DEF IInv
<1>1. Pipeline(r) /\ todo'[r] = todo[r] \ {ds}
  BY DEF Found, TypeOK
<1>2. CASE r \in hurt'
  BY <1>1, <1>2 DEF Pipeline, Read
<1>3. CASE r \notin hurt' /\ pc[r] = "schema"
  <2>1. known'[r] = known[r] \cup Of(ds, fields) /\ resolved' = resolved
    BY <1>3 DEF Found, TypeOK
  <2>2. Lasts("schema", ds) \subseteq Of(ds, fields)
    BY <1>3 DEF Lasts, Of, TableOf
  <2>3. \A d \in Touched(scope[r]) \ todo[r] : Lasts("schema", d) \subseteq known[r]
    BY <1>1, <1>3 DEF Pipeline, Looked
  <2>4. \A d \in Touched(scope'[r]) \ todo'[r] : Lasts("schema", d) \subseteq known'[r]
    BY <1>1, <2>1, <2>2, <2>3
  <2>5. Looked(r)'
    BY <1>3, <2>4 DEF Looked, Merged, Lasts, Lasting, Of
  <2> QED BY <1>3, <2>5 DEF Pipeline, Read, Fetched, Translated, Merged
<1>4. CASE r \notin hurt' /\ pc[r] = "transform"
  <2>1. /\ resolved'[r] = resolved[r] \cup (view[r] \cap Of(ds, fields))
        /\ known' = known
    BY <1>4 DEF Found, TypeOK
  <2>2. Lasts("attrs", ds) \subseteq Of(ds, fields)
    BY <1>4 DEF Lasts, Of, TableOf
  <2>3. \A d \in Touched(view[r]) \ todo[r] : view[r] \cap Lasts("attrs", d) \subseteq resolved[r]
    BY <1>1, <1>4 DEF Pipeline, Translated
  <2>4. \A d \in Touched(view'[r]) \ todo'[r] : view'[r] \cap Lasts("attrs", d) \subseteq resolved'[r]
    BY <1>1, <2>1, <2>2, <2>3
  <2>5. Translated(r)'
    BY <1>4, <2>4 DEF Translated, Lasts, Lasting, Of
  <2>6. Looked(r)' /\ Fetched(r)' /\ Read(r)'
    <3>1. Looked(r) /\ Fetched(r) /\ Read(r)
      BY <1>1, <1>4 DEF Pipeline
    <3> QED BY <1>4, <2>1, <3>1 DEF Looked, Fetched, Read, Merged, Lasts, Lasting, Of
  <2> QED BY <2>5, <2>6 DEF Pipeline
<1> QED BY <1>2, <1>3, <1>4 DEF LookingUp

LEMMA RequestPipeline ==
  ASSUME IInv, NEW r \in Req, Request(r)
  PROVE  Pipeline(r)'
<1> USE DEF IInv
<1>0. Pipeline(r) /\ Read(r)
  BY DEF Pipeline
<1>1. CASE Ask(r)
  <2>1. PICK s \in Scopes : /\ scope' = [scope EXCEPT ![r] = s]
                            /\ todo' = [todo EXCEPT ![r] = Touched(s)]
    BY <1>1 DEF Ask
  <2>2. scope'[r] = s /\ todo'[r] = Touched(s) /\ pc'[r] = "schema"
    BY <1>1, <2>1 DEF Ask, TypeOK
  <2>3. Touched(scope'[r]) \ todo'[r] = {}
    BY <2>2
  <2> QED BY <2>2, <2>3 DEF Pipeline, Read, Looked, Fetched, Translated, Merged
<1>2. ASSUME NEW ds \in DS, LookupCached(r, ds)
      PROVE  Pipeline(r)'
  <2>1. <<TableOf(r), ds>> \in Row
    BY DEF TableOf, Row, Table
  <2>2. memo[<<TableOf(r), ds>>] \in Contents(<<TableOf(r), ds>>)
    BY <1>2, <2>1 DEF LookupCached, Tables
  <2>3. /\ Lasting(<<TableOf(r), ds>>) \subseteq memo[<<TableOf(r), ds>>]
        /\ memo[<<TableOf(r), ds>>] \in SUBSET Field
    BY <2>1, <2>2, ContentsLast
  <2>4. /\ LookingUp(r, ds) /\ Found(r, ds, memo[<<TableOf(r), ds>>]) /\ hurt' = hurt
        /\ UNCHANGED <<pc, scope, cached, got, view>>
    BY <1>2 DEF LookupCached, history
  <2> QED BY <2>3, <2>4, FoundStep
<1>3. ASSUME NEW ds \in DS, LookupQuery(r, ds)
      PROVE  Pipeline(r)'
  <2>1. <<TableOf(r), ds>> \in Row
    BY DEF TableOf, Row, Table
  <2>2. /\ Lasting(<<TableOf(r), ds>>) \subseteq Held(<<TableOf(r), ds>>)
        /\ Held(<<TableOf(r), ds>>) \in SUBSET Field
    BY <2>1, HeldIsContents, ContentsLast
  <2>3. /\ LookingUp(r, ds) /\ Found(r, ds, Held(<<TableOf(r), ds>>)) /\ hurt' = hurt
        /\ UNCHANGED <<pc, scope, cached, got, view>>
    BY <1>3 DEF LookupQuery, history
  <2> QED BY <2>2, <2>3, FoundStep
<1>4. ASSUME NEW ds \in DS, LookupFails(r, ds)
      PROVE  Pipeline(r)'
  <2>1. /\ LookingUp(r, ds) /\ Found(r, ds, {}) /\ r \in hurt'
        /\ UNCHANGED <<pc, scope, cached, got, view>> /\ {} \in SUBSET Field
    BY <1>4 DEF LookupFails
  <2> QED BY <2>1, FoundStep
<1>5. CASE Keep(r)
  BY <1>0, <1>5, Others DEF Keep, reading, history
<1>6. CASE Extracted(r)
  <2>1. /\ pc[r] = "schema" /\ todo[r] = {} /\ view'[r] = cached[r]
        /\ pc'[r] = IF Missing(r) = {} THEN "merged" ELSE "fetch"
        /\ UNCHANGED <<scope, cached, known, hurt>>
    BY <1>6 DEF Extracted, TypeOK, reading, history
  <2>2. Read(r)'
    BY <2>1 DEF Read
  <2>3. r \notin hurt => Looked(r)'
    <3>1. r \notin hurt => \A ds \in Touched(scope[r]) : Lasts("schema", ds) \subseteq known[r]
      BY <1>0, <2>1 DEF Pipeline, Looked
    <3> QED BY <2>1, <3>1 DEF Looked, Merged, Lasts, Lasting, Of
  <2>4. Fetched(r)'
    <3>1. CASE Missing(r) = {}
      <4>1. known[r] \ scope[r] \subseteq cached[r]
        BY <3>1 DEF Missing
      <4> QED BY <2>1, <3>1, <4>1 DEF Fetched
    <3>2. CASE Missing(r) # {}
      BY <2>1, <3>2 DEF Fetched, Merged
    <3> QED BY <3>1, <3>2
  <2>5. Translated(r)'
    BY <2>1 DEF Translated
  <2> QED BY <2>1, <2>2, <2>3, <2>4, <2>5 DEF Pipeline
<1>7. CASE FetchAnswered(r)
  <2>1. PICK answering \in SUBSET Touched(Missing(r)) :
          /\ got' = [got EXCEPT ![r] = {fact \in Missing(r) \cap Offered : fact[1] \in answering}]
          /\ IF answering = Touched(Missing(r)) THEN UNCHANGED <<faults, hurt>>
             ELSE hurt' = hurt \cup {r}
    BY <1>7 DEF FetchAnswered
  <2>2. /\ pc[r] = "fetch" /\ pc'[r] = "set"
        /\ UNCHANGED <<scope, cached, known, view>>
    BY <1>7 DEF FetchAnswered, TypeOK, reading
  <2>3. Read(r)'
    BY <1>0, <2>2 DEF Read
  <2>4. CASE answering # Touched(Missing(r))
    BY <2>1, <2>3, <2>4 DEF Pipeline
  <2>5. CASE answering = Touched(Missing(r))
    <3>1. got'[r] = Missing(r) \cap Offered /\ hurt' = hurt
      BY <2>1, <2>5 DEF TypeOK, Touched
    <3>2. Fetched(r)'
      BY <2>2, <3>1 DEF Fetched, Missing, Merged
    <3>3. r \notin hurt => Looked(r)'
      BY <1>0, <2>2 DEF Pipeline, Looked, Merged, Lasts, Lasting, Of
    <3>4. Translated(r)'
      BY <2>2 DEF Translated
    <3> QED BY <2>3, <3>1, <3>2, <3>3, <3>4 DEF Pipeline
  <2> QED BY <2>4, <2>5
<1>8. CASE FetchFails(r)
  <2>1. /\ pc[r] = "fetch" /\ pc'[r] = "merged" /\ r \in hurt'
        /\ UNCHANGED <<cached, view>>
    BY <1>8 DEF FetchFails, TypeOK, reading
  <2> QED BY <1>0, <2>1 DEF Pipeline, Read
<1>9. CASE Set(r)
  <2>1. /\ pc[r] = "set" /\ pc'[r] = "merged" /\ view'[r] = view[r] \cup got[r]
        /\ UNCHANGED <<scope, cached, known, hurt>>
    BY <1>9 DEF Set, TypeOK, reading
  <2>2. cached[r] \subseteq view[r]
    BY <1>0, <2>1 DEF Read
  <2>3. Read(r)'
    BY <2>1, <2>2 DEF Read
  <2>4. r \notin hurt => Fetched(r)'
    <3>1. r \notin hurt => ((known[r] \ scope[r]) \ cached[r]) \cap Offered \subseteq got[r]
      BY <1>0, <2>1 DEF Pipeline, Fetched, Missing
    <3>2. r \notin hurt => (known[r] \ scope[r]) \cap Offered \subseteq view'[r]
      BY <2>1, <2>2, <3>1
    <3> QED BY <2>1, <3>2 DEF Fetched
  <2>5. r \notin hurt => Looked(r)'
    BY <1>0, <2>1 DEF Pipeline, Looked, Merged, Lasts, Lasting, Of
  <2>6. Translated(r)'
    BY <2>1 DEF Translated
  <2> QED BY <2>1, <2>3, <2>4, <2>5, <2>6 DEF Pipeline
<1>10. CASE Transform(r)
  <2>1. /\ pc[r] = "merged" /\ pc'[r] = "transform" /\ todo'[r] = Touched(view[r])
        /\ UNCHANGED <<scope, cached, known, view, hurt>>
    BY <1>10 DEF Transform, TypeOK, reading, history
  <2>2. Touched(view'[r]) \ todo'[r] = {}
    BY <2>1
  <2>3. Translated(r)'
    BY <2>1, <2>2 DEF Translated
  <2> QED BY <1>0, <2>1, <2>3 DEF Pipeline, Read, Looked, Fetched, Merged, Lasts, Lasting, Of
<1>11. CASE Return(r)
  <2>1. /\ pc[r] = "transform" /\ pc'[r] = "done" /\ todo[r] = {}
        /\ UNCHANGED <<scope, cached, known, view, resolved, hurt>>
    BY <1>11 DEF Return, TypeOK, reading, history
  <2>2. r \notin hurt => Translated(r)'
    <3>1. r \notin hurt =>
            \A ds \in Touched(view[r]) : view[r] \cap Lasts("attrs", ds) \subseteq resolved[r]
      BY <1>0, <2>1 DEF Pipeline, Translated
    <3> QED BY <2>1, <3>1 DEF Translated, Lasts, Lasting, Of
  <2> QED BY <1>0, <2>1, <2>2 DEF Pipeline, Read, Looked, Fetched, Merged, Lasts, Lasting, Of
<1>12. CASE Leave(r)
  <2>1. pc'[r] = "idle"
    BY <1>12 DEF Leave, TypeOK
  <2> QED BY <2>1 DEF Pipeline, Read, Looked, Fetched, Translated, Merged
<1> QED BY <1>1, <1>2, <1>3, <1>4, <1>5, <1>6, <1>7, <1>8, <1>9, <1>10, <1>11, <1>12 DEF Request

\* What a step of r leaves alone.
LEMMA RequestFrame ==
  ASSUME TypeOK, NEW r \in Req, Request(r), NEW q \in Req, q # r
  PROVE  /\ q \in hurt' <=> q \in hurt
         /\ pc'[q] = pc[q] /\ scope'[q] = scope[q] /\ cached'[q] = cached[q] /\ todo'[q] = todo[q]
         /\ known'[q] = known[q] /\ got'[q] = got[q] /\ view'[q] = view[q]
         /\ resolved'[q] = resolved[q]
<1> DEFINE Kept == /\ q \in hurt' <=> q \in hurt
                   /\ pc'[q] = pc[q] /\ scope'[q] = scope[q] /\ cached'[q] = cached[q]
                   /\ todo'[q] = todo[q] /\ known'[q] = known[q] /\ got'[q] = got[q]
                   /\ view'[q] = view[q] /\ resolved'[q] = resolved[q]
<1>1. ASSUME NEW ds \in DS, NEW fields, Found(r, ds, fields)
      PROVE  todo'[q] = todo[q] /\ known'[q] = known[q] /\ resolved'[q] = resolved[q]
  <2>1. CASE pc[r] = "schema"
    BY <1>1, <2>1 DEF Found, TypeOK
  <2>2. CASE pc[r] # "schema"
    BY <1>1, <2>2 DEF Found, TypeOK
  <2> QED BY <2>1, <2>2
<1>2. CASE Ask(r)
  BY <1>2 DEF Ask, TypeOK
<1>3. ASSUME NEW ds \in DS, LookupCached(r, ds)
      PROVE  Kept
  BY <1>1, <1>3 DEF LookupCached, history
<1>4. ASSUME NEW ds \in DS, LookupQuery(r, ds)
      PROVE  Kept
  BY <1>1, <1>4 DEF LookupQuery, history
<1>5. ASSUME NEW ds \in DS, LookupFails(r, ds)
      PROVE  Kept
  BY <1>1, <1>5 DEF LookupFails
<1>6. CASE Keep(r) \/ Extracted(r) \/ Transform(r) \/ Return(r)
  BY <1>6 DEF Keep, Extracted, Transform, Return, TypeOK, reading, history
<1>7. CASE FetchAnswered(r)
  BY <1>7 DEF FetchAnswered, TypeOK, reading
<1>8. CASE FetchFails(r)
  BY <1>8 DEF FetchFails, TypeOK, reading
<1>9. CASE Set(r)
  BY <1>9 DEF Set, TypeOK, reading
<1>10. CASE Leave(r)
  BY <1>10 DEF Leave, TypeOK
<1> QED BY <1>2, <1>3, <1>4, <1>5, <1>6, <1>7, <1>8, <1>9, <1>10 DEF Request

LEMMA Invariance == IInv /\ [Next]_vars => IInv'
<1> SUFFICES ASSUME IInv, [Next]_vars PROVE IInv'
  OBVIOUS
<1>1. Tables'
  BY NextTables
<1>2. ASSUME NEW r \in Req, Request(r)
      PROVE  IInv'
  <2>1. TypeOK'
    BY <1>2, RequestTypes
  <2>2. \A q \in Req : Pipeline(q)'
    <3>1. ASSUME NEW q \in Req, q # r
          PROVE  Pipeline(q)'
      <4>1. Pipeline(q) /\ TypeOK
        BY DEF IInv
      <4> QED BY <1>2, <3>1, <4>1, RequestFrame, Others
    <3> QED BY <1>2, <3>1, RequestPipeline
  <2> QED BY <1>1, <2>1, <2>2 DEF IInv
<1>3. CASE Expire \/ (\E row \in Row : Edit(row)) \/ UNCHANGED vars
  <2>1. TypeOK'
    BY <1>3, StoreTypes DEF IInv
  <2>2. UNCHANGED <<pc, scope, cached, known, todo, got, view, resolved, hurt>>
    BY <1>3 DEF Expire, Edit, vars, reading, history
  <2>3. \A q \in Req : Pipeline(q)'
    BY <2>2, Others DEF IInv
  <2> QED BY <1>1, <2>1, <2>3 DEF IInv
<1> QED BY <1>2, <1>3 DEF Next

LEMMA InitIInv == Init => IInv
<1> SUFFICES ASSUME Init PROVE IInv
  OBVIOUS
<1>1. Tables
  BY DEF Init, Tables
<1>2. \A r \in Req : Pipeline(r)
  BY DEF Init, Pipeline, Read, Looked, Fetched, Translated, Merged
<1> QED BY <1>1, <1>2, InitTypes DEF IInv

LEMMA AlwaysIInv == Spec => []IInv
BY InitIInv, Invariance, PTL DEF Spec

-----------------------------------------------------------------------------
\* Every state is well typed.
THEOREM Typed == Spec => []TypeOK
<1>1. IInv => TypeOK
  BY DEF IInv
<1> QED BY <1>1, AlwaysIInv, PTL

\* The caches of the process never hold the outcome of a failed query or of a
\* race, however many requests fill them at once.
THEOREM CachesReal == Spec => []MemoReal
<1>1. IInv => MemoReal
  BY DEF IInv, TypeOK, Tables, Contents, MemoReal
<1> QED BY <1>1, AlwaysIInv, PTL

\* A request keeps every attribute it read from Redis.
THEOREM KeepsWhatItRead == Spec => []NothingDropped
<1>1. IInv => NothingDropped
  BY DEF IInv, Pipeline, Read, Merged, NothingDropped
<1> QED BY <1>1, AlwaysIInv, PTL

\* A request none of whose calls failed hands the evaluator every field that
\* CLEN offers of the schemas its rules touch, but those the rules name:
\* whatever other requests write to Redis or keep in the caches, and whatever
\* is edited, as long as the field itself stays in both tables.
THEOREM ResolvesExtras == Spec => []ExtrasResolved
<1>1. ASSUME IInv, NEW r \in Req, Ended(r), r \notin hurt, NEW ds \in Touched(scope[r]),
             NEW field \in Lasting(<<"schema", ds>>) \cap Lasting(<<"attrs", ds>>),
             <<ds, field>> \in Offered \ scope[r]
      PROVE  <<ds, field>> \in resolved[r]
  <2>1. Looked(r) /\ Fetched(r) /\ Translated(r) /\ pc[r] = "done"
    BY <1>1 DEF IInv, Pipeline, Ended
  <2>2. <<ds, field>> \in Lasts("schema", ds) /\ <<ds, field>> \in Lasts("attrs", ds)
    BY DEF Lasts, Of
  <2>3. <<ds, field>> \in known[r]
    BY <2>1, <2>2 DEF Looked, Merged
  <2>4. <<ds, field>> \in view[r]
    BY <1>1, <2>1, <2>3 DEF Fetched, Merged
  <2>5. ds \in Touched(view[r])
    BY <2>4 DEF Touched
  <2> QED BY <2>1, <2>2, <2>4, <2>5 DEF Translated
<1>2. IInv => ExtrasResolved
  BY <1>1 DEF ExtrasResolved
<1> QED BY <1>2, AlwaysIInv, PTL
=============================================================================

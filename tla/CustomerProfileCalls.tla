------------------------ MODULE CustomerProfileCalls ------------------------
(***************************************************************************)
(* How often the requests for one customer call CLEN while nothing fails   *)
(* and their rules reference the same facts: at most once each, per life   *)
(* of the key, for any number of concurrent requests.                      *)
(*                                                                         *)
(* The key is empty or holds what the rules leave of the schemas (Key), so *)
(* only a request that read it empty can call.  Until an answer is written *)
(* the calls are those of requests about to write one (Setting), however   *)
(* often the key expired before; from then on the calls made and the       *)
(* requests that may still call (Waiting) are together no more than the    *)
(* requests (Counted).                                                     *)
(***************************************************************************)
EXTENDS CustomerProfileProofs, FiniteSetTheorems

\* The hypothesis of CallsBounded.
Steady ==
  /\ faults = 0 /\ Cardinality(asked) <= 1
  /\ \A ds \in DS : Served(ds) /\ <<"schema", ds>> \notin edited

\* What the schemas hold before any edit, and what of it the rules do not name.
SchemaOf(ds) == Of(ds, Before[<<"schema", ds>>])
Schemas(some) == UNION {SchemaOf(ds) : ds \in some}
Extra(s) == Schemas(Touched(s)) \ s

\* The caches hold a row that was not edited as it was.
Unedited ==
  /\ \A row \in Row \ edited : memo[row] \in {None, Before[row]}
  /\ \A r \in Req : loaded[r] # None /\ loaded[r].row \notin edited =>
                      loaded[r].fields = Before[loaded[r].row]

\* What is under the customer's key.
Key == envelope \in {{}} \cup {Extra(s) : s \in asked}

\* Requests that may call yet, and requests that called and have not written.
Waiting == {r \in Req : pc[r] \in {"schema", "fetch"} /\ cached[r] = {}}
Setting == {r \in Req : pc[r] = "set"}

\* What a request has found out at each stage.
Stage(r) ==
  /\ pc[r] \in {"schema", "fetch", "set"} => scope[r] \in asked
  /\ pc[r] = "idle" => known[r] = {}
  /\ pc[r] = "schema" =>
       /\ cached[r] \in {{}, Extra(scope[r])}
       /\ todo[r] \subseteq Touched(scope[r])
       /\ known[r] = Schemas(Touched(scope[r]) \ todo[r])
  /\ pc[r] = "fetch" => /\ cached[r] = {}
                        /\ known[r] = Schemas(Touched(scope[r]))
                        /\ Extra(scope[r]) # {}
  /\ pc[r] = "set" => got[r] = Extra(scope[r]) /\ got[r] # {}

Counted ==
  IF envelope = {} THEN calls <= Cardinality(Setting)
  ELSE calls + Cardinality(Waiting) <= Cardinality(Req)

\* The inductive invariant, above the one of CustomerProfileProofs.
CInv == IsFiniteSet(asked) /\ Unedited /\ (Steady => Key /\ (\A r \in Req : Stage(r)) /\ Counted)

-----------------------------------------------------------------------------
(* Counting requests *)

LEMMA Finite ==
  /\ Setting \in SUBSET Req /\ Waiting \in SUBSET Req /\ Setting \cap Waiting = {}
  /\ IsFiniteSet(Req) /\ Cardinality(Req) \in Nat
  /\ \A some \in SUBSET Req : /\ IsFiniteSet(some)
                             /\ Cardinality(some) \in Nat
                             /\ Cardinality(some) <= Cardinality(Req)
<1>1. Setting \in SUBSET Req /\ Waiting \in SUBSET Req /\ Setting \cap Waiting = {}
  BY DEF Setting, Waiting
<1>2. IsFiniteSet(Req) /\ Cardinality(Req) \in Nat
  BY ProfileAssumption, FS_CardinalityType
<1>3. ASSUME NEW some \in SUBSET Req
      PROVE  /\ IsFiniteSet(some)
             /\ Cardinality(some) \in Nat
             /\ Cardinality(some) <= Cardinality(Req)
  BY <1>2, FS_Subset, FS_CardinalityType
<1> QED BY <1>1, <1>2, <1>3

LEMMA CountEnter ==
  ASSUME NEW some \in SUBSET Req, NEW r \in Req, r \notin some
  PROVE  Cardinality(some \cup {r}) = Cardinality(some) + 1
BY Finite, FS_AddElement

LEMMA CountLeave ==
  ASSUME NEW some \in SUBSET Req, NEW r \in some
  PROVE  Cardinality(some \ {r}) = Cardinality(some) - 1
BY Finite, FS_RemoveElement

LEMMA CountApart == Cardinality(Setting) + Cardinality(Waiting) <= Cardinality(Req)
<1>1. IsFiniteSet(Setting) /\ IsFiniteSet(Waiting)
  BY Finite
<1>2. Cardinality(Setting \cup Waiting) =
        Cardinality(Setting) + Cardinality(Waiting) - Cardinality(Setting \cap Waiting)
  BY <1>1, FS_Union
<1>3. Cardinality(Setting \cap Waiting) = 0
  BY Finite, FS_EmptySet, FS_CardinalityType
<1>4. Cardinality(Setting \cup Waiting) <= Cardinality(Req)
  BY Finite
<1>5. Cardinality(Setting) \in Nat /\ Cardinality(Waiting) \in Nat
  BY Finite
<1> QED BY <1>2, <1>3, <1>4, <1>5

\* One scope asked for is every scope asked for.
LEMMA OneScope ==
  ASSUME NEW some, IsFiniteSet(some), Cardinality(some) <= 1, NEW s \in some, NEW t \in some
  PROVE  s = t
<1>1. Cardinality(some) \in Nat
  BY FS_CardinalityType
<1>2. Cardinality(some) # 0
  BY FS_EmptySet
<1>3. Cardinality(some) = 1
  BY <1>1, <1>2
<1>4. PICK x : some = {x}
  BY <1>3, FS_Singleton
<1> QED BY <1>4

-----------------------------------------------------------------------------
(* What holds whether or not something failed *)

LEMMA Grows ==
  ASSUME IInv, [Next]_vars
  PROVE  /\ asked \subseteq asked' /\ (IsFiniteSet(asked) => IsFiniteSet(asked'))
         /\ edited \subseteq edited'
         /\ faults \in Nat /\ faults' \in {faults, faults + 1}
<1> DEFINE Kept == asked' = asked /\ edited' = edited /\ faults' \in {faults, faults + 1}
<1>0. faults \in Nat
  BY ProfileAssumption DEF IInv, TypeOK
<1>1. ASSUME Kept
      PROVE  asked \subseteq asked' /\ (IsFiniteSet(asked) => IsFiniteSet(asked')) /\ edited \subseteq edited'
  BY <1>1
<1>2. ASSUME NEW r \in Req, Ask(r)
      PROVE  /\ asked \subseteq asked' /\ (IsFiniteSet(asked) => IsFiniteSet(asked'))
             /\ edited' = edited /\ faults' \in {faults, faults + 1}
  <2>1. PICK s \in Scopes : asked' = asked \cup {s}
    BY <1>2 DEF Ask
  <2>2. IsFiniteSet(asked) => IsFiniteSet(asked')
    BY <2>1, FS_AddElement
  <2> QED BY <1>2, <2>1, <2>2 DEF Ask, store, Fault
<1>3. ASSUME NEW r \in Req, NEW ds \in DS,
             LookupCached(r, ds) \/ LookupQuery(r, ds) \/ LookupFails(r, ds)
      PROVE  Kept
  BY <1>3 DEF LookupCached, LookupQuery, LookupFails, store, history, Fault
<1>4. ASSUME NEW r \in Req, Keep(r) \/ Extracted(r) \/ Transform(r) \/ Return(r) \/ Leave(r)
      PROVE  Kept
  BY <1>4 DEF Keep, Extracted, Transform, Return, Leave, store, history
<1>5. ASSUME NEW r \in Req, FetchAnswered(r) \/ FetchFails(r) \/ Set(r)
      PROVE  Kept
  BY <1>5 DEF FetchAnswered, FetchFails, Set, store, Fault
<1>6. CASE Expire \/ UNCHANGED vars
  BY <1>0, <1>6 DEF Expire, vars, store, history
<1>7. ASSUME NEW row \in Row, Edit(row)
      PROVE  edited \subseteq edited' /\ asked' = asked /\ faults' = faults
  BY <1>7 DEF Edit, history
<1> QED BY <1>0, <1>1, <1>2, <1>3, <1>4, <1>5, <1>6, <1>7 DEF Next, Request

LEMMA StaysSteady ==
  ASSUME IInv, IsFiniteSet(asked), [Next]_vars, Steady'
  PROVE  Steady /\ faults' = faults
<1>1. faults = 0 /\ faults' = 0
  BY Grows DEF Steady
<1>2. Cardinality(asked) <= 1
  <2>1. IsFiniteSet(asked') /\ asked \subseteq asked'
    BY Grows
  <2>2. Cardinality(asked) <= Cardinality(asked') /\ Cardinality(asked) \in Nat /\ Cardinality(asked') \in Nat
    BY <2>1, FS_Subset, FS_CardinalityType
  <2> QED BY <2>2 DEF Steady
<1>3. \A ds \in DS : Served(ds) /\ <<"schema", ds>> \notin edited
  BY Grows DEF Steady, Served
<1> QED BY <1>1, <1>2, <1>3 DEF Steady

\* A row that was not edited is in no cache but as it was.
LEMMA NextUnedited ==
  ASSUME IInv, Unedited, [Next]_vars
  PROVE  Unedited'
<1> USE DEF IInv
<1>0. edited \subseteq edited'
  BY Grows
<1>1. ASSUME UNCHANGED <<memo, loaded>>
      PROVE  Unedited'
  BY <1>0, <1>1 DEF Unedited
<1>2. ASSUME NEW r \in Req, NEW ds \in DS, LookupQuery(r, ds)
      PROVE  Unedited'
  <2>1. /\ memo' = memo /\ edited' = edited
        /\ loaded' = [loaded EXCEPT ![r] = [row |-> <<TableOf(r), ds>>,
                                           fields |-> Held(<<TableOf(r), ds>>)]]
    BY <1>2 DEF LookupQuery, store
  <2>2. \A q \in Req : loaded'[q] # None /\ loaded'[q].row \notin edited' =>
                        loaded'[q].fields = Before[loaded'[q].row]
    BY <2>1 DEF Unedited, TypeOK, Held
  <2> QED BY <2>1, <2>2 DEF Unedited
<1>3. ASSUME NEW r \in Req, Keep(r)
      PROVE  Unedited'
  <2>1. /\ memo' = [memo EXCEPT ![loaded[r].row] = loaded[r].fields] /\ loaded[r] # None
        /\ loaded' = [loaded EXCEPT ![r] = None] /\ edited' = edited
    BY <1>3 DEF Keep
  <2>2. loaded[r].row \in Row
    BY <2>1 DEF TypeOK
  <2>3. \A row \in Row \ edited' : memo'[row] \in {None, Before[row]}
    BY <2>1, <2>2 DEF Unedited, TypeOK
  <2>4. \A q \in Req : loaded'[q] # None /\ loaded'[q].row \notin edited' =>
                        loaded'[q].fields = Before[loaded'[q].row]
    BY <2>1 DEF Unedited, TypeOK
  <2> QED BY <2>3, <2>4 DEF Unedited
<1>4. ASSUME NEW r \in Req, Request(r)
      PROVE  Unedited'
  <2>1. CASE Ask(r) BY <1>1, <2>1 DEF Ask, store
  <2>2. ASSUME NEW ds \in DS, LookupCached(r, ds) \/ LookupFails(r, ds)
        PROVE  Unedited'
    BY <1>1, <2>2 DEF LookupCached, LookupFails, store
  <2>3. CASE Extracted(r) BY <1>1, <2>3 DEF Extracted, store
  <2>4. CASE FetchAnswered(r) \/ FetchFails(r)
    BY <1>1, <2>4 DEF FetchAnswered, FetchFails, store
  <2>5. CASE Set(r) BY <1>1, <2>5 DEF Set
  <2>6. CASE Transform(r) \/ Return(r) \/ Leave(r)
    BY <1>1, <2>6 DEF Transform, Return, Leave, store
  <2> QED BY <1>2, <1>3, <1>4, <2>1, <2>2, <2>3, <2>4, <2>5, <2>6 DEF Request
<1>5. CASE Expire \/ (\E row \in Row : Edit(row)) \/ UNCHANGED vars
  BY <1>1, <1>5 DEF Expire, Edit, vars, store
<1> QED BY <1>4, <1>5 DEF Next

-----------------------------------------------------------------------------
(* The stages of the requests, while nothing fails *)

LEMMA StageKept ==
  ASSUME NEW q \in Req, Stage(q), asked \subseteq asked',
         pc'[q] = pc[q], scope'[q] = scope[q], cached'[q] = cached[q], todo'[q] = todo[q],
         known'[q] = known[q], got'[q] = got[q]
  PROVE  Stage(q)'
BY DEF Stage, Extra, Schemas, SchemaOf, Of, Touched

\* What is said of a steady state but the count of calls.
Staged == Key /\ \A r \in Req : Stage(r)

\* A request finds the schema of one more datasource as it was before any edit.
LEMMA FoundStage ==
  ASSUME TypeOK, Steady, Staged, asked' = asked, NEW r \in Req, NEW ds \in DS, NEW fields,
         LookingUp(r, ds), Found(r, ds, fields),
         pc[r] = "schema" => fields = Before[<<"schema", ds>>],
         UNCHANGED <<pc, scope, cached, got>>
  PROVE  Stage(r)'
<1>1. todo'[r] = todo[r] \ {ds} /\ ds \in todo[r]
  BY DEF Found, LookingUp, TypeOK
<1>2. CASE pc[r] = "schema"
  <2>1. known'[r] = known[r] \cup SchemaOf(ds)
    BY <1>2 DEF Found, TypeOK, SchemaOf
  <2>2. Stage(r)
    BY DEF Staged
  <2>3. /\ scope[r] \in asked /\ cached[r] \in {{}, Extra(scope[r])}
        /\ todo[r] \subseteq Touched(scope[r])
        /\ known[r] = Schemas(Touched(scope[r]) \ todo[r])
    BY <1>2, <2>2 DEF Stage
  <2>4. Touched(scope[r]) \ todo'[r] = (Touched(scope[r]) \ todo[r]) \cup {ds}
    BY <1>1, <2>3
  <2>5. known'[r] = Schemas(Touched(scope[r]) \ todo'[r])
    BY <2>1, <2>3, <2>4 DEF Schemas
  <2>6. todo'[r] \subseteq Touched(scope[r])
    BY <1>1, <2>3
  <2>7. /\ pc'[r] = "schema" /\ scope'[r] \in asked' /\ todo'[r] \subseteq Touched(scope'[r])
        /\ cached'[r] \in {{}, Extra(scope'[r])} /\ known'[r] = Schemas(Touched(scope'[r]) \ todo'[r])
    BY <1>2, <2>3, <2>5, <2>6
  <2> QED BY <2>7 DEF Stage, Extra, Schemas, SchemaOf, Of, Touched
<1>3. CASE pc[r] = "transform"
  BY <1>3 DEF Stage
<1> QED BY <1>2, <1>3 DEF LookingUp

\* Missing is all of the rest of the schema, or nothing.
LEMMA MissingIs ==
  ASSUME NEW r \in Req, known[r] = Schemas(Touched(scope[r])), cached[r] \in {{}, Extra(scope[r])}
  PROVE  Missing(r) = IF cached[r] = {} THEN Extra(scope[r]) ELSE {}
BY DEF Missing, Extra

LEMMA RequestStage ==
  ASSUME IInv, Unedited, IsFiniteSet(asked), Steady, Steady', Staged, faults' = faults,
         NEW r \in Req, Request(r), asked \subseteq asked'
  PROVE  Stage(r)' /\ Key'
<1> USE DEF IInv
<1>0. ~Fault /\ Stage(r) /\ faults = 0
  BY DEF Fault, Staged, Steady
<1>k. ASSUME envelope' = envelope
      PROVE  Key'
  BY <1>k DEF Staged, Key, Extra, Schemas, SchemaOf, Of, Touched
<1>1. CASE Ask(r)
  <2>1. PICK s \in Scopes : /\ scope' = [scope EXCEPT ![r] = s]
                            /\ todo' = [todo EXCEPT ![r] = Touched(s)]
                            /\ asked' = asked \cup {s}
    BY <1>1 DEF Ask
  <2>2. /\ pc[r] = "idle" /\ pc'[r] = "schema" /\ scope'[r] = s /\ todo'[r] = Touched(s)
        /\ cached'[r] = envelope /\ known'[r] = {} /\ envelope' = envelope
    BY <1>0, <1>1, <2>1 DEF Ask, TypeOK, Stage, store
  <2>3. s \in asked' /\ \A t \in asked' : t = s
    <3>1. IsFiniteSet(asked') /\ s \in asked'
      BY <2>1, FS_AddElement
    <3>2. Cardinality(asked') <= 1
      BY DEF Steady
    <3> QED BY <3>1, <3>2, OneScope
  <2>4. envelope \in {{}, Extra(s)}
    BY <2>1, <2>3 DEF Staged, Key
  <2>5. Touched(s) \ todo'[r] = {}
    BY <2>2
  <2>6. known'[r] = Schemas(Touched(s) \ todo'[r])
    BY <2>2, <2>5 DEF Schemas
  <2>7. Stage(r)'
    BY <2>2, <2>3, <2>4, <2>6 DEF Stage, Extra, Schemas, SchemaOf, Of, Touched
  <2> QED BY <1>k, <2>2, <2>7
<1>2. ASSUME NEW ds \in DS, LookupCached(r, ds)
      PROVE  Stage(r)' /\ Key'
  <2>1. <<"schema", ds>> \in Row \ edited
    BY DEF Row, Table, Steady
  <2>2. pc[r] = "schema" => memo[<<TableOf(r), ds>>] = Before[<<"schema", ds>>]
    BY <1>2, <2>1 DEF LookupCached, TableOf, Unedited
  <2>3. /\ LookingUp(r, ds) /\ Found(r, ds, memo[<<TableOf(r), ds>>]) /\ asked' = asked
        /\ UNCHANGED <<pc, scope, cached, got, envelope>>
    BY <1>2 DEF LookupCached, history, store
  <2> QED BY <1>k, <2>2, <2>3, FoundStage
<1>3. ASSUME NEW ds \in DS, LookupQuery(r, ds)
      PROVE  Stage(r)' /\ Key'
  <2>1. <<"schema", ds>> \in Row \ edited
    BY DEF Row, Table, Steady
  <2>2. pc[r] = "schema" => Held(<<TableOf(r), ds>>) = Before[<<"schema", ds>>]
    BY <2>1 DEF TableOf, Held
  <2>3. /\ LookingUp(r, ds) /\ Found(r, ds, Held(<<TableOf(r), ds>>)) /\ asked' = asked
        /\ UNCHANGED <<pc, scope, cached, got, envelope>>
    BY <1>3 DEF LookupQuery, history, store
  <2> QED BY <1>k, <2>2, <2>3, FoundStage
<1>4. ASSUME NEW ds \in DS, LookupFails(r, ds)
      PROVE  FALSE
  BY <1>0, <1>4 DEF LookupFails, Fault
<1>5. CASE Keep(r)
  BY <1>0, <1>5, <1>k, StageKept DEF Keep, reading, history
<1>6. CASE Extracted(r)
  <2>1. /\ pc[r] = "schema" /\ todo[r] = {}
        /\ pc'[r] = IF Missing(r) = {} THEN "merged" ELSE "fetch"
        /\ UNCHANGED <<scope, cached, known, asked, envelope>>
    BY <1>6 DEF Extracted, TypeOK, reading, history, store
  <2>2. /\ scope[r] \in asked /\ cached[r] \in {{}, Extra(scope[r])}
        /\ known[r] = Schemas(Touched(scope[r]))
    BY <1>0, <2>1 DEF Stage
  <2>3. Missing(r) = IF cached[r] = {} THEN Extra(scope[r]) ELSE {}
    BY <2>2, MissingIs
  <2>4. Stage(r)'
    BY <2>1, <2>2, <2>3 DEF Stage, Extra, Schemas, SchemaOf, Of, Touched
  <2> QED BY <1>k, <2>1, <2>4
<1>7. CASE FetchAnswered(r)
  <2>1. PICK answering \in SUBSET Touched(Missing(r)) :
          /\ got' = [got EXCEPT ![r] = {fact \in Missing(r) \cap Offered : fact[1] \in answering}]
          /\ answering = Touched(Missing(r))
    BY <1>0, <1>7 DEF FetchAnswered
  <2>2. /\ pc[r] = "fetch" /\ pc'[r] = "set"
        /\ UNCHANGED <<scope, asked, envelope>>
    BY <1>7 DEF FetchAnswered, TypeOK, reading, store
  <2>3. /\ scope[r] \in asked /\ cached[r] = {} /\ Extra(scope[r]) # {}
        /\ known[r] = Schemas(Touched(scope[r]))
    BY <1>0, <2>2 DEF Stage
  <2>4. Missing(r) = Extra(scope[r])
    BY <2>3, MissingIs
  <2>5. Extra(scope[r]) \subseteq Offered
    <3>1. Touched(scope[r]) \subseteq DS
      BY TouchedDS DEF TypeOK
    <3>2. ASSUME NEW ds \in DS
          PROVE  SchemaOf(ds) \subseteq Offered
      BY DEF Steady, Served, SchemaOf, Of
    <3> QED BY <3>1, <3>2 DEF Extra, Schemas
  <2>6. got'[r] = Extra(scope[r])
    BY <2>1, <2>4, <2>5 DEF TypeOK, Touched
  <2>7. Stage(r)'
    BY <2>2, <2>3, <2>6 DEF Stage, Extra, Schemas, SchemaOf, Of, Touched
  <2> QED BY <1>k, <2>2, <2>7
<1>8. CASE FetchFails(r)
  BY <1>0, <1>8 DEF FetchFails
<1>9. CASE Set(r)
  <2>1. /\ pc[r] = "set" /\ pc'[r] = "merged" /\ envelope' = got[r] /\ asked' = asked
    BY <1>0, <1>9 DEF Set, TypeOK
  <2>2. scope[r] \in asked /\ got[r] = Extra(scope[r])
    BY <1>0, <2>1 DEF Stage
  <2>3. Key'
    BY <2>1, <2>2 DEF Key, Extra, Schemas, SchemaOf, Of, Touched
  <2> QED BY <2>1, <2>3 DEF Stage
<1>10. CASE Transform(r) \/ Return(r)
  <2>1. /\ pc[r] \in {"merged", "transform"} /\ pc'[r] \in {"transform", "done"}
        /\ envelope' = envelope
    BY <1>10 DEF Transform, Return, TypeOK, store
  <2> QED BY <1>k, <2>1 DEF Stage
<1>11. CASE Leave(r)
  <2>1. pc'[r] = "idle" /\ known'[r] = {} /\ envelope' = envelope
    BY <1>11 DEF Leave, TypeOK, store
  <2> QED BY <1>k, <2>1 DEF Stage
<1> QED BY <1>1, <1>2, <1>3, <1>4, <1>5, <1>6, <1>7, <1>8, <1>9, <1>10, <1>11 DEF Request

-----------------------------------------------------------------------------
(* The calls *)

LEMMA CountKept ==
  ASSUME TypeOK, Counted, envelope' = envelope, calls' = calls, Setting' = Setting,
         Waiting' \subseteq Waiting
  PROVE  Counted'
<1>1. Cardinality(Waiting') <= Cardinality(Waiting) /\ Cardinality(Waiting) \in Nat
      /\ Cardinality(Waiting') \in Nat
  <2>1. IsFiniteSet(Waiting) /\ Cardinality(Waiting) \in Nat
    BY Finite
  <2>2. IsFiniteSet(Waiting') /\ Cardinality(Waiting') <= Cardinality(Waiting)
    BY <2>1, FS_Subset
  <2> QED BY <2>1, <2>2, FS_CardinalityType
<1>2. calls \in Nat /\ Cardinality(Req) \in Nat
  BY Finite, ProfileAssumption DEF TypeOK
<1> QED BY <1>1, <1>2 DEF Counted

LEMMA RequestCounted ==
  ASSUME IInv, Steady, Staged, Counted, faults' = faults, NEW r \in Req, Request(r),
         (Stage(r) /\ Key)'
  PROVE  Counted'
<1> USE DEF IInv
<1>0. /\ ~Fault /\ Stage(r)
      /\ calls \in Nat /\ Cardinality(Req) \in Nat
      /\ Cardinality(Setting) \in Nat /\ Cardinality(Waiting) \in Nat
  BY Finite, ProfileAssumption DEF Fault, Staged, Steady, TypeOK
<1>1. \A q \in Req \ {r} : pc'[q] = pc[q] /\ cached'[q] = cached[q]
  BY RequestFrame
<1>2. ASSUME envelope' = envelope, calls' = calls,
             pc'[r] = "set" <=> pc[r] = "set",
             pc'[r] \in {"schema", "fetch"} /\ cached'[r] = {} =>
               pc[r] \in {"schema", "fetch"} /\ cached[r] = {}
      PROVE  Counted'
  <2>1. Setting' = Setting /\ Waiting' \subseteq Waiting
    BY <1>1, <1>2 DEF Setting, Waiting
  <2> QED BY <1>2, <2>1, CountKept
<1>3. CASE Ask(r)
  <2>1. /\ pc[r] = "idle" /\ pc'[r] = "schema" /\ cached'[r] = envelope
        /\ envelope' = envelope /\ calls' = calls
    BY <1>0, <1>3 DEF Ask, TypeOK, store
  <2>2. CASE envelope = {}
    <3>1. Setting' = Setting
      BY <1>1, <2>1 DEF Setting
    <3> QED BY <2>1, <2>2, <3>1 DEF Counted
  <2>3. CASE envelope # {}
    BY <1>2, <2>1, <2>3
  <2> QED BY <2>2, <2>3
<1>4. ASSUME NEW ds \in DS, LookupCached(r, ds) \/ LookupQuery(r, ds)
      PROVE  Counted'
  BY <1>2, <1>4 DEF LookupCached, LookupQuery, store, history
<1>5. ~FetchFails(r) /\ \A ds \in DS : ~LookupFails(r, ds)
  BY <1>0 DEF LookupFails, FetchFails
<1>6. CASE Keep(r)
  BY <1>2, <1>6 DEF Keep, reading, history
<1>7. CASE Extracted(r)
  <2>1. /\ pc[r] = "schema" /\ pc'[r] \in {"merged", "fetch"} /\ cached' = cached
        /\ envelope' = envelope /\ calls' = calls
    BY <1>7 DEF Extracted, TypeOK, reading, store, history
  <2> QED BY <1>2, <2>1
<1>8. CASE FetchAnswered(r)
  <2>1. /\ pc[r] = "fetch" /\ pc'[r] = "set" /\ cached' = cached /\ envelope' = envelope
        /\ calls' \in Nat /\ calls' <= calls + 1
    BY <1>0, <1>8 DEF FetchAnswered, TypeOK, reading, store, Call
  <2>2. cached[r] = {}
    BY <1>0, <2>1 DEF Stage
  <2>3. CASE envelope = {}
    <3>1. Setting' = Setting \cup {r} /\ r \notin Setting
      BY <1>1, <2>1 DEF Setting
    <3>2. Cardinality(Setting') = Cardinality(Setting) + 1
      BY <3>1, CountEnter, Finite
    <3> QED BY <1>0, <2>1, <2>3, <3>2 DEF Counted
  <2>4. CASE envelope # {}
    <3>1. Waiting' = Waiting \ {r} /\ r \in Waiting
      BY <1>1, <2>1, <2>2 DEF Waiting
    <3>2. Cardinality(Waiting') = Cardinality(Waiting) - 1
      BY <3>1, CountLeave, Finite
    <3> QED BY <1>0, <2>1, <2>4, <3>2 DEF Counted
  <2> QED BY <2>3, <2>4
<1>9. CASE Set(r)
  <2>1. /\ pc[r] = "set" /\ pc'[r] = "merged" /\ cached' = cached /\ envelope' = got[r]
        /\ calls' = calls
    BY <1>0, <1>9 DEF Set, TypeOK, reading
  <2>2. envelope' # {}
    BY <1>0, <2>1 DEF Stage
  <2>3. Waiting' = Waiting
    BY <1>1, <2>1 DEF Waiting
  <2>4. calls + Cardinality(Waiting) <= Cardinality(Req)
    BY <1>0, CountApart DEF Counted
  <2> QED BY <2>1, <2>2, <2>3, <2>4 DEF Counted
<1>10. CASE Transform(r) \/ Return(r) \/ Leave(r)
  <2>1. /\ pc[r] \notin {"set"} /\ pc'[r] \notin {"schema", "fetch", "set"}
        /\ envelope' = envelope /\ calls' = calls
    BY <1>10 DEF Transform, Return, Leave, TypeOK, store, history
  <2> QED BY <1>2, <2>1
<1> QED BY <1>3, <1>4, <1>5, <1>6, <1>7, <1>8, <1>9, <1>10 DEF Request

LEMMA NextCInv == IInv /\ CInv /\ [Next]_vars => CInv'
<1> SUFFICES ASSUME IInv, CInv, [Next]_vars PROVE CInv'
  OBVIOUS
<1>1. IsFiniteSet(asked') /\ Unedited' /\ asked \subseteq asked'
  BY Grows, NextUnedited DEF CInv
<1>2. ASSUME Steady'
      PROVE  Staged' /\ Counted'
  <2>1. Steady /\ faults' = faults
    BY <1>2, StaysSteady DEF CInv
  <2>2. Staged /\ Counted /\ Unedited /\ IsFiniteSet(asked) /\ TypeOK
    BY <2>1 DEF CInv, Staged, IInv
  <2>3. ASSUME NEW r \in Req, Request(r)
        PROVE  Staged' /\ Counted'
    <3>1. Stage(r)' /\ Key'
      BY <1>1, <1>2, <2>1, <2>2, <2>3, RequestStage
    <3>2. ASSUME NEW q \in Req, q # r
          PROVE  Stage(q)'
      <4>1. Stage(q)
        BY <2>2 DEF Staged
      <4> QED BY <1>1, <2>2, <2>3, <3>2, <4>1, RequestFrame, StageKept
    <3>3. Counted'
      BY <2>1, <2>2, <2>3, <3>1, RequestCounted
    <3> QED BY <3>1, <3>2, <3>3 DEF Staged
  <2>4. CASE Expire \/ (\E row \in Row : Edit(row)) \/ UNCHANGED vars
    <3>1. /\ UNCHANGED <<pc, scope, cached, known, todo, got, asked>>
          /\ \/ envelope' = {} /\ calls' = 0
             \/ envelope' = envelope /\ calls' = calls
      BY <2>4 DEF Expire, Edit, vars, store, reading, history
    <3>2. \A q \in Req : Stage(q)'
      <4>1. \A q \in Req : Stage(q)
        BY <2>2 DEF Staged
      <4> QED BY <3>1, <4>1, StageKept
    <3>3. Key'
      BY <2>2, <3>1 DEF Staged, Key, Extra, Schemas, SchemaOf, Of, Touched
    <3>4. Counted'
      <4>1. Setting' = Setting /\ Waiting' = Waiting /\ Cardinality(Setting) \in Nat
        BY <3>1, Finite DEF Setting, Waiting
      <4> QED BY <2>2, <3>1, <4>1 DEF Counted
    <3> QED BY <3>2, <3>3, <3>4 DEF Staged
  <2> QED BY <2>3, <2>4 DEF Next
<1> QED BY <1>1, <1>2 DEF CInv, Staged

LEMMA InitCInv == Init => CInv
<1> SUFFICES ASSUME Init PROVE CInv
  OBVIOUS
<1>1. IsFiniteSet(asked)
  BY FS_EmptySet DEF Init
<1>2. Unedited
  BY DEF Init, Unedited
<1>3. Key /\ \A r \in Req : Stage(r)
  BY DEF Init, Key, Stage
<1>4. Counted
  BY Finite DEF Init, Counted
<1> QED BY <1>1, <1>2, <1>3, <1>4 DEF CInv

\* While every request has the same scope and nothing failed, CLEN is called at
\* most once by each concurrent request per life of the key, for any number of
\* requests and any schemas: a request that calls either started before the key
\* was written, or found it expired.
THEOREM CallsAreBounded == Spec => []CallsBounded
<1>1. IInv /\ CInv => CallsBounded
  <2> SUFFICES ASSUME IInv, CInv, Steady PROVE calls <= Cardinality(Req)
    BY DEF CallsBounded, Steady
  <2>1. /\ Cardinality(Setting) \in Nat /\ Cardinality(Waiting) \in Nat
        /\ Cardinality(Setting) <= Cardinality(Req) /\ Cardinality(Req) \in Nat
    BY Finite
  <2>2. calls \in Nat
    BY ProfileAssumption DEF IInv, TypeOK
  <2> QED BY <2>1, <2>2 DEF CInv, Counted
<1> QED BY <1>1, AlwaysIInv, InitCInv, NextCInv, PTL DEF Spec
=============================================================================

--------------------------- MODULE DeliveryProofs ---------------------------
(***************************************************************************)
(* The semaphore of module Delivery, for any number of requests and slots: *)
(* what a request does after it got its slot is irrelevant as long as it   *)
(* gives the slot back in the step that answers it, so the proof splits    *)
(* the steps into taking a slot, giving it back, and the rest (Quiet).     *)
(***************************************************************************)
EXTENDS Delivery, FiniteSetTheorems, TLAPS

Semaphore ==
  /\ slots \in Nat
  /\ waiting \in Seq(Req)
  /\ pc \in [Req -> Stages]
  /\ SlotsAccounted

\* Steps that move no request into or out of the semaphore or its queue.
LEMMA Quiet ==
  ASSUME Semaphore, UNCHANGED <<slots, waiting>>, pc' \in [Req -> Stages],
         \A p \in Req : /\ pc'[p] \in Holding <=> pc[p] \in Holding
                        /\ pc'[p] = "waiting" <=> pc[p] = "waiting"
  PROVE  Semaphore'
<1>1. Holders' = Holders
  BY DEF Holders
<1>2. {r \in Req : pc'[r] = "waiting"} = {r \in Req : pc[r] = "waiting"}
  OBVIOUS
<1> QED BY <1>1, <1>2 DEF Semaphore, SlotsAccounted, IsInjective, Range

LEMMA HoldersFinite == IsFiniteSet(Holders)
<1>1. Holders \subseteq Req
  BY DEF Holders
<1> QED BY <1>1, DeliveryAssumption, FS_Subset

\* ConcurrencyMiddleware: both cases of the select.
LEMMA Acquiring ==
  ASSUME Semaphore, NEW r \in Req, Acquire(r)
  PROVE  Semaphore'
<1>1. CASE slots < MCR
  <2>1. /\ slots' = slots + 1 /\ waiting' = waiting
        /\ pc' = [pc EXCEPT ![r] = "bind"] /\ pc[r] = "arrived"
    BY <1>1 DEF Acquire
  <2>2. pc' \in [Req -> Stages]
    BY <2>1 DEF Semaphore, Stages, Holding
  <2>3. Holders' = Holders \cup {r} /\ r \notin Holders
    BY <2>1 DEF Holders, Holding, Semaphore
  <2>4. Cardinality(Holders') = Cardinality(Holders) + 1
    BY <2>3, HoldersFinite, FS_AddElement
  <2>5. {p \in Req : pc'[p] = "waiting"} = {p \in Req : pc[p] = "waiting"}
    BY <2>1 DEF Semaphore
  <2>6. waiting = <<>>
    BY <1>1, DeliveryAssumption DEF Semaphore, SlotsAccounted
  <2>7. slots' = Cardinality(Holders') /\ slots' <= MCR /\ slots' \in Nat
    BY <1>1, <2>1, <2>4, DeliveryAssumption DEF Semaphore, SlotsAccounted
  <2> QED BY <2>1, <2>2, <2>5, <2>6, <2>7 DEF Semaphore, SlotsAccounted, IsInjective, Range
<1>2. CASE ~(slots < MCR)
  <2>1. /\ slots' = slots /\ waiting' = Append(waiting, r)
        /\ pc' = [pc EXCEPT ![r] = "waiting"] /\ pc[r] = "arrived"
    BY <1>2 DEF Acquire
  <2>2. pc' \in [Req -> Stages]
    BY <2>1 DEF Semaphore, Stages
  <2>3. Holders' = Holders
    BY <2>1 DEF Holders, Holding, Semaphore
  <2>4. slots = MCR
    BY <1>2, DeliveryAssumption DEF Semaphore, SlotsAccounted
  <2>5. {p \in Req : pc'[p] = "waiting"} = {p \in Req : pc[p] = "waiting"} \cup {r}
    BY <2>1 DEF Semaphore
  <2>6. r \notin Range(waiting)
    BY <2>1 DEF Semaphore, SlotsAccounted
  <2>7. /\ waiting' \in Seq(Req) /\ Len(waiting') = Len(waiting) + 1
        /\ DOMAIN waiting' = 1..(Len(waiting) + 1) /\ DOMAIN waiting = 1..Len(waiting)
        /\ waiting'[Len(waiting) + 1] = r
        /\ \A i \in 1..Len(waiting) : waiting'[i] = waiting[i]
    BY <2>1 DEF Semaphore
  <2>8. Range(waiting') = Range(waiting) \cup {r}
    BY <2>7 DEF Range, Semaphore
  <2>9. IsInjective(waiting')
    <3>1. SUFFICES ASSUME NEW i \in DOMAIN waiting', NEW j \in DOMAIN waiting',
                          waiting'[i] = waiting'[j]
                   PROVE  i = j
      BY DEF IsInjective
    <3>2. IsInjective(waiting) /\ Len(waiting) \in Nat
      BY DEF Semaphore, SlotsAccounted
    <3>3. \A k \in 1..Len(waiting) : waiting[k] # r
      BY <2>6, <2>7 DEF Range
    <3>4. CASE i \in 1..Len(waiting) /\ j \in 1..Len(waiting)
      BY <2>7, <3>1, <3>2, <3>4 DEF IsInjective
    <3>5. CASE i = Len(waiting) + 1 \/ j = Len(waiting) + 1
      BY <2>7, <3>1, <3>2, <3>3, <3>5
    <3> QED BY <2>7, <3>2, <3>4, <3>5
  <2>10. Range(waiting') = {p \in Req : pc'[p] = "waiting"}
    BY <2>5, <2>8 DEF Semaphore, SlotsAccounted
  <2> QED BY <2>1, <2>2, <2>3, <2>4, <2>7, <2>9, <2>10 DEF Semaphore, SlotsAccounted
<1> QED BY <1>1, <1>2

\* The deferred receive, with and without a blocked sender.
LEMMA Releasing ==
  ASSUME Semaphore, NEW r \in Req, pc[r] \in Holding, Release(r)
  PROVE  Semaphore'
<1>0. r \in Holders /\ Cardinality(Holders) \in Nat /\ Cardinality(Holders) > 0
  <2>1. r \in Holders
    BY DEF Holders
  <2> QED BY <2>1, HoldersFinite, FS_CardinalityType, FS_EmptySet
<1>1. CASE waiting = <<>>
  <2>1. slots' = slots - 1 /\ waiting' = waiting /\ pc' = [pc EXCEPT ![r] = "idle"]
    BY <1>1 DEF Release
  <2>2. pc' \in [Req -> Stages]
    BY <2>1 DEF Semaphore, Stages
  <2>3. Holders' = Holders \ {r}
    BY <2>1 DEF Holders, Holding, Semaphore
  <2>4. Cardinality(Holders') = Cardinality(Holders) - 1
    BY <1>0, <2>3, HoldersFinite, FS_RemoveElement
  <2>5. {p \in Req : pc'[p] = "waiting"} = {p \in Req : pc[p] = "waiting"}
    BY <2>1 DEF Semaphore, Holding
  <2>6. slots' = Cardinality(Holders') /\ slots' <= MCR /\ slots' \in Nat
    BY <1>0, <2>1, <2>4, DeliveryAssumption DEF Semaphore, SlotsAccounted
  <2> QED BY <1>1, <2>1, <2>2, <2>5, <2>6 DEF Semaphore, SlotsAccounted, IsInjective, Range
<1>2. CASE waiting # <<>>
  <2> DEFINE h == Head(waiting)
  <2>1. /\ slots' = slots /\ waiting' = Tail(waiting)
        /\ pc' = [pc EXCEPT ![r] = "idle", ![h] = "bind"]
    BY <1>2 DEF Release
  <2>2. /\ waiting' \in Seq(Req) /\ Len(waiting) \in Nat \ {0}
        /\ DOMAIN waiting = 1..Len(waiting) /\ DOMAIN waiting' = 1..(Len(waiting) - 1)
        /\ \A i \in 1..(Len(waiting) - 1) : waiting'[i] = waiting[i + 1]
        /\ h = waiting[1] /\ h \in Req
    BY <1>2, <2>1 DEF Semaphore
  <2>3. IsInjective(waiting) /\ Range(waiting) = {p \in Req : pc[p] = "waiting"}
    BY DEF Semaphore, SlotsAccounted
  <2>4. pc[h] = "waiting" /\ h # r /\ h \notin Holders
    <3>1. h \in Range(waiting)
      BY <2>2 DEF Range
    <3> QED BY <2>3, <3>1 DEF Holding, Holders
  <2>5. pc' \in [Req -> Stages]
    BY <2>1, <2>2 DEF Semaphore, Stages, Holding
  <2>6. Holders' = (Holders \ {r}) \cup {h}
    BY <2>1, <2>2, <2>4 DEF Holders, Holding, Semaphore
  <2>7. Cardinality(Holders') = Cardinality(Holders)
    <3>1. IsFiniteSet(Holders \ {r}) /\ Cardinality(Holders \ {r}) = Cardinality(Holders) - 1
      BY <1>0, HoldersFinite, FS_RemoveElement
    <3>2. Cardinality(Holders') = Cardinality(Holders \ {r}) + 1
      BY <2>4, <2>6, <3>1, FS_AddElement
    <3> QED BY <1>0, <3>1, <3>2
  <2>8. {p \in Req : pc'[p] = "waiting"} = {p \in Req : pc[p] = "waiting"} \ {h}
    BY <2>1, <2>2, <2>4 DEF Semaphore, Holding
  <2>9. IsInjective(waiting')
    BY <2>2, <2>3 DEF IsInjective
  <2>10. Range(waiting') = Range(waiting) \ {h}
    <3>1. ASSUME NEW i \in 1..(Len(waiting) - 1)
          PROVE  waiting'[i] \in Range(waiting) \ {h}
      BY <2>2, <2>3, <3>1 DEF Range, IsInjective
    <3>2. ASSUME NEW p \in Range(waiting) \ {h}
          PROVE  p \in Range(waiting')
      <4>1. PICK k \in 1..Len(waiting) : p = waiting[k]
        BY <2>2, <3>2 DEF Range
      <4>2. k # 1 /\ k - 1 \in 1..(Len(waiting) - 1) /\ (k - 1) + 1 = k
        BY <2>2, <3>2, <4>1
      <4>3. waiting'[k - 1] = p
        BY <2>2, <4>1, <4>2
      <4> QED BY <2>2, <4>2, <4>3 DEF Range
    <3>3. Range(waiting') \subseteq Range(waiting) \ {h}
      BY <2>2, <3>1 DEF Range
    <3> QED BY <3>2, <3>3
  <2>11. slots = MCR
    BY <1>2 DEF Semaphore, SlotsAccounted
  <2>12. Range(waiting') = {p \in Req : pc'[p] = "waiting"}
    BY <2>3, <2>8, <2>10
  <2>13. slots' = Cardinality(Holders') /\ slots' = MCR /\ slots' \in Nat
    BY <2>1, <2>7, <2>11 DEF Semaphore, SlotsAccounted
  <2>14. slots' <= MCR
    BY <2>13, DeliveryAssumption
  <2> QED BY <2>2, <2>5, <2>9, <2>12, <2>13, <2>14 DEF Semaphore, SlotsAccounted
<1> QED BY <1>1, <1>2

LEMMA InitSemaphore == Init => Semaphore
<1> SUFFICES ASSUME Init PROVE Semaphore
  OBVIOUS
<1>1. Holders = {} /\ Cardinality(Holders) = 0
  BY FS_EmptySet DEF Init, Holders, Holding
<1>2. {r \in Req : pc[r] = "waiting"} = {} /\ Range(waiting) = {}
  BY DEF Init, Range
<1>3. waiting \in Seq(Req) /\ IsInjective(waiting)
  BY DEF Init, IsInjective
<1> QED BY <1>1, <1>2, <1>3, DeliveryAssumption DEF Init, Semaphore, SlotsAccounted, Stages

\* What a request does with its slot, and how it gives it back.
LEMMA Holding_Steps ==
  ASSUME Semaphore, NEW r \in Req,
         \/ Bind(r) \/ Load(r) \/ FetchLeads(r) \/ Launch(r) \/ Collect(r)
         \/ \E i \in DOMAIN worker[r] : Finish(r, i)
  PROVE  Semaphore'
<1>1. ASSUME NEW from \in Holding, NEW to \in Holding,
             pc[r] = from, pc' = [pc EXCEPT ![r] = to], UNCHANGED <<slots, waiting>>
      PROVE  Semaphore'
  <2>1. pc' \in [Req -> Stages]
    BY <1>1 DEF Semaphore, Stages
  <2>2. \A p \in Req : /\ pc'[p] \in Holding <=> pc[p] \in Holding
                       /\ pc'[p] = "waiting" <=> pc[p] = "waiting"
    BY <1>1 DEF Semaphore, Holding
  <2> QED BY <1>1, <2>1, <2>2, Quiet
<1>2. ASSUME UNCHANGED <<slots, waiting, pc>>
      PROVE  Semaphore'
  BY <1>2, Quiet DEF Semaphore
<1>3. ASSUME NEW status, NEW page, Answer(r, status, page), pc[r] \in Holding
      PROVE  Semaphore'
  BY <1>3, Releasing DEF Answer
<1>4. CASE Bind(r)
  <2>1. pc[r] = "bind" /\ "bind" \in Holding /\ "load" \in Holding
    BY <1>4 DEF Bind, Holding
  <2>2. PICK q \in Queries :
          \/ Answer(r, 200, <<>>) \/ Answer(r, 400, <<>>)
          \/ pc' = [pc EXCEPT ![r] = "load"] /\ UNCHANGED admission
    BY <1>4 DEF Bind
  <2> QED BY <1>1, <1>3, <2>1, <2>2 DEF admission
<1>5. CASE Load(r)
  <2>1. pc[r] = "load" /\ "load" \in Holding /\ "leads" \in Holding
    BY <1>5 DEF Load, Holding
  <2>2. \/ pc' = [pc EXCEPT ![r] = "leads"] /\ UNCHANGED admission
        \/ Answer(r, 500, <<>>)
    BY <1>5 DEF Load
  <2> QED BY <1>1, <1>3, <2>1, <2>2 DEF admission
<1>6. CASE FetchLeads(r)
  BY <1>1, <1>6 DEF FetchLeads, Holding, admission
<1>7. CASE Launch(r)
  BY <1>2, <1>7 DEF Launch, admission
<1>8. CASE Collect(r)
  <2>1. pc[r] = "evaluate" /\ "evaluate" \in Holding
    BY <1>8 DEF Collect, Holding
  <2>2. \E page : Answer(r, 200, page)
    BY <1>8 DEF Collect
  <2> QED BY <1>3, <2>1, <2>2
<1>9. CASE \E i \in DOMAIN worker[r] : Finish(r, i)
  BY <1>2, <1>9 DEF Finish, admission
<1> QED BY <1>4, <1>5, <1>6, <1>7, <1>8, <1>9

LEMMA NextSemaphore == Semaphore /\ [Next]_vars => Semaphore'
<1> SUFFICES ASSUME Semaphore, [Next]_vars PROVE Semaphore'
  OBVIOUS
<1>1. ASSUME UNCHANGED <<slots, waiting, pc>>
      PROVE  Semaphore'
  BY <1>1, Quiet DEF Semaphore
<1>2. CASE Refill
  BY <1>1, <1>2 DEF Refill
<1>3. ASSUME NEW r \in Req, Arrive(r)
      PROVE  Semaphore'
  <2>1. CASE tokens > 0
    <3>1. pc' = [pc EXCEPT ![r] = "arrived"] /\ pc[r] = "idle" /\ UNCHANGED <<slots, waiting>>
      BY <1>3, <2>1 DEF Arrive
    <3>2. pc' \in [Req -> Stages]
      BY <3>1 DEF Semaphore, Stages
    <3>3. \A p \in Req : /\ pc'[p] \in Holding <=> pc[p] \in Holding
                         /\ pc'[p] = "waiting" <=> pc[p] = "waiting"
      BY <3>1 DEF Semaphore, Holding
    <3> QED BY <3>1, <3>2, <3>3, Quiet
  <2>2. CASE ~(tokens > 0)
    BY <1>1, <1>3, <2>2 DEF Arrive
  <2> QED BY <2>1, <2>2
<1>4. ASSUME NEW r \in Req, Serve(r)
      PROVE  Semaphore'
  BY <1>4, Acquiring, Holding_Steps DEF Serve
<1>5. CASE UNCHANGED vars
  BY <1>1, <1>5 DEF vars, admission
<1> QED BY <1>2, <1>3, <1>4, <1>5 DEF Next

\* For any number of requests and slots: as many slots are taken as there are
\* requests past the semaphore, never more than MCR, and a request is blocked
\* only while none is free.
THEOREM NoSlotLost == Spec => []SlotsAccounted
<1>1. Semaphore => SlotsAccounted
  BY DEF Semaphore
<1> QED BY <1>1, InitSemaphore, NextSemaphore, PTL DEF Spec

-----------------------------------------------------------------------------
\* The rest of the types; that no release drives the semaphore below zero
\* needs the accounting above.
Types ==
  /\ tokens \in 0..Burst
  /\ query \in [Req -> Queries \cup {NoQuery}]
  /\ worker \in [Req -> Seq({"running", "done"})]
  /\ reply.to \in Req \cup {None} /\ reply.status \in {0, 200, 400, 429, 500}

LEMMA InitTypes == Init => Types
<1> SUFFICES ASSUME Init PROVE Types
  OBVIOUS
<1>1. tokens \in 0..Burst
  BY DeliveryAssumption DEF Init
<1>2. worker \in [Req -> Seq({"running", "done"})]
  BY DEF Init
<1> QED BY <1>1, <1>2 DEF Init, Types, NoReply

LEMMA NextTypes == Types /\ [Next]_vars => Types'
<1> SUFFICES ASSUME Types, [Next]_vars PROVE Types'
  OBVIOUS
<1>1. ASSUME reply' = NoReply, UNCHANGED <<tokens, query, worker>>
      PROVE  Types'
  BY <1>1 DEF Types, NoReply
<1>2. ASSUME NEW r \in Req, NEW page, NEW status \in {200, 400, 500}, Answer(r, status, page)
      PROVE  Types'
  <2>1. tokens' \in 0..Burst
    BY <1>2 DEF Answer, Types
  <2>2. query' \in [Req -> Queries \cup {NoQuery}]
    BY <1>2 DEF Answer, Types
  <2>3. worker' \in [Req -> Seq({"running", "done"})]
    BY <1>2 DEF Answer, Types
  <2>4. reply'.to \in Req \cup {None} /\ reply'.status \in {0, 200, 400, 429, 500}
    BY <1>2 DEF Answer
  <2> QED BY <2>1, <2>2, <2>3, <2>4 DEF Types
<1>3. CASE Refill
  BY <1>3, DeliveryAssumption DEF Refill, Types, NoReply, request
<1>4. ASSUME NEW r \in Req, Arrive(r)
      PROVE  Types'
  BY <1>4, DeliveryAssumption DEF Arrive, Types, NoReply, request
<1>5. ASSUME NEW r \in Req, Serve(r)
      PROVE  Types'
  <2>1. CASE Acquire(r)
    BY <1>1, <2>1 DEF Acquire, request
  <2>2. CASE Bind(r)
    <3>1. PICK q \in Queries :
            \/ Answer(r, 200, <<>>) \/ Answer(r, 400, <<>>)
            \/ /\ query' = [query EXCEPT ![r] = q] /\ reply' = NoReply
               /\ UNCHANGED <<tokens, worker>>
      BY <2>2 DEF Bind, admission
    <3>2. CASE query' = [query EXCEPT ![r] = q] /\ reply' = NoReply /\ UNCHANGED <<tokens, worker>>
      BY <3>2 DEF Types, NoReply
    <3> QED BY <1>2, <3>1, <3>2
  <2>3. CASE Load(r)
    <3>1. \/ Answer(r, 500, <<>>)
          \/ reply' = NoReply /\ UNCHANGED <<tokens, query, worker>>
      BY <2>3 DEF Load, admission
    <3> QED BY <1>1, <1>2, <3>1
  <2>4. CASE FetchLeads(r)
    BY <1>1, <2>4 DEF FetchLeads, admission
  <2>5. CASE Launch(r)
    <3>1. worker' = [worker EXCEPT ![r] = Append(@, "running")] /\ reply' = NoReply
          /\ UNCHANGED <<tokens, query>>
      BY <2>5 DEF Launch, admission
    <3>2. Append(worker[r], "running") \in Seq({"running", "done"})
      BY DEF Types
    <3> QED BY <3>1, <3>2 DEF Types, NoReply
  <2>6. CASE Collect(r)
    <3>1. \E page : Answer(r, 200, page)
      BY <2>6 DEF Collect
    <3> QED BY <1>2, <3>1
  <2>7. CASE \E i \in DOMAIN worker[r] : Finish(r, i)
    <3>1. PICK i \in DOMAIN worker[r] : Finish(r, i)
      BY <2>7
    <3>2. worker' = [worker EXCEPT ![r] = [worker[r] EXCEPT ![i] = "done"]] /\ reply' = NoReply
          /\ UNCHANGED <<tokens, query>>
      BY <3>1 DEF Finish, admission
    <3>3. [worker[r] EXCEPT ![i] = "done"] \in Seq({"running", "done"})
      BY <3>1 DEF Types
    <3> QED BY <3>2, <3>3 DEF Types, NoReply
  <2> QED BY <1>5, <2>1, <2>2, <2>3, <2>4, <2>5, <2>6, <2>7 DEF Serve
<1>6. CASE UNCHANGED vars
  BY <1>6 DEF vars, admission, request, Types
<1> QED BY <1>3, <1>4, <1>5, <1>6 DEF Next

\* Every state is well typed; in particular the semaphore holds between none
\* and MCR items.
THEOREM Typed == Spec => []TypeOK
<1>1. Semaphore /\ Types => TypeOK
  BY DeliveryAssumption DEF Semaphore, SlotsAccounted, Types, TypeOK
<1> QED BY <1>1, InitSemaphore, NextSemaphore, InitTypes, NextTypes, PTL DEF Spec
=============================================================================

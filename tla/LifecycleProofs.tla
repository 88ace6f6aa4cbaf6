-------------------------- MODULE LifecycleProofs --------------------------
(***************************************************************************)
(* What Start and Stop promise of the background loop, for any number of   *)
(* restarts.                                                               *)
(***************************************************************************)
EXTENDS Lifecycle, TLAPS

\* The generations before the last have ended; the last is where fx has got to
\* with it; a loop has closed its own channel exactly when it has ended.
Generations ==
  /\ done = gen /\ stopCh = gen
  /\ running => gen > 0
  /\ fx = "warmup" => mutex /\ running /\ gen \in Gens /\ loop[gen] = "none"
  /\ fx # "warmup" => ~mutex /\ bgCancel = gen
  /\ fx \in {"awaitLoop", "awaitSub"} => ~running
  /\ fx = "awaitLoop" => awaited = Done(gen)
  /\ fx \in {"idle", "awaitSub"} /\ ~running /\ gen > 0 => loop[gen] = "ended"
  /\ ~running /\ gen > 0 => gen \in cancelled
  /\ \A n \in Gens :
       /\ n < gen => loop[n] = "ended"
       /\ n > gen => loop[n] = "none"
       /\ loop[n] \in {"select", "evaluate", "ended"} => loopEnds[n] = n
       /\ Done(n) \in closed <=> loop[n] = "ended"

IInv == TypeOK /\ Generations

LEMMA InitIInv == Init => IInv
<1> SUFFICES ASSUME Init PROVE IInv
  OBVIOUS
<1>1. TypeOK
  <2>1. 0 \in 0..MaxStarts /\ 0 \in 0..BufferCap
    BY LifecycleAssumption
  <2>2. SubDone(0) \in {"done", "subDone"} \X (0..MaxStarts)
    BY <2>1 DEF SubDone
  <2> QED BY <2>1, <2>2 DEF Init, TypeOK
<1>2. Generations
  BY LifecycleAssumption DEF Init, Generations, Gens, SubDone, Done
<1> QED BY <1>1, <1>2 DEF IInv

\* Start, Stop and the OnStop hooks.
LEMMA FxIInv ==
  ASSUME IInv, Fx
  PROVE  IInv'
<1> USE LifecycleAssumption
<1> USE DEF IInv, service, subscription, looping, listening, forwarding, signals
<1>1. CASE Start
  <2>1. gen + 1 \in Gens /\ gen + 1 \in 0..MaxStarts /\ gen \in 0..MaxStarts
    BY <1>1 DEF Start, TypeOK, Gens
  <2>2. TypeOK'
    BY <1>1, <2>1 DEF Start, TypeOK
  <2>3. \A n \in Gens : n < gen + 1 => loop[n] = "ended"
    BY <1>1, <2>1 DEF Start, Generations, Gens
  <2>4. \A n \in Gens : n > gen => loop[n] = "none"
    BY DEF Generations
  <2>5. Generations'
    BY <1>1, <2>1, <2>3, <2>4 DEF Start, Generations, Gens, Done
  <2> QED BY <2>2, <2>5
<1>2. CASE Launch
  <2>1. gen \in Gens /\ loop[gen] = "none" /\ running
    BY <1>2 DEF Launch, Generations
  <2>2. TypeOK'
    BY <1>2, <2>1 DEF Launch, TypeOK
  <2>3. \A n \in Gens : n # gen => loop'[n] = loop[n]
    BY <1>2 DEF Launch, TypeOK
  <2>4. loop'[gen] = "new"
    BY <1>2, <2>1 DEF Launch, TypeOK
  <2>0. gen \in Int /\ \A n \in Gens : n \in Int
    BY DEF TypeOK, Gens
  <2>5. \A n \in Gens : /\ n < gen => loop'[n] = "ended"
                        /\ n > gen => loop'[n] = "none"
                        /\ loop'[n] \in {"select", "evaluate", "ended"} => loopEnds[n] = n
                        /\ Done(n) \in closed <=> loop'[n] = "ended"
    BY <2>0, <2>1, <2>3, <2>4 DEF Generations
  <2>6. Generations'
    BY <1>2, <2>1, <2>5 DEF Launch, Generations, Done
  <2> QED BY <2>2, <2>6
<1>3. CASE Stop
  <2>1. gen \in 0..MaxStarts /\ bgCancel = gen /\ done = gen /\ stopCh = gen
    BY <1>3 DEF Stop, TypeOK, Generations
  <2>2. gen \in Gens /\ {subCtx} \ {0} \subseteq Gens
    BY <1>3, <2>1 DEF Stop, Generations, TypeOK, Gens
  <2>3. TypeOK'
    BY <1>3, <2>1, <2>2 DEF Stop, TypeOK, Gens, Done
  <2>4. Generations'
    BY <1>3, <2>1, <2>2 DEF Stop, Generations, Done
  <2> QED BY <2>3, <2>4
<1>4. CASE StopSeesLoopEnd
  <2>1. TypeOK'
    BY <1>4 DEF StopSeesLoopEnd, TypeOK, SubDone
  <2>2. gen \in Gens => loop[gen] = "ended"
    BY <1>4 DEF StopSeesLoopEnd, Generations
  <2>3. gen > 0 => gen \in Gens
    BY DEF TypeOK, Gens
  <2>4. Generations'
    BY <1>4, <2>2, <2>3 DEF StopSeesLoopEnd, Generations, Done
  <2> QED BY <2>1, <2>4
<1>5. CASE StopSeesSubscriberEnd \/ CloseStores
  <2>1. TypeOK'
    BY <1>5 DEF StopSeesSubscriberEnd, CloseStores, TypeOK
  <2>2. Generations'
    BY <1>5 DEF StopSeesSubscriberEnd, CloseStores, Generations, Done
  <2> QED BY <2>1, <2>2
<1> QED BY <1>1, <1>2, <1>3, <1>4, <1>5 DEF Fx

LEMMA LoopIInv ==
  ASSUME IInv, NEW n \in Gens, Loop(n)
  PROVE  IInv'
<1> USE LifecycleAssumption
<1> USE DEF IInv, service, subscription, listening, forwarding, signals
<1>0. gen \in 0..MaxStarts /\ n \in Nat
  BY DEF TypeOK, Gens
<1>1. CASE LoopBegin(n)
  <2>1. n = gen
    BY <1>0, <1>1 DEF LoopBegin, Generations, Gens
  <2>2. loopEnds' = [loopEnds EXCEPT ![n] = n] /\ loop' = [loop EXCEPT ![n] = "select"]
    BY <1>1, <2>1 DEF LoopBegin, Generations
  <2>3. TypeOK'
    BY <1>0, <1>1, <2>1, <2>2 DEF LoopBegin, TypeOK
  <2>4. \A m \in Gens : loop'[m] = IF m = n THEN "select" ELSE loop[m]
    BY <2>2 DEF TypeOK
  <2>5. \A m \in Gens : loopEnds'[m] = IF m = n THEN n ELSE loopEnds[m]
    BY <2>2 DEF TypeOK
  <2>6. loop[n] = "new" /\ UNCHANGED <<fx, awaited, mutex, running, stopCh, done, bgCancel,
                                        gen, cancelled, closed>>
    BY <1>1 DEF LoopBegin
  <2>7. Generations'
    BY <2>1, <2>4, <2>5, <2>6 DEF Generations, Done
  <2> QED BY <2>3, <2>7
<1>2. CASE LoopTick(n) \/ LoopEvaluated(n)
  <2>1. /\ loop[n] \in {"select", "evaluate"}
        /\ \E p \in {"select", "evaluate"} : loop' = [loop EXCEPT ![n] = p]
        /\ UNCHANGED <<fx, awaited, mutex, running, stopCh, done, bgCancel, gen, cancelled,
                       loopEnds, closed>>
    BY <1>2 DEF LoopTick, LoopEvaluated
  <2>2. TypeOK'
    BY <1>2, <2>1 DEF LoopTick, LoopEvaluated, TypeOK
  <2>3. \A m \in Gens : \/ loop'[m] = loop[m]
                        \/ m = n /\ loop'[m] \in {"select", "evaluate"}
    BY <2>1 DEF TypeOK
  <2>4. n = gen /\ loop'[n] \notin {"none", "ended"}
    BY <1>0, <2>1, <2>3 DEF Generations, TypeOK
  <2>5. ~(fx = "warmup") /\ ~(fx \in {"idle", "awaitSub"} /\ ~running /\ gen > 0)
    BY <2>1, <2>4 DEF Generations
  <2>6. Generations'
    BY <2>1, <2>3, <2>4, <2>5 DEF Generations, Done
  <2> QED BY <2>2, <2>6
<1>3. CASE LoopEnd(n)
  <2>1. /\ loop[n] = "select" /\ loop' = [loop EXCEPT ![n] = "ended"]
        /\ loopEnds[n] = n /\ closed' = closed \cup {Done(n)}
        /\ UNCHANGED <<fx, awaited, mutex, running, stopCh, done, bgCancel, gen, cancelled,
                       loopEnds>>
    BY <1>3 DEF LoopEnd, Generations
  <2>0. Done(n) \in {"done", "subDone"} \X (0..MaxStarts) /\ crashed' \in BOOLEAN
    BY <1>3 DEF LoopEnd, Done, Gens
  <2>2. TypeOK'
    BY <1>3, <2>1, <2>0 DEF LoopEnd, TypeOK
  <2>3. \A m \in Gens : loop'[m] = IF m = n THEN "ended" ELSE loop[m]
    BY <2>1 DEF TypeOK
  <2>4. n = gen
    BY <1>0, <2>1 DEF Generations
  <2>5. \A m \in Gens : Done(m) \in closed' <=> m = n \/ Done(m) \in closed
    BY <2>1 DEF Done
  <2>6. \A m \in Gens : /\ m < gen => loop'[m] = "ended"
                        /\ m > gen => loop'[m] = "none"
                        /\ loop'[m] \in {"select", "evaluate", "ended"} => loopEnds'[m] = m
                        /\ Done(m) \in closed' <=> loop'[m] = "ended"
    BY <2>1, <2>3, <2>4, <2>5 DEF Generations
  <2>7. fx # "warmup"
    BY <2>1, <2>4 DEF Generations
  <2>8. Generations'
    BY <2>1, <2>3, <2>4, <2>6, <2>7 DEF Generations, Done
  <2> QED BY <2>2, <2>8
<1> QED BY <1>1, <1>2, <1>3 DEF Loop

\* The subscriber and the forwarder touch nothing the invariant is about, except
\* that the subscriber closes its own kind of channel.
LEMMA SubscriberIInv ==
  ASSUME IInv, NEW n \in Gens,
         Opening(n) \/ Serving(n) \/ Forward(n) \/ ForwarderEnd(n)
  PROVE  IInv'
<1> USE LifecycleAssumption
<1> USE DEF IInv, service, subscription, looping, listening, forwarding, signals
<1> DEFINE Aside ==
      /\ UNCHANGED <<fx, awaited, mutex, running, stopCh, done, bgCancel, gen, cancelled,
                     loop, loopEnds>>
      /\ \A m \in Gens : Done(m) \in closed' <=> Done(m) \in closed
<1>0. Aside => Generations'
  BY DEF Generations, Done
<1>a. ASSUME EndSubscriber(n), buffer' = buffer PROVE TypeOK'
  <2>1. SubDone(subEnds[n]) \in {"done", "subDone"} \X (0..MaxStarts)
    BY DEF TypeOK, SubDone
  <2>2. crashed' \in BOOLEAN
    BY <1>a DEF EndSubscriber
  <2> QED BY <1>a, <2>1, <2>2 DEF EndSubscriber, TypeOK
<1>1. CASE Opening(n)
  <2>1. CASE SubscriberBegin(n)
    <3>0. n \in 0..MaxStarts
      BY DEF Gens
    <3>1. TypeOK'
      BY <2>1, <3>0 DEF SubscriberBegin, TypeOK
    <3>2. Aside
      BY <2>1 DEF SubscriberBegin
    <3> QED BY <1>0, <3>1, <3>2
  <2>2. CASE SubscriberDefer(n)
    <3>1. TypeOK'
      BY <2>2 DEF SubscriberDefer, TypeOK
    <3>2. Aside
      BY <2>2 DEF SubscriberDefer
    <3> QED BY <1>0, <3>1, <3>2
  <2>3. CASE Subscribe(n)
    <3>1. TypeOK'
      BY <2>3 DEF Subscribe, TypeOK
    <3>2. Aside
      BY <2>3 DEF Subscribe
    <3> QED BY <1>0, <3>1, <3>2
  <2>4. CASE SubscribeFails(n)
    <3>1. TypeOK'
      BY <1>a, <2>4 DEF SubscribeFails
    <3>2. Aside
      BY <2>4 DEF SubscribeFails, EndSubscriber, SubDone, Done
    <3> QED BY <1>0, <3>1, <3>2
  <2> QED BY <1>1, <2>1, <2>2, <2>3, <2>4 DEF Opening
<1>2. CASE SubscriberReceive(n)
  <2>1. TypeOK'
    BY <1>2 DEF SubscriberReceive, TypeOK
  <2>2. Aside
    BY <1>2 DEF SubscriberReceive
  <2> QED BY <1>0, <2>1, <2>2
<1>3. CASE SubscriberJitter(n) \/ SubscriberEvaluated(n)
  <2>1. TypeOK'
    BY <1>3 DEF SubscriberJitter, SubscriberEvaluated, TypeOK
  <2>2. Aside
    BY <1>3 DEF SubscriberJitter, SubscriberEvaluated
  <2> QED BY <1>0, <2>1, <2>2
<1>4. CASE SubscriberCancelled(n) \/ SubscriberClosed(n)
  <2>1. TypeOK'
    BY <1>a, <1>4 DEF SubscriberCancelled, SubscriberClosed
  <2>2. Aside
    BY <1>4 DEF SubscriberCancelled, SubscriberClosed, EndSubscriber, SubDone, Done
  <2> QED BY <1>0, <2>1, <2>2
<1>5. CASE Forward(n) \/ ForwarderEnd(n)
  <2>1. TypeOK'
    BY <1>5 DEF Forward, ForwarderEnd, TypeOK
  <2>2. Aside
    BY <1>5 DEF Forward, ForwarderEnd
  <2> QED BY <1>0, <2>1, <2>2
<1> QED BY <1>1, <1>2, <1>3, <1>4, <1>5 DEF Serving

LEMMA Invariance == Spec => []IInv
<1>1. Init => IInv
  BY InitIInv
<1>2. IInv /\ [Next]_vars => IInv'
  <2> SUFFICES ASSUME IInv, [Next]_vars PROVE IInv'
    OBVIOUS
  <2>1. CASE Next
    BY <2>1, FxIInv, LoopIInv, SubscriberIInv DEF Next
  <2>2. CASE UNCHANGED vars
    BY <2>2 DEF vars, service, subscription, signals, looping, listening, forwarding,
       IInv, TypeOK, Generations
  <2> QED BY <2>1, <2>2
<1> QED BY <1>1, <1>2, PTL DEF Spec

\* Every variable keeps its type; in particular no buffer of pings outgrows its
\* capacity, and no field names a generation that was not made.
THEOREM Typed == Spec => []TypeOK
<1>1. IInv => TypeOK
  BY DEF IInv
<1> QED BY <1>1, Invariance, PTL

\* Of the loops Start has launched at most one has not been told to end, however
\* often the service is started and stopped.
THEOREM StartsOneLoop == Spec => []OneLoop
<1>1. IInv => OneLoop
  BY DEF IInv, TypeOK, Generations, OneLoop, Gens
<1> QED BY <1>1, Invariance, PTL

\* A Stop that has returned leaves no loop behind.
THEOREM StopOutlivesLoop == Spec => []StopWaitsForLoop
<1>1. IInv => StopWaitsForLoop
  BY DEF IInv, TypeOK, Generations, StopWaitsForLoop, Gens
<1> QED BY <1>1, Invariance, PTL

=============================================================================

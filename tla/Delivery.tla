------------------------------ MODULE Delivery ------------------------------
(***************************************************************************)
(* One GET /personalized-content from the socket to the reply: the         *)
(* middleware that admits it (internal/delivery/http/middleware), the      *)
(* binding of its query and the page it answers with (handler.getContent), *)
(* and what GetPersonalizedContent does with the schedules it loaded: the  *)
(* leads of the customer, one evaluation per placement on its own          *)
(* goroutine, and the ranking (cmd/server/internal/evaluator).             *)
(*                                                                         *)
(* How the schedules are loaded is module Mirror, where the attributes     *)
(* come from CustomerProfile, how a condition is decided Conditions; here  *)
(* they are the outcomes those modules allow.  Other endpoints share the   *)
(* middleware only.                                                        *)
(***************************************************************************)
EXTENDS Integers, SequencesExt, FiniteSets

CONSTANTS
  Req,          \* connections that send requests
  Burst,        \* capacity of the rate limiter's bucket
  MCR,          \* capacity of the semaphore channel
  Limit,        \* maxPlacementConcurrency
  MaxPage,      \* the largest valid pageSize
  Queries,      \* the queries sent, see Query below
  Inventory,    \* what the mirror holds: a sequence of schedules per placement
  Losses,       \* the schedules whose rule may not be found
  Answers,      \* the bodies CLEN may answer a lead call with
  Blank, NaN,   \* an empty parameter or score; a score that JSON cannot carry ("NaN", "Inf")
  None

(***************************************************************************)
(* A query is [names, idType, customer, digits, page, attrs]: placement    *)
(* names, the customer's id, whether it has ten digits, pageSize (Blank    *)
(* when it is not a number), and the class of attributes the profile       *)
(* resolves to.  A schedule is [id, type, score, bare, variations]: the    *)
(* attribute classes that pass each variation of its rule, or the rule     *)
(* itself when it has none; a refresh keeps each schedule once.  A lead is *)
(* [content, score, placements], a lead group [ip, leads].                 *)
(***************************************************************************)
ASSUME DeliveryAssumption ==
  /\ IsFiniteSet(Req)
  /\ None \notin Req
  /\ Burst \in Nat /\ MCR \in Nat \ {0} /\ Limit \in Nat \ {0} /\ MaxPage \in Nat
  /\ Blank \notin Int /\ NaN \notin Int
  /\ \A q \in Queries : q.names \in Seq(DOMAIN Inventory \cup {Blank}) /\ q.page \in Int \cup {Blank}
  /\ \A name \in DOMAIN Inventory :
       /\ Inventory[name] \in Seq(Range(Inventory[name]))
       /\ \A sched \in Range(Inventory[name]) :
            sched.score \in Int /\ sched.variations \in Seq(Range(sched.variations))
       /\ \A j, k \in DOMAIN Inventory[name] : Inventory[name][j].id = Inventory[name][k].id => j = k
  /\ \A groups \in Answers :
       /\ groups \in Seq(Range(groups))
       /\ \A group \in Range(groups) :
            /\ group.leads \in Seq(Range(group.leads))
            /\ \A lead \in Range(group.leads) : lead.score \in Int \cup {Blank, NaN}

VARIABLES
  tokens,    \* tokens in the bucket
  slots,     \* items in the semaphore channel
  waiting,   \* requests blocked on the full channel, first come first served
  pc,        \* where each request is
  query,     \* the query of each request, once it is bound
  copies,    \* how often each placement's schedules were appended
  lost,      \* schedules left out for want of a rule
  leads,     \* leads of the customer
  worker,    \* goroutines launched for the placements, by position
  results,   \* what each of them wrote into its slot
  reply      \* the answer written in the last step, if it wrote one

admission == <<tokens, slots, waiting>>
request == <<query, copies, lost, leads, worker, results>>
vars == <<admission, pc, request, reply>>

NoQuery == [names |-> <<>>]
NoReply == [to |-> None, status |-> 0, page |-> <<>>]
Holding == {"bind", "load", "leads", "evaluate"}
Stages == {"idle", "arrived", "waiting"} \cup Holding

Init ==
  /\ tokens = Burst
  /\ slots = 0
  /\ waiting = <<>>
  /\ pc = [r \in Req |-> "idle"]
  /\ query = [r \in Req |-> NoQuery]
  /\ copies = [r \in Req |-> <<>>]
  /\ lost = [r \in Req |-> {}]
  /\ leads = [r \in Req |-> <<>>]
  /\ worker = [r \in Req |-> <<>>]
  /\ results = [r \in Req |-> <<>>]
  /\ reply = NoReply

-----------------------------------------------------------------------------
(* Ranking *)

\* The elements of a sequence at the positions in kept, in their order.
Sift(s, kept) ==
  LET sifted[n \in 0..Len(s)] ==
        IF n = 0 THEN <<>> ELSE IF n \in kept THEN Append(sifted[n - 1], s[n]) ELSE sifted[n - 1]
  IN  sifted[Len(s)]

\* One entry per variation whose conditions pass, in the order of the
\* variations; a rule without any has one.
Entries(sched, q) ==
  LET variations == IF sched.variations = <<>> THEN <<sched.bare>> ELSE sched.variations
      passing == {v \in DOMAIN variations : q.attrs \in variations[v]}
  IN  [n \in 1..Cardinality(passing) |-> [rule |-> sched.id, content |-> sched.id, score |-> sched.score]]

\* A SALES_TARGET entry becomes one entry for each lead that lists the
\* placement, with the score of the lead where that is a number.
ExpandWithLeads(entry, offered, name) ==
  LET matching == Sift(offered, {n \in DOMAIN offered : name \in offered[n].placements})
  IN  [n \in DOMAIN matching |->
        [entry EXCEPT !.content = matching[n].content,
                      !.score = IF matching[n].score = Blank THEN @ ELSE matching[n].score]]

\* sort.Slice by descending score, which is not stable.  With a NaN, which is
\* neither above nor below a score, it may leave any order at all.
Beats(e, f) == e.score > f.score

Rank(entries) ==
  LET orders == {[n \in DOMAIN entries |-> entries[p[n]]] : p \in Bijection(DOMAIN entries, DOMAIN entries)}
  IN  {o \in orders :
         \/ \E n \in DOMAIN entries : entries[n].score = NaN
         \/ \A n \in 1..(Len(o) - 1) : ~Beats(o[n + 1], o[n])}

\* The schedules that reach the evaluation of a placement: every copy that
\* was loaded, without those that have no rule.
Loaded(name, times, gone) ==
  LET held == Sift(Inventory[name], {k \in DOMAIN Inventory[name] : Inventory[name][k].id \notin gone})
  IN  FlattenSeq([n \in 1..times |-> held])

Filtered(r, name) == Loaded(name, copies[r][name], lost[r])

\* LocalEvaluator.Evaluate for the i-th name, up to the sort.  The field at is
\* history: it tells which evaluation an entry of the merged page comes from.
Offers(q, offered, i, sched) ==
  LET own == Entries(sched, q)
      name == q.names[i]
      all == IF sched.type # "SALES_TARGET" THEN own
             ELSE FlattenSeq([n \in DOMAIN own |-> ExpandWithLeads(own[n], offered, name)])
  IN  [n \in DOMAIN all |->
        [rule |-> all[n].rule, content |-> all[n].content, score |-> all[n].score,
         source |-> name, at |-> i]]

Passing(q, offered, i, scheds) ==
  FlattenSeq([n \in DOMAIN scheds |-> Offers(q, offered, i, scheds[n])])

\* What evaluatePlacement may return.
Evaluate(r, i) ==
  UNION {Rank(entries) : entries \in
           {Passing(query[r], leads[r], i, scheds) : scheds \in {Filtered(r, query[r].names[i])}}}

-----------------------------------------------------------------------------
(* Admission *)

\* RateLimiterMiddleware: a request that finds the bucket empty is answered
\* 429 before it asks for a slot.
Arrive(r) ==
  /\ pc[r] = "idle"
  /\ IF tokens > 0
     THEN /\ tokens' = tokens - 1
          /\ pc' = [pc EXCEPT ![r] = "arrived"]
          /\ reply' = NoReply
     ELSE /\ reply' = [to |-> r, status |-> 429, page |-> <<>>]
          /\ UNCHANGED <<tokens, pc>>
  /\ UNCHANGED <<slots, waiting, request>>

Refill ==
  /\ tokens < Burst
  /\ tokens' = tokens + 1
  /\ reply' = NoReply
  /\ UNCHANGED <<slots, waiting, pc, request>>

\* ConcurrencyMiddleware: take a slot, or block until one is free.
Acquire(r) ==
  /\ pc[r] = "arrived"
  /\ IF slots < MCR
     THEN /\ slots' = slots + 1
          /\ pc' = [pc EXCEPT ![r] = "bind"]
          /\ UNCHANGED waiting
     ELSE /\ waiting' = Append(waiting, r)
          /\ pc' = [pc EXCEPT ![r] = "waiting"]
          /\ UNCHANGED slots
  /\ reply' = NoReply
  /\ UNCHANGED <<tokens, request>>

\* MUTANT: a slot is given back to the channel past the first waiter, who
\* takes it as well.
ReleaseTwice(r) ==
  /\ slots' = slots - 1
  /\ waiting' = IF waiting = <<>> THEN waiting ELSE Tail(waiting)
  /\ pc' = [p \in Req |-> IF p = r THEN "idle"
                          ELSE IF waiting # <<>> /\ p = Head(waiting) THEN "bind" ELSE pc[p]]

\* MUTANT: the first waiter is not woken.
ReleaseSilently(r) ==
  /\ slots' = slots - 1
  /\ pc' = [pc EXCEPT ![r] = "idle"]
  /\ UNCHANGED waiting

\* The deferred receive: the item of the first blocked sender takes the place
\* of the one received, and that request goes on.
Release(r) ==
  IF waiting = <<>>
  THEN /\ slots' = slots - 1
       /\ pc' = [pc EXCEPT ![r] = "idle"]
       /\ UNCHANGED waiting
  ELSE /\ waiting' = Tail(waiting)
       /\ pc' = [pc EXCEPT ![r] = "idle", ![Head(waiting)] = "bind"]
       /\ UNCHANGED slots

-----------------------------------------------------------------------------
(* The handler *)

\* The reply is written, the handler's frame is gone, and the deferred
\* release runs.  TimeoutMiddleware, which starts its clock with the slot, and
\* a client that leaves end the context of a request, but only the calls it
\* makes look at that: they fail.
Answer(r, status, page) ==
  /\ reply' = [to |-> r, status |-> status, page |-> page]
  /\ query' = [query EXCEPT ![r] = NoQuery]
  /\ copies' = [copies EXCEPT ![r] = <<>>]
  /\ lost' = [lost EXCEPT ![r] = {}]
  /\ leads' = [leads EXCEPT ![r] = <<>>]
  /\ worker' = [worker EXCEPT ![r] = <<>>]
  /\ results' = [results EXCEPT ![r] = <<>>]
  /\ Release(r)
  /\ UNCHANGED tokens

Valid(q) ==
  /\ q.names # <<>> /\ \A i \in DOMAIN q.names : q.names[i] # Blank
  /\ q.idType \in {"CIS_ID", "IP_ID"} => q.digits
  /\ q.page <= MaxPage

\* ShouldBindQuery: a parameter that cannot be converted makes the handler
\* return without writing anything (status 200), one that is not valid is
\* answered 400.
Bind(r) ==
  /\ pc[r] = "bind"
  /\ \E q \in Queries :
       IF q.page = Blank THEN Answer(r, 200, <<>>)
       ELSE IF ~Valid(q) THEN Answer(r, 400, <<>>)
       ELSE /\ query' = [query EXCEPT ![r] = q]
            /\ pc' = [pc EXCEPT ![r] = "load"]
            /\ reply' = NoReply
            /\ UNCHANGED <<admission, copies, lost, leads, worker, results>>

Named(q) == {q.names[i] : i \in DOMAIN q.names}
Occurrences(q, name) == Cardinality({i \in DOMAIN q.names : q.names[i] = name})

\* The loading of the schedules (module Mirror): it appends those of a name
\* once for every occurrence that hits the mirror, and once more for a name
\* that missed if the refresh brings it back; rules it cannot find cost their
\* schedules; a mirror that cannot be verified fails the request.
Load(r) ==
  /\ pc[r] = "load"
  /\ \/ /\ \E c \in [Named(query[r]) -> 0..Len(query[r].names)] :
             /\ \A name \in Named(query[r]) : c[name] <= Occurrences(query[r], name)
             /\ copies' = [copies EXCEPT ![r] = c]
        /\ \E l \in Losses : lost' = [lost EXCEPT ![r] = l]
        /\ pc' = [pc EXCEPT ![r] = "leads"]
        /\ reply' = NoReply
        /\ UNCHANGED <<admission, query, leads, worker, results>>
     \/ Answer(r, 500, <<>>)

HasSalesTarget(r) ==
  \E name \in Named(query[r]) : \E n \in DOMAIN Filtered(r, name) :
     Filtered(r, name)[n].type = "SALES_TARGET"

\* MUTANT: the leads of every group of the answer.
AllLeads(groups, customer) == FlattenSeq([n \in DOMAIN groups |-> groups[n].leads])

\* GetLeads: the leads of the first group that carries the customer's id.
LeadsOf(groups, customer) ==
  LET own == {g \in DOMAIN groups : groups[g].ip = customer}
  IN  IF own = {} THEN <<>> ELSE groups[CHOOSE g \in own : \A h \in own : g <= h].leads

\* fetchLeadsForRequest asks CLEN once, for a CIS customer with a SALES_TARGET
\* rule among the loaded ones; a failed call counts as no leads.
FetchLeads(r) ==
  /\ pc[r] = "leads"
  /\ \/ leads' = [leads EXCEPT ![r] = <<>>]
     \/ /\ query[r].idType = "CIS_ID" /\ HasSalesTarget(r)
        /\ \E groups \in Answers :
             leads' = [leads EXCEPT ![r] = LeadsOf(groups, query[r].customer)]
  /\ pc' = [pc EXCEPT ![r] = "evaluate"]
  /\ results' = [results EXCEPT ![r] = [i \in DOMAIN query[r].names |-> <<>>]]
  /\ reply' = NoReply
  /\ UNCHANGED <<admission, query, copies, lost, worker>>

Running(r) == {i \in DOMAIN worker[r] : worker[r][i] = "running"}

\* g.Go starts the goroutine of the next placement, when fewer than Limit run.
Launch(r) ==
  /\ pc[r] = "evaluate"
  /\ Len(worker[r]) < Len(query[r].names)
  /\ Cardinality(Running(r)) < Limit
  /\ worker' = [worker EXCEPT ![r] = Append(@, "running")]
  /\ reply' = NoReply
  /\ UNCHANGED <<admission, pc, query, copies, lost, leads, results>>

\* MUTANT: each goroutine appends to one shared list.
FinishAppending(r, i) ==
  /\ i \in Running(r)
  /\ worker' = [worker EXCEPT ![r][i] = "done"]
  /\ LET next == Cardinality({j \in DOMAIN worker[r] : worker[r][j] = "done"}) + 1
     IN  \E entries \in Evaluate(r, i) : results' = [results EXCEPT ![r][next] = entries]
  /\ reply' = NoReply
  /\ UNCHANGED <<admission, pc, query, copies, lost, leads>>

\* MUTANT: the goroutines share the loop variable, as before Go 1.22.
FinishLast(r, i) ==
  /\ i \in Running(r)
  /\ worker' = [worker EXCEPT ![r][i] = "done"]
  /\ LET last == Len(worker[r])
     IN  \E entries \in Evaluate(r, last) : results' = [results EXCEPT ![r][last] = entries]
  /\ reply' = NoReply
  /\ UNCHANGED <<admission, pc, query, copies, lost, leads>>

\* A goroutine evaluates its placement, writes its own slot and ends; nothing
\* it calls looks at the context.
Finish(r, i) ==
  /\ i \in Running(r)
  /\ worker' = [worker EXCEPT ![r][i] = "done"]
  /\ \E entries \in Evaluate(r, i) : results' = [results EXCEPT ![r][i] = entries]
  /\ reply' = NoReply
  /\ UNCHANGED <<admission, pc, query, copies, lost, leads>>

\* The page: the slots in the order of the names, cut at pageSize if that is
\* positive.
Page(r) ==
  LET merged == FlattenSeq(results[r])
  IN  IF query[r].page > 0 /\ Len(merged) > query[r].page
      THEN SubSeq(merged, 1, query[r].page) ELSE merged

\* g.Wait returns and the page is rendered; a score that JSON cannot hold
\* leaves the body empty.
Collect(r) ==
  /\ pc[r] = "evaluate"
  /\ Len(worker[r]) = Len(query[r].names) /\ Running(r) = {}
  /\ \E page \in {Page(r)} :
       Answer(r, 200, IF \E n \in DOMAIN page : page[n].score = NaN THEN <<>> ELSE page)

\* What the goroutines of an admitted request do.
Serve(r) ==
  \/ Acquire(r) \/ Bind(r) \/ Load(r) \/ FetchLeads(r) \/ Launch(r) \/ Collect(r)
  \/ \E i \in DOMAIN worker[r] : Finish(r, i)

Next ==
  \/ Refill
  \/ \E r \in Req : Arrive(r) \/ Serve(r)

Spec == Init /\ [][Next]_vars /\ \A r \in Req : WF_vars(Serve(r))

-----------------------------------------------------------------------------
(* Correctness *)

TypeOK ==
  /\ tokens \in 0..Burst /\ slots \in 0..MCR
  /\ waiting \in Seq(Req)
  /\ pc \in [Req -> Stages]
  /\ query \in [Req -> Queries \cup {NoQuery}]
  /\ worker \in [Req -> Seq({"running", "done"})]
  /\ reply.to \in Req \cup {None} /\ reply.status \in {0, 200, 400, 429, 500}

\* Every request past the limiter holds exactly one slot until it is answered,
\* the blocked ones are in the queue once each, and nobody is blocked while a
\* slot is free: no early return loses a slot, no wake-up hands it out twice.
Holders == {r \in Req : pc[r] \in Holding}

SlotsAccounted ==
  /\ slots = Cardinality(Holders)
  /\ slots <= MCR
  /\ waiting # <<>> => slots = MCR
  /\ IsInjective(waiting)
  /\ Range(waiting) = {r \in Req : pc[r] = "waiting"}

\* A step that answers a request with a page.
Pages(r) == reply'.to = r /\ reply'.page # <<>>
PageOf(r) == reply'.page

\* Whichever goroutine ends first, the page lists the placements in the order
\* the query names them, and the entries of one evaluation by falling score
\* (as long as no lead of the customer is scored NaN).
Ordered(r) ==
  \A m, n \in DOMAIN PageOf(r) : m < n =>
    /\ PageOf(r)[m].at <= PageOf(r)[n].at
    /\ PageOf(r)[m].at = PageOf(r)[n].at => PageOf(r)[m].score >= PageOf(r)[n].score
    /\ PageOf(r)[n].source = query[r].names[PageOf(r)[n].at]

RepliesRanked ==
  [][\A r \in Req :
       Pages(r) /\ (\A n \in DOMAIN leads[r] : leads[r][n].score # NaN) => Ordered(r)]_vars

\* How many entries of a schedule the query asks for: one per variation that
\* passes, and for a SALES_TARGET rule one per lead of the placement; a name
\* given k times appends the schedules up to k times and evaluates them k times.
Due(r, name, sched) ==
  LET ways == IF sched.variations = <<>> THEN <<sched.bare>> ELSE sched.variations
      passing == Cardinality({v \in DOMAIN ways : query[r].attrs \in ways[v]})
      offers == Cardinality({n \in DOMAIN leads[r] : name \in leads[r][n].placements})
  IN  IF sched.id \in lost[r] THEN 0
      ELSE Occurrences(query[r], name) * copies[r][name] * passing
           * (IF sched.type = "SALES_TARGET" THEN offers ELSE 1)

Listed(r, name, sched) ==
  Cardinality({n \in DOMAIN PageOf(r) : PageOf(r)[n].source = name /\ PageOf(r)[n].rule = sched.id})

\* A page that pageSize does not cut holds every entry that is due, as often
\* as it is due, and a page that it cuts never more: no evaluation overwrites
\* another's result or is merged before it ended.
Complete(r) ==
  \A name \in Named(query[r]) : \A k \in DOMAIN Inventory[name] :
    LET sched == Inventory[name][k]
    IN  IF query[r].page > 0 /\ Len(PageOf(r)) = query[r].page
        THEN Listed(r, name, sched) <= Due(r, name, sched)
        ELSE Listed(r, name, sched) = Due(r, name, sched)

RepliesComplete == [][\A r \in Req : Pages(r) => Complete(r)]_vars

\* A SALES_TARGET entry on a page is a lead for that placement, and the leads
\* the request evaluated are this very customer's in a single answer of CLEN.
Sales(entry) ==
  \E k \in DOMAIN Inventory[entry.source] :
    /\ Inventory[entry.source][k].id = entry.rule
    /\ Inventory[entry.source][k].type = "SALES_TARGET"

Offered(entry, q, offered) ==
  /\ q.idType = "CIS_ID"
  /\ \E groups \in Answers : \E g \in DOMAIN groups :
       groups[g].ip = q.customer /\ groups[g].leads = offered
  /\ \E l \in DOMAIN offered :
       offered[l].content = entry.content /\ entry.source \in offered[l].placements

SalesNeedLead ==
  [][\A r \in Req : Pages(r) =>
       \A n \in DOMAIN PageOf(r) :
          Sales(PageOf(r)[n]) => Offered(PageOf(r)[n], query[r], leads[r])]_vars

\* Every request that passes the limiter is answered, those blocked on the
\* semaphore included, although nothing but a release wakes them.
RequestsAnswered ==
  \A r \in Req : pc[r] = "arrived" ~> pc[r] = "idle"
=============================================================================

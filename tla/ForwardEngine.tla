----------------------------- MODULE ForwardEngine -----------------------------
(***************************************************************************)
(* The DNS forwarding engine of src/forward.rs: client queries are folded  *)
(* onto identical ones in flight or sent upstream from a pooled socket,    *)
(* replies are validated, failed over or delivered, and a once-a-second    *)
(* housekeeping pass expires queries, picks up a reloaded configuration    *)
(* and reconciles the listeners.  One task runs the whole loop, so each    *)
(* handler is one action; what other tasks do to the shared configuration  *)
(* (Reload), the network and the kernel interleave freely.                 *)
(*                                                                         *)
(* A server is a record [addr, domain, uid]; its index in the list is what *)
(* the code stores in `sentto`, `tried` and in the sockets.  A request is  *)
(* [source, orig_id, question, flags]; `via` in a client record is a       *)
(* history field, the listener the query really arrived on.                *)
(***************************************************************************)
EXTENDS RandFdPool, FrecTable, DynamicListeners

CONSTANTS Ids,           \* transaction ids (u16 without 0)
          Requests,      \* the queries clients may send
          QName,         \* question -> name, as a sequence of labels
          Servers,       \* upstream servers
          Config0,       \* the server list the daemon starts with
          ServerLists,   \* the server lists a reload may install
          MaxRetries,    \* config.max_retries
          MaxLag,        \* how late housekeeping may be, in time units
          LoopDetect     \* --dns-loop-detect

ASSUME EngineAssumption ==
  /\ IsFiniteSet(Ids)
  /\ Config0 \in Seq(Servers) /\ ServerLists \subseteq Seq(Servers)
  /\ MaxRetries \in Nat /\ MaxLag \in Nat \ {0}
  /\ LoopDetect \in BOOLEAN

VARIABLES frecs,      \* table.frecs
          srcCount,   \* table.frec_src_count
          pool,       \* rfd_pool
          config,     \* config.upstreams, server_domains and loop_servers
          looping,    \* indices of loop_servers flagged LOOP
          shared      \* the SharedForwardConfig a reload replaces

tableVars  == <<frecs, srcCount, pool>>
configVars == <<config, looping, shared>>
vars       == <<tableVars, configVars, listenVars>>

Init ==
  /\ frecs = <<>> /\ srcCount = 0 /\ pool = EmptyPool
  /\ config = Config0 /\ looping = {} /\ shared = Config0
  /\ ListenInit

---------------------------------------------------------------------------
(* Server selection *)

\* `candidate_servers`: the servers of the longest matching domain, else the
\* unrestricted ones.
Candidates(question) ==
  LET scoped == {i \in DOMAIN config :
                   config[i].domain # <<>> /\ IsSuffix(config[i].domain, QName[question])}
  IN  IF scoped = {} THEN {i \in DOMAIN config : config[i].domain = <<>>}
      ELSE {i \in scoped : \A j \in scoped : Len(config[j].domain) <= Len(config[i].domain)}

\* The server a new query goes to.
FirstServer(question) == NextServer(Candidates(question) \ looping, {}, 0)

\* `next_untried_server`
NextUntried(f) ==
  IF f.retries >= MaxRetries THEN {} ELSE NextServer(Candidates(f.question), f.tried, f.sentto)

\* `send_upstream` from a transaction that holds `rfds`: the outcomes.
SendUpstream(p, rfds, server) ==
  IF server \in DOMAIN config
  THEN {[pool |-> o.pool, rfds |-> o.fdl, sent |-> o.ok /\ ok] :
           o \in Allocate(p, rfds, server), ok \in BOOLEAN}
  ELSE {[pool |-> p, rfds |-> rfds, sent |-> FALSE]}

\* `free_frec` for the frecs F of table t, with `release_rfds` into pool p.
Free(t, p, F) ==
  /\ frecs' = FreeFrecs(t, F)
  /\ pool'  = FreeRfds(p, ReleasedRfds(t, p.slots, F))

---------------------------------------------------------------------------
(* forward_query *)

Client(req, l) == [req |-> req, fd |-> l, via |-> listeners[l]]

\* No duplicate in flight, and the query cannot be admitted.
TurnAway(req) ==
  /\ LookupByQuestion(frecs, req.question, req.flags) = {}
  /\ \A s \in FirstServer(req.question) : GroupFull(frecs, s)
  /\ UNCHANGED vars

NewFrec(req, l, s, id, rfds) ==
  [sentto |-> s, new_id |-> id, flags |-> req.flags, question |-> req.question, age |-> 0,
   tried |-> {s}, retries |-> 0, src |-> Client(req, l), extra |-> {}, rfds |-> rfds]

\* The table and the pool once `get_new_frec` has evicted.
TableMade == FreeFrecs(frecs, Evicted(frecs))
PoolMade  == FreeRfds(pool, ReleasedRfds(frecs, pool.slots, Evicted(frecs)))

\* A new transaction: its frec is filled in and its first datagram leaves, or cannot
\* leave and the frec is freed again.
ForwardNew(req, l) ==
  /\ LookupByQuestion(frecs, req.question, req.flags) = {}
  /\ \E s \in FirstServer(req.question), id \in Ids :
       /\ ~GroupFull(frecs, s)
       /\ ~IdInUse(TableMade, id)
       /\ \E o \in SendUpstream(PoolMade, {}, s) :
            LET i     == TargetSlot(frecs)
                begun == PutFrec(TableMade, i, NewFrec(req, l, s, id, o.rfds))
            IN  \/ o.sent /\ frecs' = begun /\ pool' = o.pool
                \/ ~o.sent /\ Free(begun, o.pool, {i})
  /\ srcCount' = SrcCountAfterFree(frecs, srcCount, Evicted(frecs))
  /\ UNCHANGED <<configVars, listenVars>>

---------------------------------------------------------------------------
(* join_in_flight, for the frec i that asks the same question *)

Known(f, req) == \E c \in Srcs(f) : c.req.source = req.source /\ c.req.orig_id = req.orig_id

\* `add_src` for the clients in `new` (at most one), and the sockets now held.
Attach(f, rfds, new) == [f EXCEPT !.rfds = rfds, !.extra = @ \cup new]

\* The budget for duplicate clients is spent.
JoinRefused(req, i) ==
  /\ ~Known(frecs[i], req)
  /\ srcCount >= MaxPerGroup
  /\ IF frecs[i].age >= FrecTimeout
     THEN Free(frecs, pool, {i}) /\ srcCount' = SrcCountAfterFree(frecs, srcCount, {i})
     ELSE UNCHANGED tableVars
  /\ UNCHANGED <<configVars, listenVars>>

\* `add_src`, and nothing is sent: the first query is still fresh.
JoinWait(req, l, i) ==
  /\ ~Known(frecs[i], req)
  /\ srcCount < MaxPerGroup
  /\ frecs[i].age < RetryAge
  /\ frecs' = [frecs EXCEPT ![i] = Attach(@, @.rfds, {Client(req, l)})]
  /\ srcCount' = srcCount + 1
  /\ UNCHANGED <<pool, configVars, listenVars>>

\* A retry by a known client, or a new client on an older query: re-send.
JoinResend(req, l, i) ==
  /\ Known(frecs[i], req) \/ (srcCount < MaxPerGroup /\ frecs[i].age >= RetryAge)
  /\ \E o \in SendUpstream(pool, frecs[i].rfds, frecs[i].sentto) :
       /\ pool'  = o.pool
       /\ frecs' = [frecs EXCEPT ![i] = Attach(@, o.rfds, IF Known(@, req) THEN {}
                                                          ELSE {Client(req, l)})]
  /\ srcCount' = IF Known(frecs[i], req) THEN srcCount ELSE srcCount + 1
  /\ UNCHANGED <<configVars, listenVars>>

JoinInFlight(req, l) ==
  \E i \in LookupByQuestion(frecs, req.question, req.flags) :
    JoinRefused(req, i) \/ JoinWait(req, l, i) \/ JoinResend(req, l, i)

---------------------------------------------------------------------------
(* accept_reply *)

\* What an upstream datagram carries.  "ignored" is a NOERROR answer with an address of
\* --ignore-address, "fail" is SERVFAIL or REFUSED.
Replies ==
  [id : Ids, question : DOMAIN QName, from : {config[s].addr : s \in DOMAIN config},
   slot : OpenSlots(pool.slots), rcode : {"answer", "ignored", "fail"}]

\* `validate_reply`
ValidateReply(r) ==
  {i \in LookupFrec(frecs, r.id) :
     /\ frecs[i].question = r.question
     /\ r.slot \in frecs[i].rfds
     /\ frecs[i].sentto \in DOMAIN config
     /\ config[frecs[i].sentto].addr = r.from}

DropReply(r) ==
  /\ ValidateReply(r) = {} \/ r.rcode = "ignored"
  /\ UNCHANGED vars

\* The frec of a query that is being sent to s after a failure.
Retried(f, s, rfds) ==
  [f EXCEPT !.retries = @ + 1, !.sentto = s, !.tried = @ \cup {s}, !.rfds = rfds]

\* Another server is asked; when nothing can be sent to it the failure is delivered.
Failover(r, i) ==
  /\ r.rcode = "fail"
  /\ \E s \in NextUntried(frecs[i]) :
       \E o \in SendUpstream(pool, frecs[i].rfds, s) :
         LET again == [frecs EXCEPT ![i] = Retried(@, s, o.rfds)]
         IN  \/ /\ o.sent
                /\ frecs' = again /\ pool' = o.pool
                /\ UNCHANGED srcCount
             \/ /\ ~o.sent
                /\ Free(again, o.pool, {i})
                /\ srcCount' = SrcCountAfterFree(frecs, srcCount, {i})
  /\ UNCHANGED <<configVars, listenVars>>

\* The reply goes to every client of the query, which ends.
Deliver(r, i) ==
  /\ r.rcode = "answer" \/ (r.rcode = "fail" /\ NextUntried(frecs[i]) = {})
  /\ Free(frecs, pool, {i})
  /\ srcCount' = SrcCountAfterFree(frecs, srcCount, {i})
  /\ UNCHANGED <<configVars, listenVars>>

AcceptReply(r) == \E i \in ValidateReply(r) : Failover(r, i) \/ Deliver(r, i)

---------------------------------------------------------------------------
(* Time, housekeeping, reload and loop detection *)

\* A unit of time passes.  Housekeeping runs every second of the same loop, so an
\* overdue query does not stay for more than MaxLag units.
Tick ==
  /\ InFlight(frecs) # {}
  /\ \A i \in InFlight(frecs) : frecs[i].age < FrecTimeout + MaxLag
  /\ frecs' = [i \in DOMAIN frecs |->
                 IF i \in InFlight(frecs) /\ frecs[i].age < HardTimeout
                 THEN [frecs[i] EXCEPT !.age = @ + 1] ELSE frecs[i]]
  /\ UNCHANGED <<srcCount, pool, configVars, listenVars>>

\* `refresh_config`, `expire_queries` and the listener reconciliation.
Housekeeping ==
  /\ config' = shared /\ looping' = {}
  /\ Free(frecs, pool, Stale(frecs, FrecTimeout))
  /\ srcCount' = SrcCountAfterFree(frecs, srcCount, Stale(frecs, FrecTimeout))
  /\ RefreshDynamic
  /\ UNCHANGED shared

\* `clear_cache_and_reload` swaps in a new configuration.
Reload ==
  /\ shared' \in ServerLists
  /\ UNCHANGED <<tableVars, config, looping, listenVars>>

\* `detect_loop`: a probe sent at startup comes back as a client query.
LoopProbe(uid) ==
  LET hits == {i \in DOMAIN config :
                 config[i].domain = <<>> /\ i \notin looping /\ config[i].uid = uid}
  IN  /\ LoopDetect
      /\ hits # {}
      /\ looping' = looping \cup {Min(hits)}
      /\ UNCHANGED <<tableVars, config, shared, listenVars>>

Probed == {Config0[s].uid : s \in {s \in DOMAIN Config0 : Config0[s].domain = <<>>}}

Incoming ==
  \/ \E req \in Requests :
       \/ TurnAway(req)
       \/ \E l \in DOMAIN listeners : ForwardNew(req, l) \/ JoinInFlight(req, l)
  \/ \E uid \in Probed : LoopProbe(uid)

Upstream == \E r \in Replies : DropReply(r) \/ AcceptReply(r)

\* Address changes matter to the loop only under --bind-dynamic.
Environment == CleverBind /\ Kernel /\ UNCHANGED <<tableVars, configVars>>

Next == Incoming \/ Upstream \/ Tick \/ Housekeeping \/ Reload \/ Environment

\* The 1-second interval of the loop always fires again, time passes, and enumerating
\* the interfaces does not fail for ever.
Spec ==
  /\ Init /\ [][Next]_vars
  /\ WF_vars(Tick) /\ WF_vars(Housekeeping) /\ WF_vars(Housekeeping /\ interfaces' = Present)

---------------------------------------------------------------------------
(* Properties *)

\* The table is a sequence of well-formed frecs, a free one is empty (`free_frec` resets
\* it) and one in flight has an id; the fixed pool is always there, and every index the
\* engine holds for a server is one the lists can have.
IsFrec(f) ==
  /\ f \in [sentto : Nat, new_id : Ids \cup {0}, flags : {f.flags}, question : {f.question},
            age : 0 .. HardTimeout, tried : SUBSET Nat, retries : Nat, src : {f.src},
            extra : {f.extra}, rfds : SUBSET Nat]
  /\ IF f.sentto = 0 THEN f = FreeFrec ELSE f.new_id \in Ids

IsTable(t) ==
  /\ t \in Seq({t[i] : i \in DOMAIN t})
  /\ \A i \in DOMAIN t : IsFrec(t[i])

IsPool(p) ==
  /\ p \in [slots : Seq(Slot), finger : Nat]
  /\ Len(p.slots) >= NumRRand

TypeOK ==
  /\ IsTable(frecs) /\ IsPool(pool) /\ srcCount \in Nat
  /\ config \in Seq(Servers) /\ shared \in Seq(Servers) /\ looping \subseteq DOMAIN config

\* No two queries in flight share a transaction id, however slots are evicted and
\* reused: `get_id` draws against the table after `get_new_frec` has evicted.
IdsUnique ==
  \A i, j \in InFlight(frecs) : frecs[i].new_id = frecs[j].new_id => i = j

\* Socket accounting: a slot's reference count is the number of queries that hold it,
\* so a socket is closed exactly when its last query ends (`free_rfds`), a query never
\* holds a closed socket, and a temporary socket is never shared.
Holders(t, k) == {i \in DOMAIN t : k \in t[i].rfds}

SocketsAccounted ==
  /\ \A i \in DOMAIN frecs : frecs[i].rfds \subseteq OpenSlots(pool.slots)
  /\ \A k \in DOMAIN pool.slots :
       /\ pool.slots[k].refcount = Cardinality(Holders(frecs, k))
       /\ pool.slots[k].temporary => pool.slots[k].refcount <= 1

\* `frec_src_count` is exactly the number of duplicate-client records in the table and
\* never exceeds the budget, so the saturating subtraction never loses one.
SrcBudget ==
  /\ srcCount = Cardinality(ExtraSrcs(frecs, DOMAIN frecs))
  /\ srcCount <= MaxPerGroup

\* Everyone folded onto a query asked its question in its EDNS0/DNSSEC context, and no
\* client is listed twice: one reply is right for all of them.
ClientsAgree ==
  \A i \in InFlight(frecs) :
    /\ \A c \in Srcs(frecs[i]) :
         c.req.question = frecs[i].question /\ c.req.flags = frecs[i].flags
    /\ \A c, d \in Srcs(frecs[i]) :
         c.req.source = d.req.source /\ c.req.orig_id = d.req.orig_id => c = d
    /\ frecs[i].src \notin frecs[i].extra

\* The retry bookkeeping of a query agrees with the servers it has been sent to.
RetriesBounded ==
  \A i \in InFlight(frecs) :
    /\ frecs[i].sentto \in frecs[i].tried
    /\ frecs[i].retries = Cardinality(frecs[i].tried) - 1
    /\ frecs[i].retries <= MaxRetries

\* While housekeeping is not delayed past the hard timeout, a question is in flight at
\* most once per context: duplicate detection never misses.
OneQueryPerQuestion ==
  \A i, j \in InFlight(frecs) :
    frecs[i].question = frecs[j].question /\ frecs[i].flags = frecs[j].flags => i = j

\* A query younger than FrecTimeout keeps its slot, id, question and clients and never
\* gets younger until a reply ends it: no eviction, expiry or reload takes it away.
Continues(i) ==
  /\ i \in InFlight(frecs)'
  /\ frecs'[i].new_id = frecs[i].new_id /\ frecs'[i].question = frecs[i].question
  /\ Srcs(frecs[i]) \subseteq Srcs(frecs'[i])
  /\ frecs'[i].age >= frecs[i].age

YoungQueriesKept ==
  [][\A i \in InFlight(frecs) :
       frecs[i].age < FrecTimeout =>
         Continues(i) \/ \E r \in Replies : i \in ValidateReply(r) /\ AcceptReply(r)]_vars

\* A query is only ever moved to a server it has not been sent to.
FailoverToUntried ==
  [][\A i \in InFlight(frecs) :
       frecs[i].age < FrecTimeout /\ Continues(i) /\ frecs'[i].sentto # frecs[i].sentto =>
         /\ frecs'[i].sentto \notin frecs[i].tried
         /\ frecs'[i].tried = frecs[i].tried \cup {frecs'[i].sentto}]_vars

\* Both: failing over makes progress through the servers and comes to an end, whatever
\* late answers and further failures arrive (`process_reply`'s retry, `retries`).
FailoverAdvances == [][RetriesBounded']_vars /\ FailoverToUntried

\* No query stays in flight for ever: from any age its slot is eventually free or taken
\* by a younger query.
InFlightAt(i, a) == i \in InFlight(frecs) /\ frecs[i].age = a
EndedOrYounger(i, a) == i \in InFlight(frecs) => frecs[i].age < a

EveryQueryEnds ==
  \A i \in 1 .. Cardinality(Ids), a \in 1 .. HardTimeout :
    InFlightAt(i, a) ~> EndedOrYounger(i, a)

---------------------------------------------------------------------------
(* What comments of the code say and the code does not do (see README) *)

\* A server marked as looping stays marked while the server list is the same: the next
\* probe round, which would clear it, never comes.
LoopMarkStays == [][config' = config => looping \subseteq looping']_vars

\* A configuration swap leaves the server of every query in flight what it was.
ReloadKeepsServers ==
  [][\A i \in InFlight(frecs) \cap InFlight(frecs)' :
       frecs'[i] = frecs[i] /\ frecs[i].sentto \in DOMAIN config =>
         /\ frecs[i].sentto \in DOMAIN config'
         /\ config'[frecs[i].sentto].addr = config[frecs[i].sentto].addr]_vars

\* A reply leaves by the listener its query arrived on, as long as that is bound.
ReplyByArrivalListener ==
  \A i \in InFlight(frecs) : \A c \in Srcs(frecs[i]) :
    (\E l \in DOMAIN listeners : listeners[l] = c.via) =>
      listeners[IF c.fd <= Len(listeners) THEN c.fd ELSE 1] = c.via
===============================================================================

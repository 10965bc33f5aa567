-------------------------- MODULE ForwardEngineProofs --------------------------
(***************************************************************************)
(* Safety of ForwardEngine for every size of the table, the pool and the   *)
(* server lists: types, unique transaction ids, socket accounting and the  *)
(* duplicate-client budget.  The inductive invariant is IInv.              *)
(***************************************************************************)
EXTENDS ForwardEngineLemmas

ConfigOK ==
  config \in Seq(Servers) /\ shared \in Seq(Servers) /\ looping \subseteq DOMAIN config

IInv == Good(frecs, pool, srcCount) /\ ConfigOK

\* What IInv gives of the table and the pool.
LEMMA IInvFacts ==
  ASSUME IInv
  PROVE  /\ Good(frecs, pool, srcCount) /\ IsTable(frecs) /\ IsPool(pool)
         /\ UniqueIds(frecs) /\ srcCount \in Nat
BY DEF IInv, Good

\* The servers a query may be sent to are indices of the list.
LEMMA ServersIn ==
  ASSUME IInv, NEW question, NEW f
  PROVE  /\ FirstServer(question) \subseteq Nat \ {0}
         /\ NextUntried(f) \subseteq Nat \ {0}
<1>1. DOMAIN config \subseteq Nat \ {0}
  BY DEF IInv, ConfigOK
<1>2. \A qu : Candidates(qu) \subseteq DOMAIN config
  BY DEF Candidates
<1>3. Candidates(question) \ looping \in SUBSET Nat /\ Candidates(f.question) \in SUBSET Nat
  BY <1>1, <1>2
<1>4. FirstServer(question) \subseteq Candidates(question) \ looping
  BY <1>3, NextServerIn DEF FirstServer
<1>5. NextServer(Candidates(f.question), f.tried, f.sentto) \subseteq Candidates(f.question)
  BY <1>3, NextServerIn
<1> QED BY <1>1, <1>2, <1>4, <1>5 DEF NextUntried

\* What `send_upstream` leaves is what an allocation leaves.
LEMMA SendOutcome ==
  ASSUME NEW p, NEW fdl, NEW s, NEW o \in SendUpstream(p, fdl, s)
  PROVE  Sends(p, fdl, s, o.pool, o.rfds)
BY DEF SendUpstream, Sends

---------------------------------------------------------------------------
(* One lemma per handler *)

\* A new transaction, sent or given up.
LEMMA ForwardNewStep ==
  ASSUME IInv, NEW req, NEW l, ForwardNew(req, l)
  PROVE  Good(frecs', pool', srcCount')
<1> DEFINE made == TableMade
           pm == PoolMade
           n == SrcCountAfterFree(frecs, srcCount, Evicted(frecs))
           i == TargetSlot(frecs)
<1>1. IsTable(frecs) /\ Good(frecs, pool, srcCount)
  BY IInvFacts
<1>2. i \in 1 .. Len(frecs) + 1 /\ Evicted(frecs) \subseteq DOMAIN frecs /\ i \notin InFlight(made)
  BY <1>1, TargetIdle DEF TableMade
<1>3. Good(made, pm, n)
  BY <1>1, <1>2, FreeGood DEF TableMade, PoolMade
<1>4. Len(made) = Len(frecs)
  BY <1>1, <1>2, FreeTable DEF TableMade
<1>4a. PICK s \in FirstServer(req.question), id \in Ids :
         /\ ~IdInUse(made, id)
         /\ \E o \in SendUpstream(pm, {}, s) :
              \/ frecs' = PutFrec(made, i, NewFrec(req, l, s, id, o.rfds)) /\ pool' = o.pool
              \/ Free(PutFrec(made, i, NewFrec(req, l, s, id, o.rfds)), o.pool, {i})
  BY DEF ForwardNew
<1>5. PICK o \in SendUpstream(pm, {}, s) :
        \/ frecs' = PutFrec(made, i, NewFrec(req, l, s, id, o.rfds)) /\ pool' = o.pool
        \/ Free(PutFrec(made, i, NewFrec(req, l, s, id, o.rfds)), o.pool, {i})
  BY <1>4a
<1>6. srcCount' = n
  BY DEF ForwardNew
<1> HIDE DEF made, pm, n, i
<1> DEFINE f == NewFrec(req, l, s, id, o.rfds)
           begun == PutFrec(made, i, f)
<1>7. s \in Nat \ {0}
  BY ServersIn
<1>8. IsTable(made) /\ IsPool(pm) /\ n \in Nat /\ i \in 1 .. Len(made) + 1
  BY <1>2, <1>3, <1>4, TableAssumption DEF Good
<1>9. HeldBy(made, i) = {} /\ ClientsOf(made, i) = {}
  BY <1>2, <1>8, IdleEmpty
<1>10. Sends(pm, HeldBy(made, i), s, o.pool, o.rfds)
  BY <1>9, SendOutcome
<1>11. o.rfds \in SUBSET Nat
  BY <1>7, <1>8, <1>10, SendSlots
<1>12. IsFrec(f) /\ f.rfds = o.rfds /\ f.extra = {} /\ f.new_id = id
  BY <1>7, <1>11, TableAssumption DEF NewFrec, IsFrec, HardTimeout
<1>13. \A j \in InFlight(made) : j # i => made[j].new_id # f.new_id
  BY <1>4a, <1>12 DEF IdInUse
<1> HIDE DEF f
<1>14. Good(begun, o.pool, n)
  <2>1. Sends(pm, HeldBy(made, i), s, o.pool, f.rfds) /\ f.extra = ClientsOf(made, i)
    BY <1>9, <1>10, <1>12
  <2>2. s \in Nat
    BY <1>7
  <2> QED BY <1>3, <1>8, <1>12, <1>13, <2>1, <2>2, PutGood, Zenon
<1>15. CASE frecs' = begun /\ pool' = o.pool
  BY <1>6, <1>14, <1>15
<1>16. CASE Free(begun, o.pool, {i})
  <2>1. PutAt(begun, made, i, f)
    BY <1>8, <1>12, PutTable, Zenon
  <2> HIDE DEF begun
  <2>2. i \in DOMAIN begun /\ begun[i].extra = {}
    BY <1>12, <2>1 DEF PutAt
  <2>3. ExtraSrcs(begun, {i}) = {}
    BY <2>2 DEF ExtraSrcs
  <2>4. SrcCountAfterFree(begun, n, {i}) = n
    <3>1. Cardinality(ExtraSrcs(begun, {i})) = 0
      BY <2>3, FS_EmptySet
    <3>2. n \in Nat
      BY <1>8
    <3> QED BY <3>1, <3>2 DEF SrcCountAfterFree
  <2>5. {i} \subseteq DOMAIN begun
    BY <2>2
  <2>6. Good(FreeFrecs(begun, {i}), FreeRfds(o.pool, ReleasedRfds(begun, o.pool.slots, {i})),
             SrcCountAfterFree(begun, n, {i}))
    BY <1>14, <2>5, FreeGood
  <2> QED BY <1>6, <1>16, <2>4, <2>6 DEF Free
<1> QED BY <1>5, <1>15, <1>16 DEF begun, f

\* A duplicate that is refused, attached, or attached and re-sent.
LEMMA JoinStep ==
  ASSUME IInv, NEW req, NEW l, JoinInFlight(req, l)
  PROVE  Good(frecs', pool', srcCount')
<1>1. Good(frecs, pool, srcCount) /\ IsTable(frecs) /\ IsPool(pool) /\ UniqueIds(frecs) /\ srcCount \in Nat
  BY IInvFacts
<1>2. PICK i \in InFlight(frecs) : JoinRefused(req, i) \/ JoinWait(req, l, i) \/ JoinResend(req, l, i)
  BY <1>1, LookupInFlight DEF JoinInFlight
<1>3. i \in DOMAIN frecs /\ IsFrec(frecs[i]) /\ frecs[i].sentto \in Nat \ {0}
  BY <1>1, <1>2 DEF InFlight, IsTable, IsFrec
<1>4. HeldBy(frecs, i) = frecs[i].rfds /\ ClientsOf(frecs, i) = frecs[i].extra /\ frecs[i].rfds \in SUBSET Nat
  BY <1>3 DEF HeldBy, ClientsOf, IsFrec
<1>5. \A j \in InFlight(frecs) : j # i => frecs[j].new_id # frecs[i].new_id
  BY <1>1, <1>2 DEF UniqueIds
<1>6. ~Known(frecs[i], req) => Client(req, l) \notin frecs[i].extra
  BY DEF Known, Srcs, Client
<1>7. CASE JoinRefused(req, i)
  <2>1. {i} \subseteq DOMAIN frecs
    BY <1>3
  <2>2. Good(FreeFrecs(frecs, {i}), FreeRfds(pool, ReleasedRfds(frecs, pool.slots, {i})),
             SrcCountAfterFree(frecs, srcCount, {i}))
    BY <1>1, <2>1, FreeGood
  <2> QED BY <1>1, <1>7, <2>2 DEF JoinRefused, Free, tableVars
<1>8. CASE JoinWait(req, l, i)
  <2> DEFINE f == Attach(frecs[i], frecs[i].rfds, {Client(req, l)})
  <2>1. /\ frecs' = [frecs EXCEPT ![i] = f] /\ pool' = pool
        /\ srcCount' = srcCount + 1 /\ srcCount < MaxPerGroup /\ ~Known(frecs[i], req)
    BY <1>8 DEF JoinWait
  <2>2. /\ IsFrec(f) /\ f.new_id = frecs[i].new_id /\ f.rfds = frecs[i].rfds
        /\ f.extra = frecs[i].extra \cup {Client(req, l)}
    <3>1. SameQuery(f, frecs[i], frecs[i].rfds, frecs[i].extra \cup {Client(req, l)})
      BY <1>3, <1>4, AttachFrec
    <3> QED BY <3>1 DEF SameQuery
  <2> HIDE DEF f
  <2>3. frecs' = PutFrec(frecs, i, f) /\ i \in 1 .. Len(frecs) + 1
    BY <1>1, <1>3, <2>1, ExceptPut
  <2>4. Sends(pool, HeldBy(frecs, i), 0, pool, f.rfds)
    BY <1>4, <2>2 DEF Sends
  <2>5. \A j \in InFlight(frecs) : j # i => frecs[j].new_id # f.new_id
    BY <1>5, <2>2
  <2>6. Client(req, l) \notin ClientsOf(frecs, i) /\ f.extra = ClientsOf(frecs, i) \cup {Client(req, l)}
    BY <1>4, <1>6, <2>1, <2>2
  <2>7. 0 \in Nat
    OBVIOUS
  <2>8. Good(PutFrec(frecs, i, f), pool, srcCount + 1)
    BY <1>1, <2>1, <2>2, <2>3, <2>4, <2>5, <2>6, <2>7, PutGood, Zenon
  <2> QED BY <2>1, <2>3, <2>8
<1>9. CASE JoinResend(req, l, i)
  <2> DEFINE new == IF Known(frecs[i], req) THEN {} ELSE {Client(req, l)}
  <2>1. PICK o \in SendUpstream(pool, frecs[i].rfds, frecs[i].sentto) :
          pool' = o.pool /\ frecs' = [frecs EXCEPT ![i] = Attach(frecs[i], o.rfds, new)]
    BY <1>9 DEF JoinResend
  <2>2. \/ Known(frecs[i], req) /\ srcCount' = srcCount
        \/ ~Known(frecs[i], req) /\ srcCount' = srcCount + 1 /\ srcCount < MaxPerGroup
    BY <1>9 DEF JoinResend
  <2> DEFINE f == Attach(frecs[i], o.rfds, new)
  <2>3. Sends(pool, HeldBy(frecs, i), frecs[i].sentto, o.pool, o.rfds)
    BY <1>4, SendOutcome
  <2>4. o.rfds \in SUBSET Nat
    BY <1>1, <1>3, <2>3, SendSlots
  <2>5. /\ IsFrec(f) /\ f.new_id = frecs[i].new_id /\ f.rfds = o.rfds
        /\ f.extra = frecs[i].extra \cup new
    <3>1. SameQuery(f, frecs[i], o.rfds, frecs[i].extra \cup new)
      BY <1>3, <2>4, AttachFrec
    <3> QED BY <3>1 DEF SameQuery
  <2>6. \/ srcCount' = srcCount /\ f.extra = ClientsOf(frecs, i)
        \/ /\ srcCount' = srcCount + 1 /\ srcCount < MaxPerGroup
           /\ \E c : c \notin ClientsOf(frecs, i) /\ f.extra = ClientsOf(frecs, i) \cup {c}
    BY <1>4, <1>6, <2>2, <2>5
  <2>7. frecs' = [frecs EXCEPT ![i] = f]
    BY <2>1
  <2> HIDE DEF f, new
  <2>8. frecs' = PutFrec(frecs, i, f) /\ i \in 1 .. Len(frecs) + 1
    BY <1>1, <1>3, <2>7, ExceptPut
  <2>9. \A j \in InFlight(frecs) : j # i => frecs[j].new_id # f.new_id
    BY <1>5, <2>5
  <2>10. Sends(pool, HeldBy(frecs, i), frecs[i].sentto, o.pool, f.rfds) /\ frecs[i].sentto \in Nat
    BY <1>3, <2>3, <2>5
  <2> DEFINE m == srcCount'
  <2>11. \/ m = srcCount /\ f.extra = ClientsOf(frecs, i)
         \/ /\ m = srcCount + 1 /\ srcCount < MaxPerGroup
            /\ \E c : c \notin ClientsOf(frecs, i) /\ f.extra = ClientsOf(frecs, i) \cup {c}
    BY <2>6
  <2> HIDE DEF m
  <2>12. Good(PutFrec(frecs, i, f), o.pool, m)
    BY <1>1, <2>5, <2>8, <2>9, <2>10, <2>11, PutGood, Zenon
  <2> QED BY <2>1, <2>8, <2>12 DEF m
<1> QED BY <1>2, <1>7, <1>8, <1>9

\* A reply that is delivered, or a failure that moves the query to another server.
LEMMA ReplyStep ==
  ASSUME IInv, NEW r, AcceptReply(r)
  PROVE  Good(frecs', pool', srcCount')
<1>1. Good(frecs, pool, srcCount) /\ IsTable(frecs) /\ IsPool(pool) /\ UniqueIds(frecs)
  BY IInvFacts
<1>2. PICK i \in InFlight(frecs) : Failover(r, i) \/ Deliver(r, i)
  BY <1>1, LookupInFlight DEF AcceptReply, ValidateReply
<1>3. i \in DOMAIN frecs /\ IsFrec(frecs[i]) /\ frecs[i].sentto # 0
  BY <1>1, <1>2 DEF InFlight, IsTable
<1>4. HeldBy(frecs, i) = frecs[i].rfds /\ ClientsOf(frecs, i) = frecs[i].extra
  BY <1>3 DEF HeldBy, ClientsOf
<1>5. \A j \in InFlight(frecs) : j # i => frecs[j].new_id # frecs[i].new_id
  BY <1>1, <1>2 DEF UniqueIds
<1>6. CASE Deliver(r, i)
  <2>1. {i} \subseteq DOMAIN frecs
    BY <1>3
  <2>2. Good(FreeFrecs(frecs, {i}), FreeRfds(pool, ReleasedRfds(frecs, pool.slots, {i})),
             SrcCountAfterFree(frecs, srcCount, {i}))
    BY <1>1, <2>1, FreeGood
  <2> QED BY <1>6, <2>2 DEF Deliver, Free
<1>7. CASE Failover(r, i)
  <2>1. PICK s \in NextUntried(frecs[i]) : \E o \in SendUpstream(pool, frecs[i].rfds, s) :
          LET again == [frecs EXCEPT ![i] = Retried(frecs[i], s, o.rfds)]
          IN  \/ frecs' = again /\ pool' = o.pool /\ srcCount' = srcCount
              \/ Free(again, o.pool, {i}) /\ srcCount' = SrcCountAfterFree(frecs, srcCount, {i})
    BY <1>7 DEF Failover
  <2>2. PICK o \in SendUpstream(pool, frecs[i].rfds, s) :
          LET again == [frecs EXCEPT ![i] = Retried(frecs[i], s, o.rfds)]
          IN  \/ frecs' = again /\ pool' = o.pool /\ srcCount' = srcCount
              \/ Free(again, o.pool, {i}) /\ srcCount' = SrcCountAfterFree(frecs, srcCount, {i})
    BY <2>1
  <2> DEFINE f == Retried(frecs[i], s, o.rfds)
             again == [frecs EXCEPT ![i] = f]
  <2>3. \/ frecs' = again /\ pool' = o.pool /\ srcCount' = srcCount
        \/ Free(again, o.pool, {i}) /\ srcCount' = SrcCountAfterFree(frecs, srcCount, {i})
    BY <2>2
  <2>4. s \in Nat \ {0} /\ s \in Nat
    BY ServersIn
  <2>5. Sends(pool, HeldBy(frecs, i), s, o.pool, o.rfds)
    BY <1>4, SendOutcome
  <2>6. o.rfds \in SUBSET Nat
    BY <1>1, <2>4, <2>5, SendSlots
  <2>7. IsFrec(f) /\ f.new_id = frecs[i].new_id /\ f.rfds = o.rfds /\ f.extra = frecs[i].extra
    <3>1. SameQuery(f, frecs[i], o.rfds, frecs[i].extra)
      BY <1>3, <2>4, <2>6, RetriedFrec
    <3> QED BY <3>1 DEF SameQuery
  <2> HIDE DEF f
  <2>8. again = PutFrec(frecs, i, f) /\ i \in 1 .. Len(frecs) + 1
    BY <1>1, <1>3, ExceptPut
  <2> HIDE DEF again
  <2>9. \A j \in InFlight(frecs) : j # i => frecs[j].new_id # f.new_id
    BY <1>5, <2>7
  <2>10. Sends(pool, HeldBy(frecs, i), s, o.pool, f.rfds) /\ f.extra = ClientsOf(frecs, i)
    BY <1>4, <2>5, <2>7
  <2>11. Good(PutFrec(frecs, i, f), o.pool, srcCount)
    BY <1>1, <2>4, <2>7, <2>8, <2>9, <2>10, PutGood, Zenon
  <2>12. Good(again, o.pool, srcCount)
    BY <2>8, <2>11
  <2>13. i \in DOMAIN again /\ again[i].extra = frecs[i].extra
    BY <1>3, <2>7 DEF again
  <2>14. ExtraSrcs(again, {i}) = ExtraSrcs(frecs, {i})
    BY <2>13 DEF ExtraSrcs
  <2>15. SrcCountAfterFree(again, srcCount, {i}) = SrcCountAfterFree(frecs, srcCount, {i})
    BY <2>14 DEF SrcCountAfterFree
  <2>16. {i} \subseteq DOMAIN again
    BY <2>13
  <2>17. Good(FreeFrecs(again, {i}), FreeRfds(o.pool, ReleasedRfds(again, o.pool.slots, {i})),
              SrcCountAfterFree(again, srcCount, {i}))
    BY <2>12, <2>16, FreeGood
  <2> QED BY <2>3, <2>12, <2>15, <2>17 DEF Free
<1> QED BY <1>2, <1>6, <1>7

\* Ages do not matter to the invariant as long as they stay in range.
LEMMA TickStep ==
  ASSUME IInv, Tick
  PROVE  Good(frecs', pool', srcCount')
<1> DEFINE n == Len(frecs)
<1>1. Good(frecs, pool, srcCount) /\ IsTable(frecs)
  BY IInvFacts
<1>2. n \in Nat /\ DOMAIN frecs = 1 .. n
  BY <1>1, TableDomain
<1>3. frecs' = [i \in 1 .. n |-> IF i \in InFlight(frecs) /\ frecs[i].age < HardTimeout
                                 THEN [frecs[i] EXCEPT !.age = @ + 1] ELSE frecs[i]]
  BY <1>2 DEF Tick
<1>4. pool' = pool /\ srcCount' = srcCount
  BY DEF Tick
<1> HIDE DEF n
<1>5. ASSUME NEW i \in 1 .. n
      PROVE  /\ IsFrec(frecs'[i]) /\ frecs'[i].sentto = frecs[i].sentto
             /\ frecs'[i].new_id = frecs[i].new_id
             /\ frecs'[i].extra = frecs[i].extra /\ frecs'[i].rfds = frecs[i].rfds
  <2> DEFINE g == frecs[i]
             h == [g EXCEPT !.age = @ + 1]
  <2>1. IsFrec(g)
    BY <1>1, <1>2 DEF IsTable
  <2>2. CASE i \in InFlight(frecs) /\ g.age < HardTimeout
    <3>1. frecs'[i] = h
      BY <1>3, <2>2
    <3>2. g.sentto # 0
      BY <2>2 DEF InFlight
    <3>3. /\ g \in [sentto : {g.sentto}, new_id : {g.new_id}, flags : {g.flags},
                    question : {g.question}, age : {g.age}, tried : {g.tried},
                    retries : {g.retries}, src : {g.src}, extra : {g.extra}, rfds : {g.rfds}]
          /\ g.sentto \in Nat /\ g.new_id \in Ids /\ g.age \in 0 .. HardTimeout
          /\ g.tried \in SUBSET Nat /\ g.retries \in Nat /\ g.rfds \in SUBSET Nat
      BY <2>1, <3>2 DEF IsFrec
    <3> HIDE DEF g
    <3>4. h \in [sentto : {g.sentto}, new_id : {g.new_id}, flags : {g.flags},
                 question : {g.question}, age : {g.age + 1}, tried : {g.tried},
                 retries : {g.retries}, src : {g.src}, extra : {g.extra}, rfds : {g.rfds}]
      BY <3>3
    <3>5. g.age + 1 \in 0 .. HardTimeout
      BY <2>2, <3>3, TableAssumption DEF HardTimeout
    <3> HIDE DEF h
    <3>6. IsFrec(h)
      BY <3>2, <3>3, <3>4, <3>5 DEF IsFrec
    <3>7. h.sentto = g.sentto /\ h.new_id = g.new_id /\ h.extra = g.extra /\ h.rfds = g.rfds
      BY <3>4
    <3> QED BY <3>1, <3>6, <3>7 DEF g
  <2>3. CASE ~(i \in InFlight(frecs) /\ g.age < HardTimeout)
    BY <1>3, <2>1, <2>3
  <2> QED BY <2>2, <2>3
<1> DEFINE u == frecs'
<1>6. u = [i \in 1 .. n |-> u[i]] /\ \A i \in 1 .. n : IsFrec(u[i])
  BY <1>3, <1>5
<1>7. /\ DOMAIN u = DOMAIN frecs
      /\ \A i \in DOMAIN frecs : /\ u[i].sentto = frecs[i].sentto /\ u[i].new_id = frecs[i].new_id
                                 /\ u[i].extra = frecs[i].extra /\ u[i].rfds = frecs[i].rfds
  BY <1>2, <1>3, <1>5
<1> HIDE DEF u
<1>8. IsTable(u)
  BY <1>2, <1>6, TableIntro
<1>9. InFlight(u) = InFlight(frecs) /\ \A k : Holders(u, k) = Holders(frecs, k)
  BY <1>7 DEF InFlight, Holders
<1>10. ExtraSrcs(u, DOMAIN u) = ExtraSrcs(frecs, DOMAIN frecs)
  BY <1>7 DEF ExtraSrcs
<1>11. UniqueIds(u)
  BY <1>1, <1>7, <1>9 DEF UniqueIds, Good, InFlight
<1>12. Accounted(u, pool)
  BY <1>1, <1>7, <1>9 DEF Accounted, Good
<1>13. Budget(u, srcCount)
  BY <1>1, <1>10 DEF Budget, Good
<1>14. Good(u, pool, srcCount)
  BY <1>1, <1>8, <1>11, <1>12, <1>13 DEF Good
<1> QED BY <1>4, <1>14 DEF u

\* Expiry frees frecs, and the configuration is replaced by the shared one.
LEMMA HousekeepingStep ==
  ASSUME IInv, Housekeeping
  PROVE  Good(frecs', pool', srcCount') /\ ConfigOK'
<1>1. Good(frecs, pool, srcCount)
  BY IInvFacts
<1> DEFINE F == Stale(frecs, FrecTimeout)
<1>2. F \subseteq DOMAIN frecs
  BY DEF Stale, InFlight
<1>3. Good(FreeFrecs(frecs, F), FreeRfds(pool, ReleasedRfds(frecs, pool.slots, F)),
           SrcCountAfterFree(frecs, srcCount, F))
  BY <1>1, <1>2, FreeGood
<1>4. Good(frecs', pool', srcCount')
  BY <1>3 DEF Housekeeping, Free
<1>5. ConfigOK'
  BY DEF Housekeeping, ConfigOK, IInv
<1> QED BY <1>4, <1>5

---------------------------------------------------------------------------
(* The invariant *)

\* An empty table, an unused pool and no clients.
LEMMA InitIInv == Init => IInv
<1> SUFFICES ASSUME Init PROVE IInv
  OBVIOUS
<1>1. frecs = <<>> /\ srcCount = 0 /\ pool = EmptyPool /\ config = Config0 /\ looping = {} /\ shared = Config0
  BY DEF Init
<1>2. ConfigOK
  BY <1>1, EngineAssumption DEF ConfigOK
<1>3. DOMAIN frecs = {} /\ 0 \in Nat /\ frecs = [i \in 1 .. 0 |-> frecs[i]]
  BY <1>1
<1>4. IsTable(frecs)
  <2>1. \A i \in 1 .. 0 : IsFrec(frecs[i])
    OBVIOUS
  <2> QED BY <1>3, <2>1, TableIntro
<1>5. EmptyPool.slots = [k \in 1 .. NumRRand |-> NoSocket] /\ NumRRand \in Nat
  BY PoolAssumption DEF EmptyPool
<1>6. IsPool(pool)
  <2>1. NoSocket \in Slot
    BY DEF NoSocket, Slot
  <2>2. EmptyPool.slots \in Seq(Slot) /\ Len(EmptyPool.slots) = NumRRand
    BY <1>5, <2>1
  <2>3. EmptyPool \in [slots : Seq(Slot), finger : Nat]
    BY <2>2 DEF EmptyPool
  <2> QED BY <1>1, <1>5, <2>2, <2>3 DEF IsPool
<1>7. UniqueIds(frecs)
  BY <1>3 DEF UniqueIds, InFlight
<1>8. \A k : Holders(frecs, k) = {}
  BY <1>3 DEF Holders
<1>9. \A k \in DOMAIN pool.slots : pool.slots[k].refcount = 0 /\ ~pool.slots[k].temporary
  BY <1>1, <1>5 DEF NoSocket
<1>10. Accounted(frecs, pool)
  BY <1>3, <1>8, <1>9, FS_EmptySet DEF Accounted
<1>11. ExtraSrcs(frecs, DOMAIN frecs) = {}
  BY <1>3 DEF ExtraSrcs
<1>12. Budget(frecs, srcCount) /\ srcCount \in 0 .. MaxPerGroup
  BY <1>1, <1>11, FS_EmptySet, TableAssumption DEF Budget
<1> QED BY <1>2, <1>4, <1>6, <1>7, <1>10, <1>12 DEF IInv, Good

\* Every step keeps the invariant.
LEMMA NextIInv == IInv /\ [Next]_vars => IInv'
<1> SUFFICES ASSUME IInv, [Next]_vars PROVE IInv'
  OBVIOUS
<1>1. ASSUME Good(frecs', pool', srcCount'), ConfigOK' PROVE IInv'
  BY <1>1 DEF IInv
<1>2. ASSUME UNCHANGED configVars PROVE ConfigOK'
  BY <1>2 DEF IInv, ConfigOK, configVars
<1>3. ASSUME UNCHANGED tableVars PROVE Good(frecs', pool', srcCount')
  BY <1>3, IInvFacts DEF tableVars
<1>4. ASSUME NEW req, TurnAway(req) PROVE IInv'
  BY <1>1, <1>2, <1>3, <1>4 DEF TurnAway, vars
<1>5. ASSUME NEW req, NEW l, ForwardNew(req, l) PROVE IInv'
  <2>1. UNCHANGED configVars
    BY <1>5 DEF ForwardNew
  <2> QED BY <1>1, <1>2, <1>5, <2>1, ForwardNewStep
<1>6. ASSUME NEW req, NEW l, JoinInFlight(req, l) PROVE IInv'
  <2>1. UNCHANGED configVars
    BY <1>6 DEF JoinInFlight, JoinRefused, JoinWait, JoinResend
  <2> QED BY <1>1, <1>2, <1>6, <2>1, JoinStep
<1>7. ASSUME NEW uid, LoopProbe(uid) PROVE IInv'
  <2> DEFINE hits == {i \in DOMAIN config :
                        config[i].domain = <<>> /\ i \notin looping /\ config[i].uid = uid}
  <2>1. /\ hits # {} /\ looping' = looping \cup {Min(hits)}
        /\ UNCHANGED tableVars /\ config' = config /\ shared' = shared
    BY <1>7 DEF LoopProbe
  <2>2. hits \in SUBSET Nat /\ hits \subseteq DOMAIN config
    BY DEF IInv, ConfigOK
  <2> HIDE DEF hits
  <2>3. Min(hits) \in DOMAIN config
    BY <2>1, <2>2, MinIsLeast
  <2>4. ConfigOK'
    BY <2>1, <2>3 DEF IInv, ConfigOK
  <2> QED BY <1>1, <1>3, <2>1, <2>4
<1>8. ASSUME NEW r, DropReply(r) PROVE IInv'
  BY <1>1, <1>2, <1>3, <1>8 DEF DropReply, vars
<1>9. ASSUME NEW r, AcceptReply(r) PROVE IInv'
  <2>1. UNCHANGED configVars
    BY <1>9 DEF AcceptReply, Failover, Deliver
  <2> QED BY <1>1, <1>2, <1>9, <2>1, ReplyStep
<1>10. CASE Tick
  <2>1. UNCHANGED configVars
    BY <1>10 DEF Tick
  <2> QED BY <1>1, <1>2, <1>10, <2>1, TickStep
<1>11. CASE Housekeeping
  BY <1>1, <1>11, HousekeepingStep
<1>12. CASE Reload
  <2>1. ConfigOK'
    BY <1>12, EngineAssumption DEF Reload, IInv, ConfigOK
  <2> QED BY <1>1, <1>3, <1>12, <2>1 DEF Reload
<1>13. CASE Environment
  BY <1>1, <1>2, <1>3, <1>13 DEF Environment
<1>14. CASE UNCHANGED vars
  BY <1>1, <1>2, <1>3, <1>14 DEF vars
<1> QED BY <1>4, <1>5, <1>6, <1>7, <1>8, <1>9, <1>10, <1>11, <1>12, <1>13, <1>14
        DEF Next, Incoming, Upstream

\* IInv holds in every reachable state of the engine.
THEOREM Invariance == Spec => []IInv
BY InitIInv, NextIInv, PTL DEF Spec

\* Types are correct for every table, pool and server list.
THEOREM TypeCorrect == Spec => []TypeOK
<1>1. IInv => TypeOK
  BY DEF IInv, Good, ConfigOK, TypeOK
<1> QED BY <1>1, Invariance, PTL

\* No two queries in flight ever share a transaction id (`get_id` after eviction).
THEOREM IdsStayUnique == Spec => []IdsUnique
<1>1. IInv => IdsUnique
  BY DEF IInv, Good, UniqueIds, IdsUnique
<1> QED BY <1>1, Invariance, PTL

\* Socket reference counts are always the number of queries holding the socket
\* (`allocate`, `free_rfds`), and no query holds a closed one.
THEOREM SocketsStayAccounted == Spec => []SocketsAccounted
<1>1. IInv => SocketsAccounted
  BY DEF IInv, Good, Accounted, SocketsAccounted
<1> QED BY <1>1, Invariance, PTL

\* `frec_src_count` is always exact and within max_per_group.
THEOREM BudgetKept == Spec => []SrcBudget
<1>1. IInv => SrcBudget
  BY TableAssumption DEF IInv, Good, Budget, SrcBudget
<1> QED BY <1>1, Invariance, PTL
===============================================================================

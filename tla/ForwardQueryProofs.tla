-------------------------- MODULE ForwardQueryProofs --------------------------
(***************************************************************************)
(* What happens to one query of ForwardEngine, for every size of the       *)
(* table, the pool and the server lists: who waits for it, which servers   *)
(* it has been sent to, that it is in flight once only, and that nothing   *)
(* but a reply ends it while it is young.  The inductive invariant is      *)
(* QInv; it needs the types and the unique ids of IInv.                    *)
(***************************************************************************)
EXTENDS ForwardEngineProofs

\* The clients of a query ask its question in its context, and none is listed twice.
ClientsFit(f) ==
  /\ \A c \in Srcs(f) : c.req.question = f.question /\ c.req.flags = f.flags
  /\ \A c, d \in Srcs(f) : c.req.source = d.req.source /\ c.req.orig_id = d.req.orig_id => c = d
  /\ f.src \notin f.extra

\* Every server it was sent to is in `tried`, and each but the first cost a retry.
TriedCounted(f) ==
  /\ IsFiniteSet(f.tried) /\ f.sentto \in f.tried
  /\ f.retries = Cardinality(f.tried) - 1 /\ f.retries <= MaxRetries

Query(f) == ClientsFit(f) /\ TriedCounted(f) /\ f.age <= FrecTimeout + MaxLag

QueriesOK(t) == \A i \in InFlight(t) : Query(t[i])

\* Housekeeping is never so late that a query outlives the hard timeout.
Punctual == MaxLag < 3 * FrecTimeout

Apart(t) ==
  \A i, j \in InFlight(t) : t[i].question = t[j].question /\ t[i].flags = t[j].flags => i = j

QInv == IInv /\ QueriesOK(frecs) /\ (Punctual => Apart(frecs))

\* g is still the query f at the same server, with no client lost.
Carries(g, f) ==
  /\ g.sentto = f.sentto /\ g.new_id = f.new_id /\ g.question = f.question /\ g.flags = f.flags
  /\ g.tried = f.tried /\ g.retries = f.retries
  /\ Srcs(f) \subseteq Srcs(g) /\ g.age >= f.age

\* The queries S of table t go on in table u.
GoOn(t, u, S) == \A i \in S : i \in InFlight(u) /\ Carries(u[i], t[i])

Young(t) == {i \in InFlight(t) : t[i].age < FrecTimeout}

\* What a handler owes: the queries of its new table are in order.
Kept(u) == QueriesOK(u) /\ (Punctual => Apart(u))

---------------------------------------------------------------------------
(* Tables *)

\* A frec carries itself.
LEMMA CarriesItself ==
  ASSUME NEW f, IsFrec(f)
  PROVE  Carries(f, f)
BY DEF Carries, IsFrec

\* Freeing frecs leaves the other queries as they are.
LEMMA FreeKeeps ==
  ASSUME NEW t, IsTable(t), NEW F \in SUBSET DOMAIN t
  PROVE  LET u == FreeFrecs(t, F) IN
           /\ QueriesOK(t) => QueriesOK(u)
           /\ Apart(t) => Apart(u)
           /\ GoOn(t, u, InFlight(t) \ F)
<1> DEFINE u == FreeFrecs(t, F)
<1>1. /\ \A i \in DOMAIN t : u[i] = IF i \in F THEN FreeFrec ELSE t[i]
      /\ InFlight(u) = InFlight(t) \ F
  BY FreeTable
<1>2. \A i \in InFlight(u) : u[i] = t[i] /\ i \in InFlight(t) /\ IsFrec(t[i])
  BY <1>1 DEF InFlight, IsTable
<1> HIDE DEF u
<1>3. QueriesOK(t) => QueriesOK(u)
  BY <1>2 DEF QueriesOK
<1>4. Apart(t) => Apart(u)
  BY <1>2 DEF Apart
<1>5. GoOn(t, u, InFlight(t) \ F)
  BY <1>1, <1>2, CarriesItself DEF GoOn
<1> QED BY <1>3, <1>4, <1>5 DEF u

\* No query of t but i has the question and the context of f.
Fresh(t, i, f) ==
  \A j \in InFlight(t) \ {i} : ~(t[j].question = f.question /\ t[j].flags = f.flags)

\* What table u, which is t with f in slot i, keeps of t.
PutLeaves(u, t, i, f) ==
  /\ QueriesOK(t) => QueriesOK(u)
  /\ Apart(t) /\ Fresh(t, i, f) => Apart(u)
  /\ GoOn(t, u, InFlight(t) \ {i})
  /\ i \in InFlight(u) /\ u[i] = f

\* Putting a frec leaves the other queries as they are.
LEMMA PutKeeps ==
  ASSUME NEW t, IsTable(t), NEW u, NEW i, NEW f, PutAt(u, t, i, f), f.sentto # 0, Query(f)
  PROVE  PutLeaves(u, t, i, f)
<1>1. u[i] = f /\ DOMAIN u = DOMAIN t \cup {i} /\ \A j \in DOMAIN t \ {i} : u[j] = t[j]
  BY DEF PutAt
<1>2. InFlight(u) = (InFlight(t) \ {i}) \cup {i} /\ \A j \in InFlight(t) \ {i} : u[j] = t[j]
  BY <1>1 DEF InFlight
<1>3. QueriesOK(t) => QueriesOK(u)
  BY <1>1, <1>2 DEF QueriesOK
<1>4. ASSUME Apart(t), Fresh(t, i, f)
      PROVE  Apart(u)
  BY <1>1, <1>2, <1>4 DEF Apart, Fresh
<1>5. \A j \in InFlight(t) : IsFrec(t[j])
  BY DEF InFlight, IsTable
<1>6. GoOn(t, u, InFlight(t) \ {i})
  BY <1>2, <1>5, CarriesItself DEF GoOn
<1> QED BY <1>1, <1>2, <1>3, <1>4, <1>6 DEF PutLeaves

\* Only an overdue query is evicted to make room.
LEMMA TargetOld ==
  ASSUME NEW t, IsTable(t)
  PROVE  TargetSlot(t) \notin Young(t)
<1> DEFINE hard == HardExpired(t)
           free == DOMAIN t \ InFlight(t)
           old == {j \in InFlight(t) : t[j].age >= FrecTimeout}
           k == TargetSlot(t)
<1>1. Len(t) \in Nat /\ DOMAIN t = 1 .. Len(t)
  BY TableDomain
<1>2. hard \subseteq DOMAIN t /\ free \subseteq DOMAIN t /\ old \subseteq DOMAIN t
  BY DEF HardExpired, InFlight
<1>3. \/ hard # {} /\ k = Max(hard)
      \/ free # {} /\ k = Min(free)
      \/ old # {} /\ k = Min(old)
      \/ k = Len(t) + 1
  BY DEF TargetSlot
<1>4. hard \in SUBSET (0 .. Len(t)) /\ free \in SUBSET Nat /\ old \in SUBSET Nat
  BY <1>1, <1>2
<1>5. \A j \in InFlight(t) : j \in DOMAIN t /\ t[j].age \in Nat
  <2>1. HardTimeout \in Nat
    BY TableAssumption DEF HardTimeout
  <2> QED BY <2>1 DEF InFlight, IsTable, IsFrec
<1>6. \A j \in hard \cup old : j \notin Young(t)
  BY <1>5, TableAssumption DEF HardExpired, HardTimeout, Young
<1>7. \A j \in free : j \notin Young(t)
  BY DEF Young
<1>8. Len(t) + 1 \notin Young(t)
  BY <1>1, <1>5 DEF Young
<1> HIDE DEF hard, free, old, k
<1>9. /\ hard # {} => Max(hard) \in hard
      /\ free # {} => Min(free) \in free
      /\ old # {} => Min(old) \in old
  BY <1>1, <1>4, MaxIsGreatest, MinIsLeast
<1> QED BY <1>3, <1>6, <1>7, <1>8, <1>9 DEF k

\* Duplicate detection finds the query with this question and context, unless the first
\* such query has passed the hard timeout.
LEMMA LookupMatches ==
  ASSUME NEW t, IsTable(t), NEW question, NEW flags
  PROVE  /\ \A i \in LookupByQuestion(t, question, flags) :
              i \in InFlight(t) /\ t[i].question = question /\ t[i].flags = flags
         /\ (\A i \in InFlight(t) : t[i].age < HardTimeout)
              /\ LookupByQuestion(t, question, flags) = {}
            => \A i \in InFlight(t) : ~(t[i].question = question /\ t[i].flags = flags)
<1> DEFINE hits == {i \in InFlight(t) : t[i].question = question /\ t[i].flags = flags}
<1>1. hits \in SUBSET Nat
  BY TableDomain DEF InFlight
<1>2. hits # {} => Min(hits) \in hits
  BY <1>1, MinIsLeast
<1>3. LookupByQuestion(t, question, flags)
        = IF hits = {} THEN {} ELSE {i \in {Min(hits)} : t[i].age < HardTimeout}
  BY DEF LookupByQuestion
<1> QED BY <1>2, <1>3

\* While housekeeping is punctual no query reaches the hard timeout.
LEMMA AgesBelow ==
  ASSUME NEW t, IsTable(t), QueriesOK(t), Punctual
  PROVE  \A i \in InFlight(t) : t[i].age < HardTimeout
<1>1. \A i \in InFlight(t) : t[i].age \in Nat /\ t[i].age <= FrecTimeout + MaxLag
  <2>1. HardTimeout \in Nat
    BY TableAssumption DEF HardTimeout
  <2> QED BY <2>1 DEF InFlight, IsTable, IsFrec, QueriesOK, Query
<1> QED BY <1>1, TableAssumption, EngineAssumption DEF Punctual, HardTimeout

---------------------------------------------------------------------------
(* One lemma per handler: the new table is in order, and the young queries go on *)

\* What QInv gives of the table.
LEMMA QInvFacts ==
  ASSUME QInv
  PROVE  /\ IInv /\ IsTable(frecs) /\ IsPool(pool) /\ QueriesOK(frecs) /\ Kept(frecs)
         /\ UniqueIds(frecs)
BY IInvFacts DEF QInv, Kept

\* A new query has one client and one server, and no other asks its question.
LEMMA ForwardNewKeeps ==
  ASSUME QInv, NEW req, NEW l, ForwardNew(req, l)
  PROVE  Kept(frecs') /\ GoOn(frecs, frecs', Young(frecs))
<1> DEFINE E == Evicted(frecs)
           i == TargetSlot(frecs)
<1>1. IInv /\ IsTable(frecs) /\ IsPool(pool) /\ QueriesOK(frecs) /\ Kept(frecs)
  BY QInvFacts
<1>2. i \in 1 .. Len(frecs) + 1 /\ E \subseteq DOMAIN frecs /\ E \subseteq {i} /\ i \notin Young(frecs)
  BY <1>1, TargetIdle, TargetOld DEF Evicted
<1>3. /\ IsTable(TableMade) /\ Len(TableMade) = Len(frecs) /\ DOMAIN TableMade = DOMAIN frecs
      /\ \A j \in InFlight(TableMade) : j \in InFlight(frecs) /\ TableMade[j] = frecs[j]
      /\ InFlight(TableMade) = InFlight(frecs) \ E
  BY <1>1, <1>2, FreeTable DEF TableMade, InFlight
<1>4. /\ QueriesOK(TableMade) /\ (Apart(frecs) => Apart(TableMade))
      /\ GoOn(frecs, TableMade, InFlight(frecs) \ E)
  BY <1>1, <1>2, FreeKeeps DEF TableMade
<1>5. PICK s \in FirstServer(req.question), id \in Ids : \E o \in SendUpstream(PoolMade, {}, s) :
         \/ frecs' = PutFrec(TableMade, i, NewFrec(req, l, s, id, o.rfds))
         \/ frecs' = FreeFrecs(PutFrec(TableMade, i, NewFrec(req, l, s, id, o.rfds)), {i})
  BY DEF ForwardNew, Free
<1>6. PICK o \in SendUpstream(PoolMade, {}, s) :
         \/ frecs' = PutFrec(TableMade, i, NewFrec(req, l, s, id, o.rfds))
         \/ frecs' = FreeFrecs(PutFrec(TableMade, i, NewFrec(req, l, s, id, o.rfds)), {i})
  BY <1>5
<1>7. LookupByQuestion(frecs, req.question, req.flags) = {}
  BY DEF ForwardNew
<1> DEFINE f == NewFrec(req, l, s, id, o.rfds)
           begun == PutFrec(TableMade, i, f)
<1>8. s \in Nat \ {0}
  BY <1>1, ServersIn
<1>9. o.rfds \in SUBSET Nat
  <2>1. Good(frecs, pool, srcCount)
    BY <1>1, IInvFacts
  <2>2. IsPool(PoolMade)
    BY <1>2, <2>1, FreeGood DEF PoolMade, Good
  <2>3. HeldBy(TableMade, i) = {}
    BY <1>1, <1>3, TargetIdle, IdleEmpty DEF TableMade
  <2>4. Sends(PoolMade, HeldBy(TableMade, i), s, o.pool, o.rfds)
    BY <2>3, SendOutcome
  <2>5. s \in Nat
    BY <1>8
  <2> QED BY <1>3, <2>2, <2>4, <2>5, SendSlots, Zenon
<1>10. IsFrec(f) /\ f.sentto = s /\ f.question = req.question /\ f.flags = req.flags
  BY <1>8, <1>9, TableAssumption DEF NewFrec, IsFrec, HardTimeout
<1>11. Query(f)
  <2>1. f.src = Client(req, l) /\ f.extra = {} /\ f.tried = {s} /\ f.retries = 0 /\ f.age = 0
    BY DEF NewFrec
  <2>2. Srcs(f) = {Client(req, l)} /\ Client(req, l).req = req
    BY <2>1 DEF Srcs, Client
  <2>3. ClientsFit(f)
    BY <1>10, <2>1, <2>2 DEF ClientsFit
  <2>4. IsFiniteSet({s}) /\ Cardinality({s}) = 1
    BY FS_Singleton
  <2>5. TriedCounted(f)
    BY <1>10, <2>1, <2>4, EngineAssumption DEF TriedCounted
  <2> QED BY <2>1, <2>3, <2>5, EngineAssumption, TableAssumption DEF Query
<1> HIDE DEF f, E, i
<1>12. PutAt(begun, TableMade, i, f)
  BY <1>2, <1>3, <1>10, PutTable, Zenon
<1> HIDE DEF begun
<1>13. f.sentto # 0
  BY <1>8, <1>10
<1>14. Punctual => Fresh(TableMade, i, f)
  <2>1. Punctual => \A j \in InFlight(frecs) : ~(frecs[j].question = req.question /\ frecs[j].flags = req.flags)
    BY <1>1, <1>7, AgesBelow, LookupMatches
  <2> QED BY <1>3, <1>10, <2>1 DEF Fresh
<1>15. /\ QueriesOK(begun) /\ (Punctual => Apart(begun))
       /\ GoOn(TableMade, begun, InFlight(TableMade) \ {i})
  <2>1. PutLeaves(begun, TableMade, i, f)
    BY <1>3, <1>11, <1>12, <1>13, PutKeeps, Zenon
  <2> QED BY <1>1, <1>4, <1>14, <2>1 DEF Kept, PutLeaves
<1>16. GoOn(frecs, begun, InFlight(frecs) \ {i})
  BY <1>2, <1>3, <1>15 DEF GoOn
<1>17. \A j \in Young(frecs) : j \in InFlight(frecs) \ {i}
  BY <1>2 DEF Young
<1>18. CASE frecs' = begun
  BY <1>15, <1>16, <1>17, <1>18 DEF Kept, GoOn
<1>19. CASE frecs' = FreeFrecs(begun, {i})
  <2>1. IsTable(begun) /\ {i} \in SUBSET DOMAIN begun
    BY <1>12 DEF PutAt
  <2>2. QueriesOK(frecs') /\ (Apart(begun) => Apart(frecs'))
    BY <1>15, <1>19, <2>1, FreeKeeps
  <2>3. \A j \in DOMAIN begun \ {i} : frecs'[j] = begun[j]
    BY <1>19, <2>1, FreeTable
  <2>4. InFlight(frecs') = InFlight(begun) \ {i}
    BY <1>19, <2>1, FreeTable
  <2>5. GoOn(frecs, frecs', InFlight(frecs) \ {i})
    BY <1>16, <2>3, <2>4 DEF GoOn, InFlight
  <2> QED BY <1>15, <1>17, <2>2, <2>5 DEF Kept, GoOn
<1> QED BY <1>6, <1>18, <1>19 DEF begun, f

\* What attaching a client and moving a query change, and what they leave alone.
LEMMA AttachFields ==
  ASSUME NEW g, IsFrec(g), NEW r, NEW new
  PROVE  LET a == Attach(g, r, new) IN
           /\ a.sentto = g.sentto /\ a.new_id = g.new_id /\ a.question = g.question
           /\ a.flags = g.flags /\ a.tried = g.tried /\ a.retries = g.retries /\ a.age = g.age
           /\ Srcs(a) = Srcs(g) \cup new /\ a.src = g.src /\ a.extra = g.extra \cup new
BY DEF IsFrec, Attach, Srcs

\* A failover's frec: another server, one more retry, the same question and clients.
LEMMA RetriedFields ==
  ASSUME NEW g, IsFrec(g), NEW s, NEW r
  PROVE  LET a == Retried(g, s, r) IN
           /\ a.sentto = s /\ a.tried = g.tried \cup {s} /\ a.retries = g.retries + 1
           /\ a.new_id = g.new_id /\ a.question = g.question /\ a.flags = g.flags
           /\ a.age = g.age /\ Srcs(a) = Srcs(g) /\ a.src = g.src /\ a.extra = g.extra
BY DEF IsFrec, Retried, Srcs

\* A client that is attached asks the question of the query and was not there yet.
LEMMA AttachKeeps ==
  ASSUME NEW f, IsFrec(f), Query(f), NEW r, NEW req, NEW l, NEW new,
         req.question = f.question, req.flags = f.flags,
         new = {} \/ (~Known(f, req) /\ new = {Client(req, l)})
  PROVE  Query(Attach(f, r, new)) /\ Carries(Attach(f, r, new), f)
<1> DEFINE a == Attach(f, r, new)
<1>1. /\ a.sentto = f.sentto /\ a.new_id = f.new_id /\ a.question = f.question
      /\ a.flags = f.flags /\ a.tried = f.tried /\ a.retries = f.retries /\ a.age = f.age
      /\ Srcs(a) = Srcs(f) \cup new /\ a.src = f.src /\ a.extra = f.extra \cup new
  BY AttachFields
<1> HIDE DEF a
<1>2. f.age \in Int
  BY TableAssumption DEF IsFrec, HardTimeout
<1>3. Carries(a, f)
  BY <1>1, <1>2 DEF Carries
<1>4. TriedCounted(a) /\ a.age <= FrecTimeout + MaxLag
  BY <1>1 DEF Query, TriedCounted
<1>5. ClientsFit(a)
  <2>1. ClientsFit(f)
    BY DEF Query
  <2>2. CASE new = {}
    BY <1>1, <2>1, <2>2 DEF ClientsFit
  <2>3. CASE ~Known(f, req) /\ new = {Client(req, l)}
    <3>1. Client(req, l).req = req
      BY DEF Client
    <3>2. \A c \in Srcs(f) : ~(c.req.source = req.source /\ c.req.orig_id = req.orig_id)
      BY <2>3 DEF Known
    <3>3. f.src \in Srcs(f) /\ f.src # Client(req, l)
      BY <3>1, <3>2 DEF Srcs
    <3> QED BY <1>1, <2>1, <2>3, <3>1, <3>2, <3>3 DEF ClientsFit
  <2> QED BY <2>2, <2>3
<1> QED BY <1>3, <1>4, <1>5 DEF a, Query

\* A query moved to an untried server has used up one more retry.
LEMMA RetriedKeeps ==
  ASSUME NEW f, IsFrec(f), Query(f), NEW s, NEW r, s \notin f.tried, f.retries < MaxRetries
  PROVE  Query(Retried(f, s, r))
<1> DEFINE a == Retried(f, s, r)
<1>1. /\ a.sentto = s /\ a.tried = f.tried \cup {s} /\ a.retries = f.retries + 1
      /\ a.new_id = f.new_id /\ a.question = f.question /\ a.flags = f.flags
      /\ a.age = f.age /\ Srcs(a) = Srcs(f) /\ a.src = f.src /\ a.extra = f.extra
  BY RetriedFields
<1> HIDE DEF a
<1>2. IsFiniteSet(f.tried) /\ f.retries = Cardinality(f.tried) - 1 /\ f.retries \in Nat
  BY DEF Query, TriedCounted, IsFrec
<1>3. IsFiniteSet(a.tried) /\ Cardinality(a.tried) = Cardinality(f.tried) + 1
  BY <1>1, <1>2, FS_AddElement
<1>4. Cardinality(f.tried) \in Nat
  BY <1>2, FS_CardinalityType
<1>5. TriedCounted(a)
  BY <1>1, <1>2, <1>3, <1>4, EngineAssumption DEF TriedCounted
<1>6. ClientsFit(a) /\ a.age <= FrecTimeout + MaxLag
  BY <1>1 DEF Query, ClientsFit
<1> QED BY <1>5, <1>6 DEF Query, a

\* A duplicate is attached to the query it duplicates, or an overdue query is dropped.
LEMMA JoinKeeps ==
  ASSUME QInv, NEW req, NEW l, JoinInFlight(req, l)
  PROVE  Kept(frecs') /\ GoOn(frecs, frecs', Young(frecs))
<1>1. IInv /\ IsTable(frecs) /\ IsPool(pool) /\ QueriesOK(frecs) /\ Kept(frecs)
  BY QInvFacts
<1>2. PICK i \in LookupByQuestion(frecs, req.question, req.flags) :
        JoinRefused(req, i) \/ JoinWait(req, l, i) \/ JoinResend(req, l, i)
  BY DEF JoinInFlight
<1>3. i \in InFlight(frecs) /\ frecs[i].question = req.question /\ frecs[i].flags = req.flags
  BY <1>1, <1>2, LookupMatches
<1>4. i \in DOMAIN frecs /\ IsFrec(frecs[i]) /\ frecs[i].sentto \in Nat \ {0} /\ Query(frecs[i])
  BY <1>1, <1>3 DEF InFlight, IsTable, IsFrec, QueriesOK
<1>5. \A j \in Young(frecs) : j \in InFlight(frecs) /\ Carries(frecs[j], frecs[j])
  BY <1>1, CarriesItself DEF Young, InFlight, IsTable
<1>6. CASE JoinRefused(req, i)
  <2>1. CASE frecs[i].age >= FrecTimeout
    <3>1. frecs' = FreeFrecs(frecs, {i}) /\ {i} \in SUBSET DOMAIN frecs
      BY <1>4, <1>6, <2>1 DEF JoinRefused, Free
    <3>2. Kept(frecs') /\ GoOn(frecs, frecs', InFlight(frecs) \ {i})
      BY <1>1, <3>1, FreeKeeps DEF Kept
    <3>3. \A j \in Young(frecs) : j \in InFlight(frecs) \ {i}
      <4>1. frecs[i].age \in Int
        BY <1>4, TableAssumption DEF IsFrec, HardTimeout
      <4> QED BY <2>1, <4>1, TableAssumption DEF Young
    <3> QED BY <3>2, <3>3 DEF GoOn
  <2>2. CASE ~(frecs[i].age >= FrecTimeout)
    <3>1. frecs' = frecs
      BY <1>6, <2>2 DEF JoinRefused, tableVars
    <3> QED BY <1>1, <1>5, <3>1 DEF GoOn
  <2> QED BY <2>1, <2>2
<1>7. ASSUME NEW r \in SUBSET Nat, NEW new,
             new = {} \/ (~Known(frecs[i], req) /\ new = {Client(req, l)}),
             frecs' = [frecs EXCEPT ![i] = Attach(frecs[i], r, new)]
      PROVE  Kept(frecs') /\ GoOn(frecs, frecs', Young(frecs))
  <2> DEFINE f == Attach(frecs[i], r, new)
  <2>1. Query(f) /\ Carries(f, frecs[i])
    BY <1>3, <1>4, <1>7, AttachKeeps
  <2>2. IsFrec(f)
    <3>1. SameQuery(f, frecs[i], r, frecs[i].extra \cup new)
      BY <1>4, <1>7, AttachFrec
    <3> QED BY <3>1 DEF SameQuery
  <2> HIDE DEF f
  <2>3. frecs' = PutFrec(frecs, i, f) /\ i \in 1 .. Len(frecs) + 1
    BY <1>1, <1>4, <1>7, ExceptPut DEF f
  <2>4. PutAt(frecs', frecs, i, f)
    <3>1. PutAt(PutFrec(frecs, i, f), frecs, i, f)
      BY <1>1, <2>2, <2>3, PutTable, Zenon
    <3> QED BY <2>3, <3>1, Zenon
  <2>5. f.sentto # 0 /\ f.question = frecs[i].question /\ f.flags = frecs[i].flags
    BY <1>4, <2>1 DEF Carries
  <2>6. Punctual => Fresh(frecs, i, f)
    BY <1>1, <1>3, <2>5 DEF Kept, Apart, Fresh
  <2> DEFINE u == frecs'
  <2>7. PutAt(u, frecs, i, f)
    BY <2>4
  <2> HIDE DEF u
  <2>8. /\ QueriesOK(u) /\ (Punctual => Apart(u))
        /\ GoOn(frecs, u, InFlight(frecs) \ {i}) /\ i \in InFlight(u) /\ u[i] = f
    <3>1. PutLeaves(u, frecs, i, f)
      BY <1>1, <2>1, <2>5, <2>7, PutKeeps, Zenon
    <3> QED BY <1>1, <2>6, <3>1 DEF Kept, PutLeaves
  <2>9. GoOn(frecs, u, Young(frecs))
    BY <2>1, <2>8 DEF GoOn, Young
  <2> QED BY <2>8, <2>9 DEF Kept, u
<1>8. CASE JoinWait(req, l, i)
  <2>1. /\ ~Known(frecs[i], req)
        /\ frecs' = [frecs EXCEPT ![i] = Attach(frecs[i], frecs[i].rfds, {Client(req, l)})]
    BY <1>8 DEF JoinWait
  <2>2. frecs[i].rfds \in SUBSET Nat
    BY <1>4 DEF IsFrec
  <2> QED BY <1>7, <2>1, <2>2
<1>9. CASE JoinResend(req, l, i)
  <2> DEFINE new == IF Known(frecs[i], req) THEN {} ELSE {Client(req, l)}
  <2>1. PICK o \in SendUpstream(pool, frecs[i].rfds, frecs[i].sentto) :
          frecs' = [frecs EXCEPT ![i] = Attach(frecs[i], o.rfds, new)]
    BY <1>9 DEF JoinResend
  <2>2. HeldBy(frecs, i) = frecs[i].rfds
    BY <1>4 DEF HeldBy
  <2>3. Sends(pool, HeldBy(frecs, i), frecs[i].sentto, o.pool, o.rfds) /\ frecs[i].sentto \in Nat
    BY <1>4, <2>2, SendOutcome
  <2>4. o.rfds \in SUBSET Nat
    BY <1>1, <2>3, SendSlots, Zenon
  <2>5. new = {} \/ (~Known(frecs[i], req) /\ new = {Client(req, l)})
    OBVIOUS
  <2> QED BY <1>7, <2>1, <2>4, <2>5
<1> QED BY <1>2, <1>6, <1>8, <1>9

\* The query i has been moved to a server it had not been sent to.
Moved(i) ==
  /\ frecs'[i].sentto \notin frecs[i].tried
  /\ frecs'[i].tried = frecs[i].tried \cup {frecs'[i].sentto}

\* A reply ends the query it answers or moves it to an untried server; others go on.
LEMMA ReplyKeeps ==
  ASSUME QInv, NEW r, AcceptReply(r)
  PROVE  /\ Kept(frecs')
         /\ \E i \in ValidateReply(r) :
              /\ GoOn(frecs, frecs', InFlight(frecs) \ {i})
              /\ i \in InFlight(frecs') => Moved(i)
<1>1. IInv /\ IsTable(frecs) /\ IsPool(pool) /\ QueriesOK(frecs) /\ Kept(frecs)
  BY QInvFacts
<1>2. PICK i \in ValidateReply(r) : Failover(r, i) \/ Deliver(r, i)
  BY DEF AcceptReply
<1>3. i \in InFlight(frecs)
  BY <1>1, <1>2, LookupInFlight DEF ValidateReply
<1>4. i \in DOMAIN frecs /\ IsFrec(frecs[i]) /\ frecs[i].sentto # 0 /\ Query(frecs[i])
  BY <1>1, <1>3 DEF InFlight, IsTable, QueriesOK
<1>5. CASE Deliver(r, i)
  <2>1. frecs' = FreeFrecs(frecs, {i}) /\ {i} \in SUBSET DOMAIN frecs
    BY <1>4, <1>5 DEF Deliver, Free
  <2>2. Kept(frecs') /\ GoOn(frecs, frecs', InFlight(frecs) \ {i})
    BY <1>1, <2>1, FreeKeeps DEF Kept
  <2>3. i \notin InFlight(frecs')
    BY <1>1, <2>1, FreeTable
  <2> QED BY <1>2, <2>2, <2>3
<1>6. CASE Failover(r, i)
  <2>1. PICK s \in NextUntried(frecs[i]) : \E o \in SendUpstream(pool, frecs[i].rfds, s) :
          \/ frecs' = [frecs EXCEPT ![i] = Retried(frecs[i], s, o.rfds)]
          \/ frecs' = FreeFrecs([frecs EXCEPT ![i] = Retried(frecs[i], s, o.rfds)], {i})
    BY <1>6 DEF Failover, Free
  <2>2. PICK o \in SendUpstream(pool, frecs[i].rfds, s) :
          \/ frecs' = [frecs EXCEPT ![i] = Retried(frecs[i], s, o.rfds)]
          \/ frecs' = FreeFrecs([frecs EXCEPT ![i] = Retried(frecs[i], s, o.rfds)], {i})
    BY <2>1
  <2> DEFINE f == Retried(frecs[i], s, o.rfds)
             again == [frecs EXCEPT ![i] = f]
  <2>3. s \in Nat \ {0} /\ s \in Nat
    BY <1>1, ServersIn
  <2>4. s \notin frecs[i].tried /\ frecs[i].retries < MaxRetries
    <3>1. Candidates(frecs[i].question) \in SUBSET Nat
      BY <1>1 DEF Candidates, IInv, ConfigOK
    <3>2. NextServer(Candidates(frecs[i].question), frecs[i].tried, frecs[i].sentto)
            \subseteq Candidates(frecs[i].question) \ frecs[i].tried
      BY <3>1, NextServerIn
    <3>3. frecs[i].retries \in Nat
      BY <1>4 DEF IsFrec
    <3> QED BY <2>1, <3>2, <3>3, EngineAssumption DEF NextUntried
  <2>5. o.rfds \in SUBSET Nat
    <3>1. HeldBy(frecs, i) = frecs[i].rfds
      BY <1>4 DEF HeldBy
    <3>2. Sends(pool, HeldBy(frecs, i), s, o.pool, o.rfds)
      BY <3>1, SendOutcome
    <3> QED BY <1>1, <2>3, <3>2, SendSlots, Zenon
  <2>6. /\ Query(f) /\ f.sentto = s /\ f.tried = frecs[i].tried \cup {s}
        /\ f.question = frecs[i].question /\ f.flags = frecs[i].flags
    BY <1>4, <2>4, RetriedKeeps, RetriedFields
  <2>7. IsFrec(f)
    <3>1. SameQuery(f, frecs[i], o.rfds, frecs[i].extra)
      BY <1>4, <2>3, <2>5, RetriedFrec
    <3> QED BY <3>1 DEF SameQuery
  <2> HIDE DEF f
  <2>8. again = PutFrec(frecs, i, f) /\ i \in 1 .. Len(frecs) + 1
    BY <1>1, <1>4, ExceptPut
  <2> HIDE DEF again
  <2>9. PutAt(again, frecs, i, f)
    <3>1. PutAt(PutFrec(frecs, i, f), frecs, i, f)
      BY <1>1, <2>7, <2>8, PutTable, Zenon
    <3> QED BY <2>8, <3>1, Zenon
  <2>10. Punctual => Fresh(frecs, i, f)
    BY <1>1, <1>3, <2>6 DEF Kept, Apart, Fresh
  <2>11. /\ QueriesOK(again) /\ (Punctual => Apart(again))
         /\ GoOn(frecs, again, InFlight(frecs) \ {i}) /\ again[i] = f
    <3>1. f.sentto # 0
      BY <2>3, <2>6
    <3>2. PutLeaves(again, frecs, i, f)
      BY <1>1, <2>6, <2>9, <3>1, PutKeeps, Zenon
    <3> QED BY <1>1, <2>10, <3>2 DEF Kept, PutLeaves
  <2>12. CASE frecs' = again
    BY <1>2, <2>4, <2>6, <2>11, <2>12 DEF Kept, Moved
  <2>13. CASE frecs' = FreeFrecs(again, {i})
    <3>1. IsTable(again) /\ {i} \in SUBSET DOMAIN again
      BY <2>9 DEF PutAt
    <3>2. QueriesOK(frecs') /\ (Apart(again) => Apart(frecs'))
      BY <2>11, <2>13, <3>1, FreeKeeps
    <3>3. \A j \in DOMAIN again \ {i} : frecs'[j] = again[j]
      BY <2>13, <3>1, FreeTable
    <3>4. InFlight(frecs') = InFlight(again) \ {i}
      BY <2>13, <3>1, FreeTable
    <3>5. GoOn(frecs, frecs', InFlight(frecs) \ {i})
      BY <2>11, <3>3, <3>4 DEF GoOn, InFlight
    <3> QED BY <1>2, <2>11, <3>2, <3>4, <3>5 DEF Kept
  <2> QED BY <2>2, <2>12, <2>13 DEF again, f
<1> QED BY <1>2, <1>5, <1>6

\* Time passes: queries get older, and none past the lag of housekeeping.
LEMMA TickKeeps ==
  ASSUME QInv, Tick
  PROVE  Kept(frecs') /\ GoOn(frecs, frecs', Young(frecs))
<1>1. IsTable(frecs) /\ QueriesOK(frecs) /\ Kept(frecs)
  BY QInvFacts
<1>2. /\ \A i \in InFlight(frecs) : frecs[i].age < FrecTimeout + MaxLag
      /\ frecs' = [i \in DOMAIN frecs |->
                     IF i \in InFlight(frecs) /\ frecs[i].age < HardTimeout
                     THEN [frecs[i] EXCEPT !.age = @ + 1] ELSE frecs[i]]
  BY DEF Tick
<1>3. ASSUME NEW i \in InFlight(frecs)
      PROVE  Query(frecs'[i]) /\ Carries(frecs'[i], frecs[i])
  <2> DEFINE g == frecs[i]
             h == frecs'[i]
  <2>1. i \in DOMAIN frecs /\ IsFrec(g) /\ Query(g) /\ g.age < FrecTimeout + MaxLag
    BY <1>1, <1>2 DEF InFlight, IsTable, QueriesOK
  <2>2. g.age \in Nat
    BY <2>1, TableAssumption DEF IsFrec, HardTimeout
  <2>3. h = [g EXCEPT !.age = @ + 1] \/ h = g
    BY <1>2, <2>1
  <2>4. /\ h.sentto = g.sentto /\ h.new_id = g.new_id /\ h.question = g.question
        /\ h.flags = g.flags /\ h.tried = g.tried /\ h.retries = g.retries
        /\ h.src = g.src /\ h.extra = g.extra /\ (h.age = g.age \/ h.age = g.age + 1)
    BY <2>1, <2>3 DEF IsFrec
  <2> HIDE DEF g, h
  <2>5. Srcs(h) = Srcs(g)
    BY <2>4 DEF Srcs
  <2>6. h.age <= FrecTimeout + MaxLag /\ h.age >= g.age
    BY <2>1, <2>2, <2>4, TableAssumption, EngineAssumption
  <2>7. ClientsFit(h)
    BY <2>1, <2>4, <2>5 DEF Query, ClientsFit
  <2>8. TriedCounted(h)
    BY <2>1, <2>4 DEF Query, TriedCounted
  <2> QED BY <2>4, <2>5, <2>6, <2>7, <2>8 DEF Query, Carries, g, h
<1>4. \A i \in DOMAIN frecs : frecs'[i].sentto = frecs[i].sentto
  BY <1>1, <1>2, <1>3 DEF Carries
<1>5. InFlight(frecs') = InFlight(frecs)
  BY <1>2, <1>4 DEF InFlight
<1>6. QueriesOK(frecs')
  BY <1>3, <1>5 DEF QueriesOK
<1>7. Apart(frecs) => Apart(frecs')
  BY <1>3, <1>5 DEF Apart, Carries
<1>8. GoOn(frecs, frecs', Young(frecs))
  BY <1>3, <1>5 DEF GoOn, Young
<1> QED BY <1>1, <1>6, <1>7, <1>8 DEF Kept

\* Housekeeping ends overdue queries only.
LEMMA HousekeepingKeeps ==
  ASSUME QInv, Housekeeping
  PROVE  Kept(frecs') /\ GoOn(frecs, frecs', Young(frecs))
<1>1. IsTable(frecs) /\ QueriesOK(frecs) /\ Kept(frecs)
  BY QInvFacts
<1> DEFINE F == Stale(frecs, FrecTimeout)
<1>2. F \in SUBSET DOMAIN frecs /\ frecs' = FreeFrecs(frecs, F)
  BY DEF Stale, InFlight, Housekeeping, Free
<1>3. \A i \in InFlight(frecs) : frecs[i].age \in Int
  BY <1>1, TableAssumption DEF InFlight, IsTable, IsFrec, HardTimeout
<1>4. \A i \in Young(frecs) : i \in InFlight(frecs) \ F
  BY <1>3, TableAssumption DEF Young, Stale
<1> HIDE DEF F
<1>5. Kept(frecs') /\ GoOn(frecs, frecs', InFlight(frecs) \ F)
  BY <1>1, <1>2, FreeKeeps DEF Kept
<1> QED BY <1>4, <1>5 DEF GoOn

---------------------------------------------------------------------------
(* The invariant and the steps *)

\* What a step does to the queries: all young ones go on, unless a reply is accepted.
LEMMA StepKeeps ==
  ASSUME QInv, [Next]_vars
  PROVE  /\ Kept(frecs')
         /\ \/ GoOn(frecs, frecs', Young(frecs))
            \/ \E r \in Replies : AcceptReply(r)
<1>1. IsTable(frecs) /\ Kept(frecs)
  BY QInvFacts
<1>2. \A j \in Young(frecs) : j \in InFlight(frecs) /\ Carries(frecs[j], frecs[j])
  BY <1>1, CarriesItself DEF Young, InFlight, IsTable
<1>3. ASSUME frecs' = frecs
      PROVE  Kept(frecs') /\ GoOn(frecs, frecs', Young(frecs))
  BY <1>1, <1>2, <1>3 DEF GoOn
<1>4. ASSUME NEW req, TurnAway(req) PROVE frecs' = frecs
  BY <1>4 DEF TurnAway, vars, tableVars
<1>5. ASSUME NEW uid, LoopProbe(uid) PROVE frecs' = frecs
  BY <1>5 DEF LoopProbe, tableVars
<1>6. ASSUME NEW r, DropReply(r) PROVE frecs' = frecs
  BY <1>6 DEF DropReply, vars, tableVars
<1>7. Reload \/ Environment \/ UNCHANGED vars => frecs' = frecs
  BY DEF Reload, Environment, vars, tableVars
<1>8. ASSUME NEW req, NEW l, ForwardNew(req, l) \/ JoinInFlight(req, l)
      PROVE  Kept(frecs') /\ GoOn(frecs, frecs', Young(frecs))
  BY <1>8, ForwardNewKeeps, JoinKeeps
<1>9. ASSUME Tick \/ Housekeeping
      PROVE  Kept(frecs') /\ GoOn(frecs, frecs', Young(frecs))
  BY <1>9, TickKeeps, HousekeepingKeeps
<1>10. ASSUME NEW r \in Replies, AcceptReply(r)
       PROVE  Kept(frecs')
  BY <1>10, ReplyKeeps
<1>11. CASE Incoming
  BY <1>3, <1>4, <1>5, <1>8, <1>11 DEF Incoming
<1>12. CASE Upstream
  BY <1>3, <1>6, <1>10, <1>12 DEF Upstream
<1> QED BY <1>3, <1>7, <1>9, <1>11, <1>12 DEF Next

\* No query is in flight at the start.
LEMMA InitQInv == Init => QInv
<1> SUFFICES ASSUME Init PROVE QInv
  OBVIOUS
<1>1. IInv
  BY InitIInv
<1>2. InFlight(frecs) = {}
  BY DEF Init, InFlight
<1> QED BY <1>1, <1>2 DEF QInv, QueriesOK, Apart

\* Every step keeps the invariant.
LEMMA NextQInv == QInv /\ [Next]_vars => QInv'
<1> SUFFICES ASSUME QInv, [Next]_vars PROVE QInv'
  OBVIOUS
<1>1. IInv'
  BY NextIInv DEF QInv
<1>2. Kept(frecs')
  BY StepKeeps
<1> QED BY <1>1, <1>2 DEF QInv, Kept, Punctual

\* QInv holds in every reachable state of the engine.
THEOREM QueriesInvariance == Spec => []QInv
BY InitQInv, NextQInv, PTL DEF Spec

\* Everyone folded onto a query asked its question in its context and is listed once
\* (`join_in_flight`, `add_src`), so one reply is right for all of them.
THEOREM ClientsAlwaysAgree == Spec => []ClientsAgree
<1>1. QInv => ClientsAgree
  BY DEF QInv, QueriesOK, Query, ClientsFit, ClientsAgree
<1> QED BY <1>1, QueriesInvariance, PTL

\* While housekeeping is not delayed past the hard timeout, no question is in flight
\* twice in one context: `lookup_frec_by_question` never misses.
THEOREM QuestionsStayApart ==
  ASSUME Punctual
  PROVE  Spec => []OneQueryPerQuestion
<1>1. QInv => OneQueryPerQuestion
  BY DEF QInv, Apart, OneQueryPerQuestion
<1> QED BY <1>1, QueriesInvariance, PTL

\* A query younger than the timeout keeps its slot, id, question and clients until a
\* reply to it is accepted: no eviction, expiry or reload takes it away.
THEOREM YoungStayInFlight == Spec => YoungQueriesKept
<1> DEFINE Keeping ==
             \A i \in InFlight(frecs) :
               frecs[i].age < FrecTimeout =>
                 Continues(i) \/ \E r \in Replies : i \in ValidateReply(r) /\ AcceptReply(r)
<1>1. ASSUME QInv, [Next]_vars PROVE Keeping
  <2> SUFFICES ASSUME NEW i \in InFlight(frecs), frecs[i].age < FrecTimeout,
                      ~\E r \in Replies : i \in ValidateReply(r) /\ AcceptReply(r)
               PROVE  Continues(i)
    OBVIOUS
  <2>1. i \in Young(frecs)
    BY DEF Young
  <2>2. i \in InFlight(frecs') /\ Carries(frecs'[i], frecs[i])
    <3>1. CASE GoOn(frecs, frecs', Young(frecs))
      BY <2>1, <3>1 DEF GoOn
    <3>2. ASSUME NEW r \in Replies, AcceptReply(r)
          PROVE  i \in InFlight(frecs') /\ Carries(frecs'[i], frecs[i])
      <4>1. PICK j \in ValidateReply(r) : GoOn(frecs, frecs', InFlight(frecs) \ {j})
        BY <1>1, <3>2, ReplyKeeps
      <4>2. i # j
        BY <3>2, <4>1
      <4> QED BY <4>1, <4>2 DEF GoOn
    <3> QED BY <1>1, <3>1, <3>2, StepKeeps
  <2>3. InFlight(frecs)' = InFlight(frecs')
    BY DEF InFlight
  <2> QED BY <2>2, <2>3 DEF Continues, Carries
<1>2. QInv /\ [Next]_vars => [Keeping]_vars
  BY <1>1
<1> QED BY <1>2, QueriesInvariance, PTL DEF Spec, YoungQueriesKept

\* Failing over always advances to a server the query was not sent to, and the retries
\* are exactly the servers tried after the first, within max_retries.
THEOREM FailoverAlwaysAdvances == Spec => FailoverAdvances
<1> DEFINE Advancing ==
             \A i \in InFlight(frecs) :
               frecs[i].age < FrecTimeout /\ Continues(i) /\ frecs'[i].sentto # frecs[i].sentto =>
                 /\ frecs'[i].sentto \notin frecs[i].tried
                 /\ frecs'[i].tried = frecs[i].tried \cup {frecs'[i].sentto}
<1>1. ASSUME QInv, [Next]_vars PROVE Advancing
  <2> SUFFICES ASSUME NEW i \in InFlight(frecs), frecs[i].age < FrecTimeout, Continues(i),
                      frecs'[i].sentto # frecs[i].sentto
               PROVE  Moved(i)
    BY DEF Moved
  <2>1. i \in Young(frecs)
    BY DEF Young
  <2>2. ~GoOn(frecs, frecs', Young(frecs))
    BY <2>1 DEF GoOn, Carries
  <2>3. PICK r \in Replies : AcceptReply(r)
    BY <1>1, <2>2, StepKeeps
  <2>4. PICK j \in ValidateReply(r) :
          GoOn(frecs, frecs', InFlight(frecs) \ {j}) /\ (j \in InFlight(frecs') => Moved(j))
    BY <1>1, <2>3, ReplyKeeps
  <2>5. i = j
    BY <2>4 DEF GoOn, Carries
  <2>6. i \in InFlight(frecs')
    BY DEF Continues, InFlight
  <2> QED BY <2>4, <2>5, <2>6
<1>2. QInv => RetriesBounded
  BY DEF QInv, QueriesOK, Query, TriedCounted, RetriesBounded
<1>3. QInv /\ [Next]_vars => [Advancing]_vars
  BY <1>1
<1>4. QInv' => RetriesBounded'
  BY <1>2, PTL
<1>5. QInv /\ [Next]_vars => [RetriesBounded']_vars
  BY <1>4, NextQInv
<1> QED BY <1>3, <1>5, QueriesInvariance, PTL DEF Spec, FailoverAdvances, FailoverToUntried
===============================================================================

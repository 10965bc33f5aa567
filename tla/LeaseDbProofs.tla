----------------------------- MODULE LeaseDbProofs -----------------------------
(***************************************************************************)
(* Every operation of LeaseDb keeps a table good: its two maps agree, its  *)
(* names are distinct and it has at most `max_leases` leases.  The second  *)
(* part shows that none of them loses the flag LEASE_NEW of a lease, the   *)
(* third that none changes what the file should say without `file_dirty`.  *)
(***************************************************************************)
EXTENDS LeaseDb, FiniteSetTheorems, TLAPS

Bounded(d) == IsFiniteSet(DOMAIN d.leases) /\ Cardinality(DOMAIN d.leases) <= MaxLeases
Roomy(d)   == IsFiniteSet(DOMAIN d.leases) /\ Cardinality(DOMAIN d.leases) < MaxLeases

Good(d) == IsDb(d) /\ Indexed(d) /\ NamesDistinct(d) /\ Bounded(d)

\* All but address a is indexed, and no lease has address a.
IndexedBut(d, a) ==
  /\ \A b \in DOMAIN d.index \ {a} : d.index[b] \in DOMAIN d.leases /\ LeaseAt(d, b).addr = b
  /\ \A k \in DOMAIN d.leases :
       /\ d.leases[k].addr # a
       /\ d.leases[k].addr \in DOMAIN d.index /\ d.index[d.leases[k].addr] = k

\* No lease outside key k has the name of lease l.
NameFree(d, k, l) == l.name = NoName \/ \A m \in DOMAIN d.leases \ {k} : d.leases[m].name # l.name

\* What a lease file promises: a line per address and per name, and not too many.
FileGood(rows) ==
  /\ rows \subseteq Line /\ IsFiniteSet(rows) /\ Cardinality(rows) <= MaxLeases
  /\ \A r, s \in rows : r.addr = s.addr => r = s
  /\ \A r, s \in rows : r.name = s.name /\ r.name # NoName => r = s

\* The addresses whose lease has been announced to the script.
Settled(d) == {a \in DOMAIN d.index : ~LeaseAt(d, a).new}

\* Table n has no lease that passes for announced and was not announced in d.
Follows(n, d) == n.old = d.old /\ Settled(n) \subseteq Settled(d)

\* Unless table n is dirty, d was not either and the file of d is the file of n.
Noted(n, d) == ~n.dirty => ~d.dirty /\ Rows(n) = Rows(d)

---------------------------------------------------------------------------

\* The fields of a lease are of their types.
LEMMA LeaseFields ==
  ASSUME NEW l \in Lease
  PROVE  /\ l.addr \in Addrs /\ l.hw \in Ids /\ l.clid \in Ids
         /\ l.name \in Names \cup {NoName} /\ l.expires \in Instants \cup {Never}
         /\ l.new \in BOOLEAN
BY DEF Lease

\* A lease with one field changed.
LEMMA LeaseWith ==
  ASSUME NEW l \in Lease
  PROVE  /\ \A x \in Ids : [l EXCEPT !.hw = x] \in Lease /\ [l EXCEPT !.hw = x].addr = l.addr
                           /\ [l EXCEPT !.hw = x].name = l.name
         /\ \A x \in Ids : [l EXCEPT !.clid = x] \in Lease /\ [l EXCEPT !.clid = x].addr = l.addr
                           /\ [l EXCEPT !.clid = x].name = l.name
         /\ \A x \in Names \cup {NoName} :
              [l EXCEPT !.name = x] \in Lease /\ [l EXCEPT !.name = x].addr = l.addr
                /\ [l EXCEPT !.name = x].name = x
         /\ \A x \in Instants \cup {Never} :
              [l EXCEPT !.expires = x] \in Lease /\ [l EXCEPT !.expires = x].addr = l.addr
                /\ [l EXCEPT !.expires = x].name = l.name
         /\ \A x \in BOOLEAN :
              [l EXCEPT !.new = x] \in Lease /\ [l EXCEPT !.new = x].addr = l.addr
                /\ [l EXCEPT !.new = x].name = l.name
BY DEF Lease

\* g is f with k bound to v; g is f without the keys in R.
Extended(g, f, k, v) == DOMAIN g = DOMAIN f \cup {k} /\ g[k] = v /\ \A x \in DOMAIN f \ {k} : g[x] = f[x]
Reduced(g, f, R)     == DOMAIN g = DOMAIN f \ R /\ \A x \in DOMAIN f \ R : g[x] = f[x]

\* `Put` adds one binding and keeps the others.
LEMMA PutFunc ==
  ASSUME NEW f, NEW S, NEW T, NEW k, NEW v, IsFunc(f, S, T), k \in S, v \in T
  PROVE  IsFunc(Put(f, k, v), S, T) /\ Extended(Put(f, k, v), f, k, v)
BY DEF IsFunc, Put, Extended

\* `Drop` removes bindings and keeps the others.
LEMMA DropFunc ==
  ASSUME NEW f, NEW S, NEW T, NEW R, IsFunc(f, S, T)
  PROVE  IsFunc(Drop(f, R), S, T) /\ Reduced(Drop(f, R), f, R)
BY DEF IsFunc, Drop, Reduced

\* A finite set grows by at most one.
LEMMA CardAdd ==
  ASSUME NEW S, NEW x, IsFiniteSet(S)
  PROVE  /\ IsFiniteSet(S \cup {x})
         /\ Cardinality(S) \in Nat /\ Cardinality(S \cup {x}) \in Nat
         /\ Cardinality(S \cup {x}) <= Cardinality(S) + 1
<1>1. IsFiniteSet(S \cup {x}) /\ Cardinality(S \cup {x}) = IF x \in S THEN Cardinality(S) ELSE Cardinality(S) + 1
  BY FS_AddElement
<1>2. Cardinality(S) \in Nat
  BY FS_CardinalityType
<1> QED BY <1>1, <1>2

\* A finite set shrinks by one.
LEMMA CardRemove ==
  ASSUME NEW S, NEW x \in S, IsFiniteSet(S)
  PROVE  /\ IsFiniteSet(S \ {x})
         /\ Cardinality(S) \in Nat /\ Cardinality(S \ {x}) \in Nat
         /\ Cardinality(S \ {x}) < Cardinality(S)
<1>1. IsFiniteSet(S \ {x}) /\ Cardinality(S \ {x}) = Cardinality(S) - 1
  BY FS_RemoveElement
<1>2. Cardinality(S) \in Nat /\ Cardinality(S \ {x}) \in Nat
  BY <1>1, FS_CardinalityType
<1> QED BY <1>1, <1>2

\* The key of a lease is one.
LEMMA LeaseKeyOK ==
  ASSUME NEW l \in Lease
  PROVE  LeaseKey(l) \in Keys
BY LeaseFields, LeaseAssumption DEF LeaseKey

\* `insert_raw` of a lease for an address that no other lease has: the maps agree again,
\* and the names stay distinct if the name was free.
LEMMA InsertRawGood ==
  ASSUME NEW d, IsDb(d), NamesDistinct(d), NEW k \in Keys, NEW l \in Lease,
         IndexedBut(d, l.addr), NameFree(d, k, l), Roomy(d)
  PROVE  /\ Good(InsertRaw(d, k, l))
         /\ InsertRaw(d, k, l).leases = Put(d.leases, k, l)
         /\ InsertRaw(d, k, l).index[l.addr] = k
         /\ l.addr \in DOMAIN InsertRaw(d, k, l).index
<1> DEFINE R  == {d.leases[x].addr : x \in DOMAIN d.leases \cap {k}} \ {l.addr}
           DI == Drop(d.index, R)
           PI == Put(DI, l.addr, k)
           PL == Put(d.leases, k, l)
           n  == InsertRaw(d, k, l)
<1>0. l.addr \in Addrs
  BY LeaseFields
<1>1. IsFunc(d.leases, Keys, Lease) /\ IsFunc(d.index, Addrs, Keys)
  BY DEF IsDb
<1>2. IsFunc(DI, Addrs, Keys) /\ Reduced(DI, d.index, R)
  BY <1>1, DropFunc, Zenon
<1>3. IsFunc(PI, Addrs, Keys) /\ Extended(PI, DI, l.addr, k)
  BY <1>0, <1>2, PutFunc, Zenon
<1>4. IsFunc(PL, Keys, Lease) /\ Extended(PL, d.leases, k, l)
  BY <1>1, PutFunc, Zenon
<1>5. n = Db(PL, PI, d.dirty, d.old)
  BY DEF InsertRaw
<1>6. IsDb(n)
  <2> HIDE DEF PL, PI, n
  <2> QED BY <1>3, <1>4, <1>5 DEF IsDb, Db
<1>7. Indexed(n)
  <2>1. ASSUME NEW a \in DOMAIN PI PROVE PI[a] \in DOMAIN PL /\ PL[PI[a]].addr = a
    <3>1. CASE a = l.addr
      BY <3>1, <1>3, <1>4 DEF Extended
    <3>2. CASE a # l.addr
      <4> HIDE DEF PL, PI, DI
      <4>1. a \in DOMAIN d.index \ R /\ PI[a] = d.index[a]
        BY <3>2, <1>2, <1>3 DEF Extended, Reduced
      <4>2. d.index[a] \in DOMAIN d.leases /\ d.leases[d.index[a]].addr = a
        BY <4>1, <3>2 DEF IndexedBut, LeaseAt
      <4>3. d.index[a] # k
        BY <4>1, <4>2, <3>2
      <4> QED BY <4>1, <4>2, <4>3, <1>4 DEF Extended
    <3> QED BY <3>1, <3>2
  <2>2. ASSUME NEW m \in DOMAIN PL PROVE PL[m].addr \in DOMAIN PI /\ PI[PL[m].addr] = m
    <3>1. CASE m = k
      BY <3>1, <1>3, <1>4 DEF Extended
    <3>2. CASE m # k
      <4> HIDE DEF PL, PI, DI
      <4>1. m \in DOMAIN d.leases /\ PL[m] = d.leases[m]
        BY <3>2, <1>4 DEF Extended
      <4>2. d.leases[m].addr # l.addr /\ d.leases[m].addr \in DOMAIN d.index /\ d.index[d.leases[m].addr] = m
        BY <4>1 DEF IndexedBut
      <4>3. d.leases[m].addr \notin R
        BY <4>2, <3>2 DEF IndexedBut
      <4> QED BY <4>1, <4>2, <4>3, <1>2, <1>3 DEF Extended, Reduced
    <3> QED BY <3>1, <3>2
  <2> HIDE DEF PL, PI, n
  <2> QED BY <2>1, <2>2, <1>5 DEF Indexed, LeaseAt, Db
<1>8. NamesDistinct(n)
  <2> SUFFICES ASSUME NEW x \in DOMAIN PL, NEW y \in DOMAIN PL, PL[x].name = PL[y].name, PL[x].name # NoName
               PROVE  x = y
    BY <1>5 DEF NamesDistinct, Db
  <2> HIDE DEF PL, PI, DI, n
  <2> QED BY <1>4 DEF NamesDistinct, NameFree, Extended
<1>9. Bounded(n)
  <2>1. DOMAIN n.leases = DOMAIN d.leases \cup {k}
    BY <1>4, <1>5 DEF Db, Extended
  <2>2. /\ IsFiniteSet(DOMAIN d.leases \cup {k})
        /\ Cardinality(DOMAIN d.leases) \in Nat /\ Cardinality(DOMAIN d.leases \cup {k}) \in Nat
        /\ Cardinality(DOMAIN d.leases \cup {k}) <= Cardinality(DOMAIN d.leases) + 1
    <3>1. IsFiniteSet(DOMAIN d.leases)
      BY DEF Roomy
    <3> QED BY <3>1, CardAdd, Zenon
  <2> HIDE DEF n
  <2> QED BY <2>1, <2>2, LeaseAssumption DEF Roomy, Bounded
<1> QED BY <1>3, <1>5, <1>6, <1>7, <1>8, <1>9 DEF Good, Db, Extended

\* A change that keeps the address of every lease, the index and the number of leases.
LEMMA UpdateGood ==
  ASSUME NEW d, Good(d), NEW f, IsFunc(f, Keys, Lease), DOMAIN f = DOMAIN d.leases,
         \A k \in DOMAIN f : f[k].addr = d.leases[k].addr,
         NEW b \in BOOLEAN, NEW o \in SUBSET Addrs, NamesDistinct(Db(f, d.index, b, o))
  PROVE  Good(Db(f, d.index, b, o))
<1> DEFINE n == Db(f, d.index, b, o)
<1>1. n.leases = f /\ n.index = d.index /\ n.dirty = b /\ n.old = o
  BY DEF Db
<1>2. IsDb(n)
  BY <1>1 DEF Good, IsDb, Db
<1>3. Indexed(n)
  <2>1. Indexed(d)
    BY DEF Good
  <2> HIDE DEF n
  <2> QED BY <2>1, <1>1 DEF Indexed, LeaseAt
<1>4. Bounded(n)
  <2> HIDE DEF n
  <2> QED BY <1>1 DEF Good, Bounded
<1> QED BY <1>2, <1>3, <1>4 DEF Good

\* The flags of the table do not matter.
LEMMA FlagsGood ==
  ASSUME NEW d, Good(d), NEW b \in BOOLEAN, NEW o \in SUBSET Addrs
  PROVE  Good(Db(d.leases, d.index, b, o))
<1>1. IsFunc(d.leases, Keys, Lease) /\ NamesDistinct(d)
  BY DEF Good, IsDb
<1>2. NamesDistinct(Db(d.leases, d.index, b, o))
  BY <1>1 DEF NamesDistinct, Db
<1> QED BY <1>1, <1>2, UpdateGood

\* Setting `file_dirty`.
LEMMA DirtyGood ==
  ASSUME NEW d, Good(d), NEW b \in BOOLEAN
  PROVE  Good(Flagged(d, b)) /\ Flagged(d, b).index = d.index
<1>1. d.old \in SUBSET Addrs
  BY DEF Good, IsDb
<1> QED BY <1>1, FlagsGood DEF Flagged, Db

\* In a good table an address is leased when it is indexed.
LEMMA LeasedGood ==
  ASSUME NEW d, Good(d), NEW a
  PROVE  /\ Leased(d, a) <=> a \in DOMAIN d.index
         /\ Leased(d, a) => /\ d.index[a] \in DOMAIN d.leases /\ d.index[a] \in Keys
                            /\ LeaseAt(d, a) \in Lease /\ LeaseAt(d, a).addr = a
                            /\ LeaseAt(d, a) = d.leases[d.index[a]]
BY DEF Good, IsDb, IsFunc, Indexed, Leased, LeaseAt

\* `allocate_v4`
LEMMA AllocateGood ==
  ASSUME NEW d, Good(d), NEW a \in Addrs, ~Leased(d, a), ~Full(d)
  PROVE  Good(AllocateV4(d, a)) /\ Leased(AllocateV4(d, a), a)
<1> DEFINE l == NewLease(a)
           k == LeaseKey(l)
           n == InsertRaw(d, k, l)
<1>1. l \in Lease /\ l.addr = a /\ l.name = NoName
  BY LeaseAssumption DEF NewLease, Lease
<1> HIDE DEF l
<1>2. k \in Keys
  BY <1>1, LeaseKeyOK
<1>3. IndexedBut(d, a)
  BY LeasedGood DEF Good, Indexed, IndexedBut, LeaseAt
<1>4. Roomy(d)
  <2>1. Cardinality(DOMAIN d.leases) \in Nat /\ MaxLeases \in Nat
    BY FS_CardinalityType, LeaseAssumption DEF Good, Bounded
  <2> QED BY <2>1 DEF Good, Bounded, Roomy, Full
<1>5. Good(n) /\ a \in DOMAIN n.index
  <2>1. IsDb(d) /\ NamesDistinct(d) /\ NameFree(d, k, l)
    BY <1>1 DEF Good, NameFree
  <2> HIDE DEF k
  <2> QED BY <1>1, <1>2, <1>3, <1>4, <2>1, InsertRawGood
<1> HIDE DEF n
<1>6. AllocateV4(d, a) = Flagged(n, TRUE)
  BY DEF AllocateV4, n, l
<1>7. Good(Flagged(n, TRUE)) /\ Flagged(n, TRUE).index = n.index
  BY <1>5, DirtyGood
<1> QED BY <1>5, <1>6, <1>7, LeasedGood

\* Replacing one lease by another of the same address and name.
LEMMA ReplaceGood ==
  ASSUME NEW d, Good(d), NEW a, Leased(d, a), NEW l \in Lease,
         l.addr = a, l.name = LeaseAt(d, a).name, NEW b \in BOOLEAN
  PROVE  LET n == Db(Put(d.leases, d.index[a], l), d.index, b, d.old)
         IN  Good(n) /\ Leased(n, a)
<1> DEFINE k == d.index[a]
           f == Put(d.leases, k, l)
           n == Db(f, d.index, b, d.old)
<1>1. /\ k \in DOMAIN d.leases /\ k \in Keys /\ d.leases[k].addr = a /\ d.leases[k].name = l.name
      /\ a \in DOMAIN d.index
  BY LeasedGood
<1>2. IsFunc(d.leases, Keys, Lease) /\ NamesDistinct(d) /\ d.old \in SUBSET Addrs
  BY DEF Good, IsDb
<1> HIDE DEF k
<1>3. IsFunc(f, Keys, Lease) /\ Extended(f, d.leases, k, l)
  BY <1>1, <1>2, PutFunc, Zenon
<1> HIDE DEF f
<1>4. /\ DOMAIN f = DOMAIN d.leases
      /\ \A x \in DOMAIN f : f[x].addr = d.leases[x].addr /\ f[x].name = d.leases[x].name
  BY <1>1, <1>3 DEF Extended
<1>5. NamesDistinct(n)
  BY <1>2, <1>4 DEF NamesDistinct, Db
<1>6. Good(n)
  BY <1>2, <1>3, <1>4, <1>5, UpdateGood
<1>7. n.index = d.index
  BY DEF Db
<1> HIDE DEF n
<1>8. Leased(n, a)
  BY <1>1, <1>6, <1>7, LeasedGood
<1> QED BY <1>6, <1>8 DEF n, f, k

\* `set_expires`
LEMMA SetExpiresGood ==
  ASSUME NEW d, Good(d), NEW a, Leased(d, a), NEW forever \in BOOLEAN
  PROVE  Good(SetExpires(d, a, forever)) /\ Leased(SetExpires(d, a, forever), a)
<1> DEFINE e == IF forever THEN Never ELSE Fresh(LeaseAt(d, a).expires)
           l == [LeaseAt(d, a) EXCEPT !.expires = e]
           b == d.dirty \/ LeaseAt(d, a).expires # e
<1>1. LeaseAt(d, a) \in Lease /\ LeaseAt(d, a).addr = a
  BY LeasedGood
<1>2. e \in Instants \cup {Never}
  BY DEF Fresh, Instants
<1> HIDE DEF e
<1>3. l \in Lease /\ l.addr = a /\ l.name = LeaseAt(d, a).name
  BY <1>1, <1>2, LeaseWith
<1>4. b \in BOOLEAN
  BY DEF Good, IsDb
<1>5. SetExpires(d, a, forever) = Db(Put(d.leases, d.index[a], l), d.index, b, d.old)
  BY DEF SetExpires, e
<1> HIDE DEF l, b
<1> QED BY <1>3, <1>4, <1>5, ReplaceGood

\* `set_hwaddr`
LEMMA SetHwaddrGood ==
  ASSUME NEW d, Good(d), NEW a, Leased(d, a), NEW hw \in Ids, NEW clid \in Ids
  PROVE  Good(SetHwaddr(d, a, hw, clid)) /\ Leased(SetHwaddr(d, a, hw, clid), a)
<1> DEFINE k     == d.index[a]
           known == [d.leases[k] EXCEPT !.hw = hw]
           moved == [known EXCEPT !.clid = clid]
           d0    == Db(Drop(d.leases, {k}), d.index, TRUE, d.old)
           m     == LeaseKey(moved)
           b     == d.dirty \/ d.leases[k].hw # hw
<1>1. /\ k \in DOMAIN d.leases /\ k \in Keys /\ d.leases[k] \in Lease /\ d.leases[k].addr = a
      /\ LeaseAt(d, a) = d.leases[k] /\ a \in DOMAIN d.index
  BY LeasedGood
<1>2. known \in Lease /\ known.addr = a /\ known.name = d.leases[k].name
  BY <1>1, LeaseWith
<1>3. CASE clid # NoId /\ known.clid # clid
  <2>1. moved \in Lease /\ moved.addr = a /\ moved.name = d.leases[k].name
    <3> HIDE DEF known
    <3> QED BY <1>2, LeaseWith
  <2>2. SetHwaddr(d, a, hw, clid) = InsertRaw(d0, m, moved)
    BY <1>3 DEF SetHwaddr
  <2>3. m \in Keys
    BY <2>1, LeaseKeyOK
  <2> HIDE DEF moved, m
  <2>4. /\ IsFunc(d.leases, Keys, Lease) /\ IsFunc(d.index, Addrs, Keys) /\ d.old \subseteq Addrs
        /\ Indexed(d) /\ NamesDistinct(d) /\ Bounded(d)
    BY DEF Good, IsDb
  <2> DEFINE f == Drop(d.leases, {k})
  <2>5. IsFunc(f, Keys, Lease) /\ Reduced(f, d.leases, {k})
    BY <2>4, DropFunc, Zenon
  <2>6. d0.leases = f /\ d0.index = d.index /\ d0.dirty = TRUE /\ d0.old = d.old
    BY DEF Db
  <2>7. IsDb(d0)
    BY <2>4, <2>5, <2>6 DEF IsDb
  <2> HIDE DEF d0, f
  <2>8. NamesDistinct(d0) /\ NameFree(d0, m, moved)
    BY <1>1, <2>1, <2>4, <2>5, <2>6 DEF NamesDistinct, NameFree, Reduced
  <2>9. IndexedBut(d0, a)
    BY <1>1, <2>4, <2>5, <2>6 DEF Indexed, IndexedBut, LeaseAt, Reduced
  <2>10. Roomy(d0)
    <3>1. DOMAIN d0.leases = DOMAIN d.leases \ {k}
      BY <2>5, <2>6 DEF Reduced
    <3>2. /\ IsFiniteSet(DOMAIN d.leases \ {k})
          /\ Cardinality(DOMAIN d.leases) \in Nat /\ Cardinality(DOMAIN d.leases \ {k}) \in Nat
          /\ Cardinality(DOMAIN d.leases \ {k}) < Cardinality(DOMAIN d.leases)
      <4>1. IsFiniteSet(DOMAIN d.leases)
        BY <2>4 DEF Bounded
      <4> QED BY <4>1, <1>1, CardRemove, Zenon
    <3> QED BY <3>1, <3>2, <2>4, LeaseAssumption DEF Bounded, Roomy
  <2>11. Good(InsertRaw(d0, m, moved)) /\ a \in DOMAIN InsertRaw(d0, m, moved).index
    BY <2>1, <2>3, <2>7, <2>8, <2>9, <2>10, InsertRawGood
  <2> QED BY <2>2, <2>11, LeasedGood
<1>4. CASE ~(clid # NoId /\ known.clid # clid)
  <2>1. SetHwaddr(d, a, hw, clid) = Db(Put(d.leases, k, known), d.index, b, d.old)
    BY <1>4 DEF SetHwaddr
  <2>2. b \in BOOLEAN
    BY DEF Good, IsDb
  <2> HIDE DEF known, b
  <2> QED BY <1>1, <1>2, <2>1, <2>2, ReplaceGood
<1> QED BY <1>3, <1>4

\* Giving every lease a name so that the names are distinct.
LEMMA RenameAllGood ==
  ASSUME NEW d, Good(d), NEW f, f = [k \in DOMAIN d.leases |-> [d.leases[k] EXCEPT !.name = f[k].name]],
         \A k \in DOMAIN d.leases : f[k].name \in Names \cup {NoName},
         \A k, m \in DOMAIN d.leases : f[k].name = f[m].name /\ f[k].name # NoName => k = m,
         NEW b \in BOOLEAN
  PROVE  Good(Db(f, d.index, b, d.old))
<1>1. IsFunc(d.leases, Keys, Lease) /\ d.old \in SUBSET Addrs
  BY DEF Good, IsDb
<1>2. DOMAIN f = DOMAIN d.leases
  OBVIOUS
<1>3. \A k \in DOMAIN f : f[k] \in Lease /\ f[k].addr = d.leases[k].addr
  <2> SUFFICES ASSUME NEW k \in DOMAIN f PROVE f[k] \in Lease /\ f[k].addr = d.leases[k].addr
    OBVIOUS
  <2>1. f[k] = [d.leases[k] EXCEPT !.name = f[k].name]
    BY <1>2
  <2>2. d.leases[k] \in Lease /\ f[k].name \in Names \cup {NoName}
    BY <1>1, <1>2 DEF IsFunc
  <2> QED BY <2>1, <2>2, LeaseWith
<1>4. f = [k \in DOMAIN f |-> f[k]]
  OBVIOUS
<1>5. IsFunc(f, Keys, Lease)
  BY <1>1, <1>2, <1>3, <1>4 DEF IsFunc
<1>6. NamesDistinct(Db(f, d.index, b, d.old))
  BY <1>2 DEF NamesDistinct, Db
<1> QED BY <1>1, <1>2, <1>3, <1>5, <1>6, UpdateGood

\* `set_hostname`: the name has left every other lease.
LEMMA SetHostnameGood ==
  ASSUME NEW d, Good(d), NEW a, Leased(d, a), NEW name \in Names \cup {NoName}
  PROVE  Good(SetHostname(d, a, name)) /\ Leased(SetHostname(d, a, name), a)
<1> DEFINE twins == {k \in DOMAIN d.leases : name # NoName /\ d.leases[k].name = name /\ d.leases[k].addr # a}
           strip == {d.index[d.leases[k].addr] : k \in {k \in twins : Leased(d, d.leases[k].addr)}}
           New(k) == IF k = d.index[a] THEN name ELSE IF k \in strip THEN NoName ELSE d.leases[k].name
           f == [k \in DOMAIN d.leases |-> [d.leases[k] EXCEPT !.name = New(k)]]
           b == d.dirty \/ LeaseAt(d, a).name # name
<1>1. SetHostname(d, a, name) = Db(f, d.index, b, d.old)
  BY DEF SetHostname
<1>2. IsFunc(d.leases, Keys, Lease) /\ NamesDistinct(d) /\ Indexed(d) /\ d.dirty \in BOOLEAN
  BY DEF Good, IsDb
<1>3. \A k \in DOMAIN d.leases : k # d.index[a] /\ d.leases[k].name = name /\ name # NoName => k \in strip
  <2> SUFFICES ASSUME NEW k \in DOMAIN d.leases, k # d.index[a], d.leases[k].name = name, name # NoName
               PROVE  k \in strip
    OBVIOUS
  <2>1. d.leases[k].addr \in DOMAIN d.index /\ d.index[d.leases[k].addr] = k
    BY <1>2 DEF Indexed
  <2>2. k \in twins /\ Leased(d, d.leases[k].addr)
    BY <2>1 DEF Leased
  <2> QED BY <2>1, <2>2
<1> HIDE DEF twins, strip
<1>4. \A k \in DOMAIN d.leases : New(k) \in Names \cup {NoName}
  BY <1>2, LeaseFields DEF IsFunc
<1>5. \A k, m \in DOMAIN d.leases : New(k) = New(m) /\ New(k) # NoName => k = m
  BY <1>2, <1>3 DEF NamesDistinct
<1> HIDE DEF New
<1>6. \A k \in DOMAIN d.leases : f[k].name = New(k)
  <2> SUFFICES ASSUME NEW k \in DOMAIN d.leases PROVE [d.leases[k] EXCEPT !.name = New(k)].name = New(k)
    OBVIOUS
  <2>1. d.leases[k] \in Lease /\ New(k) \in Names \cup {NoName}
    BY <1>2, <1>4 DEF IsFunc
  <2> QED BY <2>1, LeaseWith
<1>7. f = [k \in DOMAIN d.leases |-> [d.leases[k] EXCEPT !.name = f[k].name]]
  BY <1>6, Zenon
<1>8. b \in BOOLEAN
  BY <1>2
<1> HIDE DEF f, b
<1>9. Good(Db(f, d.index, b, d.old))
  <2>1. \A k \in DOMAIN d.leases : f[k].name \in Names \cup {NoName}
    BY <1>4, <1>6
  <2>2. \A k, m \in DOMAIN d.leases : f[k].name = f[m].name /\ f[k].name # NoName => k = m
    BY <1>5, <1>6
  <2> QED BY <2>1, <2>2, <1>7, <1>8, RenameAllGood, Zenon
<1>10. Db(f, d.index, b, d.old).index = d.index
  BY DEF Db
<1> QED BY <1>1, <1>9, <1>10, LeasedGood

\* `remove_by_addr`
LEMMA RemoveGood ==
  ASSUME NEW d, Good(d), NEW a
  PROVE  Good(RemoveByAddr(d, a))
<1>1. CASE ~Leased(d, a)
  BY <1>1 DEF RemoveByAddr
<1>2. CASE Leased(d, a)
  <2> DEFINE k == d.index[a]
             f == Drop(d.leases, {k})
             g == Drop(d.index, {a})
             n == Db(f, g, TRUE, d.old \cup {a})
  <2>1. k \in DOMAIN d.leases /\ d.leases[k].addr = a /\ a \in DOMAIN d.index
    BY <1>2, LeasedGood
  <2>2. RemoveByAddr(d, a) = n
    BY <1>2 DEF RemoveByAddr
  <2>3. /\ IsFunc(d.leases, Keys, Lease) /\ IsFunc(d.index, Addrs, Keys) /\ d.old \subseteq Addrs
        /\ Indexed(d) /\ NamesDistinct(d) /\ Bounded(d)
    BY DEF Good, IsDb
  <2>4. IsFunc(f, Keys, Lease) /\ Reduced(f, d.leases, {k})
    BY <2>3, DropFunc, Zenon
  <2>5. IsFunc(g, Addrs, Keys) /\ Reduced(g, d.index, {a})
    BY <2>3, DropFunc, Zenon
  <2>6. n.leases = f /\ n.index = g /\ n.dirty = TRUE /\ n.old = d.old \cup {a}
    BY DEF Db
  <2>7. a \in Addrs
    BY <2>1, <2>3 DEF IsFunc
  <2>8. IsDb(n)
    BY <2>3, <2>4, <2>5, <2>6, <2>7 DEF IsDb
  <2> HIDE DEF n, f, g
  <2>9. Indexed(n) /\ NamesDistinct(n)
    <3> HIDE DEF k
    <3>1. \A x \in DOMAIN g : x # a /\ x \in DOMAIN d.index /\ g[x] = d.index[x]
      BY <2>5 DEF Reduced
    <3>2. \A x \in DOMAIN f : x # k /\ x \in DOMAIN d.leases /\ f[x] = d.leases[x]
      BY <2>4 DEF Reduced
    <3>3. \A x \in DOMAIN g : g[x] # k /\ g[x] \in DOMAIN d.leases /\ d.leases[g[x]].addr = x
      BY <2>1, <2>3, <3>1 DEF Indexed, LeaseAt
    <3>4. \A x \in DOMAIN f : f[x].addr # a /\ f[x].addr \in DOMAIN d.index /\ d.index[f[x].addr] = x
      BY <2>1, <2>3, <3>2 DEF Indexed, k
    <3>5. \A x \in DOMAIN g : g[x] \in DOMAIN f /\ f[g[x]].addr = x
      BY <2>4, <3>3 DEF Reduced
    <3>6. \A x \in DOMAIN f : f[x].addr \in DOMAIN g /\ g[f[x].addr] = x
      BY <2>5, <3>4 DEF Reduced
    <3>7. Indexed(n)
      BY <2>6, <3>5, <3>6 DEF Indexed, LeaseAt
    <3>8. NamesDistinct(n)
      BY <2>3, <2>6, <3>2 DEF NamesDistinct
    <3> QED BY <3>7, <3>8
  <2>10. Bounded(n)
    <3>1. DOMAIN n.leases = DOMAIN d.leases \ {k}
      BY <2>4, <2>6 DEF Reduced
    <3>2. /\ IsFiniteSet(DOMAIN d.leases \ {k})
          /\ Cardinality(DOMAIN d.leases) \in Nat /\ Cardinality(DOMAIN d.leases \ {k}) \in Nat
          /\ Cardinality(DOMAIN d.leases \ {k}) < Cardinality(DOMAIN d.leases)
      <4>1. IsFiniteSet(DOMAIN d.leases)
        BY <2>3 DEF Bounded
      <4> QED BY <4>1, <2>1, CardRemove, Zenon
    <3> QED BY <3>1, <3>2, <2>3, LeaseAssumption DEF Bounded
  <2> QED BY <2>2, <2>8, <2>9, <2>10 DEF Good
<1> QED BY <1>1, <1>2

\* `run_lease_scripts`
LEMMA ScriptsRunGood ==
  ASSUME NEW d, Good(d)
  PROVE  Good(ScriptsRun(d))
<1> DEFINE f == [k \in DOMAIN d.leases |-> [d.leases[k] EXCEPT !.new = FALSE]]
<1>1. IsFunc(d.leases, Keys, Lease) /\ NamesDistinct(d) /\ d.dirty \in BOOLEAN
  BY DEF Good, IsDb
<1>2. \A k \in DOMAIN f : f[k] \in Lease /\ f[k].addr = d.leases[k].addr /\ f[k].name = d.leases[k].name
  <2> SUFFICES ASSUME NEW k \in DOMAIN d.leases, NEW l, l = [d.leases[k] EXCEPT !.new = FALSE]
               PROVE  l \in Lease /\ l.addr = d.leases[k].addr /\ l.name = d.leases[k].name
    BY Zenon
  <2>1. d.leases[k] \in Lease
    BY <1>1 DEF IsFunc
  <2> QED BY <2>1, LeaseWith
<1>3. DOMAIN f = DOMAIN d.leases /\ f = [k \in DOMAIN f |-> f[k]]
  BY Zenon
<1>4. ScriptsRun(d) = Db(f, d.index, d.dirty, {})
  BY DEF ScriptsRun
<1> HIDE DEF f
<1>5. IsFunc(f, Keys, Lease)
  BY <1>1, <1>2, <1>3 DEF IsFunc
<1>6. NamesDistinct(Db(f, d.index, d.dirty, {}))
  BY <1>1, <1>2, <1>3 DEF NamesDistinct, Db
<1>7. {} \in SUBSET Addrs /\ \A k \in DOMAIN f : f[k].addr = d.leases[k].addr
  BY <1>2
<1>8. Good(Db(f, d.index, d.dirty, {}))
  BY <1>1, <1>3, <1>5, <1>6, <1>7, UpdateGood, Zenon
<1> QED BY <1>4, <1>8, Zenon

\* `update_from_configs`: of the leases given one name only the last keeps it.
LEMMA RenameGood ==
  ASSUME NEW d, Good(d), NEW renames \in SUBSET (Addrs \X Names), NEW last \in LastOfEachName(renames)
  PROVE  Good(Rename(d, renames, last))
<1> DEFINE names == {r[2] : r \in renames}
           Of(l) == CHOOSE r \in last : r[1] = l.addr
           New(l) == IF \E r \in last : r[1] = l.addr THEN Of(l)[2]
                     ELSE IF l.name \in names \/ (\E r \in renames : r[1] = l.addr) THEN NoName
                     ELSE l.name
           f == [k \in DOMAIN d.leases |-> [d.leases[k] EXCEPT !.name = New(d.leases[k])]]
           b == d.dirty \/ renames # last \/ \E r \in renames : LeaseAt(d, r[1]).name # r[2]
<1>1. Rename(d, renames, last) = Db(f, d.index, b, d.old)
  BY DEF Rename
<1>2. IsFunc(d.leases, Keys, Lease) /\ NamesDistinct(d) /\ Indexed(d) /\ d.dirty \in BOOLEAN
  BY DEF Good, IsDb
<1>3. /\ last \subseteq renames
      /\ \A r, s \in last : r[2] = s[2] => r = s
  BY DEF LastOfEachName, OneOfEach
<1>4. ASSUME NEW k \in DOMAIN d.leases
      PROVE  /\ New(d.leases[k]) \in Names \cup {NoName}
             /\ New(d.leases[k]) = NoName
                \/ (Of(d.leases[k]) \in last /\ Of(d.leases[k])[1] = d.leases[k].addr /\ New(d.leases[k]) = Of(d.leases[k])[2])
                \/ (New(d.leases[k]) = d.leases[k].name /\ d.leases[k].name \notin names)
  <2> DEFINE l == d.leases[k]
  <2>1. l.name \in Names \cup {NoName}
    BY <1>2, LeaseFields DEF IsFunc
  <2> HIDE DEF l, names
  <2>2. CASE \E r \in last : r[1] = l.addr
    <3>1. Of(l) \in last /\ Of(l)[1] = l.addr
      BY <2>2
    <3>2. Of(l)[2] \in Names
      BY <3>1, <1>3
    <3> HIDE DEF Of
    <3> QED BY <2>2, <3>1, <3>2 DEF l
  <2>3. CASE ~\E r \in last : r[1] = l.addr
    <3> HIDE DEF Of
    <3> QED BY <2>1, <2>3 DEF l
  <2> QED BY <2>2, <2>3
<1>5. \A r \in last : r[2] \in names
  BY <1>3
<1> HIDE DEF New, Of, names
<1>6. \A k, m \in DOMAIN d.leases :
        New(d.leases[k]) = New(d.leases[m]) /\ New(d.leases[k]) # NoName => k = m
  BY <1>2, <1>3, <1>4, <1>5 DEF NamesDistinct, Indexed
<1>7. \A k \in DOMAIN d.leases : f[k].name = New(d.leases[k])
  <2> SUFFICES ASSUME NEW k \in DOMAIN d.leases
               PROVE  [d.leases[k] EXCEPT !.name = New(d.leases[k])].name = New(d.leases[k])
    OBVIOUS
  <2>1. d.leases[k] \in Lease /\ New(d.leases[k]) \in Names \cup {NoName}
    BY <1>2, <1>4 DEF IsFunc
  <2> QED BY <2>1, LeaseWith
<1>8. f = [k \in DOMAIN d.leases |-> [d.leases[k] EXCEPT !.name = f[k].name]]
  BY <1>7, Zenon
<1>9. b \in BOOLEAN
  BY <1>2
<1> HIDE DEF f, b
<1>10. Good(Db(f, d.index, b, d.old))
  <2>1. \A k \in DOMAIN d.leases : f[k].name \in Names \cup {NoName}
    BY <1>4, <1>7
  <2>2. \A k, m \in DOMAIN d.leases : f[k].name = f[m].name /\ f[k].name # NoName => k = m
    BY <1>6, <1>7
  <2> QED BY <2>1, <2>2, <1>8, <1>9, RenameAllGood, Zenon
<1> QED BY <1>1, <1>10

\* `serialize`: the file of a good table is good.
LEMMA RowsGood ==
  ASSUME NEW d, Good(d)
  PROVE  FileGood(Rows(d))
<1> DEFINE f == [k \in DOMAIN d.leases |-> Row(d.leases[k])]
<1>1. IsFunc(d.leases, Keys, Lease) /\ NamesDistinct(d) /\ Indexed(d) /\ Bounded(d)
  BY DEF Good, IsDb
<1>2. \A k \in DOMAIN d.leases :
        /\ Row(d.leases[k]) \in Line
        /\ Row(d.leases[k]).addr = d.leases[k].addr /\ Row(d.leases[k]).name = d.leases[k].name
  <2> SUFFICES ASSUME NEW l \in Lease PROVE Row(l) \in Line /\ Row(l).addr = l.addr /\ Row(l).name = l.name
    BY <1>1 DEF IsFunc
  <2> QED BY LeaseFields DEF Row, Line
<1>3. Rows(d) \subseteq Line
  BY <1>2 DEF Rows
<1>4. IsFiniteSet(Rows(d)) /\ Cardinality(Rows(d)) <= MaxLeases
  <2>1. f \in Surjection(DOMAIN d.leases, Rows(d))
    BY DEF Surjection, Rows
  <2>2. IsFiniteSet(DOMAIN d.leases) /\ Cardinality(DOMAIN d.leases) <= MaxLeases
    BY <1>1 DEF Bounded
  <2>3. IsFiniteSet(Rows(d)) /\ Cardinality(Rows(d)) <= Cardinality(DOMAIN d.leases)
    <3> HIDE DEF f
    <3> QED BY <2>1, <2>2, FS_Surjection, Zenon
  <2>4. Cardinality(Rows(d)) \in Nat /\ Cardinality(DOMAIN d.leases) \in Nat
    BY <2>2, <2>3, FS_CardinalityType
  <2> QED BY <2>2, <2>3, <2>4, LeaseAssumption
<1>5. ASSUME NEW r \in Rows(d), NEW t \in Rows(d)
      PROVE  /\ r.addr = t.addr => r = t
             /\ r.name = t.name /\ r.name # NoName => r = t
  <2>1. PICK k \in DOMAIN d.leases : r = Row(d.leases[k])
    BY DEF Rows
  <2>2. PICK m \in DOMAIN d.leases : t = Row(d.leases[m])
    BY DEF Rows
  <2>3. (r.addr = t.addr => k = m) /\ (r.name = t.name /\ r.name # NoName => k = m)
    BY <2>1, <2>2, <1>1, <1>2 DEF Indexed, NamesDistinct
  <2> QED BY <2>1, <2>2, <2>3
<1> QED BY <1>3, <1>4, <1>5 DEF FileGood

\* The table the daemon starts with, without a file.
LEMMA EmptyGood == Good(EmptyDb)
<1>1. EmptyDb.leases = <<>> /\ EmptyDb.index = <<>> /\ EmptyDb.dirty = FALSE /\ EmptyDb.old = {}
  BY DEF EmptyDb, Db
<1>2. DOMAIN (<<>>) = {} /\ <<>> = [x \in {} |-> <<>>[x]]
  OBVIOUS
<1>3. IsFunc(<<>>, Keys, Lease) /\ IsFunc(<<>>, Addrs, Keys)
  BY <1>2 DEF IsFunc
<1>4. IsDb(EmptyDb)
  BY <1>1, <1>3 DEF IsDb, EmptyDb
<1>5. Indexed(EmptyDb) /\ NamesDistinct(EmptyDb)
  BY <1>1, <1>2 DEF Indexed, NamesDistinct
<1>6. Bounded(EmptyDb)
  BY <1>1, <1>2, FS_EmptySet, LeaseAssumption DEF Bounded
<1> QED BY <1>4, <1>5, <1>6 DEF Good

\* A line as a lease.
LEMMA FromRowOK ==
  ASSUME NEW r \in Line
  PROVE  FromRow(r) \in Lease /\ FromRow(r).addr = r.addr /\ FromRow(r).name = r.name
BY DEF FromRow, Line, Lease

\* `load_from_file`: a good file gives a good table, whichever lines lose their key.
LEMMA LoadGood ==
  ASSUME NEW rows, FileGood(rows), NEW d \in Load(rows)
  PROVE  Good(d)
<1> DEFINE KeyOf(r) == LeaseKey(FromRow(r))
           Ls(s) == [k \in {KeyOf(r) : r \in s} |-> FromRow(CHOOSE r \in s : KeyOf(r) = k)]
           Ix(s) == [a \in {r.addr : r \in s} |-> KeyOf(CHOOSE r \in s : r.addr = a)]
<1>1. CASE \E r \in rows : ~Parses(r)
  BY <1>1, EmptyGood DEF Load
<1>2. CASE ~\E r \in rows : ~Parses(r)
  <2>1. PICK s \in OneOfEach(rows, KeyOf) : d = Db(Ls(s), Ix(s), FALSE, {})
    BY <1>2 DEF Load
  <2>2. s \subseteq rows /\ \A r, t \in s : KeyOf(r) = KeyOf(t) => r = t
    BY <2>1 DEF OneOfEach
  <2>3. /\ \A r \in s : r \in Line
        /\ \A r, t \in s : r.addr = t.addr => r = t
        /\ \A r, t \in s : r.name = t.name /\ r.name # NoName => r = t
    BY <2>2 DEF FileGood
  <2>4. \A r \in s : FromRow(r) \in Lease /\ FromRow(r).addr = r.addr /\ FromRow(r).name = r.name
    BY <2>3, FromRowOK
  <2>5. \A r \in s : KeyOf(r) \in Keys /\ r.addr \in Addrs
    BY <2>4, LeaseKeyOK, LeaseFields
  <2> HIDE DEF KeyOf
  <2>6. /\ DOMAIN Ls(s) = {KeyOf(r) : r \in s} /\ Ls(s) = [k \in DOMAIN Ls(s) |-> Ls(s)[k]]
        /\ \A r \in s : Ls(s)[KeyOf(r)] = FromRow(r)
    BY <2>2
  <2>7. /\ DOMAIN Ix(s) = {r.addr : r \in s} /\ Ix(s) = [a \in DOMAIN Ix(s) |-> Ix(s)[a]]
        /\ \A r \in s : Ix(s)[r.addr] = KeyOf(r)
    BY <2>3
  <2> HIDE DEF Ls, Ix
  <2>8. d.leases = Ls(s) /\ d.index = Ix(s) /\ d.dirty = FALSE /\ d.old = {}
    BY <2>1 DEF Db
  <2>9. IsDb(d)
    <3>1. IsFunc(Ls(s), Keys, Lease)
      BY <2>4, <2>5, <2>6 DEF IsFunc
    <3>2. IsFunc(Ix(s), Addrs, Keys)
      BY <2>5, <2>7 DEF IsFunc
    <3> QED BY <2>1, <2>8, <3>1, <3>2 DEF IsDb
  <2>10. Indexed(d)
    <3>1. \A r \in s : LeaseAt(d, r.addr).addr = r.addr
      BY <2>4, <2>6, <2>7, <2>8 DEF LeaseAt
    <3> QED BY <2>4, <2>6, <2>7, <2>8, <3>1 DEF Indexed
  <2>11. NamesDistinct(d)
    BY <2>3, <2>4, <2>6, <2>8 DEF NamesDistinct
  <2>12. Bounded(d)
    <3>1. IsFiniteSet(rows) /\ Cardinality(rows) <= MaxLeases
      BY DEF FileGood
    <3>2. IsFiniteSet(s) /\ Cardinality(s) <= Cardinality(rows)
      BY <2>2, <3>1, FS_Subset
    <3> DEFINE g == [r \in s |-> KeyOf(r)]
    <3>3. g \in Surjection(s, DOMAIN d.leases)
      BY <2>6, <2>8 DEF Surjection
    <3>4. IsFiniteSet(DOMAIN d.leases) /\ Cardinality(DOMAIN d.leases) <= Cardinality(s)
      <4> HIDE DEF g
      <4> QED BY <3>2, <3>3, FS_Surjection, Zenon
    <3>5. Cardinality(rows) \in Nat /\ Cardinality(s) \in Nat /\ Cardinality(DOMAIN d.leases) \in Nat
      BY <3>1, <3>2, <3>4, FS_CardinalityType
    <3> QED BY <3>1, <3>2, <3>4, <3>5, LeaseAssumption DEF Bounded
  <2> QED BY <2>9, <2>10, <2>11, <2>12 DEF Good
<1> QED BY <1>1, <1>2

---------------------------------------------------------------------------
(* The flag LEASE_NEW survives every operation *)

\* Changing another field leaves the flag.
LEMMA FlagKept ==
  ASSUME NEW l \in Lease, NEW x
  PROVE  /\ [l EXCEPT !.hw = x].new = l.new /\ [l EXCEPT !.clid = x].new = l.new
         /\ [l EXCEPT !.name = x].new = l.new /\ [l EXCEPT !.expires = x].new = l.new
BY DEF Lease

\* Leases changed in place keep their flags.
LEMMA UpdateFollows ==
  ASSUME NEW d, Good(d), NEW f, NEW b,
         \A k \in DOMAIN d.leases : f[k].new = d.leases[k].new
  PROVE  /\ Follows(Db(f, d.index, b, d.old), d)
         /\ Settled(Db(f, d.index, b, d.old)) = Settled(d)
<1> DEFINE n == Db(f, d.index, b, d.old)
<1>1. n.leases = f /\ n.index = d.index /\ n.old = d.old
  BY DEF Db
<1>2. \A a \in DOMAIN d.index : d.index[a] \in DOMAIN d.leases
  BY DEF Good, Indexed
<1> HIDE DEF n
<1>3. Follows(n, d) /\ Settled(n) = Settled(d)
  BY <1>1, <1>2 DEF Follows, Settled, LeaseAt
<1> QED BY <1>3 DEF n

\* So does one lease replaced under its key.
LEMMA ReplaceFollows ==
  ASSUME NEW d, Good(d), NEW k, NEW l, NEW b, k \in DOMAIN d.leases, l.new = d.leases[k].new
  PROVE  Follows(Db(Put(d.leases, k, l), d.index, b, d.old), d)
<1>1. \A x \in DOMAIN d.leases : Put(d.leases, k, l)[x].new = d.leases[x].new
  BY DEF Put
<1> QED BY <1>1, UpdateFollows

\* `insert_raw`: the inserted lease apart, what is left is what there was.
LEMMA InsertRawFollows ==
  ASSUME NEW d, IsDb(d), NEW k \in Keys, NEW l \in Lease, IndexedBut(d, l.addr)
  PROVE  /\ InsertRaw(d, k, l).old = d.old
         /\ Settled(InsertRaw(d, k, l)) \subseteq
              {a \in Settled(d) : a # l.addr} \cup {a \in {l.addr} : ~l.new}
<1> DEFINE R  == {d.leases[x].addr : x \in DOMAIN d.leases \cap {k}} \ {l.addr}
           DI == Drop(d.index, R)
           PI == Put(DI, l.addr, k)
           PL == Put(d.leases, k, l)
           n  == InsertRaw(d, k, l)
<1>1. IsFunc(d.leases, Keys, Lease) /\ IsFunc(d.index, Addrs, Keys) /\ l.addr \in Addrs
  BY LeaseFields DEF IsDb
<1>2. IsFunc(DI, Addrs, Keys) /\ Reduced(DI, d.index, R)
  BY <1>1, DropFunc, Zenon
<1>3. Extended(PI, DI, l.addr, k)
  <2> HIDE DEF DI
  <2> QED BY <1>1, <1>2, PutFunc, Zenon
<1>4. Extended(PL, d.leases, k, l)
  BY <1>1, PutFunc, Zenon
<1>5. n.leases = PL /\ n.index = PI /\ n.old = d.old
  BY DEF InsertRaw, Db
<1>6. \A a \in DOMAIN d.index : d.index[a] = k /\ a # l.addr => a \in R
  BY DEF IndexedBut, LeaseAt
<1> HIDE DEF n, PI, PL, DI, R
<1>7. \A a \in DOMAIN n.index : a # l.addr =>
        a \in DOMAIN d.index /\ n.index[a] = d.index[a] /\ d.index[a] # k /\ d.index[a] \in DOMAIN d.leases
  BY <1>2, <1>3, <1>5, <1>6 DEF Extended, Reduced, IndexedBut
<1>8. \A a \in DOMAIN n.index : a # l.addr => a \in DOMAIN d.index /\ LeaseAt(n, a) = LeaseAt(d, a)
  BY <1>4, <1>5, <1>7 DEF Extended, LeaseAt
<1>9. LeaseAt(n, l.addr) = l
  BY <1>3, <1>4, <1>5 DEF Extended, LeaseAt
<1>10. Settled(n) \subseteq {a \in Settled(d) : a # l.addr} \cup {a \in {l.addr} : ~l.new}
  BY <1>8, <1>9 DEF Settled
<1> QED BY <1>5, <1>10 DEF n

\* Setting the dirty flag.
LEMMA FlaggedFollows ==
  ASSUME NEW d, NEW b
  PROVE  Flagged(d, b).old = d.old /\ Settled(Flagged(d, b)) = Settled(d)
BY DEF Flagged, Db, Settled, LeaseAt

\* `allocate_v4`: the lease it makes is new.
LEMMA AllocateFollows ==
  ASSUME NEW d, Good(d), NEW a \in Addrs, ~Leased(d, a)
  PROVE  Follows(AllocateV4(d, a), d)
<1> DEFINE l == NewLease(a)
           n == InsertRaw(d, LeaseKey(l), l)
<1>1. l \in Lease /\ l.addr = a /\ l.new
  BY LeaseAssumption DEF NewLease, Lease, Never
<1>2. LeaseKey(l) \in Keys
  BY <1>1, LeaseKeyOK
<1> HIDE DEF l
<1>3. IsDb(d) /\ IndexedBut(d, a)
  <2>1. IsDb(d) /\ Indexed(d) /\ a \notin DOMAIN d.index
    BY LeasedGood DEF Good
  <2> QED BY <2>1 DEF Indexed, IndexedBut, LeaseAt
<1>4. n.old = d.old /\ Settled(n) \subseteq Settled(d)
  BY <1>1, <1>2, <1>3, InsertRawFollows
<1>5. AllocateV4(d, a) = Flagged(n, TRUE)
  BY DEF AllocateV4, l
<1> HIDE DEF n
<1> QED BY <1>4, <1>5, FlaggedFollows DEF Follows

\* `set_hwaddr`: the lease takes its flag to its new key.
LEMMA SetHwaddrFollows ==
  ASSUME NEW d, Good(d), NEW a, Leased(d, a), NEW hw \in Ids, NEW clid \in Ids
  PROVE  Follows(SetHwaddr(d, a, hw, clid), d)
<1> DEFINE k     == d.index[a]
           known == [d.leases[k] EXCEPT !.hw = hw]
           moved == [known EXCEPT !.clid = clid]
           d0    == Db(Drop(d.leases, {k}), d.index, TRUE, d.old)
           m     == LeaseKey(moved)
           b     == d.dirty \/ d.leases[k].hw # hw
<1>1. /\ k \in DOMAIN d.leases /\ k \in Keys /\ d.leases[k] \in Lease /\ d.leases[k].addr = a
      /\ LeaseAt(d, a) = d.leases[k] /\ a \in DOMAIN d.index
  BY LeasedGood
<1>2. known \in Lease /\ known.addr = a /\ known.new = d.leases[k].new
  BY <1>1, LeaseWith, FlagKept
<1>3. CASE clid # NoId /\ known.clid # clid
  <2>1. moved \in Lease /\ moved.addr = a /\ moved.new = d.leases[k].new
    <3> HIDE DEF known
    <3> QED BY <1>2, LeaseWith, FlagKept
  <2>2. SetHwaddr(d, a, hw, clid) = InsertRaw(d0, m, moved)
    BY <1>3 DEF SetHwaddr
  <2>3. m \in Keys
    BY <2>1, LeaseKeyOK
  <2> HIDE DEF moved, m
  <2>4. /\ IsFunc(d.leases, Keys, Lease) /\ IsFunc(d.index, Addrs, Keys) /\ d.old \subseteq Addrs
        /\ Indexed(d)
    BY DEF Good, IsDb
  <2> DEFINE f == Drop(d.leases, {k})
  <2>5. IsFunc(f, Keys, Lease) /\ Reduced(f, d.leases, {k})
    BY <2>4, DropFunc, Zenon
  <2>6. d0.leases = f /\ d0.index = d.index /\ d0.dirty = TRUE /\ d0.old = d.old
    BY DEF Db
  <2>7. IsDb(d0)
    BY <2>4, <2>5, <2>6 DEF IsDb
  <2> HIDE DEF d0, f
  <2>8. IndexedBut(d0, a)
    BY <1>1, <2>4, <2>5, <2>6 DEF Indexed, IndexedBut, LeaseAt, Reduced
  <2>9. \A c \in DOMAIN d.index : c # a => d.index[c] \in DOMAIN d.leases \ {k}
    BY <1>1, <2>4 DEF Indexed, LeaseAt
  <2>10. {c \in Settled(d0) : c # a} \subseteq Settled(d)
    BY <2>5, <2>6, <2>9 DEF Settled, LeaseAt, Reduced
  <2>11. /\ InsertRaw(d0, m, moved).old = d0.old
         /\ Settled(InsertRaw(d0, m, moved)) \subseteq
              {c \in Settled(d0) : c # a} \cup {c \in {a} : ~moved.new}
    BY <2>1, <2>3, <2>7, <2>8, InsertRawFollows
  <2>12. {c \in {a} : ~moved.new} \subseteq Settled(d)
    BY <1>1, <2>1 DEF Settled
  <2> QED BY <2>2, <2>6, <2>10, <2>11, <2>12 DEF Follows
<1>4. CASE ~(clid # NoId /\ known.clid # clid)
  <2>1. SetHwaddr(d, a, hw, clid) = Db(Put(d.leases, k, known), d.index, b, d.old)
    BY <1>4 DEF SetHwaddr
  <2> HIDE DEF known, b, k
  <2> QED BY <1>1, <1>2, <2>1, ReplaceFollows
<1> QED BY <1>3, <1>4

\* `set_hostname`
LEMMA SetHostnameFollows ==
  ASSUME NEW d, Good(d), NEW a, NEW name
  PROVE  Follows(SetHostname(d, a, name), d)
<1>1. \A k \in DOMAIN d.leases : d.leases[k] \in Lease
  BY DEF Good, IsDb, IsFunc
<1>2. PICK New, b :
        SetHostname(d, a, name)
          = Db([k \in DOMAIN d.leases |-> [d.leases[k] EXCEPT !.name = New[k]]], d.index, b, d.old)
  <2> DEFINE twins == {k \in DOMAIN d.leases : name # NoName /\ d.leases[k].name = name /\ d.leases[k].addr # a}
             strip == {d.index[d.leases[k].addr] : k \in {k \in twins : Leased(d, d.leases[k].addr)}}
             N == [k \in DOMAIN d.leases |->
                     IF k = d.index[a] THEN name ELSE IF k \in strip THEN NoName ELSE d.leases[k].name]
             c == d.dirty \/ LeaseAt(d, a).name # name
  <2>1. SetHostname(d, a, name)
          = Db([k \in DOMAIN d.leases |-> [d.leases[k] EXCEPT !.name = N[k]]], d.index, c, d.old)
    BY Zenon DEF SetHostname
  <2> HIDE DEF N, c
  <2> QED BY <2>1
<1> DEFINE f == [k \in DOMAIN d.leases |-> [d.leases[k] EXCEPT !.name = New[k]]]
<1>3. \A k \in DOMAIN d.leases : f[k].new = d.leases[k].new
  BY <1>1, FlagKept
<1> HIDE DEF f
<1>4. Follows(Db(f, d.index, b, d.old), d)
  BY <1>3, UpdateFollows
<1> QED BY <1>2, <1>4 DEF f

\* `set_expires`
LEMMA SetExpiresFollows ==
  ASSUME NEW d, Good(d), NEW a, Leased(d, a), NEW forever
  PROVE  Follows(SetExpires(d, a, forever), d)
<1> DEFINE e == IF forever THEN Never ELSE Fresh(LeaseAt(d, a).expires)
           l == [LeaseAt(d, a) EXCEPT !.expires = e]
           b == d.dirty \/ LeaseAt(d, a).expires # e
           k == d.index[a]
<1>1. k \in DOMAIN d.leases /\ LeaseAt(d, a) = d.leases[k] /\ d.leases[k] \in Lease
  BY LeasedGood DEF LeaseAt
<1> HIDE DEF e
<1>2. l.new = d.leases[k].new
  BY <1>1, FlagKept
<1>3. SetExpires(d, a, forever) = Db(Put(d.leases, k, l), d.index, b, d.old)
  BY DEF SetExpires, e
<1> HIDE DEF l, b, k
<1> QED BY <1>1, <1>2, <1>3, ReplaceFollows

\* `update_from_configs`
LEMMA RenameFollows ==
  ASSUME NEW d, Good(d), NEW renames, NEW last
  PROVE  LET n == Rename(d, renames, last)
         IN  n.old = d.old /\ n.index = d.index /\ Settled(n) = Settled(d)
<1>1. \A k \in DOMAIN d.leases : d.leases[k] \in Lease
  BY DEF Good, IsDb, IsFunc
<1> DEFINE New(l) == IF \E r \in last : r[1] = l.addr THEN (CHOOSE r \in last : r[1] = l.addr)[2]
                     ELSE IF l.name \in {r[2] : r \in renames} \/ (\E r \in renames : r[1] = l.addr) THEN NoName
                     ELSE l.name
           f == [k \in DOMAIN d.leases |-> [d.leases[k] EXCEPT !.name = New(d.leases[k])]]
           b == d.dirty \/ renames # last \/ \E r \in renames : LeaseAt(d, r[1]).name # r[2]
           n == Rename(d, renames, last)
<1>2. n = Db(f, d.index, b, d.old)
  BY DEF Rename
<1> HIDE DEF New, b, n
<1>3. \A k \in DOMAIN d.leases : f[k].new = d.leases[k].new
  BY <1>1, FlagKept
<1> HIDE DEF f
<1>4. Follows(Db(f, d.index, b, d.old), d) /\ Settled(Db(f, d.index, b, d.old)) = Settled(d)
  BY <1>3, UpdateFollows
<1>5. Db(f, d.index, b, d.old).index = d.index
  BY DEF Db
<1>6. n.old = d.old /\ n.index = d.index /\ Settled(n) = Settled(d)
  BY <1>2, <1>4, <1>5 DEF Follows
<1> QED BY <1>6 DEF n

\* `remove_by_addr`: the address leaves the index when it joins `old_leases`.
LEMMA RemoveFollows ==
  ASSUME NEW d, Good(d), NEW a, d.old \cap DOMAIN d.index = {}
  PROVE  LET n == RemoveByAddr(d, a)
         IN  n.old \cap DOMAIN n.index = {} /\ Settled(n) \subseteq Settled(d)
<1> DEFINE n == RemoveByAddr(d, a)
<1>1. CASE ~Leased(d, a)
  BY <1>1 DEF RemoveByAddr
<1>2. CASE Leased(d, a)
  <2> DEFINE k == d.index[a]
             L == Drop(d.leases, {k})
             X == Drop(d.index, {a})
  <2>1. /\ IsFunc(d.leases, Keys, Lease) /\ IsFunc(d.index, Addrs, Keys) /\ Indexed(d)
        /\ a \in DOMAIN d.index
    BY <1>2, LeasedGood DEF Good, IsDb
  <2>2. n.leases = L /\ n.index = X /\ n.old = d.old \cup {a}
    BY <1>2 DEF RemoveByAddr, Db
  <2>3. Reduced(L, d.leases, {k}) /\ Reduced(X, d.index, {a})
    BY <2>1, DropFunc, Zenon
  <2>4. \A c \in DOMAIN d.index : c # a => d.index[c] \in DOMAIN d.leases \ {k}
    BY <2>1 DEF Indexed, LeaseAt
  <2> HIDE DEF n, L, X
  <2>5. n.old \cap DOMAIN n.index = {}
    BY <2>2, <2>3 DEF Reduced
  <2>6. Settled(n) \subseteq Settled(d)
    BY <2>2, <2>3, <2>4 DEF Reduced, Settled, LeaseAt
  <2> QED BY <2>5, <2>6 DEF n
<1> QED BY <1>1, <1>2

\* `run_lease_scripts`: every lease has been announced, and nothing waits for its `del`.
LEMMA ScriptsRunSettled ==
  ASSUME NEW d, Good(d)
  PROVE  LET n == ScriptsRun(d)
         IN  n.old = {} /\ n.index = d.index /\ Settled(n) = DOMAIN d.index
<1> DEFINE n == ScriptsRun(d)
           f == [k \in DOMAIN d.leases |-> [d.leases[k] EXCEPT !.new = FALSE]]
<1>1. n.leases = f /\ n.index = d.index /\ n.old = {}
  BY DEF ScriptsRun, Db
<1>2. \A k \in DOMAIN d.leases : f[k].new = FALSE
  <2>1. \A k \in DOMAIN d.leases : d.leases[k] \in Lease
    BY DEF Good, IsDb, IsFunc
  <2>2. \A l \in Lease : [l EXCEPT !.new = FALSE].new = FALSE
    BY DEF Lease
  <2> QED BY <2>1, <2>2
<1>3. \A a \in DOMAIN d.index : d.index[a] \in DOMAIN d.leases
  BY DEF Good, Indexed
<1> HIDE DEF n, f
<1>4. Settled(n) = DOMAIN d.index
  BY <1>1, <1>2, <1>3 DEF Settled, LeaseAt
<1> QED BY <1>1, <1>4 DEF n

\* What the script is told covers the table.
LEMMA ToldCovers ==
  ASSUME NEW d, Good(d), NEW told, Settled(d) \subseteq told, d.old \cap DOMAIN d.index = {}
  PROVE  DOMAIN d.index \subseteq Told(d, told)
<1> SUFFICES ASSUME NEW a \in DOMAIN d.index PROVE a \in Told(d, told)
  OBVIOUS
<1>1. LeaseAt(d, a) \in Range(d.leases) /\ LeaseAt(d, a).addr = a
  BY DEF Good, Indexed, LeaseAt, Range
<1> QED BY <1>1 DEF Told, Settled

\* A restart takes every lease of the file as announced.
LEMMA LoadSettled ==
  ASSUME NEW rows, FileGood(rows), NEW d \in Load(rows)
  PROVE  d.old = {} /\ Settled(d) = DOMAIN d.index
<1> DEFINE KeyOf(r) == LeaseKey(FromRow(r))
           Ls(s) == [k \in {KeyOf(r) : r \in s} |-> FromRow(CHOOSE r \in s : KeyOf(r) = k)]
           Ix(s) == [a \in {r.addr : r \in s} |-> KeyOf(CHOOSE r \in s : r.addr = a)]
<1>1. CASE \E r \in rows : ~Parses(r)
  <2>1. d = EmptyDb
    BY <1>1 DEF Load
  <2> QED BY <2>1 DEF EmptyDb, Db, Settled
<1>2. CASE ~\E r \in rows : ~Parses(r)
  <2>1. PICK s \in OneOfEach(rows, KeyOf) : d = Db(Ls(s), Ix(s), FALSE, {})
    BY <1>2 DEF Load
  <2>2. d.leases = Ls(s) /\ d.old = {}
    BY <2>1 DEF Db
  <2> HIDE DEF KeyOf
  <2>3. \A k \in DOMAIN Ls(s) : Ls(s)[k].new = FALSE
    BY DEF FromRow
  <2> HIDE DEF Ls
  <2>4. \A a \in DOMAIN d.index : d.index[a] \in DOMAIN d.leases
    BY LoadGood DEF Good, Indexed
  <2> QED BY <2>2, <2>3, <2>4 DEF Settled, LeaseAt
<1> QED BY <1>1, <1>2

---------------------------------------------------------------------------
(* No operation changes a line of the file and leaves the flag unset *)

\* Tables with the same lines.
LEMMA SameRows ==
  ASSUME NEW d, NEW f, DOMAIN f = DOMAIN d.leases,
         \A k \in DOMAIN f : Row(f[k]) = Row(d.leases[k]), NEW i, NEW b, NEW o
  PROVE  Rows(Db(f, i, b, o)) = Rows(d) /\ Db(f, i, b, o).dirty = b
BY DEF Rows, Db

\* A lease whose field is set to what it was.
LEMMA SetToItself ==
  ASSUME NEW l \in Lease
  PROVE  /\ [l EXCEPT !.hw = l.hw] = l /\ [l EXCEPT !.name = l.name] = l
         /\ [l EXCEPT !.expires = l.expires] = l /\ \A x : Row([l EXCEPT !.new = x]) = Row(l)
BY DEF Lease, Row

\* Putting back the lease that is there.
LEMMA PutBack ==
  ASSUME NEW d, NEW k \in DOMAIN d.leases
  PROVE  LET f == Put(d.leases, k, d.leases[k])
         IN  DOMAIN f = DOMAIN d.leases /\ \A x \in DOMAIN f : f[x] = d.leases[x]
BY DEF Put

\* `set_hwaddr` sets the flag when it re-keys and when the hardware address is another.
LEMMA SetHwaddrNoted ==
  ASSUME NEW d, Good(d), NEW a, Leased(d, a), NEW hw, NEW clid
  PROVE  Noted(SetHwaddr(d, a, hw, clid), d)
<1> DEFINE k     == d.index[a]
           known == [d.leases[k] EXCEPT !.hw = hw]
           moved == [known EXCEPT !.clid = clid]
           d0    == Db(Drop(d.leases, {k}), d.index, TRUE, d.old)
           b     == d.dirty \/ d.leases[k].hw # hw
           n     == SetHwaddr(d, a, hw, clid)
<1>1. k \in DOMAIN d.leases /\ d.leases[k] \in Lease
  BY LeasedGood
<1>2. \/ n = InsertRaw(d0, LeaseKey(moved), moved)
      \/ n = Db(Put(d.leases, k, known), d.index, b, d.old)
  BY DEF SetHwaddr
<1>3. CASE n = InsertRaw(d0, LeaseKey(moved), moved)
  <2>1. d0.dirty = TRUE
    BY DEF Db
  <2> HIDE DEF d0, moved
  <2>2. InsertRaw(d0, LeaseKey(moved), moved).dirty = d0.dirty
    BY DEF InsertRaw, Db
  <2> QED BY <1>3, <2>1, <2>2 DEF Noted
<1>4. CASE n = Db(Put(d.leases, k, known), d.index, b, d.old)
  <2>1. n.dirty = b
    BY <1>4 DEF Db
  <2>2. CASE b
    BY <2>1, <2>2 DEF Noted
  <2>3. CASE ~b
    <3>1. known = d.leases[k] /\ ~d.dirty
      BY <1>1, <2>3, SetToItself
    <3> HIDE DEF known, k, b, n
    <3>2. Put(d.leases, k, known) = Put(d.leases, k, d.leases[k])
      BY <3>1
    <3>3. Rows(n) = Rows(d)
      BY <1>1, <1>4, <3>2, PutBack, SameRows
    <3> QED BY <3>1, <3>3 DEF Noted, n
  <2> QED BY <2>2, <2>3
<1> QED BY <1>2, <1>3, <1>4

\* `set_expires` sets the flag unless the expiry is what it was.
LEMMA SetExpiresNoted ==
  ASSUME NEW d, Good(d), NEW a, Leased(d, a), NEW forever
  PROVE  Noted(SetExpires(d, a, forever), d)
<1> DEFINE e == IF forever THEN Never ELSE Fresh(LeaseAt(d, a).expires)
           l == [LeaseAt(d, a) EXCEPT !.expires = e]
           b == d.dirty \/ LeaseAt(d, a).expires # e
           k == d.index[a]
           n == SetExpires(d, a, forever)
<1>1. k \in DOMAIN d.leases /\ LeaseAt(d, a) = d.leases[k] /\ d.leases[k] \in Lease
  BY LeasedGood
<1>2. n = Db(Put(d.leases, k, l), d.index, b, d.old)
  BY DEF SetExpires
<1> HIDE DEF e, n
<1>3. n.dirty = b
  BY <1>2 DEF Db
<1>4. CASE b
  BY <1>3, <1>4 DEF Noted, n
<1>5. CASE ~b
  <2>1. l = d.leases[k] /\ ~d.dirty
    BY <1>1, <1>5, SetToItself
  <2> HIDE DEF l, k, b
  <2>2. Rows(n) = Rows(d)
    BY <1>1, <1>2, <2>1, PutBack, SameRows
  <2> QED BY <2>1, <2>2 DEF Noted, n
<1> QED BY <1>4, <1>5

\* `set_hostname`: when the lease has the name already nobody else does, so the strip
\* that goes before it changes nothing.
LEMMA SetHostnameNoted ==
  ASSUME NEW d, Good(d), NEW a, Leased(d, a), NEW name
  PROVE  Noted(SetHostname(d, a, name), d)
<1> DEFINE twins == {k \in DOMAIN d.leases : name # NoName /\ d.leases[k].name = name /\ d.leases[k].addr # a}
           strip == {d.index[d.leases[k].addr] : k \in {k \in twins : Leased(d, d.leases[k].addr)}}
           New(k) == IF k = d.index[a] THEN name ELSE IF k \in strip THEN NoName ELSE d.leases[k].name
           f == [k \in DOMAIN d.leases |-> [d.leases[k] EXCEPT !.name = New(k)]]
           b == d.dirty \/ LeaseAt(d, a).name # name
           n == SetHostname(d, a, name)
<1>1. n = Db(f, d.index, b, d.old)
  BY Zenon DEF SetHostname
<1>2. \A k \in DOMAIN d.leases : d.leases[k] \in Lease
  BY DEF Good, IsDb, IsFunc
<1> HIDE DEF n
<1>3. n.dirty = b
  BY <1>1 DEF Db
<1>4. CASE b
  BY <1>3, <1>4 DEF Noted, n
<1>5. CASE ~b
  <2>1. ~d.dirty /\ d.index[a] \in DOMAIN d.leases /\ d.leases[d.index[a]].name = name
        /\ d.leases[d.index[a]].addr = a
    BY <1>5, LeasedGood
  <2>2. twins = {}
    BY <2>1 DEF Good, NamesDistinct
  <2>3. strip = {}
    BY <2>2
  <2>4. \A k \in DOMAIN d.leases : New(k) = d.leases[k].name
    BY <2>1, <2>3
  <2> HIDE DEF New, b
  <2>5. DOMAIN f = DOMAIN d.leases /\ \A k \in DOMAIN f : f[k] = d.leases[k]
    BY <1>2, <2>4, SetToItself
  <2> HIDE DEF f
  <2>6. Rows(n) = Rows(d)
    BY <1>1, <2>5, SameRows
  <2> QED BY <2>1, <2>6 DEF Noted, n
<1> QED BY <1>4, <1>5

\* `update_from_configs`: when no name is reported as changed none changes.
LEMMA RenameNoted ==
  ASSUME NEW d, Good(d), NEW renames, NEW last,
         \A r \in renames : Leased(d, r[1]) /\ r[2] # NoName
  PROVE  Noted(Rename(d, renames, last), d)
<1> DEFINE New(l) == IF \E r \in last : r[1] = l.addr THEN (CHOOSE r \in last : r[1] = l.addr)[2]
                     ELSE IF l.name \in {r[2] : r \in renames} \/ (\E r \in renames : r[1] = l.addr) THEN NoName
                     ELSE l.name
           f == [k \in DOMAIN d.leases |-> [d.leases[k] EXCEPT !.name = New(d.leases[k])]]
           b == d.dirty \/ renames # last \/ \E r \in renames : LeaseAt(d, r[1]).name # r[2]
           n == Rename(d, renames, last)
<1>1. n = Db(f, d.index, b, d.old)
  BY DEF Rename
<1>2. \A k \in DOMAIN d.leases : d.leases[k] \in Lease
  BY DEF Good, IsDb, IsFunc
<1> HIDE DEF n
<1>3. n.dirty = b
  BY <1>1 DEF Db
<1>4. CASE b
  BY <1>3, <1>4 DEF Noted, n
<1>5. CASE ~b
  <2>1. ~d.dirty /\ renames = last /\ \A r \in renames : LeaseAt(d, r[1]).name = r[2]
    BY <1>5
  <2>2. ASSUME NEW k \in DOMAIN d.leases PROVE New(d.leases[k]) = d.leases[k].name
    <3> DEFINE l == d.leases[k]
    <3>1. \A r \in renames : r[1] = l.addr => r[2] = l.name
      BY <2>1 DEF Good, Indexed, LeaseAt
    <3>2. \A r \in renames : l.name = r[2] => r[1] = l.addr
      <4> SUFFICES ASSUME NEW r \in renames, l.name = r[2] PROVE r[1] = l.addr
        OBVIOUS
      <4>1. /\ d.index[r[1]] \in DOMAIN d.leases /\ d.leases[d.index[r[1]]].addr = r[1]
            /\ d.leases[d.index[r[1]]].name = r[2]
        BY <2>1, LeasedGood
      <4> QED BY <4>1 DEF Good, NamesDistinct
    <3> HIDE DEF l
    <3>3. CASE \E r \in last : r[1] = l.addr
      <4> DEFINE c == CHOOSE r \in last : r[1] = l.addr
      <4>1. c \in last /\ c[1] = l.addr
        BY <3>3
      <4>2. New(l) = c[2]
        BY <3>3
      <4> HIDE DEF c, New
      <4>3. New(l) = l.name
        BY <2>1, <3>1, <4>1, <4>2
      <4> QED BY <4>3 DEF l
    <3>4. CASE ~\E r \in last : r[1] = l.addr
      <4>1. l.name \notin {r[2] : r \in renames}
        BY <2>1, <3>2, <3>4
      <4>2. New(l) = l.name
        BY <2>1, <3>4, <4>1
      <4> QED BY <4>2 DEF l
    <3> QED BY <3>3, <3>4
  <2> HIDE DEF New, b
  <2>3. DOMAIN f = DOMAIN d.leases /\ \A k \in DOMAIN f : f[k] = d.leases[k]
    BY <1>2, <2>2, SetToItself
  <2> HIDE DEF f
  <2>4. Rows(n) = Rows(d)
    BY <1>1, <2>3, SameRows
  <2> QED BY <2>1, <2>4 DEF Noted, n
<1> QED BY <1>4, <1>5

\* `run_lease_scripts` changes no line.
LEMMA ScriptsRunNoted ==
  ASSUME NEW d, Good(d)
  PROVE  Rows(ScriptsRun(d)) = Rows(d) /\ ScriptsRun(d).dirty = d.dirty
<1> DEFINE f == [k \in DOMAIN d.leases |-> [d.leases[k] EXCEPT !.new = FALSE]]
<1>1. \A k \in DOMAIN d.leases : d.leases[k] \in Lease
  BY DEF Good, IsDb, IsFunc
<1>2. DOMAIN f = DOMAIN d.leases /\ \A k \in DOMAIN f : Row(f[k]) = Row(d.leases[k])
  BY <1>1, SetToItself
<1>3. ScriptsRun(d) = Db(f, d.index, d.dirty, {})
  BY DEF ScriptsRun
<1> HIDE DEF f
<1>4. Rows(Db(f, d.index, d.dirty, {})) = Rows(d)
  BY <1>2 DEF Rows, Db
<1> QED BY <1>3, <1>4 DEF Db

\* `allocate_v4` sets the flag.
LEMMA AllocateNoted ==
  ASSUME NEW d, NEW a
  PROVE  Noted(AllocateV4(d, a), d)
BY DEF AllocateV4, Flagged, Db, Noted

\* Taking a lease away sets it too; there may be none to take.
LEMMA RemoveNoted ==
  ASSUME NEW d, NEW a
  PROVE  Noted(RemoveByAddr(d, a), d)
BY DEF RemoveByAddr, Db, Noted

\* A table with the flag set, and one whose flag is cleared as its lines are written.
LEMMA FlaggedRows ==
  ASSUME NEW d, NEW b
  PROVE  Rows(Flagged(d, b)) = Rows(d) /\ Flagged(d, b).dirty = b
BY DEF Flagged, Db, Rows
================================================================================

---------------------------- MODULE LeaseBookProofs ----------------------------
(***************************************************************************)
(* The DHCPv4 server implements LeaseBook, for every set of clients,       *)
(* addresses, names and configurations: each operation on the table is     *)
(* followed through the holders of its addresses.                          *)
(***************************************************************************)
EXTENDS DhcpServerProofs

Holder(d, a) == LeaseAt(d, a).hw

\* Table n has the addresses of d except those in `lost`, and a; the holders of the others
\* are the same.
Keeps(n, d, a, lost) ==
  /\ DOMAIN n.index = (DOMAIN d.index \ lost) \cup {a} /\ a \notin lost
  /\ \A b \in DOMAIN d.index \ lost : b # a => Holder(n, b) = Holder(d, b)

\* At most one address other than a is lost.
KeepsBut(n, d, a) == \E x : Keeps(n, d, a, {x} \ {a})

\* The two tables say the same.
SameHolders(n, d) == n.index = d.index /\ \A a \in DOMAIN d.index : Holder(n, a) = Holder(d, a)

---------------------------------------------------------------------------
(* Operations on the table *)

\* Changing another field leaves the hardware address.
LEMMA HwKept ==
  ASSUME NEW l \in Lease, NEW x
  PROVE  /\ [l EXCEPT !.hw = x].hw = x /\ [l EXCEPT !.clid = x].hw = l.hw
         /\ [l EXCEPT !.name = x].hw = l.hw /\ [l EXCEPT !.expires = x].hw = l.hw
         /\ [l EXCEPT !.new = x].hw = l.hw
BY DEF Lease

\* Leases changed in place keep their holders.
LEMMA UpdateHolders ==
  ASSUME NEW d, Good(d), NEW f, NEW b, NEW o,
         \A k \in DOMAIN d.leases : f[k].hw = d.leases[k].hw
  PROVE  SameHolders(Db(f, d.index, b, o), d)
<1> DEFINE n == Db(f, d.index, b, o)
<1>1. n.leases = f /\ n.index = d.index
  BY DEF Db
<1>2. \A a \in DOMAIN d.index : d.index[a] \in DOMAIN d.leases
  BY DEF Good, Indexed
<1> HIDE DEF n
<1>3. SameHolders(n, d)
  BY <1>1, <1>2 DEF SameHolders, Holder, LeaseAt
<1> QED BY <1>3 DEF n

\* `insert_raw`: of the other addresses at most the one under the same key is lost.
LEMMA InsertRawKeeps ==
  ASSUME NEW d, IsDb(d), NEW k \in Keys, NEW l \in Lease, IndexedBut(d, l.addr)
  PROVE  KeepsBut(InsertRaw(d, k, l), d, l.addr) /\ Holder(InsertRaw(d, k, l), l.addr) = l.hw
<1> DEFINE R  == {d.leases[x].addr : x \in DOMAIN d.leases \cap {k}} \ {l.addr}
           DI == Drop(d.index, R)
           PI == Put(DI, l.addr, k)
           PL == Put(d.leases, k, l)
           n  == InsertRaw(d, k, l)
<1>1. IsFunc(d.leases, Keys, Lease) /\ IsFunc(d.index, Addrs, Keys) /\ l.addr \in Addrs
  BY LeaseFields DEF IsDb
<1>2. IsFunc(DI, Addrs, Keys) /\ Reduced(DI, d.index, R)
  BY <1>1, DropFunc, Zenon
<1>3. Extended(PI, DI, l.addr, k)
  <2> HIDE DEF DI
  <2> QED BY <1>1, <1>2, PutFunc, Zenon
<1>4. Extended(PL, d.leases, k, l)
  BY <1>1, PutFunc, Zenon
<1>5. n.leases = PL /\ n.index = PI
  BY DEF InsertRaw, Db
<1>6. \A a \in DOMAIN d.index : d.index[a] = k /\ a # l.addr => a \in R
  BY DEF IndexedBut, LeaseAt
<1>7. \E x : R = {x} \ {l.addr}
  <2>1. CASE k \in DOMAIN d.leases
    <3>1. R = {d.leases[k].addr} \ {l.addr}
      BY <2>1
    <3> QED BY <3>1
  <2>2. CASE k \notin DOMAIN d.leases
    <3>1. R = {l.addr} \ {l.addr}
      BY <2>2
    <3> QED BY <3>1
  <2> QED BY <2>1, <2>2
<1>8. l.addr \notin R
  OBVIOUS
<1> HIDE DEF n, PI, PL, DI, R
<1>9. DOMAIN n.index = (DOMAIN d.index \ R) \cup {l.addr}
  BY <1>2, <1>3, <1>5 DEF Extended, Reduced
<1>10. \A a \in DOMAIN d.index \ R : a # l.addr =>
         n.index[a] = d.index[a] /\ d.index[a] # k /\ d.index[a] \in DOMAIN d.leases
  BY <1>2, <1>3, <1>5, <1>6 DEF Extended, Reduced, IndexedBut
<1>11. \A a \in DOMAIN d.index \ R : a # l.addr => Holder(n, a) = Holder(d, a)
  BY <1>4, <1>5, <1>10 DEF Extended, LeaseAt, Holder
<1>12. Holder(n, l.addr) = l.hw
  BY <1>3, <1>4, <1>5 DEF Extended, LeaseAt, Holder
<1>13. Keeps(n, d, l.addr, R)
  BY <1>8, <1>9, <1>11 DEF Keeps
<1>14. KeepsBut(n, d, l.addr)
  BY <1>7, <1>13 DEF KeepsBut
<1> QED BY <1>12, <1>14 DEF n

\* `allocate_v4`
LEMMA AllocateKeeps ==
  ASSUME NEW d, Good(d), NEW a \in Addrs, ~Leased(d, a)
  PROVE  KeepsBut(AllocateV4(d, a), d, a)
<1> DEFINE l == NewLease(a)
           n == InsertRaw(d, LeaseKey(l), l)
           m == Flagged(n, TRUE)
<1>1. l \in Lease /\ l.addr = a
  BY LeaseAssumption DEF NewLease, Lease, Never
<1>2. LeaseKey(l) \in Keys
  BY <1>1, LeaseKeyOK
<1> HIDE DEF l
<1>3. IsDb(d) /\ IndexedBut(d, a)
  <2>1. IsDb(d) /\ Indexed(d) /\ a \notin DOMAIN d.index
    BY LeasedGood DEF Good
  <2> QED BY <2>1 DEF Indexed, IndexedBut, LeaseAt
<1>4. KeepsBut(n, d, a)
  BY <1>1, <1>2, <1>3, InsertRawKeeps
<1>5. AllocateV4(d, a) = m
  BY DEF AllocateV4, l
<1>6. m.leases = n.leases /\ m.index = n.index
  BY DEF Flagged, Db
<1> HIDE DEF n, m
<1>7. KeepsBut(m, d, a)
  BY <1>4, <1>6 DEF KeepsBut, Keeps, Holder, LeaseAt
<1> QED BY <1>5, <1>7

\* `set_hwaddr`: the lease gets its holder; the one under its new key may be lost.
LEMMA SetHwaddrKeeps ==
  ASSUME NEW d, Good(d), NEW a, Leased(d, a), NEW hw \in Ids, NEW clid \in Ids
  PROVE  KeepsBut(SetHwaddr(d, a, hw, clid), d, a) /\ Holder(SetHwaddr(d, a, hw, clid), a) = hw
<1> DEFINE k     == d.index[a]
           tagged == [d.leases[k] EXCEPT !.hw = hw]
           moved == [tagged EXCEPT !.clid = clid]
           d0    == Db(Drop(d.leases, {k}), d.index, TRUE, d.old)
           m     == LeaseKey(moved)
           b     == d.dirty \/ d.leases[k].hw # hw
<1>1. /\ k \in DOMAIN d.leases /\ k \in Keys /\ d.leases[k] \in Lease /\ d.leases[k].addr = a
      /\ LeaseAt(d, a) = d.leases[k] /\ a \in DOMAIN d.index
  BY LeasedGood
<1>2. tagged \in Lease /\ tagged.addr = a /\ tagged.hw = hw
  BY <1>1, LeaseWith, HwKept
<1>3. /\ IsFunc(d.leases, Keys, Lease) /\ IsFunc(d.index, Addrs, Keys) /\ d.old \subseteq Addrs
      /\ Indexed(d)
  BY DEF Good, IsDb
<1>4. \A c \in DOMAIN d.index : c # a => d.index[c] \in DOMAIN d.leases \ {k}
  BY <1>1, <1>3 DEF Indexed, LeaseAt
<1>5. CASE clid # NoId /\ tagged.clid # clid
  <2>1. moved \in Lease /\ moved.addr = a /\ moved.hw = hw
    <3> HIDE DEF tagged
    <3> QED BY <1>2, LeaseWith, HwKept
  <2>2. SetHwaddr(d, a, hw, clid) = InsertRaw(d0, m, moved)
    BY <1>5 DEF SetHwaddr
  <2>3. m \in Keys
    BY <2>1, LeaseKeyOK
  <2> HIDE DEF moved, m
  <2> DEFINE f == Drop(d.leases, {k})
  <2>5. IsFunc(f, Keys, Lease) /\ Reduced(f, d.leases, {k})
    BY <1>3, DropFunc, Zenon
  <2>6. d0.leases = f /\ d0.index = d.index /\ d0.dirty = TRUE /\ d0.old = d.old
    BY DEF Db
  <2>7. IsDb(d0)
    BY <1>3, <2>5, <2>6 DEF IsDb
  <2> HIDE DEF d0, f
  <2>8. IndexedBut(d0, a)
    BY <1>1, <1>3, <2>5, <2>6 DEF Indexed, IndexedBut, LeaseAt, Reduced
  <2>9. KeepsBut(InsertRaw(d0, m, moved), d0, a) /\ Holder(InsertRaw(d0, m, moved), a) = hw
    BY <2>1, <2>3, <2>7, <2>8, InsertRawKeeps
  <2>10. \A c \in DOMAIN d.index : c # a => Holder(d0, c) = Holder(d, c)
    BY <1>4, <2>5, <2>6 DEF Holder, LeaseAt, Reduced
  <2> DEFINE n == InsertRaw(d0, m, moved)
  <2> HIDE DEF n
  <2>11. KeepsBut(n, d0, a)
    BY <2>9 DEF n
  <2>12. KeepsBut(n, d, a)
    BY <2>6, <2>10, <2>11 DEF KeepsBut, Keeps
  <2> QED BY <2>2, <2>9, <2>12 DEF n
<1>6. CASE ~(clid # NoId /\ tagged.clid # clid)
  <2> DEFINE PL == Put(d.leases, k, tagged)
             n  == Db(PL, d.index, b, d.old)
  <2>1. SetHwaddr(d, a, hw, clid) = n
    BY <1>6 DEF SetHwaddr
  <2>2. n.leases = PL /\ n.index = d.index
    BY DEF Db
  <2> HIDE DEF tagged, b, n, k
  <2>3. Extended(PL, d.leases, k, tagged)
    BY <1>1, <1>2, <1>3, PutFunc, Zenon
  <2> HIDE DEF PL
  <2>4. \A c \in DOMAIN d.index : c # a => Holder(n, c) = Holder(d, c)
    BY <1>4, <2>2, <2>3 DEF Holder, LeaseAt, Extended
  <2>5. Holder(n, a) = hw
    BY <1>2, <2>2, <2>3 DEF Holder, LeaseAt, Extended, k
  <2>6. Keeps(n, d, a, {a} \ {a})
    BY <1>1, <2>2, <2>4 DEF Keeps
  <2> QED BY <2>1, <2>5, <2>6 DEF KeepsBut
<1> QED BY <1>5, <1>6

\* `set_hostname` changes no holder,
LEMMA SetHostnameHolders ==
  ASSUME NEW d, Good(d), NEW a, NEW name
  PROVE  SameHolders(SetHostname(d, a, name), d)
<1>1. \A k \in DOMAIN d.leases : d.leases[k] \in Lease
  BY DEF Good, IsDb, IsFunc
<1>2. PICK New, b :
        SetHostname(d, a, name)
          = Db([k \in DOMAIN d.leases |-> [d.leases[k] EXCEPT !.name = New[k]]], d.index, b, d.old)
  <2> DEFINE twins == {k \in DOMAIN d.leases : name # NoName /\ d.leases[k].name = name /\ d.leases[k].addr # a}
             strip == {d.index[d.leases[k].addr] : k \in {k \in twins : Leased(d, d.leases[k].addr)}}
             N == [k \in DOMAIN d.leases |->
                     IF k = d.index[a] THEN name ELSE IF k \in strip THEN NoName ELSE d.leases[k].name]
             c == d.dirty \/ LeaseAt(d, a).name # name
  <2>1. SetHostname(d, a, name)
          = Db([k \in DOMAIN d.leases |-> [d.leases[k] EXCEPT !.name = N[k]]], d.index, c, d.old)
    BY Zenon DEF SetHostname
  <2> HIDE DEF N, c
  <2> QED BY <2>1
<1> DEFINE f == [k \in DOMAIN d.leases |-> [d.leases[k] EXCEPT !.name = New[k]]]
<1>3. \A k \in DOMAIN d.leases : f[k].hw = d.leases[k].hw
  BY <1>1, HwKept
<1> HIDE DEF f
<1>4. SameHolders(Db(f, d.index, b, d.old), d)
  BY <1>3, UpdateHolders
<1> QED BY <1>2, <1>4 DEF f

\* nor does `set_expires`,
LEMMA SetExpiresHolders ==
  ASSUME NEW d, Good(d), NEW a, Leased(d, a), NEW forever
  PROVE  SameHolders(SetExpires(d, a, forever), d)
<1> DEFINE e == IF forever THEN Never ELSE Fresh(LeaseAt(d, a).expires)
           l == [LeaseAt(d, a) EXCEPT !.expires = e]
           b == d.dirty \/ LeaseAt(d, a).expires # e
           k == d.index[a]
           f == Put(d.leases, k, l)
<1>1. /\ k \in DOMAIN d.leases /\ LeaseAt(d, a) = d.leases[k] /\ LeaseAt(d, a) \in Lease
      /\ IsFunc(d.leases, Keys, Lease)
  BY LeasedGood DEF Good, IsDb
<1>2. SetExpires(d, a, forever) = Db(f, d.index, b, d.old)
  BY DEF SetExpires
<1> HIDE DEF e
<1>3. l.hw = d.leases[k].hw
  BY <1>1, HwKept
<1> HIDE DEF l, k, b
<1>4. \A m \in DOMAIN d.leases : f[m].hw = d.leases[m].hw
  BY <1>1, <1>3 DEF Put
<1> HIDE DEF f
<1> QED BY <1>2, <1>4, UpdateHolders

\* nor `update_from_configs`,
LEMMA RenameHolders ==
  ASSUME NEW d, Good(d), NEW renames, NEW last
  PROVE  SameHolders(Rename(d, renames, last), d)
<1>1. \A k \in DOMAIN d.leases : d.leases[k] \in Lease
  BY DEF Good, IsDb, IsFunc
<1> DEFINE New(l) == IF \E r \in last : r[1] = l.addr THEN (CHOOSE r \in last : r[1] = l.addr)[2]
                     ELSE IF l.name \in {r[2] : r \in renames} \/ (\E r \in renames : r[1] = l.addr) THEN NoName
                     ELSE l.name
           f == [k \in DOMAIN d.leases |-> [d.leases[k] EXCEPT !.name = New(d.leases[k])]]
           b == d.dirty \/ renames # last \/ \E r \in renames : LeaseAt(d, r[1]).name # r[2]
<1>2. Rename(d, renames, last) = Db(f, d.index, b, d.old)
  BY DEF Rename
<1> HIDE DEF New, b
<1>3. \A k \in DOMAIN d.leases : f[k].hw = d.leases[k].hw
  BY <1>1, HwKept
<1> HIDE DEF f
<1> QED BY <1>2, <1>3, UpdateHolders

\* nor the scripts and the dirty flag.
LEMMA ScriptsRunHolders ==
  ASSUME NEW d, Good(d)
  PROVE  SameHolders(ScriptsRun(d), d)
<1> DEFINE f == [k \in DOMAIN d.leases |-> [d.leases[k] EXCEPT !.new = FALSE]]
<1>1. \A k \in DOMAIN d.leases : d.leases[k] \in Lease
  BY DEF Good, IsDb, IsFunc
<1>2. \A k \in DOMAIN d.leases : f[k].hw = d.leases[k].hw
  BY <1>1, HwKept
<1>3. ScriptsRun(d) = Db(f, d.index, d.dirty, {})
  BY DEF ScriptsRun
<1> HIDE DEF f
<1> QED BY <1>2, <1>3, UpdateHolders

LEMMA FlaggedHolders ==
  ASSUME NEW d, NEW b
  PROVE  Holding(Flagged(d, b)) = Holding(d)
BY DEF Flagged, Db, Holding, LeaseAt

\* The same holders are the same book.
LEMMA SameBook ==
  ASSUME NEW n, NEW d, SameHolders(n, d)
  PROVE  Holding(n) = Holding(d)
BY DEF SameHolders, Holding, Holder

---------------------------------------------------------------------------
(* Packets *)

\* Address a is given to h, and at most two other leases are lost.
Given(n, d, a, h) ==
  LET lost == DOMAIN Holding(d) \ DOMAIN Holding(n)
  IN  /\ Holding(n) = Book!With(Book!Without(Holding(d), lost), a, h)
      /\ \E x, y \in Addrs : lost \subseteq {x, y}

\* Keeping all but two leases is giving the address.
LEMMA KeepsGiven ==
  ASSUME NEW n, NEW d, Good(d), NEW a \in Addrs, NEW h, NEW x, NEW y,
         Keeps(n, d, a, {x, y} \ {a}), Holder(n, a) = h
  PROVE  Given(n, d, a, h)
<1> DEFINE lost == DOMAIN Holding(d) \ DOMAIN Holding(n)
           u    == IF x \in Addrs THEN x ELSE a
           v    == IF y \in Addrs THEN y ELSE a
<1>1. DOMAIN Holding(d) = DOMAIN d.index /\ DOMAIN Holding(n) = DOMAIN n.index
  BY DEF Holding
<1>2. DOMAIN d.index \subseteq Addrs
  BY DEF Good, IsDb, IsFunc
<1>3. u \in Addrs /\ v \in Addrs
  OBVIOUS
<1>4. lost \subseteq {x, y} /\ lost \subseteq Addrs
  BY <1>1, <1>2 DEF Keeps
<1>5. DOMAIN n.index = (DOMAIN d.index \ lost) \cup {a}
  BY <1>1 DEF Keeps
<1>6. \A b \in DOMAIN n.index : LeaseAt(n, b).hw = IF b = a THEN h ELSE LeaseAt(d, b).hw
  BY DEF Keeps, Holder
<1> HIDE DEF lost
<1>7. lost \subseteq {u, v}
  BY <1>4
<1>8. Book!Without(Holding(d), lost) = [b \in DOMAIN d.index \ lost |-> LeaseAt(d, b).hw]
  BY DEF Book!Without, Holding
<1>9. Holding(n) = Book!With(Book!Without(Holding(d), lost), a, h)
  BY <1>5, <1>6, <1>8 DEF Book!With, Holding
<1> HIDE DEF u, v
<1> QED BY <1>3, <1>7, <1>9 DEF Given, lost

\* `record_lease` gives the address or, when the table is full, does nothing.
LEMMA RecordGives ==
  ASSUME NEW d, Good(d), NEW a \in Addrs, NEW p,
         p.hw \in Ids, p.clid \in Ids, p.name \in Names \cup {NoName}, NEW forever \in BOOLEAN
  PROVE  \/ RecordLease(d, a, p, forever) = d
         \/ Given(RecordLease(d, a, p, forever), d, a, p.hw)
<1>1. CASE ~Leased(d, a) /\ Full(d)
  BY <1>1 DEF RecordLease
<1>2. CASE ~(~Leased(d, a) /\ Full(d))
  <2> DEFINE f == IF Leased(d, a) THEN d ELSE AllocateV4(d, a)
             g == SetHwaddr(f, a, p.hw, p.clid)
             h == SetHostname(g, a, p.name)
             e == SetExpires(h, a, forever)
  <2>1. Good(f) /\ Leased(f, a)
    BY <1>2, AllocateGood
  <2>2. KeepsBut(f, d, a)
    <3>1. CASE Leased(d, a)
      <4>1. a \in DOMAIN d.index /\ f = d
        BY <3>1, LeasedGood
      <4>2. Keeps(f, d, a, {a} \ {a})
        BY <4>1 DEF Keeps
      <4> QED BY <4>2 DEF KeepsBut
    <3>2. CASE ~Leased(d, a)
      BY <3>2, AllocateKeeps
    <3> QED BY <3>1, <3>2
  <2> HIDE DEF f
  <2>3. Good(g) /\ Leased(g, a) /\ KeepsBut(g, f, a) /\ Holder(g, a) = p.hw
    BY <2>1, SetHwaddrGood, SetHwaddrKeeps
  <2> HIDE DEF g
  <2>4. Good(h) /\ Leased(h, a) /\ SameHolders(h, g)
    BY <2>3, SetHostnameGood, SetHostnameHolders
  <2> HIDE DEF h
  <2>5. SameHolders(e, h)
    BY <2>4, SetExpiresHolders
  <2>6. RecordLease(d, a, p, forever) = e
    BY <1>2 DEF RecordLease, f, g, h
  <2> HIDE DEF e
  <2>7. PICK x : Keeps(f, d, a, {x} \ {a})
    BY <2>2 DEF KeepsBut
  <2>8. PICK y : Keeps(g, f, a, {y} \ {a})
    BY <2>3 DEF KeepsBut
  <2>9. Keeps(g, d, a, {x, y} \ {a})
    BY <2>7, <2>8 DEF Keeps
  <2>10. Given(g, d, a, p.hw)
    BY <2>3, <2>9, KeepsGiven
  <2>11. Holding(e) = Holding(g)
    BY <2>4, <2>5, SameBook
  <2> QED BY <2>6, <2>10, <2>11 DEF Given
<1> QED BY <1>1, <1>2

\* `remove_by_addr` takes the address back, if it is leased.
LEMMA RemoveTakes ==
  ASSUME NEW d, Good(d), NEW a
  PROVE  Holding(RemoveByAddr(d, a)) = Book!Without(Holding(d), {a})
<1> DEFINE k == d.index[a]
           n == RemoveByAddr(d, a)
<1>1. IsFunc(d.leases, Keys, Lease) /\ IsFunc(d.index, Addrs, Keys) /\ Indexed(d)
  BY DEF Good, IsDb
<1>2. CASE ~Leased(d, a)
  <2>1. a \notin DOMAIN d.index /\ n = d
    BY <1>2, LeasedGood DEF RemoveByAddr
  <2>2. DOMAIN d.index \ {a} = DOMAIN d.index
    BY <2>1
  <2> QED BY <2>1, <2>2 DEF Book!Without, Holding
<1>3. CASE Leased(d, a)
  <2>1. n.leases = Drop(d.leases, {k}) /\ n.index = Drop(d.index, {a})
    BY <1>3 DEF RemoveByAddr, Db
  <2>2. Reduced(Drop(d.leases, {k}), d.leases, {k}) /\ Reduced(Drop(d.index, {a}), d.index, {a})
    BY <1>1, DropFunc, Zenon
  <2>3. k \in DOMAIN d.leases /\ d.leases[k].addr = a
    BY <1>3, LeasedGood
  <2> HIDE DEF n, k
  <2>4. \A b \in DOMAIN d.index \ {a} : d.index[b] \in DOMAIN d.leases \ {k}
    BY <1>1, <2>3 DEF Indexed, LeaseAt
  <2>5. DOMAIN n.index = DOMAIN d.index \ {a}
    BY <2>1, <2>2 DEF Reduced
  <2>6. \A b \in DOMAIN d.index \ {a} : LeaseAt(n, b).hw = LeaseAt(d, b).hw
    BY <2>1, <2>2, <2>4 DEF Reduced, LeaseAt
  <2>7. Holding(n) = Book!Without(Holding(d), {a})
    BY <2>5, <2>6 DEF Book!Without, Holding
  <2> QED BY <2>7 DEF n
<1> QED BY <1>2, <1>3

---------------------------------------------------------------------------
(* The file *)

\* A file written from a table says what the table says.
LEMMA RowsHold ==
  ASSUME NEW d, Good(d)
  PROVE  FileHolds(Rows(d)) = Holding(d)
<1>1. Indexed(d) /\ FileGood(Rows(d))
  BY RowsGood DEF Good
<1>2. \A k \in DOMAIN d.leases : Row(d.leases[k]).addr = d.leases[k].addr /\ Row(d.leases[k]).hw = d.leases[k].hw
  BY DEF Row
<1>3. {r.addr : r \in Rows(d)} = DOMAIN d.index
  <2>1. \A r \in Rows(d) : r.addr \in DOMAIN d.index
    BY <1>1, <1>2 DEF Rows, Indexed
  <2>2. \A a \in DOMAIN d.index : Row(LeaseAt(d, a)) \in Rows(d) /\ Row(LeaseAt(d, a)).addr = a
    BY <1>1, <1>2 DEF Rows, Indexed, LeaseAt
  <2> QED BY <2>1, <2>2
<1>4. \A a \in DOMAIN d.index : (CHOOSE r \in Rows(d) : r.addr = a).hw = LeaseAt(d, a).hw
  <2> TAKE a \in DOMAIN d.index
  <2>1. Row(LeaseAt(d, a)) \in Rows(d) /\ Row(LeaseAt(d, a)).addr = a /\ Row(LeaseAt(d, a)).hw = LeaseAt(d, a).hw
    BY <1>1, <1>2 DEF Rows, Indexed, LeaseAt
  <2>2. \A r, s \in Rows(d) : r.addr = s.addr => r = s
    BY <1>1 DEF FileGood
  <2>3. (CHOOSE r \in Rows(d) : r.addr = a) = Row(LeaseAt(d, a))
    BY <2>1, <2>2
  <2> QED BY <2>1, <2>3
<1> QED BY <1>3, <1>4 DEF FileHolds, Holding

\* A table read from a file says nothing the file does not say.
LEMMA LoadHolds ==
  ASSUME NEW rows, FileGood(rows), NEW d \in Load(rows)
  PROVE  \E S \in SUBSET DOMAIN FileHolds(rows) : Holding(d) = Book!Without(FileHolds(rows), S)
<1> DEFINE KeyOf(r) == LeaseKey(FromRow(r))
           Ls(s) == [k \in {KeyOf(r) : r \in s} |-> FromRow(CHOOSE r \in s : KeyOf(r) = k)]
           Ix(s) == [a \in {r.addr : r \in s} |-> KeyOf(CHOOSE r \in s : r.addr = a)]
           all   == {r.addr : r \in rows}
<1>1. DOMAIN FileHolds(rows) = all
  BY DEF FileHolds
<1>2. CASE \E r \in rows : ~Parses(r)
  <2>1. DOMAIN d.index = {}
    <3>1. d = EmptyDb
      BY <1>2 DEF Load
    <3> QED BY <3>1 DEF EmptyDb, Db
  <2>2. Holding(d) = Book!Without(FileHolds(rows), all)
    <3>1. all \ all = {}
      OBVIOUS
    <3> HIDE DEF all
    <3> QED BY <1>1, <2>1, <3>1 DEF Holding, Book!Without
  <2> QED BY <1>1, <2>2
<1>3. CASE ~\E r \in rows : ~Parses(r)
  <2>1. PICK s \in OneOfEach(rows, KeyOf) : d = Db(Ls(s), Ix(s), FALSE, {})
    BY <1>3 DEF Load
  <2>2. s \subseteq rows /\ \A r, t \in s : KeyOf(r) = KeyOf(t) => r = t
    BY <2>1 DEF OneOfEach
  <2>3. \A r, t \in rows : r.addr = t.addr => r = t
    BY DEF FileGood
  <2> HIDE DEF KeyOf
  <2>4. \A r \in s : Ls(s)[KeyOf(r)] = FromRow(r)
    BY <2>2
  <2>5. DOMAIN Ix(s) = {r.addr : r \in s} /\ \A r \in s : Ix(s)[r.addr] = KeyOf(r)
    BY <2>2, <2>3
  <2> HIDE DEF Ls, Ix
  <2>6. d.leases = Ls(s) /\ d.index = Ix(s)
    BY <2>1 DEF Db
  <2>7. \A r \in s : FileHolds(rows)[r.addr] = r.hw
    <3> TAKE r \in s
    <3>1. r \in rows
      BY <2>2
    <3>2. (CHOOSE t \in rows : t.addr = r.addr) = r
      BY <2>3, <3>1
    <3> QED BY <3>1, <3>2 DEF FileHolds
  <2>8. \A r \in s : LeaseAt(d, r.addr).hw = r.hw
    <3>1. \A r \in s : LeaseAt(d, r.addr) = FromRow(r)
      BY <2>4, <2>5, <2>6 DEF LeaseAt
    <3>2. \A r \in s : FromRow(r).hw = r.hw
      BY DEF FromRow
    <3> QED BY <3>1, <3>2
  <2> DEFINE S == all \ {r.addr : r \in s}
  <2>9. all \ S = {r.addr : r \in s}
    BY <2>2
  <2>10. Holding(d) = [a \in {r.addr : r \in s} |-> FileHolds(rows)[a]]
    BY <2>5, <2>6, <2>7, <2>8 DEF Holding
  <2>11. S \in SUBSET all
    OBVIOUS
  <2> HIDE DEF all, S
  <2>12. Holding(d) = Book!Without(FileHolds(rows), S)
    BY <1>1, <2>9, <2>10 DEF Book!Without
  <2> QED BY <1>1, <2>11, <2>12
<1> QED BY <1>2, <1>3

---------------------------------------------------------------------------
(* The steps *)

\* The save brings the copy up to date or leaves it.
LEMMA SaveCopies ==
  ASSUME NEW d, Good(d), Save(d)
  PROVE  /\ Holding(db') = Holding(d)
         /\ FileHolds(file') \in {FileHolds(file), Holding(d)}
<1>1. Holding(Flagged(d, FALSE)) = Holding(d) /\ FileHolds(Rows(d)) = Holding(d)
  BY FlaggedHolders, RowsHold
<1> QED BY <1>1 DEF Save

\* What a packet may make of the book.
Entered(d) ==
  \/ d = db
  \/ \E a \in Addrs, h \in Ids : Given(d, db, a, h)
  \/ \E a \in Addrs : Holding(d) = Book!Without(Holding(db), {a})

\* Whichever handler takes it, a packet gives an address, takes one back or does neither.
LEMMA PacketEntered ==
  ASSUME IInv, NEW p \in Packets,
         Pass(p) \/ Discover(p) \/ DiscoverRapid(p) \/ Request(p) \/ GiveUp(p) \/ Bootp(p)
  PROVE  \E d, r : Answer(d, r) /\ Good(d) /\ Entered(d)
<1>1. Good(db) /\ Entered(db)
  BY DEF IInv, Entered
<1>2. \A a \in Addrs, forever \in BOOLEAN :
        Good(RecordLease(db, a, p, forever)) /\ Entered(RecordLease(db, a, p, forever))
  BY <1>1, AnsweredAddrs, RecordGood, RecordGives DEF Entered
<1>3. CASE Pass(p)
  BY <1>1, <1>3 DEF Pass
<1>4. CASE Discover(p)
  BY <1>1, <1>4 DEF Discover
<1>5. CASE DiscoverRapid(p)
  BY <1>2, <1>5, AnsweredAddrs DEF DiscoverRapid
<1>6. CASE Request(p)
  <2>1. CASE Answer(RecordLease(db, p.addr, p, FALSE), Reply("ACK", p, p.addr))
    BY <1>2, <2>1, AnsweredAddrs
  <2>2. CASE Answer(db, Reply("NAK", p, p.addr))
    BY <1>1, <2>2
  <2> QED BY <1>6, <2>1, <2>2 DEF Request
<1>7. CASE GiveUp(p)
  <2>1. Answer(RemoveByAddr(db, p.addr), NoReply) \/ Answer(db, NoReply)
    BY <1>7 DEF GiveUp
  <2>2. Good(RemoveByAddr(db, p.addr))
    BY <1>1, RemoveGood
  <2>3. Entered(RemoveByAddr(db, p.addr))
    BY <1>1, AnsweredAddrs, RemoveTakes DEF Entered
  <2> QED BY <1>1, <2>1, <2>2, <2>3
<1>8. CASE Bootp(p)
  BY <1>2, <1>8, AnsweredAddrs DEF Bootp
<1> QED BY <1>3, <1>4, <1>5, <1>6, <1>7, <1>8

\* The receive arm is a step of the book.
LEMMA AnswerEnters ==
  ASSUME NEW d, NEW r, Answer(d, r), Good(d), Entered(d)
  PROVE  [Book!Next]_<<Holding(db), FileHolds(file)>>
<1>1. Holding(db)' = Holding(d) /\ FileHolds(file)' \in {FileHolds(file), Holding(d)}
  <2>1. Save(d)
    BY DEF Answer
  <2> QED BY <2>1, SaveCopies
<1>2. CASE d = db
  BY <1>1, <1>2 DEF Book!Next, Book!CatchUp
<1>3. CASE \E a \in Addrs, h \in Ids : Given(d, db, a, h)
  <2>1. PICK a \in Addrs, h \in Ids : Given(d, db, a, h)
    BY <1>3
  <2>2. Book!Give(a, h)
    BY <1>1, <2>1 DEF Given, Book!Give, Book!Lost, Book!Copy
  <2> QED BY <2>2 DEF Book!Next
<1>4. CASE \E a \in Addrs : Holding(d) = Book!Without(Holding(db), {a})
  <2>1. PICK a \in Addrs : Holding(d) = Book!Without(Holding(db), {a})
    BY <1>4
  <2>2. Book!Take(a)
    BY <1>1, <2>1 DEF Book!Take, Book!Copy
  <2> QED BY <2>2 DEF Book!Next
<1> QED BY <1>2, <1>3, <1>4 DEF Entered

\* The reload tick does not show in the book.
LEMMA ReloadTickHolds ==
  ASSUME IInv, ReloadTick
  PROVE  Holding(db') = Holding(db) /\ file' = file
<1>1. Good(db) /\ shared \in Config
  BY DEF IInv, ServerOK
<1> DEFINE R == Renames(shared.hosts)
           D(last) == Rename(db, R, last)
<1>2. PICK last \in LastOfEachName(R) :
        db' = Flagged(ScriptsRun(D(last)), TRUE) \/ db' = D(last)
  BY DEF ReloadTick
<1>3. R \in SUBSET (Addrs \X Names)
  BY <1>1, RenamesIn
<1> HIDE DEF R
<1>4. Good(D(last)) /\ SameHolders(D(last), db)
  BY <1>1, <1>2, <1>3, RenameGood, RenameHolders
<1> HIDE DEF D
<1>5. Holding(D(last)) = Holding(db) /\ Holding(ScriptsRun(D(last))) = Holding(D(last))
  BY <1>4, SameBook, ScriptsRunHolders
<1>6. Holding(Flagged(ScriptsRun(D(last)), TRUE)) = Holding(db)
  BY <1>5, FlaggedHolders
<1> QED BY <1>2, <1>5, <1>6 DEF ReloadTick

\* The server implements the book of leases: every step of a packet handler, a save, a
\* reload, a script run or a restart is a step of LeaseBook or changes nothing it shows.
THEOREM Implements == Spec => KeepsTheBook
<1>1. Init => Book!Init
  <2> SUFFICES ASSUME Init PROVE Book!Init
    OBVIOUS
  <2>1. Holding(db) = <<>>
    BY DEF Init, EmptyDb, Db, Holding
  <2>2. FileHolds(file) = <<>>
    BY DEF Init, FileHolds
  <2> QED BY <2>1, <2>2 DEF Book!Init
<1>2. IInv /\ [Next]_vars => [Book!Next]_<<Holding(db), FileHolds(file)>>
  <2> SUFFICES ASSUME IInv, [Next]_vars PROVE [Book!Next]_<<Holding(db), FileHolds(file)>>
    OBVIOUS
  <2>1. CASE \E p \in Packets : \/ Pass(p) \/ Discover(p) \/ DiscoverRapid(p) \/ Request(p)
                                \/ GiveUp(p) \/ Bootp(p)
    BY <2>1, PacketEntered, AnswerEnters
  <2>2. CASE Finish
    <3>1. Holding(ScriptsRun(db)) = Holding(db)
      BY SameBook, ScriptsRunHolders DEF IInv
    <3> QED BY <2>2, <3>1 DEF Finish
  <2>3. CASE Reload
    BY <2>3 DEF Reload
  <2>4. CASE ReloadTick
    BY <2>4, ReloadTickHolds
  <2>5. CASE Restart
    <3>1. db' \in Load(file) /\ file' = file
      BY <2>5 DEF Restart
    <3>2. \E S \in SUBSET DOMAIN FileHolds(file) : Holding(db') = Book!Without(FileHolds(file), S)
      BY <3>1, LoadHolds DEF IInv
    <3>3. Book!Recover
      BY <3>1, <3>2 DEF Book!Recover
    <3> QED BY <3>3 DEF Book!Next
  <2>6. CASE UNCHANGED vars
    BY <2>6 DEF vars
  <2> QED BY <2>1, <2>2, <2>3, <2>4, <2>5, <2>6 DEF Next
<1> QED BY <1>1, <1>2, Invariance, PTL DEF Spec, KeepsTheBook, Book!Spec
================================================================================

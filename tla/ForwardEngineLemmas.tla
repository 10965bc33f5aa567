-------------------------- MODULE ForwardEngineLemmas --------------------------
(***************************************************************************)
(* What the operations of ForwardEngine preserve, for any table and pool:  *)
(* filling a frec, allocating a socket for it, and freeing frecs together  *)
(* with their sockets.  The two compositions every handler is made of keep *)
(* the invariant Good of table, pool and count: freeing frecs (FreeGood)   *)
(* and filling one (PutGood); then what lookups and server selection give. *)
(***************************************************************************)
EXTENDS ForwardEngine, FiniteSetTheorems, WellFoundedInduction, TLAPS

(* The invariants, for an arbitrary table, pool and count. *)

UniqueIds(t) == \A i, j \in InFlight(t) : t[i].new_id = t[j].new_id => i = j

Accounted(t, p) ==
  /\ \A i \in DOMAIN t : t[i].rfds \subseteq OpenSlots(p.slots)
  /\ \A k \in DOMAIN p.slots :
       /\ p.slots[k].refcount = Cardinality(Holders(t, k))
       /\ p.slots[k].temporary => p.slots[k].refcount <= 1

Budget(t, n) ==
  /\ IsFiniteSet(ExtraSrcs(t, DOMAIN t))
  /\ n = Cardinality(ExtraSrcs(t, DOMAIN t))

---------------------------------------------------------------------------
(* What Min and Max return on sets of naturals, and that a walk round a ring *)
(* reaches every place of it *)

\* A non-empty set of naturals has a least element.
LEMMA MinExists ==
  ASSUME NEW S \in SUBSET Nat, S # {}
  PROVE  \E m \in S : \A y \in S : m <= y
<1> DEFINE R == {ss \in Nat \X Nat : ss[1] < ss[2]}
<1>1. IsWellFoundedOn(R, Nat)
  BY NatLessThanWellFounded DEF OpToRel
<1> HIDE DEF R
<1>2. PICK m \in S : \A y \in S : ~(<<y, m>> \in R)
  BY <1>1, WFMin
<1>3. \A y \in Nat, z \in Nat : y < z => <<y, z>> \in R
  BY DEF R
<1>4. \A y \in S : m <= y
  <2> TAKE y \in S
  <2>1. y \in Nat /\ m \in Nat
    OBVIOUS
  <2>2. ~(y < m)
    BY <1>2, <1>3, <2>1
  <2> QED BY <2>1, <2>2
<1> QED BY <1>4

\* Min picks it.
LEMMA MinIsLeast ==
  ASSUME NEW S \in SUBSET Nat, S # {}
  PROVE  Min(S) \in S /\ \A y \in S : Min(S) <= y
BY MinExists DEF Min

\* A non-empty set of naturals bounded by n has a greatest element, and Max picks it.
LEMMA MaxIsGreatest ==
  ASSUME NEW n \in Nat, NEW S \in SUBSET (0 .. n), S # {}
  PROVE  Max(S) \in S /\ \A y \in S : Max(S) >= y
<1> DEFINE D == {n - x : x \in S}
<1>1. D \in SUBSET Nat /\ D # {}
  <2>1. \A x \in S : n - x \in Nat
    OBVIOUS
  <2> QED BY <2>1
<1>2. PICK m \in D : \A y \in D : m <= y
  BY <1>1, MinExists
<1>3. PICK x \in S : m = n - x
  BY <1>2
<1>4. \A y \in S : x >= y
  <2> TAKE y \in S
  <2>1. n - x <= n - y
    BY <1>2, <1>3
  <2> QED BY <2>1
<1>5. \E z \in S : \A y \in S : z >= y
  BY <1>4
<1> QED BY <1>5 DEF Max

\* Division with remainder.
LEMMA Quotient ==
  ASSUME NEW n \in Nat \ {0}, NEW a \in Nat
  PROVE  \E q \in Nat, r \in 0 .. n - 1 : a = q * n + r
<1> DEFINE S == {x \in Nat : \E q \in Nat : a = q * n + x}
<1>1. a = 0 * n + a
  OBVIOUS
<1>2. S \in SUBSET Nat /\ a \in S
  BY <1>1
<1>3. PICK r \in S : \A y \in S : r <= y
  BY <1>2, MinExists
<1>4. PICK q \in Nat : a = q * n + r
  BY <1>3
<1>5. CASE r >= n
  <2>1. r - n \in Nat /\ a = (q + 1) * n + (r - n)
    BY <1>4, <1>5
  <2>2. r - n \in S
    BY <2>1
  <2>3. r <= r - n
    BY <1>3, <2>2
  <2> QED BY <2>1, <2>3
<1>6. CASE r < n
  BY <1>4, <1>6
<1> QED BY <1>5, <1>6

\* Starting anywhere, n steps round a ring of n places meet every place.
LEMMA WalkReaches ==
  ASSUME NEW n \in Nat \ {0}, NEW f \in Nat, NEW k \in 0 .. n - 1
  PROVE  \E j \in 0 .. n - 1 : (j + f) % n = k
<1>1. PICK q \in Nat, r \in 0 .. n - 1 : f = q * n + r
  BY Quotient
<1>2. CASE r <= k
  <2>1. (k - r) + f = q * n + k
    BY <1>1
  <2>2. (q * n + k) % n = k
    OBVIOUS
  <2>3. k - r \in 0 .. n - 1
    BY <1>2
  <2> QED BY <2>1, <2>2, <2>3
<1>3. CASE r > k
  <2>1. (k - r + n) + f = (q + 1) * n + k
    BY <1>1
  <2>2. q + 1 \in Nat
    OBVIOUS
  <2>3. \A z \in Nat : (z * n + k) % n = k
    OBVIOUS
  <2>4. k - r + n \in 0 .. n - 1
    BY <1>3
  <2> QED BY <2>1, <2>2, <2>3, <2>4
<1> QED BY <1>2, <1>3

---------------------------------------------------------------------------
(* Tables *)

\* A table is a function on an initial segment of the naturals.
LEMMA TableDomain ==
  ASSUME NEW t, IsTable(t)
  PROVE  /\ Len(t) \in Nat /\ DOMAIN t = 1 .. Len(t)
         /\ t = [i \in 1 .. Len(t) |-> t[i]]
         /\ IsFiniteSet(DOMAIN t)
<1>1. t \in Seq({t[i] : i \in DOMAIN t})
  BY DEF IsTable
<1>2. Len(t) \in Nat /\ DOMAIN t = 1 .. Len(t) /\ t = [i \in 1 .. Len(t) |-> t[i]]
  BY <1>1
<1> QED BY <1>2, FS_Interval

\* Any function on an initial segment whose values are frecs is a table.
LEMMA TableIntro ==
  ASSUME NEW n \in Nat, NEW t, t = [i \in 1 .. n |-> t[i]], \A i \in 1 .. n : IsFrec(t[i])
  PROVE  IsTable(t) /\ Len(t) = n /\ DOMAIN t = 1 .. n
<1>1. DOMAIN t = 1 .. n
  OBVIOUS
<1> DEFINE S == {t[i] : i \in DOMAIN t}
<1>2. \A i \in 1 .. n : t[i] \in S
  BY <1>1
<1> HIDE DEF S
<1>3. t \in [1 .. n -> S]
  BY <1>1, <1>2
<1>4. t \in Seq(S) /\ Len(t) = n
  BY <1>3
<1> QED BY <1>1, <1>4 DEF IsTable, S

\* The empty frec is one.
LEMMA FreeFrecOK == IsFrec(FreeFrec)
<1>1. HardTimeout \in Nat
  BY TableAssumption DEF HardTimeout
<1> QED BY <1>1 DEF IsFrec, FreeFrec

\* Freeing frecs keeps the table, its ids unique, and removes exactly the freed ones.
LEMMA FreeTable ==
  ASSUME NEW t, IsTable(t), NEW F \in SUBSET DOMAIN t
  PROVE  LET u == FreeFrecs(t, F) IN
           /\ IsTable(u) /\ DOMAIN u = DOMAIN t /\ Len(u) = Len(t)
           /\ \A i \in DOMAIN t : u[i] = IF i \in F THEN FreeFrec ELSE t[i]
           /\ InFlight(u) = InFlight(t) \ F
           /\ UniqueIds(t) => UniqueIds(u)
<1> DEFINE u == FreeFrecs(t, F)
<1>1. Len(t) \in Nat /\ DOMAIN t = 1 .. Len(t)
  BY TableDomain
<1>2. u = [i \in 1 .. Len(t) |-> u[i]] /\ \A i \in DOMAIN t : u[i] = IF i \in F THEN FreeFrec ELSE t[i]
  BY <1>1 DEF FreeFrecs
<1>3. \A i \in 1 .. Len(t) : IsFrec(u[i])
  BY <1>1, <1>2, FreeFrecOK DEF IsTable
<1> HIDE DEF u
<1>4. IsTable(u) /\ Len(u) = Len(t) /\ DOMAIN u = 1 .. Len(t)
  BY <1>1, <1>2, <1>3, TableIntro
<1>5. InFlight(u) = InFlight(t) \ F
  BY <1>1, <1>2, <1>4 DEF InFlight, FreeFrec
<1>6. UniqueIds(t) => UniqueIds(u)
  BY <1>2, <1>5 DEF UniqueIds, InFlight
<1> QED BY <1>1, <1>2, <1>4, <1>5, <1>6 DEF u

---------------------------------------------------------------------------
(* Sockets *)

\* A pool's slots are a function on an initial segment that covers the fixed pool.
LEMMA PoolSlots ==
  ASSUME NEW p, IsPool(p)
  PROVE  /\ Len(p.slots) \in Nat /\ DOMAIN p.slots = 1 .. Len(p.slots)
         /\ NumRRand <= Len(p.slots) /\ p.finger \in Nat
         /\ \A k \in DOMAIN p.slots : p.slots[k] \in Slot
BY DEF IsPool

\* Only finitely many frecs of a table hold a slot, and none but the kept ones holds it
\* after freeing.
LEMMA HoldersFinite ==
  ASSUME NEW t, IsTable(t), NEW k
  PROVE  IsFiniteSet(Holders(t, k)) /\ Cardinality(Holders(t, k)) \in Nat
BY TableDomain, FS_Subset, FS_CardinalityType DEF Holders

LEMMA HoldersFreed ==
  ASSUME NEW t, IsTable(t), NEW F \in SUBSET DOMAIN t, NEW k
  PROVE  LET u == FreeFrecs(t, F)
             n == Cardinality({i \in F : k \in t[i].rfds})
         IN  /\ Cardinality(Holders(u, k)) = Cardinality(Holders(t, k)) - n
             /\ Holders(u, k) \subseteq Holders(t, k)
             /\ n \in Nat /\ n <= Cardinality(Holders(t, k))
<1> DEFINE u == FreeFrecs(t, F)
           H == Holders(t, k)
<1>1. DOMAIN u = DOMAIN t /\ \A i \in DOMAIN t : u[i] = IF i \in F THEN FreeFrec ELSE t[i]
  BY FreeTable
<1>2. Holders(u, k) = H \ F
  BY <1>1 DEF Holders, FreeFrec
<1>3. {i \in F : k \in t[i].rfds} = H \cap F
  BY DEF Holders
<1>4. IsFiniteSet(H)
  BY HoldersFinite
<1>5. Cardinality(H \ F) = Cardinality(H) - Cardinality(H \cap F)
  BY <1>4, FS_Difference
<1>6. /\ Cardinality(H \cap F) \in Nat
      /\ Cardinality(H \cap F) <= Cardinality(H)
  BY <1>4, FS_Intersection, FS_CardinalityType
<1> QED BY <1>2, <1>3, <1>5, <1>6

\* Releasing a slot as often as freed queries held it leaves the count of the others.
LEMMA ReleasedCount ==
  ASSUME NEW s \in Slot, NEW n \in Nat, n <= s.refcount, s.temporary => s.refcount <= 1
  PROVE  /\ Released(s, n) \in Slot
         /\ Released(s, n).refcount = s.refcount - n
         /\ Released(s, n).temporary => Released(s, n).refcount <= 1
BY DEF Released, NoSocket, Slot

\* Freeing frecs and releasing their sockets keeps the accounts.
LEMMA FreeAccounts ==
  ASSUME NEW t, IsTable(t), NEW p, IsPool(p), Accounted(t, p), NEW F \in SUBSET DOMAIN t
  PROVE  LET u == FreeFrecs(t, F)
             q == FreeRfds(p, ReleasedRfds(t, p.slots, F))
         IN  IsPool(q) /\ Accounted(u, q)
<1> DEFINE u == FreeFrecs(t, F)
           N(k) == Cardinality({i \in F : k \in t[i].rfds})
           n == ReleasedRfds(t, p.slots, F)
           after == [k \in DOMAIN p.slots |-> Released(p.slots[k], n[k])]
           last == Max({NumRRand} \cup OpenSlots(after))
           q == FreeRfds(p, n)
<1>1. /\ Len(p.slots) \in Nat /\ DOMAIN p.slots = 1 .. Len(p.slots)
      /\ NumRRand \in Nat /\ NumRRand <= Len(p.slots) /\ p.finger \in Nat
      /\ \A k \in DOMAIN p.slots : p.slots[k] \in Slot
  BY PoolSlots, PoolAssumption
<1>2. \A k \in DOMAIN p.slots : n[k] = N(k)
  BY DEF ReleasedRfds
<1>3. ASSUME NEW k \in DOMAIN p.slots
      PROVE  /\ after[k] \in Slot
             /\ after[k].refcount = Cardinality(Holders(u, k))
             /\ after[k].temporary => after[k].refcount <= 1
  <2>1. /\ Cardinality(Holders(u, k)) = Cardinality(Holders(t, k)) - N(k)
        /\ N(k) \in Nat /\ N(k) <= Cardinality(Holders(t, k))
    BY HoldersFreed
  <2>2. /\ p.slots[k].refcount = Cardinality(Holders(t, k))
        /\ p.slots[k].temporary => p.slots[k].refcount <= 1
    BY DEF Accounted
  <2>3. after[k] = Released(p.slots[k], N(k))
    BY <1>2
  <2> HIDE DEF N, after, u
  <2>4. p.slots[k] \in Slot
    BY <1>1
  <2> QED BY <2>1, <2>2, <2>3, <2>4, ReleasedCount
<1>4. DOMAIN after = 1 .. Len(p.slots)
  BY <1>1
<1>5. q = [p EXCEPT !.slots = [k \in 1 .. last |-> after[k]]]
  BY DEF FreeRfds
<1> HIDE DEF n, N, after, q
<1>6. OpenSlots(after) \subseteq 1 .. Len(p.slots)
  BY <1>4 DEF OpenSlots
<1>7. /\ last \in 0 .. Len(p.slots) /\ NumRRand <= last
      /\ \A k \in OpenSlots(after) : k <= last
  <2>1. {NumRRand} \cup OpenSlots(after) \in SUBSET (0 .. Len(p.slots))
    BY <1>1, <1>6
  <2>2. {NumRRand} \cup OpenSlots(after) # {}
    OBVIOUS
  <2> QED BY <1>1, <2>1, <2>2, MaxIsGreatest
<1> HIDE DEF last
<1> DEFINE trimmed == [k \in 1 .. last |-> after[k]]
<1>8. /\ trimmed \in Seq(Slot) /\ Len(trimmed) = last /\ DOMAIN trimmed = 1 .. last
      /\ \A k \in 1 .. last : trimmed[k] = after[k]
  <2>1. \A k \in 1 .. last : after[k] \in Slot
    BY <1>1, <1>3, <1>7
  <2> QED BY <1>7, <2>1
<1> HIDE DEF trimmed
<1>9. q.slots = trimmed /\ q \in [slots : Seq(Slot), finger : Nat]
  <2>1. q = [p EXCEPT !.slots = trimmed]
    BY <1>5 DEF trimmed
  <2>2. p \in [slots : Seq(Slot), finger : Nat]
    BY DEF IsPool
  <2> QED BY <1>8, <2>1, <2>2
<1>10. IsPool(q)
  BY <1>7, <1>8, <1>9 DEF IsPool
<1>11. ASSUME NEW i \in DOMAIN u, NEW k \in u[i].rfds PROVE k \in OpenSlots(q.slots)
  <2>1. i \in DOMAIN t /\ (u[i] = FreeFrec \/ u[i] = t[i])
    BY FreeTable
  <2>2. k \in t[i].rfds
    BY <2>1 DEF FreeFrec
  <2>3. k \in DOMAIN p.slots
    BY <2>1, <2>2 DEF Accounted, OpenSlots
  <2>4. i \in Holders(u, k)
    BY DEF Holders
  <2>5. IsTable(u)
    BY FreeTable
  <2>6. Cardinality(Holders(u, k)) \in Nat /\ Cardinality(Holders(u, k)) # 0
    BY <2>4, <2>5, HoldersFinite, FS_EmptySet
  <2>7. k \in OpenSlots(after)
    BY <1>1, <1>3, <1>4, <2>3, <2>6 DEF OpenSlots
  <2>8. k \in 1 .. last
    BY <1>6, <1>7, <2>7
  <2> QED BY <1>8, <1>9, <2>7, <2>8 DEF OpenSlots
<1>12. ASSUME NEW k \in DOMAIN q.slots
       PROVE  /\ q.slots[k].refcount = Cardinality(Holders(u, k))
              /\ q.slots[k].temporary => q.slots[k].refcount <= 1
  BY <1>1, <1>3, <1>7, <1>8, <1>9
<1> QED BY <1>10, <1>11, <1>12 DEF Accounted, q, n

\* `new` is `slots` with s in slot k, which may be the one after the last.
Written(new, slots, k, s) ==
  /\ new \in Seq(Slot) /\ Len(new) >= Len(slots)
  /\ DOMAIN new = DOMAIN slots \cup {k}
  /\ new[k] = s
  /\ \A j \in DOMAIN slots \ {k} : new[j] = slots[j]

\* SetSlot writes one slot of a pool.
LEMMA SetSlotPool ==
  ASSUME NEW slots, slots \in Seq(Slot), NEW k, k \in 1 .. Len(slots) + 1,
         NEW s, s \in Slot
  PROVE  Written(SetSlot(slots, k, s), slots, k, s)
<1> DEFINE new == SetSlot(slots, k, s)
           m == IF k > Len(slots) THEN k ELSE Len(slots)
<1>1. m \in Nat /\ m >= Len(slots) /\ 1 .. m = DOMAIN slots \cup {k} /\ Len(slots) \in Nat
  OBVIOUS
<1>2. new = [j \in 1 .. m |-> IF j = k THEN s ELSE slots[j]]
  BY DEF SetSlot
<1>3. \A j \in 1 .. m : j # k => slots[j] \in Slot
  BY <1>1
<1> HIDE DEF m, new
<1>4. new \in Seq(Slot) /\ Len(new) = m /\ DOMAIN new = 1 .. m
  BY <1>1, <1>2, <1>3
<1>5. Written(new, slots, k, s)
  BY <1>1, <1>2, <1>4 DEF Written
<1> QED BY <1>5 DEF new

\* u is t with frec i holding `fdl` and everything else held as before.
Rewired(t, u, i, fdl) ==
  /\ DOMAIN u = DOMAIN t \cup {i}
  /\ u[i].rfds = fdl
  /\ \A j \in DOMAIN t \ {i} : u[j].rfds = t[j].rfds

\* What frec i holds; nothing when the table does not reach it yet.
HeldBy(t, i) == IF i \in DOMAIN t THEN t[i].rfds ELSE {}

\* Nobody holds a slot that is free or does not exist.
LEMMA FreeSlotUnheld ==
  ASSUME NEW t, IsTable(t), NEW p, IsPool(p), Accounted(t, p), NEW k, k \notin OpenSlots(p.slots)
  PROVE  Holders(t, k) = {}
BY DEF Accounted, Holders

\* A new socket in a free slot, recorded in the frec it was bound for, keeps the accounts.
LEMMA BindAccounts ==
  ASSUME NEW t, IsTable(t), NEW p, IsPool(p), Accounted(t, p),
         NEW i,
         NEW k \in 1 .. Len(p.slots) + 1, k \notin OpenSlots(p.slots),
         NEW srv \in Nat, NEW temp \in BOOLEAN,
         NEW u, Rewired(t, u, i, HeldBy(t, i) \cup {k})
  PROVE  LET q == PutSocket(p, k, NewSocket(srv, temp))
         IN  IsPool(q) /\ Accounted(u, q)
<1> DEFINE sock == NewSocket(srv, temp)
           new  == SetSlot(p.slots, k, sock)
           q    == PutSocket(p, k, sock)
<1>1. p \in [slots : Seq(Slot), finger : Nat] /\ Len(p.slots) >= NumRRand
  BY DEF IsPool
<1>2. sock \in Slot /\ sock.refcount = 1
  BY DEF NewSocket, Slot
<1> HIDE DEF sock
<1>3. /\ new \in Seq(Slot) /\ Len(new) >= Len(p.slots) /\ DOMAIN new = DOMAIN p.slots \cup {k}
      /\ new[k] = sock /\ \A j \in DOMAIN p.slots \ {k} : new[j] = p.slots[j]
  <2>1. p.slots \in Seq(Slot)
    BY <1>1
  <2>2. Written(new, p.slots, k, sock)
    BY <1>2, <2>1, SetSlotPool, Zenon
  <2> QED BY <2>2 DEF Written
<1>4. q \in [slots : Seq(Slot), finger : Nat] /\ q.slots = new
  BY <1>1, <1>3 DEF PutSocket
<1> HIDE DEF new, q
<1>5. IsPool(q)
  BY <1>1, <1>3, <1>4, PoolAssumption DEF IsPool
<1>6. Holders(t, k) = {}
  BY FreeSlotUnheld
<1>7. Holders(u, k) = {i} /\ Cardinality({i}) = 1
  BY <1>6, FS_Singleton DEF Holders, Rewired, HeldBy
<1>8. \A j : j # k => Holders(u, j) = Holders(t, j)
  BY DEF Holders, Rewired, HeldBy
<1>9. OpenSlots(p.slots) \cup {k} \subseteq OpenSlots(new)
  BY <1>2, <1>3 DEF OpenSlots
<1>10. \A j \in DOMAIN u : u[j].rfds \subseteq OpenSlots(new)
  BY <1>9 DEF Accounted, Rewired, HeldBy
<1>11. ASSUME NEW j \in DOMAIN new
       PROVE  /\ new[j].refcount = Cardinality(Holders(u, j))
              /\ new[j].temporary => new[j].refcount <= 1
  <2>1. CASE j = k
    <3>1. new[j].refcount = 1
      BY <1>2, <1>3, <2>1
    <3>2. Cardinality(Holders(u, j)) = 1
      BY <1>7, <2>1
    <3> QED BY <3>1, <3>2
  <2>2. CASE j # k
    BY <1>3, <1>8, <2>2 DEF Accounted
  <2> QED BY <2>1, <2>2
<1> QED BY <1>4, <1>5, <1>10, <1>11 DEF Accounted, q, sock

\* Sharing a socket the frec does not hold yet keeps the accounts.
LEMMA ShareAccounts ==
  ASSUME NEW t, IsTable(t), NEW p, IsPool(p), Accounted(t, p),
         NEW i,
         NEW k \in OpenSlots(p.slots) \ HeldBy(t, i), ~p.slots[k].temporary,
         NEW u, Rewired(t, u, i, HeldBy(t, i) \cup {k})
  PROVE  IsPool(ShareSocket(p, k)) /\ Accounted(u, ShareSocket(p, k))
<1> DEFINE new == [p.slots EXCEPT ![k].refcount = @ + 1]
           q   == [slots |-> new, finger |-> k]
<1>1. /\ p.slots \in Seq(Slot) /\ Len(p.slots) >= NumRRand /\ k \in DOMAIN p.slots
      /\ DOMAIN p.slots = 1 .. Len(p.slots) /\ Len(p.slots) \in Nat
  BY DEF IsPool, OpenSlots
<1>2. p.slots[k] \in Slot /\ k \in Nat
  BY <1>1
<1>3. /\ new[k] = [p.slots[k] EXCEPT !.refcount = @ + 1]
      /\ DOMAIN new = DOMAIN p.slots /\ \A j \in DOMAIN p.slots \ {k} : new[j] = p.slots[j]
  BY <1>1
<1>4. /\ new[k] \in Slot /\ new[k].refcount = p.slots[k].refcount + 1
      /\ new[k].temporary = p.slots[k].temporary
  BY <1>2, <1>3 DEF Slot
<1>5. new \in Seq(Slot) /\ Len(new) = Len(p.slots)
  BY <1>1, <1>4
<1> HIDE DEF new
<1>6. IsPool(q)
  BY <1>1, <1>2, <1>5 DEF IsPool
<1>7. Holders(u, k) = Holders(t, k) \cup {i} /\ i \notin Holders(t, k)
  BY DEF Holders, Rewired, HeldBy
<1>8. Cardinality(Holders(u, k)) = Cardinality(Holders(t, k)) + 1
  BY <1>7, HoldersFinite, FS_AddElement
<1>9. \A j : j # k => Holders(u, j) = Holders(t, j)
  BY DEF Holders, Rewired, HeldBy
<1>10. OpenSlots(p.slots) \subseteq OpenSlots(new)
  BY <1>2, <1>3, <1>4 DEF OpenSlots, Slot
<1>11. \A j \in DOMAIN u : u[j].rfds \subseteq OpenSlots(new)
  BY <1>10 DEF Accounted, Rewired, HeldBy
<1>12. ASSUME NEW j \in DOMAIN new
       PROVE  /\ new[j].refcount = Cardinality(Holders(u, j))
              /\ new[j].temporary => new[j].refcount <= 1
  <2>1. CASE j = k
    BY <1>1, <1>4, <1>8, <2>1 DEF Accounted
  <2>2. CASE j # k
    BY <1>3, <1>9, <2>2 DEF Accounted
  <2> QED BY <2>1, <2>2
<1> QED BY <1>6, <1>11, <1>12 DEF Accounted, new, ShareSocket

\* A frec that holds what it held before keeps the accounts.
LEMMA SameAccounts ==
  ASSUME NEW t, IsTable(t), NEW p, IsPool(p), Accounted(t, p),
         NEW i,
         NEW u, Rewired(t, u, i, HeldBy(t, i))
  PROVE  Accounted(u, p)
<1>1. \A k : Holders(u, k) = Holders(t, k)
  BY DEF Holders, Rewired, HeldBy
<1>2. \A j \in DOMAIN u : u[j].rfds \subseteq OpenSlots(p.slots)
  BY DEF Accounted, Rewired, HeldBy
<1> QED BY <1>1, <1>2 DEF Accounted

\* The slot a walk round the pool stops at is one that may be shared.
LEMMA VictimShareable ==
  ASSUME NEW p, IsPool(p), NEW fdl, NEW srv, Shareable(p.slots, fdl, srv) # {}
  PROVE  ShareVictim(p, fdl, srv) \in Shareable(p.slots, fdl, srv)
<1> DEFINE n == Len(p.slots)
           At(j) == ((j + p.finger) % n) + 1
           Hits == {j \in 0 .. n - 1 : At(j) \in Shareable(p.slots, fdl, srv)}
<1>1. n \in Nat \ {0} /\ p.finger \in Nat /\ DOMAIN p.slots = 1 .. n
  BY PoolSlots, PoolAssumption
<1>2. PICK k \in Shareable(p.slots, fdl, srv) : TRUE
  OBVIOUS
<1>3. k \in 1 .. n
  BY <1>1 DEF Shareable, OpenSlots
<1> HIDE DEF n
<1>4. PICK j \in 0 .. n - 1 : (j + p.finger) % n = k - 1
  <2>1. k - 1 \in 0 .. n - 1
    BY <1>1, <1>3
  <2> QED BY <1>1, <2>1, WalkReaches
<1>5. At(j) = k
  BY <1>3, <1>4
<1>6. Hits \in SUBSET Nat /\ Hits # {}
  BY <1>1, <1>4, <1>5
<1>7. Min(Hits) \in Hits
  BY <1>6, MinIsLeast
<1>8. At(Min(Hits)) \in Shareable(p.slots, fdl, srv)
  BY <1>7
<1> QED BY <1>8 DEF ShareVictim, n

\* Outcome o of `allocate` bound a socket in the free slot k, or shares the one there.
Binds(p, fdl, srv, o, k, temp) ==
  /\ k \in 1 .. Len(p.slots) + 1 /\ k \notin OpenSlots(p.slots)
  /\ o.pool = PutSocket(p, k, NewSocket(srv, temp))
  /\ o.fdl = fdl \cup {k}

Shares(p, fdl, srv, o, k) ==
  /\ k \in Shareable(p.slots, fdl, srv)
  /\ o.pool = ShareSocket(p, k)
  /\ o.fdl = fdl \cup {k}

\* What `allocate` can do: nothing, bind a socket, or share one.
LEMMA AllocateCases ==
  ASSUME NEW p, IsPool(p), NEW fdl, NEW srv \in Nat, NEW o \in Allocate(p, fdl, srv)
  PROVE  \/ o.pool = p /\ o.fdl = fdl
         \/ \E k : \E temp \in BOOLEAN : Binds(p, fdl, srv, o, k, temp)
         \/ \E k : Shares(p, fdl, srv, o, k)
<1> DEFINE fixedFree == FreeSlots(p.slots) \cap (1 .. NumRRand)
           shr == ShareVictim(p, fdl, srv)
           held == Cardinality(HeldFor(p.slots, fdl, srv))
           room == OverflowSlot(p.slots)
           first == Min(fixedFree)
<1>1. DOMAIN p.slots = 1 .. Len(p.slots) /\ Len(p.slots) \in Nat
  BY PoolSlots
<1>2. FreeSlots(p.slots) \in SUBSET Nat /\ FreeSlots(p.slots) \subseteq 1 .. Len(p.slots) + 1
  BY <1>1 DEF FreeSlots
<1>3. fixedFree # {} => first \in FreeSlots(p.slots)
  BY <1>2, MinIsLeast
<1>4. room \in 1 .. Len(p.slots) + 1 /\ room \notin OpenSlots(p.slots)
  <2>1. CASE FreeSlots(p.slots) # {}
    BY <1>2, <2>1, MinIsLeast DEF OverflowSlot, FreeSlots
  <2>2. CASE FreeSlots(p.slots) = {}
    BY <1>1, <2>2 DEF OverflowSlot, OpenSlots
  <2> QED BY <2>1, <2>2
<1>5. Shareable(p.slots, fdl, srv) # {} => shr \in Shareable(p.slots, fdl, srv)
  BY VictimShareable
<1>6. \/ o = [pool |-> p, fdl |-> fdl, ok |-> TRUE]
      \/ fixedFree # {} /\ o \in BindAt(p, fdl, first, NewSocket(srv, FALSE))
      \/ /\ Shareable(p.slots, fdl, srv) # {}
         /\ o = [pool |-> ShareSocket(p, shr), fdl |-> fdl \cup {shr}, ok |-> TRUE]
      \/ o \in BindAt(p, fdl, room, NewSocket(srv, TRUE))
  BY DEF Allocate
<1> HIDE DEF fixedFree, shr, room, first
<1>7. CASE o = [pool |-> p, fdl |-> fdl, ok |-> TRUE]
  BY <1>7
<1>8. ASSUME NEW k \in 1 .. Len(p.slots) + 1, k \notin OpenSlots(p.slots), NEW temp \in BOOLEAN,
             o \in BindAt(p, fdl, k, NewSocket(srv, temp))
      PROVE  (o.pool = p /\ o.fdl = fdl) \/ Binds(p, fdl, srv, o, k, temp)
  BY <1>8 DEF BindAt, Binds
<1>9. CASE fixedFree # {} /\ o \in BindAt(p, fdl, first, NewSocket(srv, FALSE))
  <2>1. first \in 1 .. Len(p.slots) + 1 /\ first \notin OpenSlots(p.slots)
    BY <1>2, <1>3, <1>9 DEF FreeSlots
  <2> QED BY <1>8, <1>9, <2>1
<1>10. CASE o \in BindAt(p, fdl, room, NewSocket(srv, TRUE))
  BY <1>4, <1>8, <1>10
<1>11. CASE /\ Shareable(p.slots, fdl, srv) # {}
            /\ o = [pool |-> ShareSocket(p, shr), fdl |-> fdl \cup {shr}, ok |-> TRUE]
  BY <1>5, <1>11 DEF Shares
<1> QED BY <1>6, <1>7, <1>9, <1>10, <1>11

\* Allocating for frec i, and recording the result in it, keeps the accounts.
LEMMA AllocateAccounts ==
  ASSUME NEW t, IsTable(t), NEW p, IsPool(p), Accounted(t, p),
         NEW i,
         NEW srv \in Nat, NEW o \in Allocate(p, HeldBy(t, i), srv),
         NEW u, Rewired(t, u, i, o.fdl)
  PROVE  IsPool(o.pool) /\ Accounted(u, o.pool)
<1>1. CASE o.pool = p /\ o.fdl = HeldBy(t, i)
  BY <1>1, SameAccounts
<1>2. ASSUME NEW k, NEW temp \in BOOLEAN, Binds(p, HeldBy(t, i), srv, o, k, temp)
      PROVE  IsPool(o.pool) /\ Accounted(u, o.pool)
  <2>1. /\ k \in 1 .. Len(p.slots) + 1 /\ k \notin OpenSlots(p.slots)
        /\ Rewired(t, u, i, HeldBy(t, i) \cup {k})
        /\ o.pool = PutSocket(p, k, NewSocket(srv, temp))
    BY <1>2 DEF Binds
  <2> DEFINE q == PutSocket(p, k, NewSocket(srv, temp))
  <2>2. IsPool(q) /\ Accounted(u, q)
    BY <2>1, BindAccounts
  <2> HIDE DEF q
  <2>3. o.pool = q
    BY <2>1 DEF q
  <2> QED BY <2>2, <2>3
<1>3. ASSUME NEW k, Shares(p, HeldBy(t, i), srv, o, k)
      PROVE  IsPool(o.pool) /\ Accounted(u, o.pool)
  <2>1. /\ k \in OpenSlots(p.slots) \ HeldBy(t, i) /\ ~p.slots[k].temporary
        /\ Rewired(t, u, i, HeldBy(t, i) \cup {k})
        /\ o.pool = ShareSocket(p, k)
    BY <1>3 DEF Shares, Shareable
  <2>2. IsPool(ShareSocket(p, k)) /\ Accounted(u, ShareSocket(p, k))
    BY <2>1, ShareAccounts
  <2> QED BY <2>1, <2>2
<1> QED BY <1>1, <1>2, <1>3, AllocateCases

---------------------------------------------------------------------------
(* Table, pool and count together *)

\* The parts of the invariant that concern the table, the pool and the count.
Good(t, p, n) ==
  /\ IsTable(t) /\ IsPool(p)
  /\ UniqueIds(t) /\ Accounted(t, p)
  /\ Budget(t, n) /\ n \in 0 .. MaxPerGroup

---------------------------------------------------------------------------
(* Freeing *)

\* The duplicate clients that remain are those of the frecs that remain.
LEMMA FreeBudget ==
  ASSUME NEW t, IsTable(t), NEW n, Budget(t, n), NEW F, F \subseteq DOMAIN t
  PROVE  LET m == SrcCountAfterFree(t, n, F)
         IN  Budget(FreeFrecs(t, F), m) /\ m \in Nat /\ n \in Nat /\ m <= n
<1> DEFINE u == FreeFrecs(t, F)
           A == ExtraSrcs(t, DOMAIN t)
           B == ExtraSrcs(t, F)
           m == SrcCountAfterFree(t, n, F)
<1>1. DOMAIN u = DOMAIN t /\ \A i \in DOMAIN t : u[i] = IF i \in F THEN FreeFrec ELSE t[i]
  BY FreeTable
<1>2. ExtraSrcs(u, DOMAIN u) = A \ B
  <2>1. \A i \in DOMAIN t : u[i].extra = IF i \in F THEN {} ELSE t[i].extra
    BY <1>1 DEF FreeFrec
  <2> HIDE DEF u
  <2> QED BY <1>1, <2>1 DEF ExtraSrcs
<1>3. B \subseteq A
  BY DEF ExtraSrcs
<1>4. IsFiniteSet(A) /\ n = Cardinality(A)
  BY DEF Budget
<1>5. m = IF Cardinality(B) > n THEN 0 ELSE n - Cardinality(B)
  BY DEF SrcCountAfterFree
<1> HIDE DEF A, B, m, u
<1>6. IsFiniteSet(B) /\ Cardinality(B) <= Cardinality(A)
  BY <1>3, <1>4, FS_Subset
<1>7. Cardinality(A) \in Nat /\ Cardinality(B) \in Nat
  BY <1>4, <1>6, FS_CardinalityType
<1>8. A \cap B = B
  BY <1>3
<1>9. Cardinality(A \ B) = Cardinality(A) - Cardinality(B) /\ IsFiniteSet(A \ B)
  BY <1>4, <1>8, FS_Difference
<1>10. m = Cardinality(A) - Cardinality(B)
  BY <1>4, <1>5, <1>6, <1>7
<1>11. m \in Nat /\ n \in Nat /\ m <= n
  BY <1>4, <1>6, <1>7, <1>10
<1>12. Budget(u, m)
  BY <1>2, <1>9, <1>10 DEF Budget
<1> QED BY <1>11, <1>12 DEF m, u

\* Freeing frecs with their sockets and clients keeps the invariant.
LEMMA FreeGood ==
  ASSUME NEW t, NEW p, NEW n, Good(t, p, n), NEW F, F \subseteq DOMAIN t
  PROVE  Good(FreeFrecs(t, F), FreeRfds(p, ReleasedRfds(t, p.slots, F)), SrcCountAfterFree(t, n, F))
<1> DEFINE u == FreeFrecs(t, F)
           q == FreeRfds(p, ReleasedRfds(t, p.slots, F))
           m == SrcCountAfterFree(t, n, F)
<1>1. IsTable(t) /\ IsPool(p) /\ UniqueIds(t) /\ Accounted(t, p) /\ Budget(t, n) /\ n \in 0 .. MaxPerGroup
  BY DEF Good
<1>2. IsTable(u) /\ UniqueIds(u)
  BY <1>1, FreeTable
<1>3. IsPool(q) /\ Accounted(u, q)
  BY <1>1, FreeAccounts
<1>4. Budget(u, m) /\ m \in Nat /\ n \in Nat /\ m <= n
  BY <1>1, FreeBudget
<1> HIDE DEF u, q, m
<1>5. m \in 0 .. MaxPerGroup
  BY <1>1, <1>4, TableAssumption
<1>6. Good(u, q, m)
  BY <1>2, <1>3, <1>4, <1>5 DEF Good
<1> QED BY <1>6 DEF u, q, m

---------------------------------------------------------------------------
(* Filling a frec *)

\* u is the table t with f in slot i, which may be the one after the last.
PutAt(u, t, i, f) ==
  /\ IsTable(u) /\ DOMAIN u = DOMAIN t \cup {i}
  /\ u[i] = f
  /\ \A j \in DOMAIN t \ {i} : u[j] = t[j]

\* PutFrec puts a frec into the table, or at its end.
LEMMA PutTable ==
  ASSUME NEW t, IsTable(t), NEW i, i \in 1 .. Len(t) + 1, NEW f, IsFrec(f)
  PROVE  PutAt(PutFrec(t, i, f), t, i, f)
<1> DEFINE u == PutFrec(t, i, f)
           m == IF i > Len(t) THEN i ELSE Len(t)
<1>1. Len(t) \in Nat /\ DOMAIN t = 1 .. Len(t)
  BY TableDomain
<1>2. m \in Nat /\ 1 .. m = DOMAIN t \cup {i}
  BY <1>1
<1>3. u = [j \in 1 .. m |-> IF j = i THEN f ELSE t[j]]
  BY DEF PutFrec
<1> HIDE DEF u, m
<1>4. u[i] = f /\ \A j \in DOMAIN t \ {i} : u[j] = t[j]
  BY <1>2, <1>3
<1>5. \A j \in DOMAIN t : IsFrec(t[j])
  BY DEF IsTable
<1>6. \A j \in 1 .. m : IsFrec(u[j])
  BY <1>2, <1>4, <1>5
<1>7. u = [j \in 1 .. m |-> u[j]]
  BY <1>3
<1>8. IsTable(u) /\ DOMAIN u = 1 .. m
  BY <1>2, <1>6, <1>7, TableIntro
<1>9. PutAt(u, t, i, f)
  BY <1>2, <1>4, <1>8 DEF PutAt
<1> QED BY <1>9 DEF u

\* Updating a frec in place is putting it.
LEMMA ExceptPut ==
  ASSUME NEW t, IsTable(t), NEW i, i \in DOMAIN t, NEW f
  PROVE  [t EXCEPT ![i] = f] = PutFrec(t, i, f) /\ i \in 1 .. Len(t) + 1
<1>1. Len(t) \in Nat /\ DOMAIN t = 1 .. Len(t) /\ t = [j \in 1 .. Len(t) |-> t[j]]
  BY TableDomain
<1>2. (IF i > Len(t) THEN i ELSE Len(t)) = Len(t) /\ i \in 1 .. Len(t) + 1
  BY <1>1
<1>3. [t EXCEPT ![i] = f] = [j \in 1 .. Len(t) |-> IF j = i THEN f ELSE t[j]]
  BY <1>1
<1> QED BY <1>2, <1>3 DEF PutFrec

\* The duplicate clients of frec i; none when the table does not reach it yet.
ClientsOf(t, i) == IF i \in DOMAIN t THEN t[i].extra ELSE {}

\* A frec that keeps its duplicate clients, or gains one, keeps the count right.
LEMMA PutBudget ==
  ASSUME NEW t, IsTable(t), NEW n, Budget(t, n), NEW i, i \in 1 .. Len(t) + 1, NEW f, IsFrec(f)
  PROVE  /\ f.extra = ClientsOf(t, i) => Budget(PutFrec(t, i, f), n)
         /\ \A c : c \notin ClientsOf(t, i) /\ f.extra = ClientsOf(t, i) \cup {c}
                  => Budget(PutFrec(t, i, f), n + 1)
<1> DEFINE u == PutFrec(t, i, f)
           A == ExtraSrcs(t, DOMAIN t)
           B == ExtraSrcs(u, DOMAIN u)
<1>1. DOMAIN u = DOMAIN t \cup {i} /\ u[i] = f /\ \A j \in DOMAIN t \ {i} : u[j] = t[j]
  <2>1. PutAt(u, t, i, f)
    BY PutTable, Zenon
  <2> HIDE DEF u
  <2> QED BY <2>1 DEF PutAt
<1>2. IsFiniteSet(A) /\ n = Cardinality(A)
  BY DEF Budget
<1> HIDE DEF u
<1>3. ASSUME f.extra = ClientsOf(t, i) PROVE B = A
  BY <1>1, <1>3 DEF ExtraSrcs, ClientsOf
<1>4. ASSUME NEW c, c \notin ClientsOf(t, i), f.extra = ClientsOf(t, i) \cup {c}
      PROVE  B = A \cup {<<i, c>>} /\ <<i, c>> \notin A
  BY <1>1, <1>4 DEF ExtraSrcs, ClientsOf
<1> HIDE DEF A, B
<1>5. ASSUME NEW c, c \notin ClientsOf(t, i), f.extra = ClientsOf(t, i) \cup {c}
      PROVE  IsFiniteSet(B) /\ n + 1 = Cardinality(B)
  <2>1. B = A \cup {<<i, c>>} /\ <<i, c>> \notin A
    BY <1>4, <1>5
  <2>2. IsFiniteSet(A \cup {<<i, c>>}) /\ Cardinality(A \cup {<<i, c>>}) = Cardinality(A) + 1
    BY <1>2, <2>1, FS_AddElement
  <2> QED BY <1>2, <2>1, <2>2
<1>6. f.extra = ClientsOf(t, i) => Budget(u, n)
  BY <1>2, <1>3 DEF Budget, B
<1>7. \A c : c \notin ClientsOf(t, i) /\ f.extra = ClientsOf(t, i) \cup {c} => Budget(u, n + 1)
  BY <1>5 DEF Budget, B
<1> QED BY <1>6, <1>7 DEF u

\* A frec with an id no other query in flight has keeps ids unique.
LEMMA PutIds ==
  ASSUME NEW t, IsTable(t), UniqueIds(t), NEW i, i \in 1 .. Len(t) + 1, NEW f, IsFrec(f),
         \A j \in InFlight(t) : j # i => t[j].new_id # f.new_id
  PROVE  UniqueIds(PutFrec(t, i, f))
<1> DEFINE u == PutFrec(t, i, f)
<1>1. DOMAIN u = DOMAIN t \cup {i} /\ u[i] = f /\ \A j \in DOMAIN t \ {i} : u[j] = t[j]
  <2>1. PutAt(u, t, i, f)
    BY PutTable, Zenon
  <2> HIDE DEF u
  <2> QED BY <2>1 DEF PutAt
<1> HIDE DEF u
<1>2. \A j \in InFlight(u) : j # i => j \in InFlight(t) /\ u[j] = t[j]
  BY <1>1 DEF InFlight
<1>3. UniqueIds(u)
  BY <1>1, <1>2 DEF UniqueIds
<1> QED BY <1>3 DEF u

\* The pool q and the sockets g that sending to s may leave a transaction with `fdl`.
Sends(p, fdl, s, q, g) ==
  \/ q = p /\ g = fdl
  \/ \E a \in Allocate(p, fdl, s) : q = a.pool /\ g = a.fdl

\* Frec i holds only slot numbers, before and after a send.
LEMMA SendSlots ==
  ASSUME NEW t, IsTable(t), NEW p, IsPool(p), NEW i, NEW s \in Nat, NEW q, NEW g,
         Sends(p, HeldBy(t, i), s, q, g)
  PROVE  g \in SUBSET Nat
<1>1. HeldBy(t, i) \in SUBSET Nat
  BY DEF HeldBy, IsTable, IsFrec
<1>2. Len(p.slots) \in Nat /\ DOMAIN p.slots = 1 .. Len(p.slots)
  BY PoolSlots
<1>3. CASE g = HeldBy(t, i)
  BY <1>1, <1>3
<1>4. ASSUME NEW a \in Allocate(p, HeldBy(t, i), s), g = a.fdl
      PROVE  g \in SUBSET Nat
  <2>1. CASE a.fdl = HeldBy(t, i)
    BY <1>1, <1>4, <2>1
  <2>2. ASSUME NEW k, NEW temp, Binds(p, HeldBy(t, i), s, a, k, temp)
        PROVE  g \in SUBSET Nat
    BY <1>1, <1>2, <1>4, <2>2 DEF Binds
  <2>3. ASSUME NEW k, Shares(p, HeldBy(t, i), s, a, k)
        PROVE  g \in SUBSET Nat
    BY <1>1, <1>2, <1>4, <2>3 DEF Shares, Shareable, OpenSlots
  <2> QED BY <2>1, <2>2, <2>3, AllocateCases
<1> QED BY <1>3, <1>4 DEF Sends

\* A send whose sockets are recorded in frec i keeps the accounts.
LEMMA SendAccounts ==
  ASSUME NEW t, IsTable(t), NEW p, IsPool(p), Accounted(t, p), NEW i, i \in 1 .. Len(t) + 1,
         NEW s \in Nat, NEW q, NEW g, Sends(p, HeldBy(t, i), s, q, g),
         NEW f, IsFrec(f), f.rfds = g
  PROVE  IsPool(q) /\ Accounted(PutFrec(t, i, f), q)
<1> DEFINE u == PutFrec(t, i, f)
<1>1. DOMAIN u = DOMAIN t \cup {i} /\ u[i] = f /\ \A j \in DOMAIN t \ {i} : u[j] = t[j]
  <2>1. PutAt(u, t, i, f)
    BY PutTable, Zenon
  <2> HIDE DEF u
  <2> QED BY <2>1 DEF PutAt
<1> HIDE DEF u
<1>2. Rewired(t, u, i, g)
  BY <1>1 DEF Rewired
<1>3. CASE q = p /\ g = HeldBy(t, i)
  <2>1. Rewired(t, u, i, HeldBy(t, i))
    BY <1>2, <1>3
  <2>2. Accounted(u, p)
    BY <2>1, SameAccounts
  <2> QED BY <1>3, <2>2 DEF u
<1>4. ASSUME NEW a \in Allocate(p, HeldBy(t, i), s), q = a.pool, g = a.fdl
      PROVE  IsPool(q) /\ Accounted(u, q)
  <2>1. Rewired(t, u, i, a.fdl)
    BY <1>2, <1>4
  <2>2. IsPool(a.pool) /\ Accounted(u, a.pool)
    BY <2>1, AllocateAccounts
  <2> QED BY <1>4, <2>2
<1> QED BY <1>3, <1>4 DEF Sends, u

\* Filling frec i after a send keeps the invariant.
LEMMA PutGood ==
  ASSUME NEW t, NEW p, NEW n, Good(t, p, n), NEW i, i \in 1 .. Len(t) + 1, NEW f, IsFrec(f),
         \A j \in InFlight(t) : j # i => t[j].new_id # f.new_id,
         NEW s \in Nat, NEW q, Sends(p, HeldBy(t, i), s, q, f.rfds),
         NEW m,
         \/ m = n /\ f.extra = ClientsOf(t, i)
         \/ /\ m = n + 1 /\ n < MaxPerGroup
            /\ \E c : c \notin ClientsOf(t, i) /\ f.extra = ClientsOf(t, i) \cup {c}
  PROVE  Good(PutFrec(t, i, f), q, m)
<1> DEFINE u == PutFrec(t, i, f)
<1>1. IsTable(t) /\ IsPool(p) /\ UniqueIds(t) /\ Accounted(t, p) /\ Budget(t, n) /\ n \in 0 .. MaxPerGroup
  BY DEF Good
<1>2. IsTable(u)
  <2>1. PutAt(u, t, i, f)
    BY <1>1, PutTable, Zenon
  <2> QED BY <2>1 DEF PutAt
<1>3. UniqueIds(u)
  BY <1>1, PutIds, Zenon
<1>4. IsPool(q) /\ Accounted(u, q)
  BY <1>1, SendAccounts, Zenon
<1>5. /\ f.extra = ClientsOf(t, i) => Budget(u, n)
      /\ \A c : c \notin ClientsOf(t, i) /\ f.extra = ClientsOf(t, i) \cup {c} => Budget(u, n + 1)
  BY <1>1, PutBudget, Zenon
<1> HIDE DEF u
<1>6. Budget(u, m)
  BY <1>5
<1>7. m \in 0 .. MaxPerGroup
  BY <1>1, TableAssumption
<1>8. Good(u, q, m)
  BY <1>2, <1>3, <1>4, <1>6, <1>7 DEF Good
<1> QED BY <1>8 DEF u

---------------------------------------------------------------------------
(* The parts of the handlers *)

\* A frec that is not in flight holds nothing.
LEMMA IdleEmpty ==
  ASSUME NEW t, IsTable(t), NEW i, i \notin InFlight(t)
  PROVE  HeldBy(t, i) = {} /\ ClientsOf(t, i) = {}
<1>1. CASE i \in DOMAIN t
  <2>1. t[i] = FreeFrec
    BY <1>1 DEF IsTable, IsFrec, InFlight
  <2> QED BY <2>1 DEF HeldBy, ClientsOf, FreeFrec
<1>2. CASE i \notin DOMAIN t
  BY <1>2 DEF HeldBy, ClientsOf
<1> QED BY <1>1, <1>2

\* The slot `get_new_frec` chooses is in the table or just after it, and idle once the
\* evicted query is gone.
LEMMA TargetIdle ==
  ASSUME NEW t, IsTable(t)
  PROVE  /\ TargetSlot(t) \in 1 .. Len(t) + 1
         /\ Evicted(t) \subseteq DOMAIN t
         /\ TargetSlot(t) \notin InFlight(FreeFrecs(t, Evicted(t)))
<1> DEFINE k == TargetSlot(t)
           hard == HardExpired(t)
           free == DOMAIN t \ InFlight(t)
           old == {j \in InFlight(t) : t[j].age >= FrecTimeout}
<1>1. Len(t) \in Nat /\ DOMAIN t = 1 .. Len(t)
  BY TableDomain
<1>2. hard \subseteq DOMAIN t /\ free \subseteq DOMAIN t /\ old \subseteq DOMAIN t
  BY DEF HardExpired, InFlight
<1>3. \/ hard # {} /\ k = Max(hard)
      \/ free # {} /\ k = Min(free)
      \/ old # {} /\ k = Min(old)
      \/ k = Len(t) + 1
  BY DEF TargetSlot
<1> HIDE DEF k, hard, free, old
<1>4. hard \in SUBSET (0 .. Len(t)) /\ free \in SUBSET Nat /\ old \in SUBSET Nat
  BY <1>1, <1>2
<1>5. hard # {} => Max(hard) \in DOMAIN t
  BY <1>1, <1>2, <1>4, MaxIsGreatest
<1>6. (free # {} => Min(free) \in DOMAIN t) /\ (old # {} => Min(old) \in DOMAIN t)
  BY <1>2, <1>4, MinIsLeast
<1>7. k \in 1 .. Len(t) + 1
  BY <1>1, <1>3, <1>5, <1>6
<1>8. Evicted(t) \subseteq DOMAIN t /\ (k \in InFlight(t) => k \in Evicted(t))
  BY DEF Evicted, InFlight, k
<1>9. InFlight(FreeFrecs(t, Evicted(t))) = InFlight(t) \ Evicted(t)
  BY <1>8, FreeTable
<1> QED BY <1>7, <1>8, <1>9 DEF k

\* Both lookups return queries in flight.
LEMMA LookupInFlight ==
  ASSUME NEW t, IsTable(t), NEW id, NEW question, NEW flags
  PROVE  LookupFrec(t, id) \subseteq InFlight(t) /\ LookupByQuestion(t, question, flags) \subseteq InFlight(t)
<1>1. InFlight(t) \in SUBSET Nat
  BY TableDomain DEF InFlight
<1>2. \A hits \in SUBSET InFlight(t) : hits # {} => Min(hits) \in InFlight(t)
  BY <1>1, MinIsLeast
<1> QED BY <1>2 DEF LookupFrec, LookupByQuestion

\* `next_server` answers with an untried one of the servers it was given.
LEMMA NextServerIn ==
  ASSUME NEW servers \in SUBSET Nat, NEW tried, NEW last
  PROVE  NextServer(servers, tried, last) \subseteq servers \ tried
<1> DEFINE left == servers \ tried
           after == {s \in left : last \in servers /\ s > last}
<1>1. (left # {} => Min(left) \in left) /\ (after # {} => Min(after) \in after)
  <2>1. left \in SUBSET Nat /\ after \in SUBSET Nat
    OBVIOUS
  <2> QED BY <2>1, MinIsLeast
<1> QED BY <1>1 DEF NextServer

\* h is the query of g, with the sockets r and the duplicate clients e.
SameQuery(h, g, r, e) == IsFrec(h) /\ h.new_id = g.new_id /\ h.rfds = r /\ h.extra = e

\* Attaching a client leaves a frec in flight.
LEMMA AttachFrec ==
  ASSUME NEW g, IsFrec(g), g.sentto # 0, NEW r, r \in SUBSET Nat, NEW new
  PROVE  SameQuery(Attach(g, r, new), g, r, g.extra \cup new)
<1> DEFINE a == Attach(g, r, new)
<1>0. /\ g \in [sentto : {g.sentto}, new_id : {g.new_id}, flags : {g.flags},
               question : {g.question}, age : {g.age}, tried : {g.tried},
               retries : {g.retries}, src : {g.src}, extra : {g.extra}, rfds : {g.rfds}]
      /\ g.sentto \in Nat \ {0} /\ g.new_id \in Ids /\ g.age \in 0 .. HardTimeout
      /\ g.tried \in SUBSET Nat /\ g.retries \in Nat
  BY DEF IsFrec
<1>1. a \in [sentto : {g.sentto}, new_id : {g.new_id}, flags : {g.flags},
             question : {g.question}, age : {g.age}, tried : {g.tried}, retries : {g.retries},
             src : {g.src}, extra : {g.extra \cup new}, rfds : {r}]
  BY <1>0 DEF Attach
<1> HIDE DEF a
<1>2. IsFrec(a)
  BY <1>1, <1>0 DEF IsFrec
<1>3. a.new_id = g.new_id /\ a.rfds = r /\ a.extra = g.extra \cup new
  BY <1>1
<1> QED BY <1>2, <1>3 DEF a, SameQuery

\* Moving a query to another server leaves it in flight.
LEMMA RetriedFrec ==
  ASSUME NEW g, IsFrec(g), g.sentto # 0, NEW s, s \in Nat \ {0}, NEW r, r \in SUBSET Nat
  PROVE  SameQuery(Retried(g, s, r), g, r, g.extra)
<1> DEFINE b == Retried(g, s, r)
<1>0. /\ g \in [sentto : {g.sentto}, new_id : {g.new_id}, flags : {g.flags},
               question : {g.question}, age : {g.age}, tried : {g.tried},
               retries : {g.retries}, src : {g.src}, extra : {g.extra}, rfds : {g.rfds}]
      /\ g.sentto \in Nat \ {0} /\ g.new_id \in Ids /\ g.age \in 0 .. HardTimeout
      /\ g.tried \in SUBSET Nat /\ g.retries \in Nat
  BY DEF IsFrec
<1>1. b \in [sentto : {s}, new_id : {g.new_id}, flags : {g.flags},
             question : {g.question}, age : {g.age}, tried : {g.tried \cup {s}},
             retries : {g.retries + 1}, src : {g.src}, extra : {g.extra}, rfds : {r}]
  BY <1>0 DEF Retried
<1>2. g.retries + 1 \in Nat /\ g.tried \cup {s} \in SUBSET Nat
  BY <1>0
<1> HIDE DEF b
<1>3. IsFrec(b)
  BY <1>1, <1>2, <1>0 DEF IsFrec
<1>4. b.new_id = g.new_id /\ b.rfds = r /\ b.extra = g.extra
  BY <1>1
<1> QED BY <1>3, <1>4 DEF b, SameQuery
===============================================================================

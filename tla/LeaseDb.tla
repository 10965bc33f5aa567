-------------------------------- MODULE LeaseDb --------------------------------
(***************************************************************************)
(* The DHCP lease table of src/lease.rs as a value: one operator per       *)
(* method, from a table to the table the method leaves behind.             *)
(*                                                                         *)
(* A table is a record                                                     *)
(*   leases  key -> lease, the primary map                                 *)
(*   index   address -> key, the secondary map `addr_index`                *)
(*   dirty   `file_dirty`                                                  *)
(*   old     the addresses of `old_leases`, which await their `del` script *)
(* and a lease is [addr, hw, clid, name, expires, new], where `new` is the *)
(* flag LEASE_NEW.  The other flags only word the `old` script events, and *)
(* `dns_dirty` has no reader; they are left out.  Names are compared by    *)
(* `hostname_isequal`, so a name stands for its class under letter case.   *)
(* A client id is absent or not empty, and the hardware type is fixed.     *)
(***************************************************************************)
EXTENDS Integers, FiniteSets, Functions

CONSTANTS Ids,        \* hardware addresses and client ids: byte strings
          NoId,       \* the empty byte string, also an absent client id
          Keys,       \* 16-byte keys
          ToKey,      \* `to_key`: an id padded or cut to 16 bytes
          Addrs,      \* IPv4 addresses other than 0.0.0.0
          Names, NoName,
          Unreadable, \* names holding a blank, which split the line they are saved in
          MaxLeases   \* `max_leases`

ASSUME LeaseAssumption ==
  /\ NoId \in Ids /\ ToKey \in [Ids -> Keys]
  /\ NoName \notin Names /\ Unreadable \subseteq Names
  /\ MaxLeases \in Nat

\* `expires`: never, or one of two instants, enough to tell a renewal from the lease before.
Never   == 0
Instants == {1, 2}
Fresh(e) == IF e = 1 THEN 2 ELSE 1

Lease == [addr : Addrs, hw : Ids, clid : Ids, name : Names \cup {NoName},
          expires : Instants \cup {Never}, new : BOOLEAN]

Db(leases, index, dirty, old) == [leases |-> leases, index |-> index, dirty |-> dirty, old |-> old]
Flagged(d, dirty) == Db(d.leases, d.index, dirty, d.old)
EmptyDb == Db(<<>>, <<>>, FALSE, {})

\* f with k mapped to v; f without the keys in S.
Put(f, k, v) == [x \in DOMAIN f \cup {k} |-> IF x = k THEN v ELSE f[x]]
Drop(f, S)   == [x \in DOMAIN f \ S |-> f[x]]

\* The ways to keep exactly one member of S of each class.
OneOfEach(S, Class(_)) ==
  {T \in SUBSET S : \A x \in S : \E y \in T : /\ Class(y) = Class(x)
                                          /\ \A z \in T : Class(z) = Class(x) => z = y}

---------------------------------------------------------------------------
(* Lookup *)

\* `lease_key`
LeaseKey(l) == ToKey[IF l.clid # NoId THEN l.clid ELSE l.hw]

\* `find_by_addr`, `get_mut_by_addr`
Leased(d, a)  == a \in DOMAIN d.index /\ d.index[a] \in DOMAIN d.leases
LeaseAt(d, a) == d.leases[d.index[a]]

\* `find_by_client_id`: the lease of a client, a set of at most one.
LeaseOf(d, hw, clid) ==
  {d.leases[k] : k \in DOMAIN d.leases \cap {ToKey[IF clid # NoId THEN clid ELSE hw]}}

---------------------------------------------------------------------------
(* Update *)

\* Fault: the replaced lease stays in the index.
InsertRawNoUnindex(d, k, l) == Db(Put(d.leases, k, l), Put(d.index, l.addr, k), d.dirty, d.old)

\* `insert_raw`: the lease that held the key, if any, leaves the index.
InsertRaw(d, k, l) ==
  LET replaced == {d.leases[x].addr : x \in DOMAIN d.leases \cap {k}} \ {l.addr}
  IN  Db(Put(d.leases, k, l), Put(Drop(d.index, replaced), l.addr, k), d.dirty, d.old)

NewLease(a) == [addr |-> a, hw |-> NoId, clid |-> NoId, name |-> NoName,
                expires |-> Never, new |-> TRUE]

\* `allocate_v4` refuses.
Full(d) == Cardinality(DOMAIN d.leases) >= MaxLeases

\* `allocate_v4`, which files the lease under the key of an empty id.
AllocateV4(d, a) == Flagged(InsertRaw(d, LeaseKey(NewLease(a)), NewLease(a)), TRUE)

\* Fault: the lease is built anew under its new key and its flags are lost.
SetHwaddrUnflagged(d, a, hw, clid) ==
  LET k     == d.index[a]
      moved == [d.leases[k] EXCEPT !.hw = hw, !.clid = clid, !.new = FALSE]
  IN  IF clid # NoId /\ d.leases[k].clid # clid
      THEN InsertRaw(Db(Drop(d.leases, {k}), d.index, TRUE, d.old), LeaseKey(moved), moved)
      ELSE [d EXCEPT !.leases[k].hw = hw, !.dirty = @ \/ d.leases[k].hw # hw]

\* `set_hwaddr`: a new client id moves the lease to another key; a new hardware address
\* does not.
SetHwaddr(d, a, hw, clid) ==
  LET k     == d.index[a]
      known == [d.leases[k] EXCEPT !.hw = hw]
      moved == [known EXCEPT !.clid = clid]
  IN  IF clid # NoId /\ known.clid # clid
      THEN InsertRaw(Db(Drop(d.leases, {k}), d.index, TRUE, d.old), LeaseKey(moved), moved)
      ELSE Db(Put(d.leases, k, known), d.index, d.dirty \/ d.leases[k].hw # hw, d.old)

\* Fault: the other leases keep the name.
SetHostnameKeepingDuplicates(d, a, name) ==
  [d EXCEPT !.leases[d.index[a]].name = name, !.dirty = @ \/ LeaseAt(d, a).name # name]

\* `set_hostname`: the name is taken from every other lease first.
SetHostname(d, a, name) ==
  LET twins == {k \in DOMAIN d.leases : name # NoName /\ d.leases[k].name = name /\ d.leases[k].addr # a}
      strip == {d.index[d.leases[k].addr] : k \in {k \in twins : Leased(d, d.leases[k].addr)}}
      NewName(k) == IF k = d.index[a] THEN name ELSE IF k \in strip THEN NoName ELSE d.leases[k].name
  IN  Db([k \in DOMAIN d.leases |-> [d.leases[k] EXCEPT !.name = NewName(k)]],
         d.index, d.dirty \/ LeaseAt(d, a).name # name, d.old)

\* `set_expires`: `now` has moved on, so a finite lease time always changes the expiry.
SetExpires(d, a, forever) ==
  LET e == IF forever THEN Never ELSE Fresh(LeaseAt(d, a).expires)
  IN  Db(Put(d.leases, d.index[a], [LeaseAt(d, a) EXCEPT !.expires = e]),
         d.index, d.dirty \/ LeaseAt(d, a).expires # e, d.old)

\* `remove_by_addr`
RemoveByAddr(d, a) ==
  IF ~Leased(d, a) THEN d
  ELSE Db(Drop(d.leases, {d.index[a]}), Drop(d.index, {a}), TRUE, d.old \cup {a})

---------------------------------------------------------------------------
(* update_from_configs *)

\* The names in `renames`, pairs <<address, name>>, are set one by one in hash order: of
\* several addresses given one name the last keeps it.  `last` holds the last of each.
Rename(d, renames, last) ==
  LET names      == {r[2] : r \in renames}
      NewName(l) == IF \E r \in last : r[1] = l.addr THEN (CHOOSE r \in last : r[1] = l.addr)[2]
                    ELSE IF l.name \in names \/ (\E r \in renames : r[1] = l.addr) THEN NoName
                    ELSE l.name
  IN  Db([k \in DOMAIN d.leases |-> [d.leases[k] EXCEPT !.name = NewName(d.leases[k])]],
         d.index,
         d.dirty \/ renames # last \/ \E r \in renames : LeaseAt(d, r[1]).name # r[2],
         d.old)

LastOfEachName(renames) == OneOfEach(renames, LAMBDA r : r[2])

---------------------------------------------------------------------------
(* The lease file and the scripts *)

\* A line of the file, and the lines `serialize` writes.
Line == [addr : Addrs, hw : Ids, clid : Ids, name : Names \cup {NoName}, expires : Instants \cup {Never}]

Row(l)  == [addr |-> l.addr, hw |-> l.hw, clid |-> l.clid, name |-> l.name, expires |-> l.expires]
Rows(d) == {Row(d.leases[k]) : k \in DOMAIN d.leases}

\* `deserialize` splits a line at its blanks, so an empty hardware address or a blank in
\* the name fails the parse.
Parses(row) == row.hw # NoId /\ row.name \notin Unreadable

FromRow(row) == [addr |-> row.addr, hw |-> row.hw, clid |-> row.clid, name |-> row.name,
                 expires |-> row.expires, new |-> FALSE]

\* `load_from_file` at startup.  One line that does not parse rejects the whole file and
\* the daemon starts with an empty table.  Lines are inserted in file order, so of the
\* lines with one key the last stays, whichever that is.
Load(rows) ==
  LET KeyOf(r) == LeaseKey(FromRow(r))
      Table(s) == Db([k \in {KeyOf(r) : r \in s} |-> FromRow(CHOOSE r \in s : KeyOf(r) = k)],
                     [a \in {r.addr : r \in s} |-> KeyOf(CHOOSE r \in s : r.addr = a)],
                     FALSE, {})
  IN  IF \E r \in rows : ~Parses(r) THEN {EmptyDb} ELSE {Table(s) : s \in OneOfEach(rows, KeyOf)}

\* `run_lease_scripts`: the table after it, and the addresses the script knows as leased
\* when it knew `told` before.
ScriptsRun(d) == Db([k \in DOMAIN d.leases |-> [d.leases[k] EXCEPT !.new = FALSE]], d.index, d.dirty, {})
Told(d, told) == (told \ d.old) \cup {l.addr : l \in {l \in Range(d.leases) : l.new}}

---------------------------------------------------------------------------
(* What a table promises *)

IsFunc(f, S, T) == f = [x \in DOMAIN f |-> f[x]] /\ DOMAIN f \subseteq S /\ \A x \in DOMAIN f : f[x] \in T

IsDb(d) ==
  /\ d = Db(d.leases, d.index, d.dirty, d.old)
  /\ IsFunc(d.leases, Keys, Lease) /\ IsFunc(d.index, Addrs, Keys)
  /\ d.dirty \in BOOLEAN /\ d.old \subseteq Addrs

\* The two maps agree: every indexed address leads to the lease of that address, and
\* every lease is found under its address.
Indexed(d) ==
  /\ \A a \in DOMAIN d.index : d.index[a] \in DOMAIN d.leases /\ LeaseAt(d, a).addr = a
  /\ \A k \in DOMAIN d.leases :
       d.leases[k].addr \in DOMAIN d.index /\ d.index[d.leases[k].addr] = k

\* No two leases have one name.
NamesDistinct(d) ==
  \A k, m \in DOMAIN d.leases :
    d.leases[k].name = d.leases[m].name /\ d.leases[k].name # NoName => k = m
================================================================================

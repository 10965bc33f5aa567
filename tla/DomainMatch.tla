---------------------------- MODULE DomainMatch ----------------------------
(***************************************************************************)
(* domain_match.rs: the sorted array of servers and literal answers, the   *)
(* binary search that finds the entries for a name, and the mark-and-sweep *)
(* upkeep of the server list.  Flags are sets of strings.  Array positions *)
(* start at 1; a range is the pair of its first position and the position  *)
(* after its last.                                                         *)
(***************************************************************************)
EXTENDS Names

(* TYPE_FLAGS with the bit each of them has *)
TypeBit == [USE_RESOLV |-> 1, LITERAL |-> 2, ALL_ZEROS |-> 4, ADDR4 |-> 8, ADDR6 |-> 16]
SERV_LOCAL_ADDRESS == {"ADDR4", "ADDR6", "ALL_ZEROS"}
SERV_IS_LOCAL == {"USE_RESOLV", "LITERAL"}

TypeRank(flags) == SumSet({TypeBit[f] : f \in flags \cap DOMAIN TypeBit})

----------------------------------------------------------------------------
(* The sorted array *)

(* -1: the entry comes after the query in the array; 1: before it *)
order_entry(q, e) ==
    CASE "NODOTS" \in e.flags -> -1
      [] Len(q) < Len(e.domain) -> 1
      [] Len(q) > Len(e.domain) -> -1
      [] OTHER -> hostname_order(q, e.domain)

(* compare_entries(a, b) = Less.  Literal entries keep their order. *)
Before(a, b) ==
    LET alone == "NODOTS" \in a.flags
        bnd == "NODOTS" \in b.flags
        names == hostname_order(a.domain, b.domain)
        aw == "WILDCARD" \in a.flags
        bw == "WILDCARD" \in b.flags
    IN  CASE alone # bnd -> bnd
          [] Len(a.domain) # Len(b.domain) -> Len(a.domain) > Len(b.domain)
          [] names # 0 -> names < 0
          [] aw # bw -> bw
          [] TypeRank(a.flags) # TypeRank(b.flags) -> TypeRank(a.flags) > TypeRank(b.flags)
          [] OTHER -> ~a.is_local /\ ~b.is_local /\ a.serial < b.serial

Entry(s, i, serial, is_local) ==
    [domain |-> s.domain, flags |-> s.flags, serial |-> serial, index |-> i,
     is_local |-> is_local]

(* ServerArray::build; the sort is stable.  Looped servers are left out. *)
build(servers, local_domains) ==
    LET live == SelectSeq([i \in DOMAIN servers |-> Entry(servers[i], i, i, FALSE)],
                          LAMBDA e : "LOOP" \notin e.flags)
        all == live \o [i \in DOMAIN local_domains |-> Entry(local_domains[i], i, 0, TRUE)]
        Rank(i) == Cardinality({j \in DOMAIN all :
                       Before(all[j], all[i]) \/ (j < i /\ ~Before(all[i], all[j]))})
    IN  [entries |-> [k \in DOMAIN all |-> all[CHOOSE i \in DOMAIN all : Rank(i) = k - 1]],
         has_wildcard |-> \E i \in DOMAIN all : "WILDCARD" \in all[i].flags]

same_group(arr, a, b) ==
    LET ea == arr.entries[a]
        eb == arr.entries[b]
    IN  IF "NODOTS" \in ea.flags THEN "NODOTS" \in eb.flags ELSE order_entry(ea.domain, eb) = 0

----------------------------------------------------------------------------
(* filter_servers_impl *)

(* the whole run of entries of the seed's domain *)
Group(arr, seed) ==
    LET n == Len(arr.entries)
        low == CHOOSE l \in 1 .. seed :
                  /\ \A i \in l + 1 .. seed : same_group(arr, i - 1, i)
                  /\ l > 1 => ~same_group(arr, l - 1, l)
        high == CHOOSE h \in seed .. n :
                  /\ \A i \in seed .. h - 1 : same_group(arr, i, i + 1)
                  /\ h < n => ~same_group(arr, h, h + 1)
    IN  <<low, high + 1>>

(* The classes of entries within a group, in array order, each with the
   queries it serves; the entries of none of the classes are servers. *)
Classes(want) ==
    << [flag |-> "ADDR6", serves |-> "SERVER" \notin want /\ "IPV6" \in want],
       [flag |-> "ADDR4", serves |-> "SERVER" \notin want /\ "IPV4" \in want],
       [flag |-> "ALL_ZEROS",
        serves |-> "SERVER" \notin want /\ want \cap {"IPV4", "IPV6"} # {}],
       [flag |-> "LITERAL", serves |-> want \cap {"DOMAINSRV", "SERVER"} = {}],
       [flag |-> "USE_RESOLV", serves |-> TRUE] >>

(* from class k on, the entries lo .. hi - 1 being left *)
RECURSIVE Narrow(_, _, _, _, _)
NarrowBy(arr, want, k, lo, hi, class, end) ==
    IF class.serves /\ end # lo THEN <<lo, end>> ELSE Narrow(arr, want, k + 1, end, hi)
ClassEnd(arr, flag, lo, hi) ==
    CHOOSE end \in lo .. hi :
        /\ \A i \in lo .. end - 1 : flag \in arr.entries[i].flags
        /\ end < hi => flag \notin arr.entries[end].flags
NarrowTo(arr, want, k, lo, hi, class) ==
    NarrowBy(arr, want, k, lo, hi, class, ClassEnd(arr, class.flag, lo, hi))
ServersLeft(want, lo, hi, first) ==
    IF "DOMAINSRV" \in want /\ first.domain = <<>> /\ "NODOTS" \notin first.flags THEN None ELSE <<lo, hi>>
Narrow(arr, want, k, lo, hi) ==
    IF k <= 5 THEN NarrowTo(arr, want, k, lo, hi, Classes(want)[k])
    ELSE IF lo >= hi THEN None ELSE ServersLeft(want, lo, hi, arr.entries[lo])

FilterGroup(arr, g, want) ==
    IF "CONFIG" \in want
    THEN IF \E i \in g[1] .. g[2] - 1 : arr.entries[i].flags \cap SERV_LOCAL_ADDRESS # {}
         THEN g ELSE None
    ELSE Narrow(arr, want, 1, g[1], g[2])
filter_servers(arr, seed, want) == FilterGroup(arr, Group(arr, seed), want)

----------------------------------------------------------------------------
(* lookup *)

(* One binary search for q: where it ends, whether it hit, the new `low',
   and by how much to crop the query.  Positions here start at 0. *)
RECURSIVE Bisect(_, _, _, _)
Probe(at, low, crop) == [hit |-> crop = None, at |-> at, low |-> low, crop |-> IF crop = None THEN 1 ELSE crop]
CropAfter(arr, q, shorter) ==
    IF shorter = {} THEN 1 ELSE Len(q) - Len(arr.entries[Min(shorter) + 1].domain)
BisectBy(arr, q, low, high, mid, rc) ==
    LET size == Len(arr.entries[mid + 1].domain)
    IN  CASE rc = 0 -> Probe(mid, low, None)
          [] rc < 0 /\ high = mid -> Probe(mid, low, Len(q) - size)
          [] rc > 0 /\ low = mid ->
                Probe(mid, low, CropAfter(arr, q, {t \in mid + 1 .. Len(arr.entries) - 1 :
                                                      Len(arr.entries[t + 1].domain) # size}))
          [] OTHER -> IF rc < 0 THEN Bisect(arr, q, low, mid) ELSE Bisect(arr, q, mid, high)
BisectAt(arr, q, low, high, mid) ==
    BisectBy(arr, q, low, high, mid, order_entry(q, arr.entries[mid + 1]))
Bisect(arr, q, low, high) == BisectAt(arr, q, low, high, (low + high) \div 2)

(* Fault: a hit in the middle of a label counts. *)
AnyHit(arr, name, start, at) == at + 1

(* The seed for the group of a hit: with wildcards in the array, a hit in the
   middle of a label counts only if the group ends in a wildcard entry. *)
HitSeed(arr, name, start, at) ==
    LET n == Len(arr.entries)
        q == SubSeq(name, start + 1, Len(name))
        same == [t \in 1 .. n |-> order_entry(q, arr.entries[t]) = 0]
        first == CHOOSE t \in 1 .. at + 1 :
                    (\A u \in t .. at + 1 : same[u]) /\ (t > 1 => ~same[t - 1])
        last == CHOOSE t \in at + 1 .. n :
                    (\A u \in at + 1 .. t : same[u]) /\ (t < n => ~same[t + 1])
    IN  CASE ~arr.has_wildcard -> at + 1
          [] start = 0 \/ q = <<>> \/ name[start] = Dot -> first
          [] OTHER -> IF "WILDCARD" \in arr.entries[last].flags THEN last ELSE None

(* the next label boundary from `start' on, when no entry is a wildcard *)
Boundary(arr, name, start) ==
    IF arr.has_wildcard THEN start
    ELSE CHOOSE b \in start .. Len(name) :
            /\ b = Len(name) \/ name[b] = Dot
            /\ \A c \in start .. b - 1 : name[c] # Dot

(* The outer loop: the query is what is left of the name after `start'. *)
RECURSIVE Descend(_, _, _, _, _)
GoOn(arr, name, want, start, low) ==
    IF start > Len(name) THEN [range |-> None, want |-> want]
    ELSE Descend(arr, name, want, Boundary(arr, name, start), low)
TakeRange(arr, name, want, start, b, range) ==
    CASE range = None -> GoOn(arr, name, want, start + IF b.crop = 0 THEN 1 ELSE b.crop, b.low)
      [] range # None /\ "USE_RESOLV" \notin arr.entries[range[1]].flags -> [range |-> range, want |-> want]
      [] OTHER -> GoOn(arr, name, want \cup {"SERVER"}, IF start = Len(name) THEN start + 1 ELSE Len(name), b.low)
SeededRange(arr, seed, want) == IF seed = None THEN None ELSE filter_servers(arr, seed, want)
DescendFrom(arr, name, want, start, b) ==
    TakeRange(arr, name, want, start, b,
              SeededRange(arr, IF b.hit THEN HitSeed(arr, name, start, b.at) ELSE None, want))
Descend(arr, name, want, start, low) ==
    DescendFrom(arr, name, want, start,
                Bisect(arr, SubSeq(name, start + 1, Len(name)), low, Len(arr.entries)))

(* F_DS asks for the parent's servers *)
ParentOf(name) ==
    LET dots == {i \in DOMAIN name : name[i] = Dot}
    IN  IF dots = {} THEN <<>>
        ELSE SubSeq(name, (CHOOSE i \in dots : \A j \in dots : i <= j) + 1, Len(name))

OrFallback(range, fallback) == IF fallback = None THEN range ELSE fallback
LookupEnd(arr, n, domain, want, found) ==
    IF /\ domain # <<>> /\ Dot \notin Range(domain) /\ "DNSSECOK" \notin want
       /\ "NODOTS" \in arr.entries[n].flags
       /\ found.range = None \/ arr.entries[found.range[1]].domain = <<>>
    THEN OrFallback(found.range, filter_servers(arr, n, found.want))
    ELSE found.range
LookupDomain(arr, n, domain, want) ==
    IF n = 0 THEN None ELSE LookupEnd(arr, n, domain, want, Descend(arr, domain, want, 0, 0))
lookup(arr, name, want) ==
    LookupDomain(arr, Len(arr.entries), IF "DS" \in want THEN ParentOf(name) ELSE name, want)

FirstOr(same, first) == IF same # {} THEN Min(same) ELSE first
ServerIn(arr, orig, r) ==
    IF r = None THEN None
    ELSE FirstOr({i \in r[1] .. r[2] - 1 : ~arr.entries[i].is_local /\ arr.entries[i].index = orig}, r[1])
dnssec_server(arr, orig, keyname, is_ds) ==
    ServerIn(arr, orig, lookup(arr, keyname, {"SERVER", "DNSSECOK"} \cup IF is_ds THEN {"DS"} ELSE {}))

----------------------------------------------------------------------------
(* Literal answers *)

is_local_answer(arr, first, locally_known) ==
    LET flags == arr.entries[first].flags
        rolled == arr.entries[Group(arr, first)[1]].flags
    IN  CASE "LITERAL" \notin flags -> {}
          [] "ADDR4" \in flags -> {"IPV4"}
          [] "ADDR6" \in flags -> {"IPV6"}
          [] "ALL_ZEROS" \in flags -> {"IPV4", "IPV6"}
          [] rolled \cap SERV_LOCAL_ADDRESS # {} \/ locally_known -> {"NOERR"}
          [] OTHER -> {"NXDOMAIN"}

(* the records, as pairs of a family and an address ("zero" for ALL_ZEROS) *)
make_local_answer(arr, servers, range, flags) ==
    LET here == SubSeq(arr.entries, range[1], range[2] - 1)
        Address(e, family) ==
            CASE "ALL_ZEROS" \in e.flags -> <<family, "zero">>
              [] servers[e.index].family = family -> <<family, servers[e.index].addr>>
              [] OTHER -> None
        Records(family) ==
            SelectSeq([i \in DOMAIN here |-> Address(here[i], family)], LAMBDA r : r # None)
    IN  (IF "IPV4" \in flags THEN Records("IPV4") ELSE <<>>)
        \o (IF "IPV6" \in flags THEN Records("IPV6") ELSE <<>>)

----------------------------------------------------------------------------
(* The server list *)

mark_servers(servers, flag) ==
    [i \in DOMAIN servers |->
        [servers[i] EXCEPT !.flags = IF flag \in @ THEN @ \cup {"MARK"} ELSE @ \ {"MARK"}]]

cleanup_servers(servers) == SelectSeq(servers, LAMBDA s : "MARK" \notin s.flags)

(* A marked entry of the same domain is taken over and moved to the end; it
   keeps its uid and its counters. *)
add_update_server(servers, s) ==
    LET old == {i \in DOMAIN servers :
                   "MARK" \in servers[i].flags /\ hostname_isequal(servers[i].domain, s.domain)}
        i == CHOOSE k \in old : \A j \in old : k <= j
    IN  IF s.flags \cap SERV_IS_LOCAL = {} /\ old # {}
        THEN Append(RemoveAt(servers, i),
                    [servers[i] EXCEPT !.flags = s.flags \ {"MARK"}, !.addr = s.addr])
        ELSE Append(servers, s)

domain_matches(query, domain) ==
    \/ domain = <<>>
    \/ hostname_isequal(query, domain)
    \/ /\ Len(query) > Len(domain)
       /\ query[Len(query) - Len(domain)] = Dot
       /\ hostname_isequal(SubSeq(query, Len(query) - Len(domain) + 1, Len(query)), domain)
=============================================================================

---------------------------- MODULE DnsResolver -----------------------------
(***************************************************************************)
(* The DNS record cache of src/cache.rs, as operators on its value, and    *)
(* who reads and writes it: client queries answered from it                *)
(* (answer_request of src/rfc1035.rs), upstream replies stored in it       *)
(* (process_reply of src/forward.rs, extract_addresses of src/rfc1035.rs), *)
(* hosts files loaded into it (src/inotify.rs), the reload that flushes it *)
(* (clear_cache_and_reload of src/dnsmasq.rs) and time.  Every action is   *)
(* one critical section of the lock the cache is shared under.             *)
(*                                                                         *)
(* A cache is a sequence of records, the least recently used first: the    *)
(* lru crate's map, in its eviction order.  A record is found by its key,  *)
(* the lower-cased name and the type bits, so two records never share a    *)
(* key.  The key's type bits are the field kind:                           *)
(*   "A", "AAAA", "CNAME", "RR"   a positive record (RR: any other type)   *)
(*   "REV"                        a reverse record (F_REVERSE)             *)
(*   "NOA", "NOAAAA", "NORR"      no data of that type (type | F_NEG)      *)
(*   "NX"                         the name does not exist                  *)
(* data is the address, CNAME target or payload; left counts down the      *)
(* seconds to expiry; src says who wrote the record: "dns" for an upstream *)
(* answer, "hosts" for a file the reload reads, the file itself for a      *)
(* hosts-directory file's current load, "past" for an earlier load of one. *)
(* A record that is not from "dns" is F_HOSTS and F_IMMORTAL.              *)
(*                                                                         *)
(* A question is [name, type].  A reply is [q, cd, tc, rcode, chain, rrs,  *)
(* soa]: the CNAMEs from q.name on, the records of the type asked for that *)
(* the last name owns (addresses; host names for PTR; payloads otherwise), *)
(* and the SOA record found for that name, a set of at most one.  Names    *)
(* are already lower case and records of other classes are left out.       *)
(***************************************************************************)
EXTENDS Integers, Sequences, SequencesExt

CONSTANTS
    MaxSize,        \* cache-size: entries the cache may hold
    MinCacheTtl,    \* min-cache-ttl, 0 when not set
    MaxCacheTtl     \* max-cache-ttl, 0 when not set

ASSUME CacheLimits == {MaxSize, MinCacheTtl, MaxCacheTtl} \subseteq Nat

Key(r) == <<r.name, r.kind>>

\* F_HOSTS, F_DHCP or F_CONFIG: not an upstream answer.
Static(r) == r.src # "dns"

\* Fault: a record is served past its end.
ExpiryUnchecked(r) == ~Static(r) /\ r.left < 0

record_is_expired(r) == ~Static(r) /\ r.left = 0

\* The record stored under a key, as a set of at most one.
Peek(c, k) == {r \in ToSet(c) : Key(r) = k}

Pop(c, k) == SelectSeq(c, LAMBDA r : Key(r) # k)

\* records.get: the entry becomes the most recently used one.
Promote(c, k) == Pop(c, k) \o SelectSeq(c, LAMBDA r : Key(r) = k)

\* records.put: the entry replaces the one under its key, or, when there is
\* none and the cache is full, pushes out the least recently used one,
\* whatever that is.
insert(c, r) ==
    LET rest == Pop(c, Key(r))
    IN  IF MaxSize = 0 THEN c
        ELSE Append(IF Len(rest) = MaxSize THEN Tail(rest) ELSE rest, r)

InsertAll(c, recs) ==
    LET after[i \in 0..Len(recs)] == IF i = 0 THEN c ELSE insert(after[i - 1], recs[i])
    IN  after[Len(recs)]

-----------------------------------------------------------------------------
(* Validated inserts                                                       *)

\* The TTL bounds of the operator; the lower bound is applied last.
CacheTtl(ttl) ==
    LET capped == IF MaxCacheTtl # 0 /\ ttl > MaxCacheTtl THEN MaxCacheTtl ELSE ttl
    IN  IF MinCacheTtl # 0 /\ capped < MinCacheTtl THEN MinCacheTtl ELSE capped

\* prepare_insert for an upstream answer: what becomes of record r.
\*   "new"      it is to be inserted, with its clamped TTL
\*   "same"     a static record already says so: nothing to insert
\*   "refused"  zero TTL, a static record says otherwise, or no capacity
prepare_insert(c, r) ==
    LET static == {s \in Peek(c, Key(r)) : Static(s)}
    IN  CASE CacheTtl(r.left) = 0 -> "refused"
          [] \E s \in static : r.kind \in {"A", "AAAA", "REV"} /\ s.data = r.data -> "same"
          [] static # {} \/ MaxSize = 0 -> "refused"
          [] OTHER -> "new"

Clamped(r) == [r EXCEPT !.left = CacheTtl(r.left)]

\* A single validated insert.
really_insert(c, r) ==
    IF prepare_insert(c, r) = "new" THEN insert(c, Clamped(r)) ELSE c

\* Fault: a refused record is skipped and the others are linked in.
CommitEach(c, batch) ==
    LET new == SelectSeq(batch, LAMBDA r : prepare_insert(c, r) = "new")
    IN  InsertAll(c, [i \in DOMAIN new |-> Clamped(new[i])])

\* start_insert, stage_insert for every record, end_insert: one refused record
\* leaves the sticky error set, and then nothing of the batch is linked in.
\* Every record is validated against the cache as it was before the batch.
Commit(c, batch) ==
    LET new == SelectSeq(batch, LAMBDA r : prepare_insert(c, r) = "new")
    IN  IF \E r \in ToSet(batch) : prepare_insert(c, r) = "refused" THEN c
        ELSE InsertAll(c, [i \in DOMAIN new |-> Clamped(new[i])])

-----------------------------------------------------------------------------
(* Lookups: the record found, as a set of at most one, and the cache after *)

lookup_by_name(c, k) ==
    LET hit == Peek(c, k)
    IN  IF \E r \in hit : record_is_expired(r)
        THEN [cache |-> Pop(c, k), hit |-> {}]
        ELSE [cache |-> Promote(c, k), hit |-> hit]

\* The NODATA entry of a type is kept under a key of its own.
NoData(kind) == CASE kind = "A" -> "NOA" [] kind = "AAAA" -> "NOAAAA" [] OTHER -> "NORR"

\* The record of that type or, failing that, the type's NODATA entry.
lookup_forward(c, name, kind) ==
    LET positive == lookup_by_name(c, <<name, kind>>)
    IN  IF positive.hit # {} THEN positive
        ELSE lookup_by_name(positive.cache, <<name, NoData(kind)>>)

\* Whatever record carries the address, the most recently used one first;
\* every expired record is dropped on the way.
lookup_by_addr(c, addr) ==
    LET live  == SelectSeq(c, LAMBDA r : ~record_is_expired(r))
        found == SelectSeq(live, LAMBDA r : r.kind \in {"A", "AAAA", "REV"} /\ r.data = addr)
    IN  IF found = <<>> THEN [cache |-> live, hit |-> {}]
        ELSE [cache |-> Promote(live, Key(Last(found))), hit |-> {Last(found)}]

-----------------------------------------------------------------------------
(* Hosts files                                                             *)

\* One line of a hosts file, an address and its names: an address record for
\* each name, then a reverse record, which is filed under the .arpa name.
parse_hosts_line(line, arpa, ttl, src) ==
    LET rec(name, kind) ==
          [name |-> name, kind |-> kind, data |-> line.addr, left |-> ttl, src |-> src]
    IN  [i \in 1..Len(line.names) |-> rec(line.names[i], line.kind)]
          \o IF line.names = <<>> THEN <<>> ELSE <<rec(arpa, "REV")>>

remove_by_uid(c, src) == SelectSeq(c, LAMBDA r : r.src # src)

\* A second passes.
Age(c) == [i \in DOMAIN c |->
             IF Static(c[i]) \/ c[i].left = 0 THEN c[i] ELSE [c[i] EXCEPT !.left = @ - 1]]

----------------------------------------------------------------------------
CONSTANTS
    Queries,          \* the questions clients ask
    Replies,          \* the replies upstream servers may give to them
    Zone,             \* owner of the SOA records
    Arpa,             \* address |-> its name under .arpa
    Cnames,           \* --cname: alias |-> target
    Private,          \* addresses --stop-dns-rebind refuses
    Bogus,            \* addresses of --bogus-nxdomain
    ReplyMaxTtl,      \* --max-ttl, 0 when not set
    NegTtl,           \* --neg-ttl, 0 when not set
    NegCache,         \* FALSE for --no-negcache
    LocalTtl,         \* --local-ttl
    CNAME_CHAIN_LIMIT,\* hops followed in a reply (10)
    MaxHops,          \* hops followed in an answer (16)
    Files,            \* the files of the hosts directory, in directory order
    Texts,            \* what a hosts file may hold: sequences of lines
    MaxReloads        \* reloads under way at once

VARIABLES
    cache,       \* the DnsCache behind the shared lock
    reloads,     \* reloads that have flushed and not rescanned yet
    response,    \* the answer the last step gave a client, as a set of at most one
    heard        \* history: what upstream replies said that has not run out

vars == <<cache, reloads, response, heard>>

\* The kind a positive answer is kept under; "RR" stands for SRV and the types
\* of --cache-rr.
Kind(type) == CASE type \in {"A", "AAAA"} -> type [] type = "CNAME" -> "none" [] OTHER -> "RR"

-----------------------------------------------------------------------------
(* A reply from upstream                                                   *)

clamp_ttl(ttl) == IF ReplyMaxTtl # 0 /\ ttl > ReplyMaxTtl THEN ReplyMaxTtl ELSE ttl

Dns(name, kind, data, ttl) ==
    [name |-> name, kind |-> kind, data |-> data, left |-> ttl, src |-> "dns"]

\* The name reached after i CNAMEs of the reply.
NameAt(rep, i) == IF i = 0 THEN rep.q.name ELSE rep.chain[i].target

\* Reverse records are filed under the host name they give.
extract_ptr_answers(rep) ==
    LET addr == {a \in DOMAIN Arpa : Arpa[a] = rep.q.name}
    IN  IF addr = {} \/ rep.chain # <<>> THEN <<>>
        ELSE [i \in DOMAIN rep.rrs |->
                Dns(rep.rrs[i].data, "REV", CHOOSE a \in addr : TRUE, clamp_ttl(rep.rrs[i].ttl))]

\* The SOA record to keep, and the lifetime it gives a negative entry.
find_soa(rep) ==
    {[rr |-> Dns(Zone, "RR", "soa", clamp_ttl(s.ttl)), neg |-> clamp_ttl(s.neg)] : s \in rep.soa}

\* The records staged from a reply to any other question: its CNAMEs, its
\* answers, and, when it has none, the SOA record and a negative entry.
extract_addresses(rep) ==
    LET kind   == Kind(rep.q.type)
        isCn   == rep.q.type = "CNAME"
        limit  == IF isCn THEN 1 ELSE CNAME_CHAIN_LIMIT
        hops   == IF Len(rep.chain) < limit THEN Len(rep.chain) ELSE limit
        owner  == NameAt(rep, hops)
        isNx   == rep.rcode = "nx"
        cnames == [i \in 1..hops |->
                     Dns(NameAt(rep, i - 1), "CNAME", rep.chain[i].target,
                         clamp_ttl(rep.chain[i].ttl))]
        rrs    == IF isNx \/ isCn \/ hops < Len(rep.chain) THEN <<>>
                  ELSE [i \in DOMAIN rep.rrs |->
                          Dns(owner, kind, rep.rrs[i].data, clamp_ttl(rep.rrs[i].ttl))]
        found  == rrs # <<>> \/ (isCn /\ hops > 0)
        soa    == find_soa(rep)
        empty(ttl) == Dns(owner, IF isNx THEN "NX" ELSE NoData(kind), "none", ttl)
        negative == CASE found \/ ~NegCache \/ (isCn /\ ~isNx) -> <<>>
                      [] soa # {} -> LET s == CHOOSE s \in soa : TRUE IN <<s.rr, empty(s.neg)>>
                      [] soa = {} /\ NegTtl > 0 -> <<empty(NegTtl)>>
                      [] OTHER -> <<>>
    IN  (IF isCn THEN <<>> ELSE cnames \o rrs) \o negative

IsAddress(rep) == rep.q.type \in {"A", "AAAA"}

\* The first address of the reply that --bogus-nxdomain lists.
find_bad_address(rep) ==
    IF IsAddress(rep) THEN SelectSeq(rep.rrs, LAMBDA rr : rr.data \in Bogus) ELSE <<>>

check_for_bogus_wildcard(rep) ==
    ~rep.tc /\ rep.rcode = "ok" /\ find_bad_address(rep) # <<>>

\* An address only refuses the reply if the walk along the CNAMEs reaches it.
Rebinds(rep) ==
    /\ IsAddress(rep) /\ rep.rcode # "nx" /\ Len(rep.chain) <= CNAME_CHAIN_LIMIT
    /\ \E rr \in ToSet(rep.rrs) : rr.data \in Private

\* What a reply says that may be kept: nothing if it is truncated, an error or
\* a rebind; NXDOMAIN if it is bogus.
Learnt(rep) ==
    CASE rep.tc \/ rep.rcode = "error" -> <<>>
      [] check_for_bogus_wildcard(rep) ->
           <<Dns(NameAt(rep, Len(rep.chain)), "NX", "none", Head(find_bad_address(rep)).ttl)>>
      [] rep.q.type = "PTR" -> extract_ptr_answers(rep)
      [] Rebinds(rep) -> <<>>
      [] OTHER -> extract_addresses(rep)

\* The records of a reply are one batch, dropped when the client set CD.
commit_staged(c, rep) == IF rep.cd THEN c ELSE Commit(c, Learnt(rep))

\* The entry a bogus address leads to is inserted on its own.
cache_upstream_reply(c, rep) ==
    IF check_for_bogus_wildcard(rep) THEN really_insert(c, Head(Learnt(rep)))
    ELSE commit_staged(c, rep)

\* History: of two statements of the same thing, the one that lasts longer.
Hear(h, batch) ==
    LET all  == h \cup {Clamped(r) : r \in ToSet(batch)}
        same(r, s) == Key(r) = Key(s) /\ r.data = s.data
    IN  {r \in all : r.left > 0 /\ \A s \in all : same(r, s) => s.left <= r.left}

\* A reply may come at any time: module ForwardEngine has the queries in
\* flight, which several clients may have had forwarded at different times.
process_reply(rep) ==
    /\ cache' = cache_upstream_reply(cache, rep)
    /\ heard' = Hear(heard, Learnt(rep))
    /\ response' = {}
    /\ UNCHANGED reloads

-----------------------------------------------------------------------------
(* A query from a client                                                   *)

Rr(name, type, data, ttl, own) ==
    [name |-> name, type |-> type, data |-> data, ttl |-> ttl, own |-> own]

\* A cached record as it is served: a static one with the TTL it was given,
\* an upstream one with what is left of its TTL.
crec_ttl(name, type, data, r) == Rr(name, type, data, r.left, Static(r))

\* Fault: a cached CNAME counts as the answer.
FollowAnswers(w, type, r) ==
    [w EXCEPT !.answers = Append(@, crec_ttl(w.name, "CNAME", r.data, r)),
              !.name = r.data, !.ans = TRUE, !.done = (type = "CNAME")]

\* A cached CNAME is followed; it answers on its own only if it was asked for.
FollowCached(w, type, r) ==
    [w EXCEPT !.answers = Append(@, crec_ttl(w.name, "CNAME", r.data, r)),
              !.name = r.data,
              !.ans = @ \/ type = "CNAME", !.done = (type = "CNAME")]

\* One turn of the loop along CNAMEs, configured ones first.
Hop(w, type) ==
    LET cn == lookup_by_name(w.cache, <<w.name, "CNAME">>)
        nx == lookup_by_name(cn.cache, <<w.name, "NX">>)
    IN  CASE w.done -> w
          [] ~w.done /\ w.name \in DOMAIN Cnames ->
               [w EXCEPT !.answers = Append(@, Rr(w.name, "CNAME", Cnames[w.name], LocalTtl, TRUE)),
                         !.name = Cnames[w.name], !.ans = TRUE, !.done = (type = "CNAME")]
          [] ~w.done /\ w.name \notin DOMAIN Cnames /\ cn.hit # {} ->
               FollowCached([w EXCEPT !.cache = cn.cache], type, CHOOSE r \in cn.hit : TRUE)
          [] OTHER -> [w EXCEPT !.cache = nx.cache, !.done = TRUE,
                                !.nx = nx.hit # {}, !.ans = @ \/ nx.hit # {}]

resolve_cname_chain(c, q) ==
    LET start == [cache |-> c, name |-> q.name, answers |-> <<>>,
                  ans |-> FALSE, nx |-> FALSE, done |-> FALSE]
        after[i \in 0..MaxHops] == IF i = 0 THEN start ELSE Hop(after[i - 1], q.type)
    IN  after[MaxHops]

\* The lookup for the name the CNAMEs lead to, by the type asked for.
Lookup(w, type) ==
    LET addr == {a \in DOMAIN Arpa : Arpa[a] = w.name}
    IN  CASE type = "PTR" /\ addr # {} ->
               lookup_by_addr(w.cache, CHOOSE a \in addr : TRUE)
          [] type \in {"A", "AAAA"} -> lookup_forward(w.cache, w.name, type)
          [] OTHER -> [cache |-> w.cache, hit |-> {}]

\* A reverse answer gives the name of the record found, a forward one its
\* data; a NODATA entry answers with no record.
Served(w, type, r) ==
    CASE type = "PTR" -> <<crec_ttl(w.name, type, r.name, r)>>
      [] r.kind = type -> <<crec_ttl(w.name, type, r.data, r)>>
      [] OTHER -> <<>>

\* The query is answered from the cache, or forwarded.
answer_request(q) ==
    LET w     == resolve_cname_chain(cache, q)
        found == Lookup(w, q.type)
    IN  /\ cache' = found.cache
        /\ IF w.ans \/ found.hit # {}
           THEN response' = {[q |-> q, name |-> w.name,
                              rcode |-> IF w.nx THEN "nx" ELSE "ok",
                              answers |-> w.answers \o
                                FlattenSeq(SetToSeq({Served(w, q.type, r) : r \in found.hit}))]}
           ELSE response' = {}
        /\ UNCHANGED <<reloads, heard>>

-----------------------------------------------------------------------------
(* Hosts files, reloads and time                                           *)

load_hosts_file(c, text, src) ==
    InsertAll(c, FlattenSeq([i \in DOMAIN text |->
                   parse_hosts_line(text[i], Arpa[text[i].addr], LocalTtl, src)]))

\* A file of the hosts directory was written or removed: the records of its
\* last load go, and what it holds now, if anything, is loaded.
inotify_check(f) ==
    /\ \E text \in Texts :
         cache' = load_hosts_file(remove_by_uid(cache, f), text, f)
    /\ response' = {}
    /\ UNCHANGED <<reloads, heard>>

\* A load gives the file a new uid without removing the records of the one
\* before, which no event will then find; a file that cannot be read is left.
Rescanned(c, f, read) ==
    LET past == [i \in DOMAIN c |-> IF c[i].src = f THEN [c[i] EXCEPT !.src = "past"] ELSE c[i]]
    IN  IF read = <<>> THEN c ELSE load_hosts_file(past, read[1], f)

\* What one scan of the directory reads: for each file its text, or nothing.
Scan == [1..Len(Files) -> {<<>>} \cup {<<text>> : text \in Texts}]

set_dynamic_inotify(c, scan) ==
    LET after[i \in 0..Len(Files)] ==
          IF i = 0 THEN c ELSE Rescanned(after[i - 1], Files[i], scan[i])
    IN  after[Len(Files)]

\* A reload first flushes the cache and loads the hosts files ...
reload_hosts ==
    /\ reloads < MaxReloads
    /\ reloads' = reloads + 1
    /\ \E text \in Texts : cache' = load_hosts_file(<<>>, text, "hosts")
    /\ response' = {}
    /\ UNCHANGED heard

\* ... and, the lock having been free in between, rescans the directory.
clear_cache_and_reload ==
    /\ reloads > 0
    /\ reloads' = reloads - 1
    /\ \E scan \in Scan : cache' = set_dynamic_inotify(cache, scan)
    /\ response' = {}
    /\ UNCHANGED heard

Tick ==
    /\ cache' = Age(cache)
    /\ heard' = {[r EXCEPT !.left = @ - 1] : r \in {h \in heard : h.left > 1}}
    /\ response' = {}
    /\ UNCHANGED reloads

-----------------------------------------------------------------------------

\* The startup scan of the hosts directory comes before the first query.
Init ==
    /\ \E scan \in Scan : cache = set_dynamic_inotify(<<>>, scan)
    /\ reloads = 0 /\ response = {} /\ heard = {}

Answer == \E q \in Queries : answer_request(q)
Reply  == \E rep \in Replies : process_reply(rep)
HostsEvent == \E f \in ToSet(Files) : inotify_check(f)

Next == Answer \/ Reply \/ HostsEvent \/ reload_hosts \/ clear_cache_and_reload \/ Tick

Spec == Init /\ [][Next]_vars

-----------------------------------------------------------------------------
(* Properties                                                              *)

Kinds == {"A", "AAAA", "CNAME", "RR", "REV", "NOA", "NOAAAA", "NORR", "NX"}

\* A statement of upstream that still holds says that name has data.
Backed(name, kind, data, ttl) ==
    \E h \in heard : Key(h) = <<name, kind>> /\ h.data = data /\ ttl <= h.left

\* Every record a client is given that no hosts file and no configuration
\* vouches for was said by an upstream reply that has not run out, and is
\* served for no longer than that reply allows; a client told that a name does
\* not exist is told so on the same footing (crec_ttl, record_is_expired,
\* lookup_by_name, lookup_forward, lookup_by_addr).
AnswersBacked ==
    \A p \in response :
      /\ p.rcode = "nx" => Backed(p.name, "NX", "none", 1)
      /\ \A a \in ToSet(p.answers) :
           a.own \/ IF a.type = "PTR"
                    THEN \E addr \in DOMAIN Arpa, kind \in {"A", "AAAA", "REV"} :
                           Arpa[addr] = a.name /\ Backed(a.data, kind, addr, a.ttl)
                    ELSE Backed(a.name, a.type, a.data, a.ttl)

\* A client is never answered with CNAMEs alone on the strength of the cache:
\* the name they lead to has a record of the type asked for, or an upstream
\* reply that still holds said it has none, or a configured CNAME answers.
\* Otherwise the query is forwarded, also when the target has expired, or was
\* pushed out, before the CNAME (resolve_cname_chain, answer_request).
ChainsBottomOut ==
    \A p \in response :
      \/ p.rcode = "nx" \/ p.q.type = "CNAME"
      \/ \E a \in ToSet(p.answers) :
           \/ a.type = p.q.type /\ a.name = p.name
           \/ a.type = "CNAME" /\ a.own
      \/ Backed(p.name, NoData(Kind(p.q.type)), "none", 1)

\* While a hosts file's record is in the cache, no upstream answer takes its
\* place under its name and type, alone or within a batch (prepare_insert).
HostsNotOverridden ==
    [][\A r \in ToSet(cache), s \in ToSet(cache') :
         Static(r) /\ Key(s) = Key(r) => Static(s)]_vars

Batches == [rep \in Replies |-> Learnt(rep)]

\* A reply is stored whole or not at all: when one of its records is new in
\* the cache, so is every record staged after it, unless a static record said
\* the same already; a CNAME is so never kept without the answer that came
\* with it, also when the cache is too small for both (stage_insert,
\* end_insert).
StoredWhole ==
    [][\A rep \in Replies : \A i, j \in DOMAIN Batches[rep] :
         LET r == Batches[rep][i]
             s == Batches[rep][j]
         IN  (/\ i < j
              /\ Clamped(r) \in ToSet(cache') \ ToSet(cache)
              /\ Peek(cache', Key(s)) = {}
              /\ prepare_insert(cache, s) # "same") => ~process_reply(rep)]_vars

\* Both: committing a batch takes no hosts record's place and leaves no part
\* of the batch behind (stage_insert, prepare_insert, end_insert).
CommitsClean == HostsNotOverridden /\ StoredWhole
=============================================================================

------------------------------- MODULE Dnssec -------------------------------
(***************************************************************************)
(* DNSSEC validation (dnssec.rs, crypto.rs): signatures over RRsets, the   *)
(* chain of trust from a DS record to the keys of a zone, proofs that a    *)
(* name or a type does not exist, and the trust store they fill.           *)
(*                                                                         *)
(* A name is the sequence of its labels, leaf first; labels are numbers in *)
(* canonical order, Wild being "*".  A record is [name, type, ttl, data],  *)
(* all of one class.  A signature is what it is made of: the key and the   *)
(* bytes it is over, so that it verifies exactly when both are the same.   *)
(* Work limits are counters handed from call to call.                      *)
(***************************************************************************)
EXTENDS Integers, Sequences, FiniteSets, SequencesExt

CONSTANTS
    None,               \* Option::None
    hash_name(_, _),    \* the NSEC3 hash of a name under (salt, iterations)
    NSEC3_ITERS         \* the limit on NSEC3 iterations

T_A == 1
T_NS == 2
T_CNAME == 5
T_SOA == 6
T_DNAME == 39
T_DS == 43
T_RRSIG == 46
T_NSEC == 47
T_DNSKEY == 48
T_NSEC3 == 50
T_ANY == 255
Wild == 0

NOERROR == 0
SERVFAIL == 2
NXDOMAIN == 3

FAIL_UPSTREAM == "upstream"
FAIL_NONSEC == "nonsec"
FAIL_ITERS == "iters"
FAIL_NOKEY == "nokey"
FAIL_NOSIG == "nosig"
FAIL_NODSSUP == "nodssup"
FAIL_NOZONE == "nozone"
FAIL_INDET == "indet"
FAIL_WORK == "work"

Secure == [code |-> "secure", fail |-> {}, name |-> None]
Insecure == [code |-> "insecure", fail |-> {}, name |-> None]
Bogus(fail) == [code |-> "bogus", fail |-> fail, name |-> None]
NeedKey(name) == [code |-> "needkey", fail |-> {}, name |-> name]
NeedDs(name) == [code |-> "needds", fail |-> {}, name |-> name]
Abandoned == [code |-> "abandoned", fail |-> {}, name |-> None]

----------------------------------------------------------------------------
(* Names, times and counters *)

count_labels(name) == Len(name)

\* Labels from the root on.
\* Names from the last label back.
CompareFrom(x, y, diff) ==
    IF diff = {} THEN IF Len(x) = Len(y) THEN 0 ELSE IF Len(x) < Len(y) THEN -1 ELSE 1
    ELSE LET k == CHOOSE i \in diff : \A j \in diff : i <= j IN IF x[k] < y[k] THEN -1 ELSE 1
CompareLabels(x, y) == CompareFrom(x, y, {i \in 1 .. Len(x) : i <= Len(y) /\ x[i] # y[i]})
hostname_cmp(a, b) == CompareLabels(Reverse(a), Reverse(b))

issubdomain(name, of) == IsSuffix(of, name)

\* From the root ("") to the name.
dns_suffixes(name) == [i \in 1 .. Len(name) + 1 |-> SubSeq(name, Len(name) + 2 - i, Len(name))]

\* The owner a signature of fewer labels was made for.
WildOwner(name, labels) ==
    IF labels < count_labels(name) THEN <<Wild>> \o SubSeq(name, Len(name) - labels + 1, Len(name)) ELSE name

\* RFC 1982 arithmetic modulo 2 * half (2^32).
serial_compare(s1, s2, half) ==
    LET ahead == (s2 - s1) % (2 * half)
    IN  CASE ahead = 0 -> "equal" [] ahead \in 1 .. half - 1 -> "less" [] ahead = half -> "undefined"
          [] OTHER -> "greater"
check_signature_time(inception, expiration, now, half) ==
    (now - inception) % (2 * half) < half /\ (expiration - now) % (2 * half) < half

setup_timestamp(mtime, now) ==
    CASE mtime = None -> "not configured" [] mtime # None /\ mtime <= now -> "sane" [] OTHER -> "not yet"
is_check_date(file, past, unchecked) == IF file THEN past ELSE ~unchecked

ds_digest_supported(t) == t \in {1, 2, 4}
algo_supported(a) == a \in {5, 7, 8, 10, 13, 14, 15}
\* Fewer algorithms can be verified than count as supported.
Verifiable(a) == a \in {5, 8, 10, 13, 14, 15}

\* A bitmap is a sequence of blocks [window, types]; the first block of the
\* window decides.
type_in_bitmap(bitmap, type) ==
    LET k == SelectInSeq(bitmap, LAMBDA w : w.window = type \div 256)
    IN  k # 0 /\ type % 256 \in bitmap[k].types

----------------------------------------------------------------------------
(* RRsets and their signatures *)

\* Signatures count when their signer is at or above the name.
explore_rrset(records, name, type) ==
    [rrset |-> SelectSeq(records, LAMBDA r : r.name = name /\ r.type = type),
     sigs |-> SelectSeq(records, LAMBDA r : /\ r.name = name /\ r.type = T_RRSIG /\ type # T_RRSIG
                                            /\ r.data.covers = type /\ issubdomain(name, r.data.signer))]

\* The canonical RRset: duplicates removed, order immaterial.
sort_rrset(rrset) == {rrset[i].data : i \in DOMAIN rrset}
rr_ttl(rrset) == CHOOSE t \in {rrset[i].ttl : i \in DOMAIN rrset} : \A i \in DOMAIN rrset : t <= rrset[i].ttl

SignedData(sig, owner, type, rrset) ==
    [algo |-> sig.algo, labels |-> sig.labels, orig_ttl |-> sig.orig_ttl, expiry |-> sig.expiry,
     inception |-> sig.inception, tag |-> sig.tag, signer |-> sig.signer,
     owner |-> owner, type |-> type, set |-> sort_rrset(rrset)]
verify_sig(signed, signature, key) == signature = [key |-> key, over |-> signed]

SmallestOf(S) == CHOOSE x \in S : \A y \in S : x <= y

\* Fault: a signature is good whatever its validity period.
AnyTime(sig, name, now) == sig.labels <= count_labels(name) /\ Verifiable(sig.algo)

Usable(sig, name, now) ==
    /\ sig.inception <= now /\ now <= sig.expiry
    /\ sig.labels <= count_labels(name)
    /\ Verifiable(sig.algo)

\* The first signature that verifies, before the counter runs out.
GoodSigs(rrset, sigs, name, type, now, key, tried) ==
    {i \in tried : LET s == sigs[i].data
                  IN  /\ Usable(s, name, now)
                      /\ verify_sig(SignedData(s, WildOwner(name, s.labels), type, rrset), s.sig, key.id)}
Verified(rrset, sig, k, now, counter) ==
    [code |-> "secure", counter |-> counter - k, tag |-> sig.tag,
     ttl |-> SmallestOf({rr_ttl(rrset), sig.orig_ttl, sig.expiry - now})]
VerifiedBy(rrset, sigs, good, now, counter, tried) ==
    IF good = {} THEN [code |-> "bogus", counter |-> counter - Cardinality(tried)]
    ELSE Verified(rrset, sigs[SmallestOf(good)].data, SmallestOf(good), now, counter)
ValidateTrying(rrset, sigs, name, type, now, key, counter, tried) ==
    VerifiedBy(rrset, sigs, GoodSigs(rrset, sigs, name, type, now, key, tried), now, counter, tried)
validate_rrset(rrset, sigs, name, type, now, key, counter) ==
    IF sigs = <<>> THEN [code |-> "nosigs", counter |-> counter]
    ELSE ValidateTrying(rrset, sigs, name, type, now, key, counter,
                        1 .. (IF counter < Len(sigs) THEN counter ELSE Len(sigs)))

----------------------------------------------------------------------------
(* The trust store *)

EmptyStore == [ds |-> <<>>, dnskey |-> <<>>]   \* maps of name to state
Put(map, name, value) == [n \in DOMAIN map \cup {name} |-> IF n = name THEN value ELSE map[n]]
find_ds(store, name) == IF name \in DOMAIN store.ds THEN store.ds[name] ELSE None
find_dnskeys(store, name) == IF name \in DOMAIN store.dnskey THEN store.dnskey[name] ELSE <<>>
Positive(entries) == [kind |-> "positive", entries |-> entries]
NegInsecure == [kind |-> "insecure", entries |-> <<>>]
NegNotZoneCut == [kind |-> "nocut", entries |-> <<>>]
insert_ds(store, name, state) == [store EXCEPT !.ds = Put(@, name, state)]
insert_trust_anchor(store, name, ds) ==
    LET old == find_ds(store, name)
    IN  insert_ds(store, name, Positive(IF old = None THEN <<ds>> ELSE Append(old.entries, ds)))
insert_dnskeys(store, name, keys) ==
    [store EXCEPT !.dnskey = Put(@, name, find_dnskeys(store, name) \o keys)]

ds_entry_supported(ds) == ds_digest_supported(ds.digest_type) /\ algo_supported(ds.algo)

\* From the nearest suffix with a DS entry down to the name.
UnsignedBy(state) ==
    \/ state.kind = "insecure"
    \/ state.kind = "positive" /\ ~\E k \in DOMAIN state.entries : ds_entry_supported(state.entries[k])
Stops(state) == IF state = None THEN TRUE ELSE UnsignedBy(state)
StatusAt(suffix, store) == IF find_ds(store, suffix) = None THEN NeedDs(suffix) ELSE Insecure
StatusFrom(suffixes, store, stops) == IF stops = {} THEN Secure ELSE StatusAt(suffixes[SmallestOf(stops)], store)
WalkDown(suffixes, store, known) ==
    LET start == IF known = {} THEN 1 ELSE CHOOSE i \in known : \A j \in known : i >= j
    IN  StatusFrom(suffixes, store, {i \in start .. Len(suffixes) : Stops(find_ds(store, suffixes[i]))})
StatusAlong(suffixes, store) ==
    WalkDown(suffixes, store, {i \in DOMAIN suffixes : find_ds(store, suffixes[i]) # None})
zone_status(name, store) == StatusAlong(dns_suffixes(name), store)

\* The digest of a DS record is what it is over: the owner and the key.
ds_matches_dnskey(ds, key, owner) ==
    ds_digest_supported(ds.digest_type) /\ ds.digest = [owner |-> owner, key |-> key]

\* The keys and DS entries to try, in order.
Pairs(keys, entries) ==
    FlattenSeq([i \in DOMAIN keys |-> [j \in DOMAIN entries |-> <<keys[i].data, entries[j]>>]])
ZoneKey(key) == key.protocol = 3 /\ key.zone
KeyPairs(keys, entries) ==
    SelectSeq(Pairs(keys, entries), LAMBDA p : /\ ZoneKey(p[1]) /\ ds_digest_supported(p[2].digest_type)
                                               /\ p[2].algo = p[1].algo /\ p[2].tag = p[1].tag)
RECURSIVE TryPairs(_, _, _, _, _)
AfterPair(x, name, now, pairs, r) == IF r.code = "secure" THEN r ELSE TryPairs(x, name, now, pairs, r.counter)
TryPairs(x, name, now, pairs, c) ==
    IF pairs = <<>> THEN [code |-> "none", counter |-> c]
    ELSE IF c = 0 THEN [code |-> "abandoned", counter |-> 0]
    ELSE IF ~ds_matches_dnskey(pairs[1][2], pairs[1][1], name) THEN TryPairs(x, name, now, Tail(pairs), c - 1)
    ELSE AfterPair(x, name, now, Tail(pairs), validate_rrset(x.rrset, x.sigs, name, T_DNSKEY, now, pairs[1][1], c - 1))
KeptKeys(rrset) == SelectSeq([i \in DOMAIN rrset |-> rrset[i].data], LAMBDA k : k.protocol = 3)
WhyNoKey(rrset, entries) ==
    {FAIL_NOKEY} \cup (IF ~\E i \in DOMAIN rrset : ZoneKey(rrset[i].data) THEN {FAIL_NOZONE, FAIL_NODSSUP}
                       ELSE IF \E k \in DOMAIN entries : ds_digest_supported(entries[k].digest_type)
                       THEN {} ELSE {FAIL_NODSSUP})
Outcome(status, store, counter) == [status |-> status, store |-> store, counter |-> counter]
KeysTried(x, name, store, entries, t) ==
    CASE t.code = "secure" -> Outcome(Secure, insert_dnskeys(store, name, KeptKeys(x.rrset)), t.counter)
      [] t.code = "abandoned" -> Outcome(Abandoned, store, 0)
      [] OTHER -> Outcome(Bogus(WhyNoKey(x.rrset, entries)), store, t.counter)
ValidateKeys(x, name, now, store, state, counter) ==
    IF x.rrset = <<>> THEN Outcome(Bogus({FAIL_NOKEY}), store, counter)
    ELSE IF x.sigs = <<>> THEN Outcome(Bogus({FAIL_NOSIG}), store, counter)
    ELSE IF state = None THEN Outcome(NeedDs(name), store, counter)
    ELSE KeysTried(x, name, store, state.entries,
                   TryPairs(x, name, now, KeyPairs(x.rrset, state.entries), counter))
dnssec_validate_by_ds(records, name, now, store, counter) ==
    ValidateKeys(explore_rrset(records, name, T_DNSKEY), name, now, store, find_ds(store, name), counter)

----------------------------------------------------------------------------
(* Proofs of non-existence.  A proof is [ok, fail, nons, counter]; nons says *)
(* that no NS record was shown to exist at the name, None that the caller's *)
(* value stands.                                                            *)

Proof(ok, fail, nons, counter) == [ok |-> ok, fail |-> fail, nons |-> nons, counter |-> counter]

\* What the record at the name itself says of the type.
Denies(bitmap, type, apex) ==
    /\ ~type_in_bitmap(bitmap, T_CNAME)
    /\ ~(~apex /\ type = T_DS /\ type_in_bitmap(bitmap, T_SOA))
    /\ ~type_in_bitmap(bitmap, type)

\* A record covers what lies between its owner and the next one, the last
\* record of a zone what lies beyond either end.
Covers(owner, next, x, cmp(_, _)) ==
    IF cmp(owner, x) < 0 THEN cmp(next, x) >= 0 \/ cmp(owner, next) >= 0
    ELSE cmp(owner, next) >= 0 /\ cmp(next, x) >= 0

NsecOwner(n) == WildOwner(n.owner, n.sig_labels)
AtDname(n, name) == type_in_bitmap(n.bitmap, T_DNAME) /\ issubdomain(name, NsecOwner(n))
Decides(n, name) ==
    AtDname(n, name) \/ NsecOwner(n) = name \/ Covers(NsecOwner(n), n.next, name, hostname_cmp)
ProvenBy(n, name, type, counter) ==
    CASE AtDname(n, name) -> Proof(FALSE, FAIL_NONSEC, TRUE, counter)
      [] ~AtDname(n, name) /\ NsecOwner(n) = name ->
            IF type \in {T_NSEC, T_RRSIG} THEN Proof(TRUE, None, TRUE, counter)
            ELSE Proof(Denies(n.bitmap, type, n.owner = <<>>), FAIL_NONSEC, ~type_in_bitmap(n.bitmap, T_NS), counter)
      [] OTHER -> Proof(TRUE, None, TRUE, counter)
ProvenByFirst(nsecs, decisive, name, type, counter) ==
    IF decisive = {} THEN Proof(FALSE, FAIL_NONSEC, TRUE, counter)
    ELSE ProvenBy(nsecs[SmallestOf(decisive)], name, type, counter)
prove_non_existence_nsec(nsecs, name, type, counter) ==
    ProvenByFirst(nsecs, {i \in DOMAIN nsecs : Decides(nsecs[i], name)}, name, type, counter)

\* [ok, nons] of the first record that matches or covers the digest.
CoverageBy(n, digest, type, nons, labels) ==
    IF n.owner = digest
    THEN [ok |-> Denies(n.bitmap, type, labels = 0), nons |-> nons /\ ~type_in_bitmap(n.bitmap, T_NS)]
    ELSE [ok |-> TRUE, nons |-> nons /\ n.flags = 0]
CoverageFrom(decisive, nsec3s, digest, type, nons, labels) ==
    IF decisive = {} THEN [ok |-> FALSE, nons |-> nons]
    ELSE CoverageBy(nsec3s[SmallestOf(decisive)], digest, type, nons, labels)
check_nsec3_coverage(digest, type, nsec3s, nons, labels) ==
    LET cmp(a, b) == a - b
    IN  CoverageFrom({i \in DOMAIN nsec3s : \/ nsec3s[i].owner = digest
                                            \/ Covers(nsec3s[i].owner, nsec3s[i].next, digest, cmp)},
                     nsec3s, digest, type, nons, labels)

\* How many labels to strip to reach a name with a record of its own.
NsecHash(p, n) == hash_name(n, <<p.salt, p.iterations>>)
ClosestEncloser(pruned, name, p) ==
    LET found == {k \in 0 .. (IF name = <<>> THEN 0 ELSE Len(name) - 1) :
                     \E i \in DOMAIN pruned : pruned[i].owner = NsecHash(p, SubSeq(name, k + 1, Len(name)))}
    IN  IF found = {} THEN None ELSE SmallestOf(found)

Hashed(p, n, type, pruned) == check_nsec3_coverage(NsecHash(p, n), type, pruned, FALSE, 1).ok
\* The proof that the next closer name and the wildcard do not exist; spent
\* is the work done so far.
ProveCloser(p, pruned, closer, type, nons, counter, spent) ==
    IF counter = spent THEN Proof(FALSE, FAIL_WORK, nons, 0)
    ELSE IF ~Hashed(p, closer, type, pruned) \/ Len(closer) < 2
    THEN Proof(FALSE, FAIL_NONSEC, nons, counter - spent - 1)
    ELSE IF counter = spent + 1 THEN Proof(FALSE, FAIL_WORK, nons, 0)
    ELSE Proof(Hashed(p, <<Wild>> \o Tail(closer), type, pruned), FAIL_NONSEC, nons, counter - spent - 2)
ProveBelow(p, pruned, name, type, nons, up, counter, spent) ==
    IF counter < spent THEN Proof(FALSE, FAIL_WORK, nons, 0)
    ELSE IF up \in {None, 0} THEN Proof(FALSE, FAIL_NONSEC, nons, counter - spent)
    ELSE ProveCloser(p, pruned, SubSeq(name, up, Len(name)), type, nons, counter, spent)
ProveFrom(p, pruned, name, type, nons, up, counter) ==
    ProveBelow(p, pruned, name, type, nons, up, counter,
               1 + IF up # None THEN up + 1 ELSE IF name = <<>> THEN 1 ELSE Len(name))
ProveDirect(p, pruned, name, type, direct, counter) ==
    IF direct.ok THEN Proof(TRUE, None, direct.nons, counter - 1)
    ELSE ProveFrom(p, pruned, name, type, direct.nons, ClosestEncloser(pruned, name, p), counter)
ProvePruned(p, pruned, name, type, counter) ==
    ProveDirect(p, pruned, name, type,
                check_nsec3_coverage(NsecHash(p, name), type, pruned, TRUE, count_labels(name)), counter)
ProveLike(p, raw, name, type, counter) ==
    IF p.iterations > NSEC3_ITERS THEN Proof(FALSE, FAIL_ITERS, TRUE, counter)
    ELSE IF counter = 0 THEN Proof(FALSE, FAIL_WORK, TRUE, 0)
    ELSE ProvePruned(p, SelectSeq(raw, LAMBDA r : /\ r.algo = p.algo /\ r.flags \in {0, 1}
                                                  /\ r.iterations = p.iterations /\ r.salt = p.salt),
                     name, type, counter)
prove_non_existence_nsec3(raw, name, type, counter) ==
    LET k == SelectInSeq(raw, LAMBDA r : r.algo = 1)
    IN  IF k = 0 THEN Proof(FALSE, FAIL_NONSEC, TRUE, counter) ELSE ProveLike(raw[k], raw, name, type, counter)

\* The owner of an NSEC3 record is the hash in its first label.
base32_decode(name) == name[1]

SigLabels(authority, rr) ==
    {authority[i].data.labels : i \in {k \in DOMAIN authority :
        authority[k].type = T_RRSIG /\ authority[k].name = rr.name /\ authority[k].data.covers = T_NSEC}}
ParsedNsec(authority, rr) ==
    [owner |-> rr.name, next |-> rr.data.next, bitmap |-> rr.data.bitmap,
     sig_labels |-> CHOOSE l \in SigLabels(authority, rr) : TRUE]
ParsedNsec3(rr) ==
    [owner |-> base32_decode(rr.name), next |-> rr.data.next, bitmap |-> rr.data.bitmap, algo |-> rr.data.algo,
     flags |-> rr.data.flags, iterations |-> rr.data.iterations, salt |-> rr.data.salt]
ProveWith(authority, nsecs, nsec3s, name, type, counter) ==
    CASE (nsecs = <<>>) = (nsec3s = <<>>) -> Proof(FALSE, FAIL_NONSEC, None, counter)
      [] nsecs # <<>> /\ nsec3s = <<>> ->
            IF \E i \in DOMAIN nsecs : Cardinality(SigLabels(authority, nsecs[i])) # 1
            THEN Proof(FALSE, FAIL_NONSEC, None, counter)
            ELSE prove_non_existence_nsec([i \in DOMAIN nsecs |-> ParsedNsec(authority, nsecs[i])], name, type, counter)
      [] OTHER -> prove_non_existence_nsec3([i \in DOMAIN nsec3s |-> ParsedNsec3(nsec3s[i])], name, type, counter)
prove_non_existence(authority, name, type, counter) ==
    ProveWith(authority, SelectSeq(authority, LAMBDA r : r.type = T_NSEC),
              SelectSeq(authority, LAMBDA r : r.type = T_NSEC3), name, type, counter)

----------------------------------------------------------------------------
(* Replies *)

\* The end of the alias chain that starts at the question, and whether it is
\* answered there; a chain that comes back on itself is not.
HasRr(answer, n, t) == \E i \in DOMAIN answer : answer[i].name = n /\ answer[i].type = t
AliasOf(answer, n) == answer[SelectInSeq(answer, LAMBDA r : r.name = n /\ r.type = T_CNAME)].data.target
RECURSIVE ChaseFrom(_, _, _, _)
ChaseFrom(answer, at, seen, qtype) ==
    IF at \in seen \/ HasRr(answer, at, qtype) \/ ~HasRr(answer, at, T_CNAME)
    THEN [target |-> at, answered |-> at \notin seen /\ HasRr(answer, at, qtype)]
    ELSE ChaseFrom(answer, AliasOf(answer, at), seen \cup {at}, qtype)
Chased(answer, qname, qtype) ==
    IF qtype \in {T_CNAME, T_ANY}
    THEN [target |-> qname,
          answered |-> HasRr(answer, qname, qtype) \/ (qtype = T_ANY /\ \E r \in ToSet(answer) : r.name = qname)]
    ELSE ChaseFrom(answer, qname, {}, qtype)

RECURSIVE TryKeys(_, _, _, _, _)
AfterKey(x, rr, now, keys, r) == IF r.code = "secure" THEN r ELSE TryKeys(x, rr, now, keys, r.counter)
TryKeys(x, rr, now, keys, c) ==
    IF keys = <<>> THEN [code |-> "bogus", counter |-> c]
    ELSE AfterKey(x, rr, now, Tail(keys), validate_rrset(x.rrset, x.sigs, rr.name, rr.type, now, keys[1], c))

RrsetVerdict(status, counter) == [status |-> status, counter |-> counter]
KeyVerdict(t) == RrsetVerdict(IF t.code = "secure" THEN None ELSE Bogus({FAIL_NOKEY}), t.counter)
SignerStatus(x, rr, zone, zs, keys, now, counter) ==
    IF zs # Secure THEN RrsetVerdict(zs, counter)
    ELSE IF keys = <<>> THEN RrsetVerdict(NeedKey(zone), counter)
    ELSE KeyVerdict(TryKeys(x, rr, now, keys, counter))
SignedStatus(x, rr, signers, now, store, counter) ==
    LET zone == IF signers = {} THEN rr.name ELSE CHOOSE s \in signers : TRUE
    IN  IF Cardinality(signers) > 1 THEN RrsetVerdict(Bogus({FAIL_NOSIG}), counter)
        ELSE SignerStatus(x, rr, zone, zone_status(zone, store), find_dnskeys(store, zone), now, counter)
ExploredStatus(x, rr, in_answer, now, store, counter, check_unsigned, ds_mode) ==
    IF x.sigs = <<>> /\ rr.type \in {T_NSEC, T_NSEC3} THEN RrsetVerdict(Bogus({FAIL_NOSIG}), counter)
    ELSE IF x.sigs = <<>> /\ ds_mode /\ ~in_answer THEN RrsetVerdict(None, counter)
    ELSE IF x.sigs = <<>> /\ (~check_unsigned \/ ~in_answer) THEN RrsetVerdict(Insecure, counter)
    ELSE SignedStatus(x, rr, {x.sigs[i].data.signer : i \in DOMAIN x.sigs}, now, store, counter)

\* The verdict on one RRset: "go on", "insecure" (go on, but not secure) or
\* the status to return.
RrsetStatus(rr, answer, combined, now, store, counter, check_unsigned, ds_mode) ==
    ExploredStatus(explore_rrset(combined, rr.name, rr.type), rr,
                   \E a \in ToSet(answer) : a.name = rr.name /\ a.type = rr.type,
                   now, store, counter, check_unsigned, ds_mode)

\* Every RRset but the signatures is looked at once, answer first.
FirstIndices(combined) ==
    SelectSeq([i \in DOMAIN combined |-> i],
              LAMBDA i : /\ combined[i].type # T_RRSIG
                         /\ \A k \in 1 .. i - 1 : <<combined[k].name, combined[k].type>>
                                                 # <<combined[i].name, combined[i].type>>)
\* flag: Secure or Insecure; over: a status that ends the walk
WalkStep(w, r) ==
    [flag |-> IF r.status = Insecure THEN Insecure ELSE w.flag,
     over |-> IF r.status \in {None, Insecure} THEN None ELSE r.status,
     counter |-> r.counter]
Walked(answer, combined, now, store, counter, check_unsigned, ds_mode) ==
    FoldLeft(LAMBDA w, i : IF w.over # None THEN w
                           ELSE WalkStep(w, RrsetStatus(combined[i], answer, combined, now, store, w.counter,
                                                        check_unsigned, ds_mode)),
             [flag |-> Secure, over |-> None, counter |-> counter], FirstIndices(combined))

ReplyVerdict(status, nons, counter) == [status |-> status, nons |-> nons, counter |-> counter]
Unproven(proof, nons, zs) ==
    ReplyVerdict(IF proof.fail \in {FAIL_NONSEC, FAIL_ITERS} /\ zs # Secure THEN zs ELSE Bogus({proof.fail}),
                 nons, proof.counter)
AfterProof(proof, nons, flag, target, store) ==
    LET proven == IF proof.nons = None THEN nons ELSE proof.nons
    IN  IF proof.ok THEN ReplyVerdict(flag, proven, proof.counter)
        ELSE Unproven(proof, proven, zone_status(target, store))
AfterChase(c, w, authority, qtype, store, nons) ==
    IF c.answered THEN ReplyVerdict(w.flag, nons, w.counter)
    ELSE AfterProof(prove_non_existence(authority, c.target, qtype, w.counter), nons, w.flag, c.target, store)
AfterWalk(w, answer, authority, qname, qtype, store, nons) ==
    IF w.over # None THEN ReplyVerdict(w.over, nons, w.counter)
    ELSE AfterChase(Chased(answer, qname, qtype), w, authority, qtype, store, nons)

\* nons is None unless the reply is to a DS query.
dnssec_validate_reply(answer, authority, qname, qtype, rcode, now, store, counter, check_unsigned, nons) ==
    CASE rcode = SERVFAIL -> ReplyVerdict(Bogus({FAIL_UPSTREAM}), nons, counter)
      [] rcode \notin {SERVFAIL, NXDOMAIN, NOERROR} \/ (rcode # SERVFAIL /\ qtype = T_RRSIG) ->
            ReplyVerdict(Insecure, nons, counter)
      [] OTHER -> AfterWalk(Walked(answer, answer \o authority, now, store, counter, check_unsigned, nons # None),
                            answer, authority, qname, qtype, store, nons)

DsSettled(dss, usable, r, name, rcode, store) ==
    LET out(v, s) == Outcome(v, s, r.counter)
    IN  IF r.status = Insecure /\ dss # <<>> THEN out(Bogus({FAIL_INDET}), store)
        ELSE IF r.status = NeedKey(name) THEN out(Bogus({}), store)
        ELSE IF r.status \notin {Secure, Insecure} THEN out(r.status, store)
        ELSE IF rcode # SERVFAIL /\ usable # <<>> THEN out(Secure, insert_ds(store, name, Positive(usable)))
        ELSE out(Secure, insert_ds(store, name, IF rcode = SERVFAIL \/ r.nons THEN NegNotZoneCut ELSE NegInsecure))
DsAfter(dss, r, name, rcode, store) ==
    DsSettled(dss, SelectSeq([i \in DOMAIN dss |-> dss[i].data], LAMBDA d : ds_entry_supported(d)), r, name, rcode, store)
dnssec_validate_ds(answer, authority, name, rcode, now, store, counter) ==
    DsAfter(SelectSeq(answer, LAMBDA r : r.type = T_DS),
            IF rcode = SERVFAIL THEN ReplyVerdict(Secure, FALSE, counter)
            ELSE dnssec_validate_reply(answer, authority, name, T_DS, rcode, now, store, counter, FALSE, FALSE),
            name, rcode, store)

=============================================================================

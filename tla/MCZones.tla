------------------------------- MODULE MCZones -------------------------------
(***************************************************************************)
(* The validator against a small world of zones: a signed root, a signed   *)
(* zone below it and an unsigned one.  A behaviour picks the replies the   *)
(* validator is given, each of them what an honest server says with a      *)
(* record lost or with signatures that have expired, and computes the      *)
(* verdicts and the trust store the code ends with.  Other behaviours ask  *)
(* the authoritative side one question and for a zone transfer.            *)
(***************************************************************************)
EXTENDS Dnssec, TLC

CONSTANT MaxAlias
Az == INSTANCE AuthZone

VARIABLES job, answer, done
vars == <<job, answer, done>>

(* --- the world *)
Root == <<>>
S == <<2>>
U == <<4>>
Zones == {Root, S, U}
Data == [z \in Zones |->
            CASE z = Root -> (Root :> {T_SOA, T_NS, T_DNSKEY}) @@ (S :> {T_NS, T_DS}) @@ (U :> {T_NS})
              [] z = S -> (S :> {T_SOA, T_NS, T_DNSKEY}) @@ (<<1, 2>> :> {T_A}) @@ (<<5, 2>> :> {T_CNAME})
                          @@ (<<Wild, 6, 2>> :> {T_A})
              [] z = U -> (U :> {T_SOA, T_NS}) @@ (<<1, 4>> :> {T_A})]
Owners(z) == DOMAIN Data[z]
Exists(z, n) == \E o \in Owners(z) : issubdomain(o, n)
Key(z, n) == [zone |-> TRUE, protocol |-> 3, algo |-> 8, tag |-> 7, id |-> <<z, n>>]
RData(owner, type) ==
    CASE type = T_CNAME -> <<[target |-> <<1, 2>>]>>
      [] type = T_DNSKEY -> <<Key(owner, "ksk"), Key(owner, "zsk")>>
      [] type = T_DS -> <<[tag |-> 7, algo |-> 8, digest_type |-> 3, digest |-> 0],
                          [tag |-> 7, algo |-> 8, digest_type |-> 2, digest |-> [owner |-> owner, key |-> Key(owner, "ksk")]]>>
      [] OTHER -> <<[of |-> owner, type |-> type]>>
Rr(name, type, data) == [name |-> name, type |-> type, ttl |-> 6, data |-> data]
Expiry(late) == IF late THEN 3 ELSE 9
Signature(base, z, owner, type, rrset) ==
    Rr(rrset[1].name, T_RRSIG,
       [base EXCEPT !.sig = [key |-> <<z, IF type = T_DNSKEY THEN "ksk" ELSE "zsk">>,
                             over |-> SignedData(base, owner, type, rrset)]])
Signed(z, owner, type, rrset, late) ==
    IF z = U THEN <<>>
    ELSE <<Signature([covers |-> type, algo |-> 8, labels |-> Len(SelectSeq(owner, LAMBDA l : l # Wild)), orig_ttl |-> 6,
                      expiry |-> Expiry(late), inception |-> 1, tag |-> 7, signer |-> z, sig |-> None],
                     z, owner, type, rrset)>>
WithSignature(z, owner, type, rrs, late) == rrs \o Signed(z, owner, type, rrs, late)
RrSet(z, owner, type, as, late) ==
    WithSignature(z, owner, type, [i \in DOMAIN RData(owner, type) |-> Rr(as, type, RData(owner, type)[i])], late)

\* Denials: the record that matches or precedes a name, by name or by hash.
Bitmap(z, n) == <<[window |-> 0, types |-> (IF n \in Owners(z) THEN Data[z][n] ELSE {}) \cup {T_RRSIG}]>>
Hash(n) == hash_name(n, <<1, 2>>)
Below(x, y, by) == IF by = "nsec" THEN hostname_cmp(x, y) < 0 ELSE Hash(x) < Hash(y)
Points(z, by) ==
    IF by = "nsec" THEN Owners(z)
    ELSE {m \in UNION {ToSet(dns_suffixes(o)) : o \in Owners(z)} : issubdomain(m, z)}
Most(P, by) == CHOOSE x \in P : \A y \in P : ~Below(x, y, by)
Least(P, by) == CHOOSE x \in P : \A y \in P : ~Below(y, x, by)
MostOf(before, points, by) == Most(IF before = {} THEN points ELSE before, by)
LeastOf(after, points, by) == Least(IF after = {} THEN points ELSE after, by)
SignedDenial(z, rr, late) == <<rr>> \o Signed(z, rr.name, rr.type, <<rr>>, late)
DenialBetween(z, at, next, by, late) ==
    SignedDenial(z, IF by = "nsec" THEN Rr(at, T_NSEC, [next |-> next, bitmap |-> Bitmap(z, at)])
                    ELSE Rr(<<Hash(at)>> \o z, T_NSEC3, [next |-> Hash(next), bitmap |-> Bitmap(z, at), algo |-> 1,
                                                         flags |-> 0, iterations |-> 2, salt |-> 1]), late)
DenialFrom(z, at, points, by, late) ==
    DenialBetween(z, at, LeastOf({x \in points : Below(at, x, by)}, points, by), by, late)
DenialIn(z, n, points, by, late) ==
    DenialFrom(z, MostOf({x \in points : ~Below(n, x, by)}, points, by), points, by, late)
Denial(z, n, by, late) == IF z = U THEN <<>> ELSE DenialIn(z, n, Points(z, by), by, late)

\* What the server of the name's zone says (the parent's, for a DS record).
ZoneOf(q) ==
    LET above == {z \in Zones : issubdomain(q.name, z) /\ ~(q.type = T_DS /\ q.name = z /\ z # Root)}
    IN  CHOOSE z \in above : \A y \in above : Len(y) <= Len(z)
By(z, kind) == IF z = S THEN kind ELSE "nsec"
Says(rcode, ans, auth) == [rcode |-> rcode, answer |-> ans, authority |-> auth]
Encloser(z, n) == CHOOSE k \in 0 .. Len(n) :
    Exists(z, SubSeq(n, k + 1, Len(n))) /\ \A j \in 0 .. k - 1 : ~Exists(z, SubSeq(n, j + 1, Len(n)))
Denials(z, ns, by, late) == FlattenSeq([i \in DOMAIN ns |-> Denial(z, ns[i], by, late)])
Absent(z, q, encloser, closer, wild, by, late) ==
    IF wild \in Owners(z) /\ q.type \in Data[z][wild]
    THEN Says(NOERROR, RrSet(z, wild, q.type, q.name, late), Denials(z, <<closer>>, by, late))
    ELSE Says(NXDOMAIN, <<>>, RrSet(z, z, T_SOA, z, late)
                              \o Denials(z, (IF by = "nsec" THEN <<>> ELSE <<encloser>>) \o <<closer, wild>>, by, late))
AbsentBelow(z, q, up, by, late) ==
    Absent(z, q, SubSeq(q.name, up + 1, Len(q.name)), SubSeq(q.name, up, Len(q.name)),
           <<Wild>> \o SubSeq(q.name, up + 1, Len(q.name)), by, late)
SaidBy(z, q, by, late) ==
    IF q.name \in Owners(z) /\ q.type \in Data[z][q.name]
    THEN Says(NOERROR, RrSet(z, q.name, q.type, q.name, late), <<>>)
    ELSE IF q.name \in Owners(z) /\ T_CNAME \in Data[z][q.name]
    THEN Says(NOERROR, RrSet(z, q.name, T_CNAME, q.name, late) \o RrSet(z, <<1, 2>>, T_A, <<1, 2>>, late), <<>>)
    ELSE IF Exists(z, q.name)
    THEN Says(NOERROR, <<>>, RrSet(z, z, T_SOA, z, late) \o Denials(z, <<q.name>>, by, late))
    ELSE AbsentBelow(z, q, Encloser(z, q.name), by, late)
HonestIn(z, q, kind, late) == SaidBy(z, q, By(z, kind), late)
Honest(q, kind, late) == HonestIn(ZoneOf(q), q, kind, late)

(* --- what happens to a reply on the way: late signatures, a lost record *)
Q(n, t) == [name |-> n, type |-> t]
Cut(s, k) == IF k \in DOMAIN s THEN RemoveAt(s, k) ELSE s
Damaged(h, lost) == [h EXCEPT !.answer = Cut(@, lost), !.authority = Cut(@, lost - Len(h.answer))]
Arrived(m, kind) == Damaged(Honest(m.q, kind, m.late), m.lost)
Now == 5
Work == 12
\* The validator's answer to a reply, and the store after it.
Given(m, r, store) ==
    CASE m.q.type = T_DNSKEY -> dnssec_validate_by_ds(r.answer, m.q.name, Now, store, Work)
      [] m.q.type = T_DS -> dnssec_validate_ds(r.answer, r.authority, m.q.name, r.rcode, Now, store, Work)
      [] OTHER -> [status |-> dnssec_validate_reply(r.answer, r.authority, m.q.name, m.q.type, r.rcode, Now, store, Work,
                                                    TRUE, None).status,
                   store |-> store]
Whole(q) == [q |-> q, late |-> FALSE, lost |-> 0]
Anchored == insert_trust_anchor(EmptyStore, Root, RData(Root, T_DS)[2])
After(store, messages, kind) ==
    FoldLeft(LAMBDA s, m : Given(m, Arrived(m, kind), s).store, store, messages)

\* Asking until the question is settled: what the validator needs is asked
\* for first.  `stack' holds the open questions, the latest first.
MaxRounds == 16
Told(c, g) ==
    CASE g.status.code = "needkey" -> [c EXCEPT !.stack = <<Q(g.status.name, T_DNSKEY)>> \o @]
      [] g.status.code = "needds" -> [c EXCEPT !.stack = <<Q(g.status.name, T_DS)>> \o @]
      [] g.status.code = "bogus" -> [c EXCEPT !.stack = <<>>, !.status = g.status]
      [] OTHER -> [stack |-> Tail(c.stack), store |-> g.store, status |-> IF Len(c.stack) = 1 THEN g.status ELSE None]
RECURSIVE Chase(_, _, _)
Chase(c, kind, k) ==
    IF k = 0 \/ c.stack = <<>> THEN c
    ELSE Chase(Told(c, Given(Whole(c.stack[1]), Honest(c.stack[1], kind, FALSE), c.store)), kind, k - 1)

(* --- jobs *)
Links == {Q(S, T_DS), Q(U, T_DS), Q(<<9>>, T_DS), Q(<<1, 2>>, T_DS), Q(<<3, 2>>, T_DS), Q(<<1, 4>>, T_DS),
          Q(Root, T_DNSKEY), Q(S, T_DNSKEY)}
Asked == {Q(<<1, 2>>, T_A), Q(<<5, 2>>, T_A), Q(<<3, 2>>, T_A), Q(<<3, 1, 2>>, T_A), Q(<<7, 6, 2>>, T_A), Q(<<6, 2>>, T_A),
          Q(<<1, 2>>, 15), Q(<<8>>, T_A), Q(S, 15), Q(<<1, 4>>, T_A), Q(<<3, 4>>, T_A)}
Messages(qs) == [q : qs, late : BOOLEAN, lost : 0 .. 5]
Starts == {<<>>, <<Whole(Q(Root, T_DNSKEY))>>, <<Whole(Q(Root, T_DNSKEY)), Whole(Q(S, T_DS))>>,
           <<Whole(Q(Root, T_DNSKEY)), Whole(Q(S, T_DS)), Whole(Q(S, T_DNSKEY)), Whole(Q(U, T_DS))>>}
Kinds == {"nsec", "nsec3"}
TrustJobs == [op : {"trust"}, start : Starts, kind : Kinds,
              more : {<<m>> : m \in Messages(Links \cup Asked)}
                     \cup {<<m, n>> : m \in Messages(Links), n \in {x \in Messages(Links) : ~x.late /\ x.lost <= 2}}]
ChaseJobs == [op : {"chase"}, start : Starts, kind : Kinds, more : {<<>>} \cup {<<m>> : m \in Messages(Links)}, q : Asked]
TimeJobs == [op : {"time"}, now : 0 .. 7, from : 0 .. 7, to : 0 .. 7]

\* Authoritative zones: an outer and an inner one, hosts in and out of the
\* outer zone's subnet, leases with bare and qualified names, an alias.
Outer == <<300>>
Inner == <<310, 300>>
Lan == <<10, 0, 0, 1>>
Far == <<10, 0, 200, 2>>
Six == [i \in 1 .. 16 |-> IF i = 16 THEN 5 ELSE 0]
Net == [net |-> <<10, 0, 0, 0>>, prefix |-> 17]
Zone(domain, subnet, exclude) == [domain |-> domain, subnet |-> subnet, exclude |-> exclude]
ZoneLists == {<<Zone(Outer, s, x)>> : s \in {<<>>, <<Net>>}, x \in {<<>>, <<[Net EXCEPT !.prefix = 32, !.net = Lan]>>}}
             \cup {<<Zone(Inner, <<>>, <<>>), Zone(Outer, <<Net>>, <<>>)>>, <<Zone(Outer, <<Net>>, <<>>), Zone(Inner, <<>>, <<>>)>>}
Entry(name, src, addr) == [name |-> name, src |-> src, addr |-> addr]
Entries == {Entry(<<320>>, "dhcp", Lan), Entry(<<320, 300>>, "dhcp", Far), Entry(<<321, 300>>, "hosts", Lan),
            Entry(<<320, 310, 300>>, "hosts", Far), Entry(<<320, 300>>, "hosts", Six), Entry(<<300>>, "hosts", Lan)}
Caches == {SetToSeq(es) : es \in {x \in SUBSET Entries : Cardinality(x) <= 2}}
Srv(n) == [name |-> <<325, 300>>, type |-> "SRV", data |-> <<n>>]
IntName == [name |-> <<323, 300>>, addrs |-> <<[addr |-> Lan, revonly |-> FALSE], [addr |-> Six, revonly |-> FALSE],
                                               [addr |-> Far, revonly |-> FALSE]>>]
Alias(wild, target) == [alias |-> IF wild THEN Outer ELSE <<324, 300>>, wild |-> wild, target |-> target]
AuthConfigs ==
    [zones : ZoneLists, mx : {<<>>, <<Srv(1), [name |-> <<321, 300>>, type |-> "MX", data |-> <<3>>], Srv(2)>>},
     rr : {<<>>}, txt : {<<[name |-> <<325, 300>>, type |-> "TXT", class |-> 1, data |-> <<4>>]>>}, naptr : {<<>>},
     int_names : {<<IntName>>}, cnames : {<<>>, <<Alias(TRUE, <<321>>)>>, <<Alias(FALSE, <<320>>), Alias(TRUE, <<324, 300>>)>>},
     cache : Caches, dhcp_fqdn : BOOLEAN, peers : {{"p"}}, secondaries : {<<<<399>>>>}, auth_interface : {TRUE}]
AuthQ(name, type) == [op |-> "query", class |-> 1, name |-> name, type |-> type, local |-> FALSE, peer |-> "p", limit |-> 99]
AuthJobs == [op : {"auth"}, zc : AuthConfigs,
             q : {AuthQ(n, t) : n \in {<<320, 300>>, <<321, 300>>, <<320, 310, 300>>, <<324, 300>>, <<326, 300>>}, t \in {"A", "AAAA"}}
                 \cup {AuthQ(<<325, 300>>, "SRV"), AuthQ(<<325, 300>>, "TXT"), AuthQ(<<321, 300>>, "MX"), AuthQ(<<323, 300>>, "A"),
                       AuthQ(<<300>>, "A"), AuthQ(<<326, 301>>, "A"), AuthQ(<<300>>, "NS"), AuthQ(<<326, 300>>, "SOA")}
                 \cup {AuthQ(Reverse(a) \o Az!IN_ADDR, t) : a \in {Lan, Far, <<10, 1, 0, 1>>}, t \in {"PTR", "SOA", "NS"}}]

Init == /\ job \in TrustJobs \cup ChaseJobs \cup TimeJobs \cup AuthJobs
        /\ answer = None
        /\ done = FALSE

Trust == /\ job.op = "trust"
         /\ answer' = Given(Last(job.more), Arrived(Last(job.more), job.kind),
                            After(Anchored, job.start \o Front(job.more), job.kind))
Follow == /\ job.op = "chase"
          /\ answer' = Chase([stack |-> <<job.q>>, store |-> After(Anchored, job.start \o job.more, job.kind),
                              status |-> None], job.kind, MaxRounds)
Clock == /\ job.op = "time"
         /\ answer' = check_signature_time(job.from, job.to, job.now, 4)
\* The question, then the transfer of the zone the name is in.
Transferred(one, zone) ==
    [one |-> one, all |-> IF zone = None THEN None
                          ELSE Az!answer_auth(AuthQ(zone.domain, "AXFR"), [job.zc EXCEPT !.mx = one.mx])]
Authority == /\ job.op = "auth"
             /\ answer' = Transferred(Az!answer_auth(job.q, job.zc),
                                      Az!FirstZone(job.zc, LAMBDA z : Az!in_zone(job.q.name, z.domain) # None))

Next == /\ ~done
        /\ done' = TRUE
        /\ Trust \/ Follow \/ Clock \/ Authority
        /\ UNCHANGED job
Spec == Init /\ [][Next]_vars

----------------------------------------------------------------------------

Unsigned(n) == issubdomain(n, U)

StoreBacked(s) ==
    /\ \A z \in DOMAIN s.dnskey : z \in {Root, S} /\ ToSet(s.dnskey[z]) = ToSet(RData(z, T_DNSKEY))
    /\ \A n \in DOMAIN s.ds :
          /\ s.ds[n].kind = "positive" => n \in {Root, S} /\ ToSet(s.ds[n].entries) \subseteq ToSet(RData(n, T_DS))
          /\ s.ds[n].kind = "insecure" => Unsigned(n)
          /\ s.ds[n].kind = "nocut" => n \notin Zones
SaysWhatZoneSays(m, r) ==
    /\ ~Unsigned(m.q.name)
    /\ m.q.name # <<7, 6, 2>> =>
          (Honest(m.q, "nsec", FALSE).answer # <<>> <=> Chased(r.answer, m.q.name, m.q.type).answered)
    /\ ~m.late
\* The trust store never says more than the zones do, whatever replies were
\* lost in part or came with expired signatures: keys are the zone's own, a
\* DS entry is the parent's, and a name is held insecure only where no
\* signature is to be expected (dnssec_validate_by_ds, dnssec_validate_ds);
\* and a reply is secure only if it says what the zone says, absence
\* included (dnssec_validate_reply, prove_non_existence).  Names a wildcard
\* answers are left out of the last part: with NSEC the code does not ask
\* for the proof that there is no wildcard.
TrustBacked ==
    (done /\ job.op = "trust") =>
        LET m == Last(job.more)
        IN  /\ StoreBacked(answer.store)
            /\ (answer.status.code = "secure" /\ m.q.type \notin {T_DS, T_DNSKEY}) =>
                  SaysWhatZoneSays(m, Arrived(m, job.kind))

\* A validator that is given what it asks for settles every question, with
\* "secure" for signed names and "insecure" for the others, whatever replies
\* it saw before (zone_status, dnssec_validate_reply): it asks for nothing
\* twice in a circle and needs no more than its work limit.
ChaseSettles ==
    (done /\ job.op = "chase") =>
        answer.stack = <<>> /\ answer.status = IF Unsigned(job.q.name) THEN Insecure ELSE Secure

\* The test of a signature's period by wrapping subtraction is the one RFC
\* 1982 comparison gives (check_signature_time, serial_compare_32).
PeriodsAgree ==
    (done /\ job.op = "time") =>
        (answer <=> /\ serial_compare(job.from, job.now, 4) \in {"equal", "less"}
                    /\ serial_compare(job.now, job.to, 4) \in {"equal", "less"})

Answered(t) == {r \in ToSet(answer.one.reply.ans) : r.type = t}

\* The zone transfer and the single answers tell the same zone: what a
\* question for a name reports is what the transfer lists under that name,
\* after the zone's subnet and exclude filter and whatever the order of the
\* zones, and a name said not to exist is not in the transfer.  A question
\* outside every zone is refused, and an alias never keeps the handler busy
\* for ever (answer_auth, build_auth_section).  An alias is followed only
\* by a question, so answers reached through one are compared no further.
TransferAgrees ==
    (done /\ job.op = "auth") =>
        LET reply == answer.one.reply
            all == answer.all.reply
            listed(t) == {r.data : r \in {x \in ToSet(all.ans) : x.owner = job.q.name /\ x.type = t}}
            aliased == Answered("CNAME") # {}
        IN  /\ ~answer.one.endless
            /\ answer.all = None /\ job.q.type \notin {"PTR", "SOA", "NS"} => reply.rcode = 5 /\ reply.ans = <<>>
            /\ (answer.all # None /\ ~aliased) =>
                  /\ job.q.type \notin {"SOA", "NS"} => {r.data : r \in Answered(job.q.type)} = listed(job.q.type)
                  /\ reply.rcode = 3 => \A r \in ToSet(all.ans) : r.owner # job.q.name
            /\ (answer.all # None /\ aliased) =>
                  \A t \in {"A", "AAAA", "MX", "SRV", "TXT"} : listed(t) = {}

=============================================================================

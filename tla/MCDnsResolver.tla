--------------------------- MODULE MCDnsResolver ----------------------------
(***************************************************************************)
(* A small resolver for TLC.  Names n and m (n may be a CNAME of m), the   *)
(* alias k configured as a CNAME of n, the zone z and the .arpa name of    *)
(* the one address x that is asked about in reverse.                       *)
(***************************************************************************)
EXTENDS DnsResolver

Ask(name, type) == [name |-> name, type |-> type]

MCQueries == {Ask("n", "A"), Ask("n", "AAAA"), Ask("k", "A"), Ask("x.arpa", "PTR"), Ask("n", "CNAME")}

MCArpa == [a \in {"x", "y"} |-> IF a = "x" THEN "x.arpa" ELSE "y.arpa"]

MCCnames == [a \in {"k"} |-> "n"]

To(target, ttl) == <<[target |-> target, ttl |-> ttl]>>
Data(data, ttl) == <<[data |-> data, ttl |-> ttl]>>
Soa == {[neg |-> 1, ttl |-> 2]}

From(q, rcode, chain, rrs, soa) ==
    [q |-> q, cd |-> FALSE, tc |-> FALSE, rcode |-> rcode, chain |-> chain, rrs |-> rrs, soa |-> soa]

MCReplies == {
    From(Ask("n", "A"), "ok", To("m", 2), Data("x", 1), {}),
    From(Ask("n", "A"), "ok", To("m", 1), Data("y", 0), {}),
    From(Ask("n", "A"), "ok", <<>>, Data("x", 2) \o Data("y", 1), {}),
    From(Ask("n", "A"), "ok", To("m", 2), <<>>, Soa),
    From(Ask("n", "AAAA"), "nx", <<>>, <<>>, Soa),
    From(Ask("x.arpa", "PTR"), "ok", <<>>, Data("n", 1), {})}

\* Replies nothing is kept of, or only that the name does not exist.
MCOddReplies == {
    From(Ask("n", "A"), "ok", <<>>, Data("bogus", 1), {}),
    From(Ask("n", "A"), "ok", To("m", 1), Data("private", 1), {}),
    From(Ask("n", "CNAME"), "error", <<>>, <<>>, Soa),
    [From(Ask("n", "A"), "ok", <<>>, Data("x", 1), {}) EXCEPT !.cd = TRUE],
    [From(Ask("n", "A"), "ok", <<>>, Data("x", 1), {}) EXCEPT !.tc = TRUE]}

MCAllReplies == MCReplies \cup MCOddReplies

Line(addr, names) == [addr |-> addr, kind |-> "A", names |-> names]

MCTexts == {<<>>, <<Line("x", <<"m">>)>>}

MCFiles == <<"f">>
=============================================================================

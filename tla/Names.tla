------------------------------- MODULE Names -------------------------------
(***************************************************************************)
(* Host names, name patterns and synthetic names: hostname.rs, pattern.rs  *)
(* and domain.rs.  A name is the sequence of its character codes; an       *)
(* address is a number (IPv4), or a record of the upper and lower half of  *)
(* its bits (IPv6).                                                        *)
(***************************************************************************)
EXTENDS Integers, Sequences, FiniteSets, SequencesExt

CONSTANTS
    MAXLABEL,       \* longest label (63)
    MaxName,        \* longest name (253)
    MAXDNAME,       \* longest name check_name accepts (1025)
    None            \* Option::None

Space == 32
Star == 42
Hyphen == 45
Dot == 46
Underscore == 95
Digits == 48..57
Lowers == 97..122
Uppers == 65..90
Alnum == Digits \cup Lowers \cup Uppers
Local == <<108, 111, 99, 97, 108>>      \* "local"

Fold(s) == [i \in DOMAIN s |-> IF s[i] \in Uppers THEN s[i] + 32 ELSE s[i]]

(* split('.'): the stretches between the dots, empty ones included *)
Labels(s) ==
    LET dots == SelectSeq([i \in 1 .. Len(s) |-> i], LAMBDA i : s[i] = Dot)
        cut == <<0>> \o dots \o <<Len(s) + 1>>
    IN  [k \in 1 .. Len(dots) + 1 |-> SubSeq(s, cut[k] + 1, cut[k + 1] - 1)]

Join(s, t) == s \o <<Dot>> \o t

----------------------------------------------------------------------------
(* hostname.rs *)

hostname_order(a, b) ==
    LET x == Fold(a)
        y == Fold(b)
        short == IF Len(x) < Len(y) THEN Len(x) ELSE Len(y)
        apart == {i \in 1 .. short : x[i] # y[i]}
        first == CHOOSE i \in apart : \A j \in apart : i <= j
        Sign(m, n) == IF m < n THEN -1 ELSE IF m > n THEN 1 ELSE 0
    IN  IF apart # {} THEN Sign(x[first], y[first]) ELSE Sign(Len(x), Len(y))

hostname_isequal(a, b) == Len(a) = Len(b) /\ hostname_order(a, b) = 0

(* 2: the same name; 1: b is below a *)
hostname_issubdomain(a, b) ==
    CASE ~IsSuffix(Fold(a), Fold(b)) -> None
      [] Len(a) = Len(b) -> 2
      [] OTHER -> IF b[Len(b) - Len(a)] = Dot THEN 1 ELSE None

legal_hostname(name) ==
    LET label == Labels(name)[1]
    IN  /\ Len(name) \in 1 .. MaxName
        /\ Len(label) \in 1 .. MAXLABEL
        /\ \A i \in DOMAIN label :
              label[i] \in Alnum \/ (i > 1 /\ label[i] \in {Hyphen, Underscore})

RECURSIVE TrimDots(_)
TrimDots(s) == IF s # <<>> /\ Last(s) = Dot THEN TrimDots(Front(s)) ELSE s

canonicalise(input) ==
    LET s == TrimDots(input)
    IN  IF /\ Len(s) \in 1 .. MaxName
           /\ \A i \in DOMAIN Labels(s) : Len(Labels(s)[i]) \in 1 .. MAXLABEL
        THEN Fold(s)
        ELSE None

check_name(name) ==
    LET s == TrimDots(name)
        chars == {s[i] : i \in DOMAIN s} \ {Dot}
        labels == Labels(s)
    IN  CASE \/ Len(s) \notin 1 .. MAXDNAME
             \/ \E i \in DOMAIN labels : Len(labels[i]) > MAXLABEL
             \/ \E c \in chars : c < 32 \/ c = 127
             \/ chars \subseteq {Space} /\ Last(name) # Dot -> "Invalid"
          [] \E c \in chars : c > 127 \/ c \in Uppers -> "NeedsIdn"
          [] OTHER -> "Valid"

check_hostname_label(name) ==
    LET label == Labels(name)[1]
    IN  label # <<>> /\ \A i \in DOMAIN label : label[i] \in Alnum \cup {Hyphen, Underscore}

----------------------------------------------------------------------------
(* pattern.rs *)

(* The loop of glob_match: `nextv', `nextp' is the restart point the last
   star left, and nextv = 0 says there is none. *)
RECURSIVE Glob(_, _, _, _, _, _)
Glob(v, p, vi, pi, nextv, nextp) ==
    CASE vi >= Len(v) /\ pi >= Len(p) -> TRUE
      [] pi < Len(p) /\ p[pi + 1] = Star ->
            Glob(v, p, vi, pi + 1, IF vi < Len(v) THEN vi + 1 ELSE 0, pi)
      [] pi < Len(p) /\ p[pi + 1] # Star /\ vi < Len(v) /\ p[pi + 1] = v[vi + 1] ->
            Glob(v, p, vi + 1, pi + 1, nextv, nextp)
      [] OTHER -> nextv # 0 /\ Glob(v, p, nextv, nextp, nextv, nextp)

glob_match(value, pattern) == Glob(Fold(value), Fold(pattern), 0, 0, 0, 0)

(* what both validity tests ask of the last label *)
FinalLabel(label) ==
    /\ \E i \in DOMAIN label : label[i] \notin Digits
    /\ Fold(label) # Local

NoOuterHyphen(label) == label # <<>> /\ Head(label) # Hyphen /\ Last(label) # Hyphen

is_valid_dns_name(name) ==
    LET labels == Labels(name)
    IN  /\ Len(name) \in 1 .. MaxName
        /\ Len(labels) >= 2
        /\ \A i \in DOMAIN labels :
              /\ NoOuterHyphen(labels[i])
              /\ Len(labels[i]) <= MAXLABEL
              /\ \A k \in DOMAIN labels[i] : labels[i][k] \in Alnum \cup {Hyphen}
        /\ FinalLabel(Last(labels))

is_valid_dns_name_pattern(pattern) ==
    LET labels == Labels(pattern)
        Plain(s) == SelectSeq(s, LAMBDA c : c # Star)
        Stars(s) == Len(s) - Len(Plain(s))
    IN  /\ Len(Plain(pattern)) \in 1 .. MaxName
        /\ Len(labels) >= 2
        /\ \A i \in DOMAIN labels :
              /\ NoOuterHyphen(labels[i])
              /\ Len(Plain(labels[i])) <= MAXLABEL
              /\ \A k \in DOMAIN labels[i] : labels[i][k] \in Alnum \cup {Hyphen, Star}
              /\ Stars(labels[i]) <= IF i >= Len(labels) - 1 THEN 0 ELSE 2
        /\ FinalLabel(Last(labels))

is_dns_name_matching_pattern(name, pattern) ==
    LET n == Labels(name)
        p == Labels(pattern)
    IN  Len(n) = Len(p) /\ \A i \in DOMAIN n : glob_match(n[i], p[i])

----------------------------------------------------------------------------
(***************************************************************************)
(* domain.rs and its two configuration parsers: names made from addresses  *)
(* (synth-domain) and domains chosen by address (domain=<name>,<subnet>).  *)
(* An IPv4 address is two digits below Base instead of four octets; an     *)
(* IPv6 address is two halves of Bits bits each instead of 64.             *)
(***************************************************************************)

CONSTANTS
    Base,           \* values of one octet or group (256, 2^16), at most 10
    Bits            \* bits of half an IPv6 address (64)

V4 == 0 .. Base * Base - 1
Halves == 0 .. 2 ^ Bits - 1
V6 == [hi : Halves, lo : Halves]

ipv4_in_range(a, start, end) == start <= a /\ a <= end

ipv6_in_range(a, start, end) == start.lo <= a.lo /\ a.lo <= end.lo

ipv6_set_low64(base, low) == [base EXCEPT !.lo = low]

(* is_same_net6 *)
SameNet6(a, b, len) ==
    LET Whole(x) == x.hi * 2 ^ Bits + x.lo
    IN  Whole(a) \div 2 ^ (2 * Bits - len) = Whole(b) \div 2 ^ (2 * Bits - len)

----------------------------------------------------------------------------
(* Numbers in names *)

RECURSIVE Decimal(_)
Decimal(n) == IF n < 10 THEN <<48 + n>> ELSE Decimal(n \div 10) \o <<48 + (n % 10)>>

RECURSIVE Value(_)
Value(s) == IF s = <<>> THEN 0 ELSE Value(Front(s)) * 10 + (Last(s) - 48)

IsNumber(s) == s # <<>> /\ \A i \in DOMAIN s : s[i] \in Digits

(* str::parse::<u32>: decimal digits, leading zeros allowed, below `limit' *)
ParseNumber(s, limit) == IF IsNumber(s) /\ Value(s) < limit THEN Value(s) ELSE None

(* two groups around a hyphen; an octet is written without leading zeros *)
Dashed(hi, lo) == Decimal(hi) \o <<Hyphen>> \o Decimal(lo)

ParseDashed(s, limit) ==
    LET cuts == {i \in DOMAIN s : s[i] = Hyphen}
        at == CHOOSE i \in cuts : TRUE
        left == SubSeq(s, 1, at - 1)
        right == SubSeq(s, at + 1, Len(s))
        Group(g) == IsNumber(g) /\ (Len(g) = 1 \/ g[1] # 48) /\ Value(g) < limit
    IN  IF Cardinality(cuts) = 1 /\ Group(left) /\ Group(right)
        THEN <<Value(left), Value(right)>>
        ELSE None

----------------------------------------------------------------------------
(* parse_synth_domain, parse_domain: from a range or a subnet to a CondDomain *)

V4Subnet(addr, size) ==
    LET block == Base ^ (2 - size) IN [start |-> addr - (addr % block), end |-> addr - (addr % block) + block - 1]

V6Subnet(addr, size) ==
    LET block == IF size <= Bits THEN 2 ^ Bits ELSE 2 ^ (2 * Bits - size)
        low == addr.lo - (addr.lo % block)
    IN  [start |-> ipv6_set_low64(addr, low), end |-> ipv6_set_low64(addr, low + block - 1)]

CondDomain(domain, is6, range, prefixlen) ==
    [domain |-> domain, prefix |-> <<>>, is6 |-> is6, indexed |-> FALSE,
     start |-> range.start, end |-> range.end, prefixlen |-> prefixlen]

(* A prefix string ending in a star asks for indexed names, which an IPv6
   domain allows only when its prefix covers the whole upper half. *)
parse_synth_domain(cd, prefix) ==
    IF prefix # <<>> /\ Last(prefix) = Star
    THEN IF cd.is6 /\ cd.prefixlen < Bits
         THEN None
         ELSE [cd EXCEPT !.indexed = TRUE, !.prefix = Front(prefix)]
    ELSE [cd EXCEPT !.prefix = prefix]

----------------------------------------------------------------------------
(* From a name to an address *)

(* strip_prefix and split_once('.'): the text between the prefix and the
   domain, None when the name is not of this form *)
Middle(name, c) ==
    LET n == Len(c.prefix)
        tail == SubSeq(name, n + 1, Len(name))
        dot == CHOOSE i \in DOMAIN tail :
                  tail[i] = Dot /\ \A j \in DOMAIN tail : tail[j] = Dot => i <= j
    IN  IF /\ Len(name) >= n
           /\ Fold(SubSeq(name, 1, n)) = Fold(c.prefix)
           /\ \E i \in DOMAIN tail : tail[i] = Dot
           /\ Fold(SubSeq(tail, dot + 1, Len(tail))) = Fold(c.domain)
        THEN SubSeq(tail, 1, dot - 1)
        ELSE None

try_synth_ipv4(name, c) ==
    LET text == Middle(name, c)
        idx == ParseNumber(text, Base * Base)
        pair == ParseDashed(text, Base)
        addr == pair[1] * Base + pair[2]
    IN  CASE text = None -> None
          [] c.indexed -> IF idx # None /\ idx <= c.end - c.start THEN c.start + idx ELSE None
          [] OTHER -> IF pair # None /\ ipv4_in_range(addr, c.start, c.end) THEN addr ELSE None

try_synth_ipv6(name, c) ==
    LET text == Middle(name, c)
        idx == ParseNumber(text, 2 ^ Bits)
        pair == ParseDashed(text, 2 ^ Bits)
        addr == [hi |-> pair[1], lo |-> pair[2]]
    IN  CASE text = None -> None
          [] c.indexed -> IF idx # None /\ idx <= c.end.lo - c.start.lo
                          THEN ipv6_set_low64(c.start, c.start.lo + idx)
                          ELSE None
          [] OTHER -> IF pair # None /\ ipv6_in_range(addr, c.start, c.end) THEN addr ELSE None

(* the first entry of the list that Try turns into something *)
FirstOf(domains, Try(_)) ==
    LET hits == {i \in DOMAIN domains : Try(domains[i]) # None}
    IN  IF hits = {} THEN None ELSE Try(domains[CHOOSE i \in hits : \A j \in hits : i <= j])

synthesize_ipv4(name, domains) ==
    FirstOf(domains, LAMBDA c : IF c.is6 THEN None ELSE try_synth_ipv4(name, c))

synthesize_ipv6(name, domains) ==
    FirstOf(domains, LAMBDA c : IF c.is6 THEN try_synth_ipv6(name, c) ELSE None)

----------------------------------------------------------------------------
(* From an address to a name *)

rev_synth_ipv4(addr, domains) ==
    FirstOf(domains, LAMBDA c :
        IF c.is6 \/ ~ipv4_in_range(addr, c.start, c.end) THEN None
        ELSE Join(c.prefix \o IF c.indexed THEN Decimal(addr - c.start)
                              ELSE Dashed(addr \div Base, addr % Base), c.domain))

rev_synth_ipv6(addr, domains) ==
    FirstOf(domains, LAMBDA c :
        IF ~c.is6 THEN None
        ELSE IF ~ipv6_in_range(addr, c.start, c.end) THEN None
        ELSE Join(c.prefix \o IF c.indexed THEN Decimal(addr.lo - c.start.lo)
                              ELSE Dashed(addr.hi, addr.lo), c.domain))

----------------------------------------------------------------------------
(* The domain an address belongs to.  `interface' and `al' are never filled. *)

match_domain(addr, c) == ~c.is6 /\ ipv4_in_range(addr, c.start, c.end)

match_domain6(addr, c) ==
    /\ c.is6
    /\ IF c.prefixlen >= Bits
       THEN SameNet6(addr, c.start, Bits) /\ ipv6_in_range(addr, c.start, c.end)
       ELSE SameNet6(addr, c.start, c.prefixlen)

get_domain(addr, domains, default) ==
    LET c == FirstOf(domains, LAMBDA d : IF match_domain(addr, d) THEN d ELSE None)
    IN  IF c = None THEN default ELSE c.domain

get_domain6(addr, domains, default) ==
    LET c == FirstOf(domains, LAMBDA d : IF match_domain6(addr, d) THEN d ELSE None)
    IN  IF c = None THEN default ELSE c.domain

=============================================================================

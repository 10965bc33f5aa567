------------------------------- MODULE Packet -------------------------------
(***************************************************************************)
(* DNS messages on the wire (rfc1035.rs), the records taken out of them    *)
(* (rrfilter.rs) and the header bits of a reply.                           *)
(*                                                                         *)
(* A message is its header and a body of cells.  A label length, a byte of *)
(* a label and a fixed field are one cell each, whatever their width, and  *)
(* a compression pointer is one cell: Ptr + offset.  Offsets count cells   *)
(* of the body from 0, as the code's offsets count bytes.                  *)
(***************************************************************************)
EXTENDS Integers, Sequences, SequencesExt, FiniteSetsExt

CONSTANTS
    None,
    MaxHops,     \* 255: pointers followed in one name
    MaxWire      \* 255: length of a name on the wire

Ptr == 192
Dot == 46
NotText == 200   \* a label byte that is not UTF-8
Fixed == 4       \* TYPE, CLASS, TTL, RDLENGTH

T_A == 1
T_NS == 2
T_CNAME == 5
T_SOA == 6
T_PTR == 12
T_MX == 15
T_OPT == 41
T_RRSIG == 46
T_NSEC == 47
T_NSEC3 == 50
T_AAAA == 28
T_ANY == 255
C_IN == 1

At(b, pos) == b[pos + 1]
Slice(b, from, to) == SubSeq(b, from + 1, to)
IsLabel(c) == c < 64
IsPtr(c) == c >= Ptr

(* ------------------------------ names ---------------------------------- *)

RECURSIVE NameFrom(_, _, _, _, _, _)
NameFrom(b, pos, end, hops, len, name) ==
    IF pos >= Len(b) THEN None
    ELSE LET c == At(b, pos)
             after == IF end = None THEN pos + 1 ELSE end
         IN  CASE c = 0 -> [name |-> name, end |-> after]
               [] IsPtr(c) ->
                    IF hops >= MaxHops \/ c - Ptr >= Len(b) THEN None
                    ELSE NameFrom(b, c - Ptr, after, hops + 1, len, name)
               [] IsLabel(c) /\ c # 0 ->
                    IF pos + 1 + c > Len(b) \/ len + c + 1 > MaxWire THEN None
                    ELSE LET label == Slice(b, pos + 1, pos + 1 + c)
                         IN  IF NotText \in Range(label) THEN None
                             ELSE NameFrom(b, pos + 1 + c, end, hops, len + c + 1,
                                           IF name = <<>> THEN label ELSE name \o <<Dot>> \o label)
               [] OTHER -> None

\* The name at pos and the offset after it, or None.
extract_name(b, pos) == NameFrom(b, pos, None, 0, 1, <<>>)

\* The labels of a name: what lies between its dots.
RECURSIVE Labels(_)
Labels(name) ==
    LET dots == {i \in DOMAIN name : name[i] = Dot}
    IN  IF dots = {} THEN <<name>>
        ELSE <<SubSeq(name, 1, Min(dots) - 1)>> \o Labels(SubSeq(name, Min(dots) + 1, Len(name)))

write_name(name) ==
    IF name \in {<<>>, <<Dot>>} THEN <<0>>
    ELSE FlattenSeq([i \in DOMAIN Labels(name) |-> <<Len(Labels(name)[i])>> \o Labels(name)[i]]) \o <<0>>

RECURSIVE SkipFrom(_, _)
SkipFrom(b, pos) ==
    IF pos >= Len(b) THEN None
    ELSE LET c == At(b, pos)
         IN  IF c = 0 \/ IsPtr(c) THEN pos + 1
             ELSE IF ~IsLabel(c) \/ pos + 1 + c > Len(b) THEN None
             ELSE SkipFrom(b, pos + 1 + c)
skip_name(b, pos) == SkipFrom(b, pos)

(* ----------------------- questions and records ------------------------- *)

QuestionFrom(b, n) ==
    IF n = None THEN None
    ELSE IF n.end + 2 > Len(b) THEN None
    ELSE [name |-> n.name, qtype |-> At(b, n.end), qclass |-> At(b, n.end + 1), end |-> n.end + 2]
parse_question(b, pos) == QuestionFrom(b, extract_name(b, pos))
write_question(q) == write_name(q.name) \o <<q.qtype, q.qclass>>

\* The names inside the data of a record are written out in full, so that
\* the record stands on its own; a record whose names cannot be read keeps
\* its bytes.
SpeltOut(n, before, raw) == IF n = None THEN raw ELSE before \o write_name(n.name)
SpeltSoa(b, mname, rname, raw) ==
    IF rname = None THEN raw
    ELSE IF rname.end + 5 > Len(b) THEN raw
    ELSE write_name(mname.name) \o write_name(rname.name) \o Slice(b, rname.end, rname.end + 5)
SoaFrom(b, mname, raw) == IF mname = None THEN raw ELSE SpeltSoa(b, mname, extract_name(b, mname.end), raw)
Decompressed(b, type, start, raw) ==
    CASE type \in {T_NS, T_CNAME, T_PTR} -> SpeltOut(extract_name(b, start), <<>>, raw)
      [] type = T_MX /\ Len(raw) >= 1 -> SpeltOut(extract_name(b, start + 1), <<raw[1]>>, raw)
      [] type = T_SOA -> SoaFrom(b, extract_name(b, start), raw)
      [] OTHER -> raw

ReadRecord(b, name, at, rd, end) ==
    IF end > Len(b) THEN None
    ELSE [name |-> name, rtype |-> At(b, at), class |-> At(b, at + 1), ttl |-> At(b, at + 2),
          rdata |-> Decompressed(b, At(b, at), rd, Slice(b, rd, end)), end |-> end]
RecordFrom(b, n) ==
    IF n = None THEN None
    ELSE IF n.end + Fixed > Len(b) THEN None
    ELSE ReadRecord(b, n.name, n.end, n.end + Fixed, n.end + Fixed + At(b, n.end + 3))
parse_rr(b, pos) == RecordFrom(b, extract_name(b, pos))
write_rr(r) == write_name(r.name) \o <<r.rtype, r.class, r.ttl, Len(r.rdata)>> \o r.rdata

\* n items read one after the other with P, or None.
RECURSIVE Items(_, _, _, _)
Items(P(_, _), b, pos, n) ==
    IF n = 0 THEN [items |-> <<>>, end |-> pos]
    ELSE LET x == P(b, pos)
         IN  IF x = None THEN None
             ELSE LET rest == Items(P, b, x.end, n - 1)
                  IN  IF rest = None THEN None
                      ELSE [items |-> <<x>> \o rest.items, end |-> rest.end]
NoEnd(s) == [i \in DOMAIN s |-> [f \in DOMAIN s[i] \ {"end"} |-> s[i][f]]]

ParsedFrom(p, questions, rs) ==
    IF rs = None THEN None
    ELSE [header     |-> p.header,
          questions  |-> NoEnd(questions),
          answers    |-> NoEnd(SubSeq(rs.items, 1, p.an)),
          authority  |-> NoEnd(SubSeq(rs.items, p.an + 1, p.an + p.ns)),
          additional |-> NoEnd(SubSeq(rs.items, p.an + p.ns + 1, p.an + p.ns + p.ar))]
ParsedAfter(p, qs) ==
    IF qs = None THEN None ELSE ParsedFrom(p, qs.items, Items(parse_rr, p.body, qs.end, p.an + p.ns + p.ar))
parse(p) == ParsedAfter(p, Items(parse_question, p.body, 0, p.qd))

Each(W(_), s) == FlattenSeq([i \in DOMAIN s |-> W(s[i])])
write(d) ==
    [header |-> d.header, qd |-> Len(d.questions), an |-> Len(d.answers),
     ns |-> Len(d.authority), ar |-> Len(d.additional),
     body |-> Each(write_question, d.questions) \o Each(write_rr, d.answers)
              \o Each(write_rr, d.authority) \o Each(write_rr, d.additional)]

(* ---------------------- walking without reading ------------------------ *)

QuestionEnding(b, e) ==
    IF e = None THEN None
    ELSE IF e + 2 > Len(b) THEN None
    ELSE [qtype |-> At(b, e), qclass |-> At(b, e + 1), end |-> e + 2]
SkipQuestion(b, pos) == QuestionEnding(b, skip_name(b, pos))
skip_questions(p) == Items(SkipQuestion, p.body, 0, p.qd)

\* Where a record and its data lie, with its fixed fields.
Located(b, pos, e, end) ==
    IF end > Len(b) THEN None
    ELSE [start |-> pos, rtype |-> At(b, e), class |-> At(b, e + 1), ttl |-> At(b, e + 2), rd |-> e + Fixed, end |-> end]
LocatedFrom(b, pos, e) ==
    IF e = None THEN None
    ELSE IF e + Fixed > Len(b) THEN None
    ELSE Located(b, pos, e, e + Fixed + At(b, e + 3))
RrAt(b, pos) == LocatedFrom(b, pos, skip_name(b, pos))
skip_rrs(b, pos, n) == Items(RrAt, b, pos, n)
\* The first n records after the questions.
RecordsAfter(p, qs, n) == IF qs = None THEN None ELSE skip_rrs(p.body, qs.end, n)
Records(p, n) == RecordsAfter(p, skip_questions(p), n)

\* Trims what follows the last record; an OPT record comes back if there is
\* room for it in the additional section.
TrimmedTo(p, rs, opt) ==
    IF rs = None THEN p
    ELSE IF opt # None /\ p.ar = 0 THEN [p EXCEPT !.body = Slice(@, 0, rs.end) \o opt, !.ar = 1]
    ELSE [p EXCEPT !.body = Slice(@, 0, rs.end)]
resize_packet(p, opt) == TrimmedTo(p, Records(p, p.an + p.ns + p.ar), opt)

----------------------------------------------------------------------------
(***************************************************************************)
(* Taking records out of a message (rrfilter.rs): find the records to      *)
(* elide, give up if a surviving name points into one of them, move the    *)
(* pointers that survive, and close the gaps.                              *)
(***************************************************************************)

Before(elided, off) == {r \in elided : r.end <= off}
Inside(elided, off) == \E r \in elided : r.start <= off /\ off < r.end

\* Fault: only the first gap is taken off.
ShiftOnce(elided, off) ==
    IF Inside(elided, off) THEN None
    ELSE off - SumSet({r.end - r.start : r \in {x \in Before(elided, off) : \A y \in elided : x.start <= y.start}})

\* Where an offset ends up once the records are gone, or None inside one.
shift_offset(elided, off) ==
    IF Inside(elided, off) THEN None
    ELSE off - MapThenSumSet(LAMBDA r : r.end - r.start, Before(elided, off))

\* One name of the body: the body with its pointer moved, and the offset
\* after the name; or None, to give up.  A bitstring label (RFC 2673) is its
\* count and its bits, one cell here.
RECURSIVE check_name(_, _, _, _)
check_name(b, pos, elided, fixup) ==
    IF pos >= Len(b) THEN None
    ELSE LET c == At(b, pos)
             to == shift_offset(elided, c - Ptr)
         IN  CASE IsPtr(c) -> IF to = None THEN None
                              ELSE [b |-> IF fixup THEN [b EXCEPT ![pos + 1] = Ptr + to] ELSE b,
                                    end |-> pos + 1]
               [] c = 0 -> [b |-> b, end |-> pos + 1]
               [] c = 65 -> IF pos + 3 > Len(b) THEN None ELSE check_name(b, pos + 3, elided, fixup)
               [] IsLabel(c) /\ c # 0 ->
                    IF pos + 1 + c > Len(b) THEN None ELSE check_name(b, pos + 1 + c, elided, fixup)
               [] OTHER -> None

\* The names in the data of a record: 0 for a name, n for n fixed fields.
rrfilter_desc(rtype) ==
    CASE rtype \in {2, 3, 4, 5, 7, 8, 9, 12, 30, 39} -> <<0>>
      [] rtype \in {6, 14, 17} -> <<0, 0>>
      [] rtype \in {15, 18, 21, 36} -> <<1, 0>>
      [] rtype = 24 -> <<7, 0>>
      [] rtype = 26 -> <<1, 0, 0>>
      [] rtype = 33 -> <<3, 0>>
      [] OTHER -> <<>>

RECURSIVE DataNames(_, _, _, _, _)
DataNames(b, pos, desc, elided, fixup) ==
    IF desc = <<>> THEN b
    ELSE IF desc[1] # 0
         THEN IF pos + desc[1] > Len(b) THEN None
              ELSE DataNames(b, pos + desc[1], Tail(desc), elided, fixup)
         ELSE LET n == check_name(b, pos, elided, fixup)
              IN  IF n = None THEN None ELSE DataNames(n.b, n.end, Tail(desc), elided, fixup)

RECURSIVE check_rrs(_, _, _, _, _)
CheckData(owner, rr, n, elided, fixup) ==
    IF owner = None THEN None
    ELSE IF rr.class # C_IN THEN check_rrs(owner.b, rr.end, n, elided, fixup)
    ELSE LET data == DataNames(owner.b, rr.rd, rrfilter_desc(rr.rtype), elided, fixup)
         IN  IF data = None THEN None ELSE check_rrs(data, rr.end, n, elided, fixup)
CheckRecord(b, rr, n, elided, fixup) ==
    IF rr = None THEN None
    ELSE IF \E r \in elided : r.start = rr.start THEN check_rrs(b, rr.end, n, elided, fixup)
    ELSE CheckData(check_name(b, rr.start, elided, fixup), rr, n, elided, fixup)
check_rrs(b, pos, n, elided, fixup) ==
    IF n = 0 THEN b ELSE CheckRecord(b, RrAt(b, pos), n - 1, elided, fixup)

\* Every surviving name, the question's first: None to give up.
Pass(b, p, elided, fixup) ==
    LET q == check_name(b, 0, elided, fixup)
    IN  IF q = None THEN None ELSE check_rrs(q.b, q.end + 2, p.an + p.ns + p.ar, elided, fixup)

\* The body without the elided records.
Closed(b, elided) ==
    LET gone == UNION {r.start .. r.end - 1 : r \in elided}
    IN  [i \in 1 .. Len(b) - Cardinality(gone) |->
            b[CHOOSE k \in DOMAIN b : k - 1 \notin gone /\ i = k - Cardinality({g \in gone : g < k - 1})]]

\* The records for which the verdict is "remove", up to one that says "stop".
Elided(rrs, q, verdict(_, _, _)) ==
    LET v == [i \in DOMAIN rrs |-> verdict(i, rrs[i], q)]
        stop == Min({i \in DOMAIN rrs : v[i] = "stop"} \cup {Len(rrs) + 1})
    IN  {i \in DOMAIN rrs : i < stop /\ v[i] = "remove"}

Whole(p) == [pkt |-> p, removed |-> 0]
Chopped(p, idx, elided, fixed) ==
    LET chop(lo, hi) == Cardinality({i \in idx : lo < i /\ i <= hi})
    IN  IF fixed = None THEN Whole(p)
        ELSE [pkt |-> [p EXCEPT !.body = Closed(fixed, elided), !.an = @ - chop(0, p.an),
                                !.ns = @ - chop(p.an, p.an + p.ns),
                                !.ar = @ - chop(p.an + p.ns, p.an + p.ns + p.ar)],
              removed |-> Cardinality(idx)]
WithoutRecords(p, idx, elided) ==
    IF idx = {} \/ Pass(p.body, p, elided, FALSE) = None THEN Whole(p)
    ELSE Chopped(p, idx, elided, Pass(p.body, p, elided, TRUE))
WithoutIndices(p, rrs, idx) == WithoutRecords(p, idx, {rrs[i] : i \in idx})
FilterRecords(p, q, rs, verdict(_, _, _)) ==
    IF rs = None THEN None ELSE WithoutIndices(p, rs.items, Elided(rs.items, q, verdict))
FilterAfter(p, qs, verdict(_, _, _)) ==
    IF qs = None THEN None
    ELSE FilterRecords(p, qs.items[1], skip_rrs(p.body, qs.end, p.an + p.ns + p.ar), verdict)

\* The message and how many records went, or None for one that cannot be
\* walked.
filter_with(p, verdict(_, _, _)) ==
    IF p.qd # 1 THEN Whole(p) ELSE FilterAfter(p, skip_questions(p), verdict)

(* ---------------------------- the filters ------------------------------ *)

PacketOf(f) == IF f = None THEN None ELSE f.pkt
VerdictTypes(p, types, i, rr) ==
    IF i > p.an + p.ns /\ rr.rtype \in types THEN "remove" ELSE "keep"
filter_rr_types(p, types) ==
    IF types = {} THEN p ELSE PacketOf(filter_with(p, LAMBDA i, rr, q : VerdictTypes(p, types, i, rr)))

VerdictDnssec(p, i, rr, q) ==
    IF rr.rtype \in {T_RRSIG, T_NSEC, T_NSEC3} /\ ~(i <= p.an /\ rr.rtype = q.qtype /\ rr.class = q.qclass)
    THEN "remove" ELSE "keep"

VerdictConf(p, types, i, rr, q) ==
    IF q.qtype = T_ANY /\ T_ANY \in types
    THEN IF rr.class # C_IN \/ rr.rtype \in {T_A, T_AAAA, T_MX, T_CNAME} THEN "keep" ELSE "remove"
    ELSE IF i > p.an THEN "stop"
    ELSE IF rr.class = C_IN /\ rr.rtype \in types THEN "remove" ELSE "keep"
filter_configured_rr_types(p, types) ==
    IF types = {} THEN Whole(p)
    ELSE filter_with(p, LAMBDA i, rr, q : VerdictConf(p, types, i, rr, q))

=============================================================================

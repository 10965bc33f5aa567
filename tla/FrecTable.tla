------------------------------- MODULE FrecTable -------------------------------
(***************************************************************************)
(* The in-flight query table of src/forward.rs (`FrecTable`).              *)
(*                                                                         *)
(* A table is a sequence of frecs (the code's `Vec<Frec>`) and the global  *)
(* count of duplicate-client records.  A frec is in flight when `sentto`   *)
(* is a server index (1..n, 0 is `None`).  Instead of `sent_at` it carries *)
(* its age, saturating at HardTimeout: the code only compares ages with    *)
(* RetryAge, FrecTimeout and HardTimeout.  `extra` and `rfds` are sets: a  *)
(* client is attached only when its (source, orig_id) is not there yet,    *)
(* and a socket only when the frec does not hold it.                       *)
(*                                                                         *)
(* `dependent` and `blocking_query` are set nowhere in the program, and    *)
(* `get_new_frec` is only called with force = false, so the branches that  *)
(* depend on them are not modelled.                                        *)
(***************************************************************************)
EXTENDS Integers, Sequences, FiniteSets, FiniteSetsExt

CONSTANTS RetryAge,       \* a younger duplicate is not re-sent (2 s)
          FrecTimeout,    \* FREC_TIMEOUT_SECS
          MaxPerGroup     \* max_per_group, daemon->ftabsize

ASSUME TableAssumption ==
  /\ RetryAge \in Nat /\ FrecTimeout \in Nat \ {0} /\ MaxPerGroup \in Nat \ {0}
  /\ RetryAge <= FrecTimeout

HardTimeout == 4 * FrecTimeout

NoSrc == [req |-> "none", fd |-> 0, via |-> "none"]

FreeFrec ==
  [sentto |-> 0, new_id |-> 0, flags |-> "none", question |-> "none", age |-> 0,
   tried |-> {}, retries |-> 0, src |-> NoSrc, extra |-> {}, rfds |-> {}]

InFlight(frecs) == {i \in DOMAIN frecs : frecs[i].sentto # 0}

\* `srcs`: the first client and the ones folded onto the query.
Srcs(f) == {f.src} \cup f.extra

\* The duplicate-client records of the frecs in F.
ExtraSrcs(frecs, F) == UNION {{i} \X frecs[i].extra : i \in F}

---------------------------------------------------------------------------
\* `free_frec` on every frec of F.
FreeFrecs(frecs, F) ==
  [i \in DOMAIN frecs |-> IF i \in F THEN FreeFrec ELSE frecs[i]]

SrcCountAfterFree(frecs, count, F) ==
  LET n == Cardinality(ExtraSrcs(frecs, F)) IN IF n > count THEN 0 ELSE count - n

\* How often slot k occurs in the `released_rfds` that freeing F leaves behind.
ReleasedRfds(frecs, slots, F) ==
  [k \in DOMAIN slots |-> Cardinality({i \in F : k \in frecs[i].rfds})]

\* `get_new_frec`: admission, and the slot that is used.
HardExpired(frecs) == {i \in InFlight(frecs) : frecs[i].age >= HardTimeout}

GroupFull(frecs, server) ==
  Cardinality({i \in InFlight(frecs) :
                 frecs[i].sentto = server /\ frecs[i].age < FrecTimeout}) >= MaxPerGroup

\* Fault: with no free slot, any query in flight is evicted.
TargetSlotAny(frecs) ==
  IF DOMAIN frecs = {} THEN 1
  ELSE IF DOMAIN frecs \ InFlight(frecs) # {} THEN Min(DOMAIN frecs \ InFlight(frecs)) ELSE 1

\* The last hard-expired slot, else the first free one, else the first one past
\* FrecTimeout, else a new one.
TargetSlot(frecs) ==
  LET free == DOMAIN frecs \ InFlight(frecs)
      old  == {i \in InFlight(frecs) : frecs[i].age >= FrecTimeout}
  IN  CASE HardExpired(frecs) # {} -> Max(HardExpired(frecs))
        [] HardExpired(frecs) = {} /\ free # {} -> Min(free)
        [] HardExpired(frecs) = {} /\ free = {} /\ old # {} -> Min(old)
        [] OTHER -> Len(frecs) + 1

\* The query evicted to make room, if any.
Evicted(frecs) == {TargetSlot(frecs)} \cap InFlight(frecs)

\* Put f into slot i, growing the table when i is new.
PutFrec(frecs, i, f) ==
  [j \in 1 .. (IF i > Len(frecs) THEN i ELSE Len(frecs)) |->
      IF j = i THEN f ELSE frecs[j]]

\* Fault: ids of hard-expired queries count as unused.
IdInUseSoft(frecs, id) ==
  \E i \in InFlight(frecs) : frecs[i].new_id = id /\ frecs[i].age < HardTimeout

\* `get_id`: any non-zero id no query in flight uses.
IdInUse(frecs, id) == \E i \in InFlight(frecs) : frecs[i].new_id = id

\* `lookup_frec` by transaction id: a set of at most one index.
LookupFrec(frecs, id) ==
  LET hits == {i \in InFlight(frecs) : frecs[i].new_id = id}
  IN  IF hits = {} THEN {} ELSE {i \in {Min(hits)} : frecs[i].age < HardTimeout}

\* Faults: the EDNS0/DNSSEC context is not compared; overdue queries are not found.
LookupAnyFlags(frecs, question, flags) ==
  LET hits == {i \in InFlight(frecs) : frecs[i].question = question}
  IN  IF hits = {} THEN {} ELSE {i \in {Min(hits)} : frecs[i].age < HardTimeout}

LookupYoung(frecs, question, flags) ==
  {i \in InFlight(frecs) : /\ frecs[i].question = question /\ frecs[i].flags = flags
                           /\ frecs[i].age < FrecTimeout}

\* `lookup_frec_by_question`: the first query with this question and context; if
\* that one is past HardTimeout the search gives up.
LookupByQuestion(frecs, question, flags) ==
  LET hits == {i \in InFlight(frecs) :
                 frecs[i].question = question /\ frecs[i].flags = flags}
  IN  IF hits = {} THEN {} ELSE {i \in {Min(hits)} : frecs[i].age < HardTimeout}

\* Fault: the last slot is never looked at.
StaleButLast(frecs, timeout) ==
  {i \in InFlight(frecs) : i < Len(frecs) /\ frecs[i].age > timeout}

\* `expire_old`
Stale(frecs, timeout) == {i \in InFlight(frecs) : frecs[i].age > timeout}

\* Fault: servers already tried are not left out.
NextServerAgain(servers, tried, last) ==
  LET after == {s \in servers : s > last}
  IN  IF servers = {} THEN {} ELSE IF after # {} THEN {Min(after)} ELSE {Min(servers)}

\* `next_server`, on the set of candidate indices (the code's list is in ascending
\* order): the first untried one after `last`, wrapping round; {} for `None`.
NextServer(servers, tried, last) ==
  LET left  == servers \ tried
      after == {s \in left : last \in servers /\ s > last}
  IN  IF Cardinality(tried) >= Cardinality(servers) \/ left = {} THEN {}
      ELSE IF after # {} THEN {Min(after)} ELSE {Min(left)}
===============================================================================

------------------------------ MODULE ArpCache ------------------------------
(***************************************************************************)
(* The cache of the kernel's neighbour table, shared (under one lock) by   *)
(* the tasks that look up hardware addresses and by the housekeeping tick  *)
(* that refreshes it and tells the script helper what came and went.       *)
(*                                                                         *)
(* A record is [addr, hwaddr, status]; `kernel` is the neighbour table, a  *)
(* set of <<addr, hwaddr>>; `view` is what the events delivered so far say *)
(* is present.  Hardware addresses longer than DHCP_CHADDR_MAX are refused *)
(* by filter_mac; `TooLong` stands for one.                                *)
(***************************************************************************)
EXTENDS Naturals, Sequences, FiniteSets, SequencesExt

CONSTANTS Addrs, Macs, TooLong,
          RefreshInterval,  \* 90 seconds
          MaxRecords,       \* bound on the records kept
          NoMac

VARIABLES active, old, age, kernel, netlink, script_arp, view, found

arpVars == <<active, old, age, kernel, netlink, script_arp, view, found>>

is_stale(a) == a >= RefreshInterval

begin_refresh(recs) ==
    [k \in DOMAIN recs |-> IF recs[k].status = "Empty" THEN recs[k] ELSE [recs[k] EXCEPT !.status = "Mark"]]

New(e) == [addr |-> e[1], hwaddr |-> e[2], status |-> "New"]

\* The first record of this address that is negative (which it fills) or has
\* this hardware address (which it confirms); else a new record.
filter_mac(recs, e) ==
    LET hit == {k \in DOMAIN recs : /\ recs[k].addr = e[1] /\ recs[k].status # "New"
                                    /\ (recs[k].status = "Empty" \/ recs[k].hwaddr = e[2])}
        first == CHOOSE k \in hit : \A j \in hit : k <= j
    IN  IF e[2] = TooLong THEN recs
        ELSE IF hit = {} THEN Append(recs, New(e))
        ELSE IF recs[first].status = "Empty" THEN [recs EXCEPT ![first] = New(e)]
        ELSE [recs EXCEPT ![first].status = "Found"]

\* kernel_enumerate_into: the neighbours in any order; the dump may break off
\* (its error is not looked at) after any number of them.
Dumps == UNION {SetToSeqs(s) : s \in SUBSET kernel}
kernel_enumerate_into(recs, dump) == FoldLeft(filter_mac, recs, dump)

\* Fault: what was not confirmed is dropped without a trace.
Discard(recs) == [keep |-> SelectSeq(recs, LAMBDA r : r.status # "Mark"), expired |-> <<>>]

finish_refresh(recs) ==
    [keep |-> SelectSeq(recs, LAMBDA r : r.status # "Mark"),
     expired |-> SelectSeq(recs, LAMBDA r : r.status = "Mark")]

Refreshed(dump) == finish_refresh(kernel_enumerate_into(begin_refresh(active), dump))

\* find_mac_cached: negative records have no hardware address to return, in
\* lazy mode or not.
find_mac_cached(recs, a) ==
    LET mine == SelectSeq(recs, LAMBDA r : r.addr = a /\ r.hwaddr # NoMac)
    IN  IF mine = <<>> THEN NoMac ELSE Head(mine).hwaddr

add_empty(recs, a) ==
    IF \E r \in ToSet(recs) : r.addr = a THEN recs
    ELSE Append(recs, [addr |-> a, hwaddr |-> NoMac, status |-> "Empty"])

\* ensure_netlink_open: keep the socket, or try to open it.
Opened == IF netlink THEN {TRUE} ELSE BOOLEAN

\* find_mac_shared: from the cache, else one refresh and again, else a
\* negative record.  Without a netlink socket the cache is all there is.
find_mac(a) ==
    \E open \in Opened :
      /\ netlink' = open
      /\ \/ /\ (~is_stale(age) \/ ~open)
            /\ (find_mac_cached(active, a) # NoMac \/ ~open)
            /\ found' = [addr |-> a, mac |-> find_mac_cached(active, a)]
            /\ UNCHANGED <<active, old, age>>
         \/ /\ open
            /\ is_stale(age) \/ find_mac_cached(active, a) = NoMac
            /\ \E dump \in Dumps :
                  LET r == Refreshed(dump)
                      mac == find_mac_cached(r.keep, a)
                  IN  /\ active' = IF mac = NoMac THEN add_empty(r.keep, a) ELSE r.keep
                      /\ old' = old \o r.expired
                      /\ found' = [addr |-> a, mac |-> mac]
            /\ age' = 0
      /\ UNCHANGED <<kernel, script_arp, view>>

\* do_arp_script_run until nothing is pending: deletions first, then the
\* additions, which become Found.
Told(v, gone, came) == (v \ {<<r.addr, r.hwaddr>> : r \in gone}) \union {<<r.addr, r.hwaddr>> : r \in came}

drain_arp_script_events(recs, expired) ==
    /\ active' = [k \in DOMAIN recs |->
                     IF recs[k].status = "New" THEN [recs[k] EXCEPT !.status = "Found"] ELSE recs[k]]
    /\ old' = <<>>
    /\ view' = IF script_arp THEN Told(view, ToSet(expired), {r \in ToSet(recs) : r.status = "New"}) ELSE view

\* arp_housekeeping_tick: refresh if stale (with --script-arp), then drain.
\* The lock is released between the two.
TickRefresh ==
    /\ script_arp /\ is_stale(age)
    /\ \E open \in Opened :
          /\ netlink' = open
          /\ \/ ~open /\ UNCHANGED <<active, old, age>>
             \/ /\ open
                /\ \E dump \in Dumps : /\ active' = Refreshed(dump).keep
                                       /\ old' = old \o Refreshed(dump).expired
                /\ age' = 0
    /\ UNCHANGED <<kernel, script_arp, view, found>>

TickDrain == /\ drain_arp_script_events(active, old)
             /\ UNCHANGED <<age, kernel, netlink, script_arp, found>>

\* The network changes and time passes.
KernelChange == /\ \E e \in Addrs \X (Macs \union {TooLong}) :
                      kernel' \in {(kernel \ {f \in kernel : f[1] = e[1]}) \union {e}, kernel \ {e}}
                /\ UNCHANGED <<active, old, age, netlink, script_arp, view, found>>
ArpSecond == /\ age < RefreshInterval /\ age' = age + 1
             /\ UNCHANGED <<active, old, kernel, netlink, script_arp, view, found>>

ArpInit == /\ active = <<>> /\ old = <<>> /\ age = RefreshInterval /\ kernel = {}
           /\ netlink = FALSE /\ script_arp \in BOOLEAN /\ view = {} /\ found = [addr |-> NoMac, mac |-> NoMac]

ArpNext == \/ \E a \in Addrs : Len(active) + Len(old) < MaxRecords /\ find_mac(a)
           \/ Len(active) + Len(old) < MaxRecords /\ TickRefresh
           \/ TickDrain
           \/ KernelChange
           \/ ArpSecond

----------------------------------------------------------------------------

\* The script is never left believing in a neighbour that has gone: what it
\* was told of and not told the end of is still cached, or its deletion is
\* queued, however lookups refresh the cache between two ticks
\* (finish_refresh, do_arp_script_run).
NoGhosts ==
    view \subseteq {<<r.addr, r.hwaddr>> : r \in ToSet(active) \union ToSet(old)}

=============================================================================

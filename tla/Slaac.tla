------------------------------- MODULE Slaac -------------------------------
(***************************************************************************)
(* SLAAC addresses of DHCPv4 clients: from a lease's hardware address and  *)
(* the ranges advertised with names the server derives the addresses the   *)
(* client has probably configured, probes them with ICMPv6 echo requests   *)
(* at growing intervals, and publishes those that answer.                  *)
(*                                                                         *)
(* A lease is [hw, last_interface, named, stateful]: its hardware address  *)
(* and client identifier, and whether it has a hostname and is a DHCPv6    *)
(* lease.  A context is [flags, if_index, prefix]; an address is the pair  *)
(* of prefix and host identifier.                                          *)
(***************************************************************************)
EXTENDS Naturals, Sequences, SequencesExt, FiniteSets

CONSTANTS SlaacLeases,   \* the keys of the lease table
          LeaseStates,   \* what a lease may look like
          ContextChains, \* chains of contexts
          MaxBackoff,    \* 12
          Jitter,        \* seconds of random delay
          MaxTime, NoHost

VARIABLES lease, slaac_address, contexts, dns_dirty, clock

slaacVars == <<lease, slaac_address, contexts, dns_dirty, clock>>

\* derive_slaac_host_id: an Ethernet MAC of 6 bytes, an EUI-64 of 8, or a
\* FireWire client's EUI-64 taken from its client identifier; the
\* universal/local bit is flipped in each (the value stands for the result).
derive_slaac_host_id(hw) ==
    IF \/ hw.len = 6 /\ hw.type \in {"ETHER", "IEEE802"}
       \/ hw.len = 8 /\ hw.type = "EUI64"
    THEN hw.id
    ELSE IF hw.type = "IEEE1394" /\ hw.clid_eui64 THEN hw.clid
    ELSE NoHost

Advertised(c) == "RA_NAME" \in c.flags /\ "OLD" \notin c.flags

Eligible(l) == l.hw.present /\ ~l.stateful /\ l.last_interface # 0 /\ l.named

Derived(l) ==
    LET mine == SelectSeq(contexts, LAMBDA c : /\ Advertised(c) /\ c.if_index = l.last_interface
                                                /\ derive_slaac_host_id(l.hw) # NoHost)
    IN  [k \in DOMAIN mine |-> <<mine[k].prefix, derive_slaac_host_id(l.hw)>>]

Entry(old, a, force) ==
    IF force \/ ~\E s \in ToSet(old) : s.addr = a
    THEN [addr |-> a, ping_time |-> clock, backoff |-> 1]
    ELSE CHOOSE s \in ToSet(old) : s.addr = a

\* Fault: a dropped address is not reported.
DirtyOnForceOnly(old, addrs, force) ==
    force /\ \E s \in ToSet(old) : s.addr \in ToSet(addrs)

\* Whether slaac_add_addrs reports a change: an entry was recycled by force,
\* or an old one matches no context any more.
Dirty(old, addrs, force) ==
    \/ force /\ \E s \in ToSet(old) : s.addr \in ToSet(addrs)
    \/ \E s \in ToSet(old) : s.addr \notin ToSet(addrs)

\* refresh_slaac: recompute every lease's addresses.
refresh_slaac(force) ==
    LET able == {k \in SlaacLeases : Eligible(lease[k])}
    IN  /\ slaac_address' = [k \in SlaacLeases |->
                IF k \notin able THEN slaac_address[k]
                ELSE LET addrs == Derived(lease[k])
                     IN  [n \in DOMAIN addrs |-> Entry(slaac_address[k], addrs[n], force)]]
        /\ dns_dirty' = (dns_dirty \/ \E k \in able : Dirty(slaac_address[k], Derived(lease[k]), force))
        /\ UNCHANGED <<lease, contexts, clock>>

Due(s) == s.backoff # 0 /\ s.ping_time # NoHost /\ s.ping_time <= clock

\* One probe: give up when the host is unreachable at the longest interval,
\* else wait 2^(backoff-1) seconds and a little.
Probe(s, unreachable, extra) ==
    IF ~Due(s) THEN s
    ELSE IF unreachable /\ s.backoff = MaxBackoff THEN [s EXCEPT !.ping_time = NoHost]
    ELSE [s EXCEPT !.ping_time = @ + 2^(s.backoff - 1) + extra,
                   !.backoff = IF @ < MaxBackoff THEN @ + 1 ELSE @]

\* periodic_slaac; the wake-up time it returns is not used by the loop,
\* which ticks every second.
periodic_slaac(unreachable, extra) ==
    /\ \E c \in ToSet(contexts) : Advertised(c)
    /\ slaac_address' = [k \in SlaacLeases |->
            [n \in DOMAIN slaac_address[k] |->
                Probe(slaac_address[k][n], slaac_address[k][n].addr \in unreachable, extra)]]
    /\ UNCHANGED <<lease, contexts, dns_dirty, clock>>

\* An echo reply with our identifier, from whoever has the address; it may
\* be late, repeated, or the answer to an earlier probe.
slaac_ping_reply(sender) ==
    LET hit(s) == s.backoff # 0 /\ s.addr = sender
    IN  /\ slaac_address' = [k \in SlaacLeases |->
                [n \in DOMAIN slaac_address[k] |->
                    IF hit(slaac_address[k][n]) THEN [slaac_address[k][n] EXCEPT !.backoff = 0]
                    ELSE slaac_address[k][n]]]
        /\ dns_dirty' = (dns_dirty \/ \E k \in SlaacLeases : \E s \in ToSet(slaac_address[k]) : hit(s))
        /\ UNCHANGED <<lease, contexts, clock>>

AllAddrs == UNION {{s.addr : s \in ToSet(slaac_address[k])} : k \in SlaacLeases}

\* The rest of the server changes leases, consumes the flag, and time passes.
LeaseChanges == /\ \E k \in SlaacLeases, l \in LeaseStates : lease' = [lease EXCEPT ![k] = l]
                /\ UNCHANGED <<slaac_address, contexts, dns_dirty, clock>>
ContextsChange == contexts' \in ContextChains /\ UNCHANGED <<lease, slaac_address, dns_dirty, clock>>
UpdateDns == dns_dirty /\ dns_dirty' = FALSE /\ UNCHANGED <<lease, slaac_address, contexts, clock>>
Second == clock < MaxTime /\ clock' = clock + 1 /\ UNCHANGED <<lease, slaac_address, contexts, dns_dirty>>

SlaacInit == /\ lease \in [SlaacLeases -> LeaseStates]
             /\ contexts \in ContextChains
             /\ slaac_address = [k \in SlaacLeases |-> <<>>]
             /\ dns_dirty = FALSE
             /\ clock = 0

SlaacNext == \/ \E force \in BOOLEAN : refresh_slaac(force)
             \/ \E u \in SUBSET AllAddrs, x \in 0 .. Jitter : periodic_slaac(u, x)
             \/ \E a \in AllAddrs : slaac_ping_reply(a)
             \/ LeaseChanges
             \/ ContextsChange
             \/ UpdateDns
             \/ Second

----------------------------------------------------------------------------

\* The addresses the DNS may publish for a lease: those that have answered.
Confirmed(k) == {s.addr : s \in {x \in ToSet(slaac_address[k]) : x.backoff = 0}}

\* No change to the confirmed addresses goes unreported: the step that
\* confirms, recycles or drops one leaves dns_dirty set (confirm_slaac_ping,
\* refresh_slaac).
SlaacToldToDns ==
    [][(\E k \in SlaacLeases : Confirmed(k)' # Confirmed(k)) => dns_dirty']_slaacVars

=============================================================================

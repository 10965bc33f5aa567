------------------------------- MODULE Frames -------------------------------
(***************************************************************************)
(* The two streams of framed records the daemon writes: the pipe of events *)
(* to the script helper (helper.rs) and the packet dump file (dump.rs).    *)
(* A stream is a sequence of cells; a field of fixed width is one cell, an *)
(* address and a piece of text are sequences of bytes.  Time stamps, the   *)
(* build's optional fields and the wording of the log are left out.        *)
(***************************************************************************)
EXTENDS Integers, Sequences, FiniteSets, SequencesExt

CONSTANT None

(* --- script events ------------------------------------------------------ *)
DHCP_CHADDR_MAX == 16
IF_NAMESIZE == 16
WIRE_VERSION == 1
AF_INET == 2
AF_INET6 == 10
\* The action codes, in the code's numbering.
Actions == [del |-> 1, old_hostname |-> 2, old |-> 3, add |-> 4, tftp |-> 5, arp |-> 6, arp_del |-> 7, snoop |-> 8]
Unspec == 0

Blank == [action |-> 0, flags |-> 0, hwaddr_type |-> 0, hwaddr |-> <<>>, addr |-> Unspec, giaddr |-> Unspec,
          addr6 |-> Unspec, remaining |-> 0, expires |-> 0, file_len |-> 0, interface |-> <<>>, clid |-> <<>>,
          hostname |-> None, extradata |-> <<>>]

Upto(s, n) == SubSeq(s, 1, IF Len(s) < n THEN Len(s) ELSE n)

for_lease(action, lease, hostname, now) ==
    [Blank EXCEPT !.action = action, !.flags = lease.flags, !.hwaddr_type = lease.hwaddr_type,
                  !.hwaddr = Upto(lease.hwaddr, DHCP_CHADDR_MAX), !.addr = lease.addr, !.giaddr = lease.giaddr,
                  !.addr6 = lease.addr6, !.clid = lease.clid, !.hostname = hostname, !.extradata = lease.extradata,
                  !.remaining = IF lease.expires > now THEN lease.expires - now ELSE 0, !.expires = lease.expires]

\* The event's family is kept where a lease event has its flags.
WithPeer(event, v6, addr) ==
    IF v6 THEN [event EXCEPT !.flags = AF_INET6, !.addr6 = addr]
    ELSE [event EXCEPT !.flags = AF_INET, !.addr = addr]

for_arp(is_del, mac, v6, addr) ==
    WithPeer([Blank EXCEPT !.action = IF is_del THEN Actions.arp_del ELSE Actions.arp,
                           !.hwaddr_type = 1, !.hwaddr = mac], v6, addr)

for_tftp(filename, file_len, v6, addr) ==
    WithPeer([Blank EXCEPT !.action = Actions.tftp, !.file_len = file_len, !.hostname = filename], v6, addr)

for_relay_snoop(client, prefix, interface) ==
    [Blank EXCEPT !.action = Actions.snoop, !.addr6 = client, !.interface = interface, !.hostname = prefix]

PadTo(s, n) == [i \in 1 .. n |-> IF i <= Len(s) THEN s[i] ELSE 0]
HostBytes(h) == IF h = None THEN <<>> ELSE Append(h, 0)

\* Fault: the terminating zero is written but not counted.
HostLengthShort(h) == IF h = None THEN 0 ELSE Len(h) % 2^16

HostLength(h) == Len(HostBytes(h)) % 2^16

encode(d) ==
    LET hw == Upto(d.hwaddr, DHCP_CHADDR_MAX)
        iface == Upto(d.interface, IF_NAMESIZE - 1)
    IN  <<WIRE_VERSION, d.action, d.flags, d.hwaddr_type, Len(hw)>> \o PadTo(hw, DHCP_CHADDR_MAX)
            \o <<Len(d.clid) % 2^16, HostLength(d.hostname), Len(d.extradata), d.addr, d.giaddr, d.addr6,
                 d.remaining, d.expires, d.file_len>>
            \o PadTo(iface, IF_NAMESIZE) \o d.clid \o HostBytes(d.hostname) \o d.extradata

HEADER_LEN == 5 + DHCP_CHADDR_MAX + 9 + IF_NAMESIZE

\* The bytes before the first zero; all of them when there is none.
UntilZero(s) ==
    LET zeros == {i \in DOMAIN s : s[i] = 0}
    IN  IF zeros = {} THEN s ELSE SubSeq(s, 1, (CHOOSE i \in zeros : \A j \in zeros : i <= j) - 1)

\* The fields of a header, None when its version is not ours.
decode_header(h) ==
    LET f(i) == h[5 + DHCP_CHADDR_MAX + i]
    IN  IF h[1] # WIRE_VERSION THEN None
        ELSE [action |-> h[2], flags |-> h[3], hwaddr_type |-> h[4],
              hwaddr |-> SubSeq(h, 6, 5 + (IF h[5] > DHCP_CHADDR_MAX THEN DHCP_CHADDR_MAX ELSE h[5])),
              clid_len |-> f(1), hostname_len |-> f(2), ed_len |-> f(3), addr |-> f(4), giaddr |-> f(5),
              addr6 |-> f(6), remaining |-> f(7), expires |-> f(8), file_len |-> f(9),
              interface |-> UntilZero(SubSeq(h, HEADER_LEN - IF_NAMESIZE + 1, HEADER_LEN))]

from_header_and_blob(h, blob) ==
    LET host == SubSeq(blob, h.clid_len + 1, h.clid_len + h.hostname_len)
    IN  [action |-> h.action, flags |-> h.flags, hwaddr_type |-> h.hwaddr_type, hwaddr |-> h.hwaddr,
         addr |-> h.addr, giaddr |-> h.giaddr, addr6 |-> h.addr6, remaining |-> h.remaining, expires |-> h.expires,
         file_len |-> h.file_len, interface |-> h.interface, clid |-> SubSeq(blob, 1, h.clid_len),
         hostname |-> IF host = <<>> THEN None ELSE UntilZero(host),
         extradata |-> SubSeq(blob, h.clid_len + h.hostname_len + 1, Len(blob))]

(* --- what the script is given *)
LeaseAction(a) == a \notin {Actions.tftp, Actions.arp, Actions.arp_del, Actions.snoop}

is6(d) == CASE d.action \in {Actions.tftp, Actions.arp, Actions.arp_del} -> d.flags # AF_INET
            [] d.action = Actions.snoop -> TRUE
            [] OTHER -> (d.flags \div 2^5) % 4 # 0

DOT == 46
\* What stands before the first dot; all of it when there is none.
FirstLabel(name) ==
    LET dots == {i \in DOMAIN name : name[i] = DOT}
    IN  IF dots = {} THEN name ELSE SubSeq(name, 1, (CHOOSE i \in dots : \A j \in dots : i <= j) - 1)

\* Only the first label counts; of its letters, 32 stands for those that are
\* not allowed.
legal_hostname(name) == FirstLabel(name) # <<>> /\ \A i \in DOMAIN FirstLabel(name) : FirstLabel(name)[i] # 32

hostname_and_domain(d) ==
    LET h == d.hostname
        first == FirstLabel(h)
    IN  CASE h = None -> <<None, None>>
          [] h # None /\ d.action \in {Actions.tftp, Actions.snoop} -> <<h, None>>
          [] OTHER ->
                 IF ~legal_hostname(h) THEN <<None, None>>
                 ELSE IF first = h THEN <<h, None>> ELSE <<first, SubSeq(h, Len(first) + 2, Len(h))>>

\* The zero-terminated pieces of the extra data; a piece without its zero
\* ends the list.
Pieces(ed) ==
    LET From[i \in 1 .. Len(ed) + 1] ==
            LET zeros == {j \in i .. Len(ed) : ed[j] = 0}
                z == CHOOSE j \in zeros : \A k \in zeros : j <= k
            IN  IF zeros = {} THEN <<>> ELSE <<SubSeq(ed, i, z - 1)>> \o From[z + 1]
    IN  From[1]

ExtraNames(v6) ==
    IF v6 THEN <<"SUPPLIED_HOSTNAME", "REQUESTED_OPTIONS", "MUD_URL", "TAGS", "RELAY_ADDRESS">>
    ELSE <<"VENDOR_CLASS", "SUPPLIED_HOSTNAME", "CPEWAN_OUI", "CPEWAN_SERIAL", "CPEWAN_CLASS", "CIRCUIT_ID",
           "SUBSCRIBER_ID", "REMOTE_ID", "REQUESTED_OPTIONS", "MUD_URL", "TAGS">>

\* Variables from the extra data; what is left over are user classes.
set_extradata_env(d) ==
    LET names == ExtraNames(is6(d))
        pieces == Pieces(d.extradata)
    IN  {<<IF i <= Len(names) THEN <<names[i], 0>> ELSE <<"USER_CLASS", i - Len(names) - 1>>, pieces[i]>> : i \in DOMAIN pieces}

\* The command one event runs: its arguments and its variables.
run_script_child(what, d, log_dhcp) ==
    LET hd == hostname_and_domain(d)
        var(when, name, value) == IF when THEN {<<<<name, 0>>, value>>} ELSE {}
        env == var(~is6(d) /\ d.clid # <<>>, "CLIENT_ID", d.clid)
               \cup var(d.interface # <<>>, "INTERFACE", d.interface)
               \cup var(TRUE, "LEASE_EXPIRES", d.expires)
               \cup var(hd[2] # None, "DOMAIN", hd[2])
               \cup var(d.extradata = <<>>, "DATA_MISSING", 1)
               \cup set_extradata_env(d)
               \cup var(~is6(d) /\ d.giaddr # Unspec, "RELAY_ADDRESS", d.giaddr)
               \cup var(d.action # Actions.del /\ d.remaining # 0, "TIME_REMAINING", d.remaining)
               \cup var(d.action = Actions.old_hostname /\ hd[1] # None, "OLD_HOSTNAME", hd[1])
               \cup var(log_dhcp, "LOG_DHCP", 1)
    IN  [what |-> what,
         second |-> IF d.action = Actions.tftp THEN <<d.file_len>> ELSE <<d.hwaddr_type>> \o d.hwaddr,
         addr |-> IF is6(d) THEN d.addr6 ELSE d.addr, host |-> hd[1],
         env |-> IF LeaseAction(d.action) THEN env ELSE {}]

ActionName(a) ==
    CASE a = Actions.del -> "del" [] a = Actions.add -> "add" [] a \in {Actions.old, Actions.old_hostname} -> "old"
      [] a = Actions.tftp -> "tftp" [] a = Actions.arp -> "arp-add" [] a = Actions.arp_del -> "arp-del"
      [] a = Actions.snoop -> "relay-snoop" [] OTHER -> None

\* The helper's loop over the pipe: the scripts it runs until the pipe ends.
run_helper_loop(pipe, command, log_dhcp) ==
    LET Loop[pos \in 0 .. Len(pipe)] ==
            LET h == decode_header(SubSeq(pipe, pos + 1, pos + HEADER_LEN))
                size == h.clid_len + h.hostname_len + h.ed_len
                end == pos + HEADER_LEN + size
                d == from_header_and_blob(h, SubSeq(pipe, pos + HEADER_LEN + 1, end))
                run == IF ActionName(d.action) = None \/ command = None THEN <<>>
                       ELSE <<run_script_child(ActionName(d.action), d, log_dhcp)>>
            IN  IF pos + HEADER_LEN > Len(pipe) THEN <<>>
                ELSE IF h = None THEN Loop[pos + HEADER_LEN]
                ELSE IF end > Len(pipe) THEN <<>>
                ELSE run \o Loop[end]
    IN  Loop[0]

(* --- packet dump -------------------------------------------------------- *)
\* Internet checksum of a sequence of bytes: the complement of the
\* end-around-carry sum of its 16-bit words, never 0.
WordSum(data) ==
    LET n == (Len(data) + 1) \div 2
        word(i) == 256 * data[2 * i - 1] + IF 2 * i <= Len(data) THEN data[2 * i] ELSE 0
        Sum[i \in 0 .. n] == IF i = 0 THEN 0
                             ELSE LET s == Sum[i - 1] + word(i) IN (s % 2^16) + (s \div 2^16)
    IN  Sum[n]
inet_cksum(data) == IF WordSum(data) = 2^16 - 1 THEN 2^16 - 1 ELSE 2^16 - 1 - WordSum(data)

Be16(n) == <<(n \div 256) % 256, n % 256>>
V6(addr) == Len(addr) = 16
\* The pseudo-header a transport checksum starts with.
Pseudo(src, dst, proto, len) ==
    IF V6(src) THEN src \o dst \o <<0, 0>> \o Be16(len) \o <<0, 0, 0, proto>>
    ELSE src \o dst \o <<0, proto>> \o Be16(len)
udp_cksum(src, dst, proto, segment) == inet_cksum(Pseudo(src, dst, proto, Len(segment)) \o segment)

\* A header and the segment under it.
IpFrame(src, dst, proto, segment) ==
    LET head(ck) == <<69, 0>> \o Be16(20 + Len(segment)) \o <<0, 0, 64, 0, 64, proto>> \o Be16(ck) \o src \o dst
    IN  IF V6(src) THEN <<96, 0, 0, 0>> \o Be16(Len(segment)) \o <<proto, 64>> \o src \o dst \o segment
        ELSE head(inet_cksum(head(0))) \o segment

UdpSegment(src, sport, dst, dport, payload) ==
    LET seg(ck) == Be16(sport) \o Be16(dport) \o Be16(8 + Len(payload)) \o Be16(ck) \o payload
    IN  seg(udp_cksum(src, dst, 17, seg(0)))
frame_udp(src, sport, dst, dport, payload) == IpFrame(src, dst, 17, UdpSegment(src, sport, dst, dport, payload))

\* Both families take the sum over the pseudo-header too.
frame_icmp(src, dst, message) ==
    LET proto == IF V6(src) THEN 58 ELSE 1
        seg(ck) == SubSeq(message, 1, 2) \o Be16(ck) \o SubSeq(message, 5, Len(message))
    IN  IpFrame(src, dst, proto, IF Len(message) >= 4 THEN seg(udp_cksum(src, dst, proto, seg(0))) ELSE message)

\* The file: a magic number, then records of a time, a length and that many
\* bytes.
MagicCell == 1000   \* stands for PCAP_MAGIC and the rest of the header
RecordHeader == 2
record_header_bytes(len) == <<0, len>>

\* The records of an old file; one whose data is cut short is counted, the
\* position being moved past the end.
Recovered(file) ==
    LET Count[pos \in 1 .. Len(file)] ==
            IF pos + RecordHeader > Len(file) THEN 0
            ELSE LET next == pos + RecordHeader + file[pos + RecordHeader]
                 IN  1 + IF next >= Len(file) THEN 0 ELSE Count[next]
    IN  Count[1]

\* init: a new file or a FIFO gets the header, an old file is checked and its
\* records are counted.  None is an error.
DumpInit(kind, file) ==
    CASE kind \in {"absent", "fifo"} -> [file |-> Append(file, MagicCell), count |-> 0]
      [] kind = "file" -> IF file = <<>> \/ file[1] # MagicCell THEN None
                          ELSE [file |-> file, count |-> Recovered(file)]

\* One record; room is what the device takes before it is full.
write_record(h, framed, room) ==
    LET all == record_header_bytes(Len(framed)) \o framed
    IN  [file |-> h.file \o Upto(all, room), count |-> IF Len(all) <= room THEN h.count + 1 ELSE h.count]

\* dump_packet_udp: an address that is not known is the local one.
dump_packet_udp(h, wanted, src, dst, local, payload, room) ==
    LET s == IF src = None THEN local ELSE src
        d == IF dst = None THEN local ELSE dst
    IN  IF ~wanted \/ s = None \/ d = None THEN h
        ELSE IF V6(s.ip) # V6(d.ip) THEN h
        ELSE write_record(h, frame_udp(s.ip, s.port, d.ip, d.port, payload), room)

dump_packet_icmp(h, wanted, src, dst, message, room) ==
    IF ~wanted \/ src = None \/ dst = None THEN h
    ELSE IF V6(src.ip) # V6(dst.ip) THEN h
    ELSE write_record(h, frame_icmp(src.ip, dst.ip, message), room)

=============================================================================

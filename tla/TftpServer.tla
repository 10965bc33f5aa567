----------------------------- MODULE TftpServer -----------------------------
(***************************************************************************)
(* The TFTP server of src/tftp.rs: run_tftp_loop, its table of transfers   *)
(* and the files the transfers share, serving clients over a network that  *)
(* loses, delays and reorders packets.                                     *)
(*                                                                         *)
(* The loop is one task: it handles one datagram, or runs one sweep, at a  *)
(* time.  The channel its forwarder tasks fill is part of the network.     *)
(* Clients are external: they ask, take the blocks in order and            *)
(* acknowledge the last one they have, whenever they like.                 *)
(*                                                                         *)
(* The first part is one transfer as a value: what a request negotiates,   *)
(* which file it names, how the next block is read and encoded, and how an *)
(* ACK moves the window.  Bytes are "x", LF and CR.  Block numbers on the  *)
(* wire are taken modulo Word (2^16 in the code), option values modulo     *)
(* Uint (2^32).  Instants are relative: age is now - start and due is      *)
(* retransmit - now.                                                       *)
(***************************************************************************)
EXTENDS Integers, Sequences, SequencesExt, FiniteSets

CONSTANTS
    Word,               \* block numbers on the wire: 2^16
    Uint,               \* C's unsigned int: 2^32
    DefaultBlocksize,   \* 512
    DefaultTimeout,     \* 2
    MaxTimeout,         \* 255
    TFTP_MAX_WINDOW,    \* 32
    PacketBuffer,       \* packet_buff_sz - 4
    MtuRoom             \* interface MTU - header overhead, 0 when the MTU is unknown

ASSUME WireLimits ==
    /\ Word % 4 = 0
    /\ {Word, Uint, DefaultBlocksize, PacketBuffer} \subseteq Nat \ {0}
    /\ TFTP_MAX_WINDOW \in 1..(Word \div 4)

LF == "\n"
CR == "\r"
NoPrefetch == [offset |-> -1, data |-> <<>>]

Lesser(a, b) == IF a < b THEN a ELSE b

\* atoi_like and the reinterpretation of its result as an unsigned int.
atoi_as_c_uint(v) == v % Uint

\* The options a request may carry: a sequence of [key, val].  A later
\* option of the same name replaces an earlier one.
NoOptions == [blocksize |-> DefaultBlocksize, timeout |-> DefaultTimeout, windowsize |-> 1, negotiated |-> {}]

NegotiateOne(netascii, opts, o) ==
    LET v == atoi_as_c_uint(o.val)
        floor == IF v < 1 THEN 1 ELSE v
        inBuffer == Lesser(floor, PacketBuffer)
    IN  CASE o.key = "blksize" ->
               [opts EXCEPT !.blocksize = IF MtuRoom = 0 THEN inBuffer ELSE Lesser(inBuffer, MtuRoom),
                            !.negotiated = @ \union {"blksize"}]
          [] o.key = "tsize" /\ ~netascii ->
               [opts EXCEPT !.negotiated = @ \union {"tsize"}]
          [] o.key = "timeout" ->
               [opts EXCEPT !.timeout = Lesser(v, MaxTimeout), !.negotiated = @ \union {"timeout"}]
          [] o.key = "windowsize" /\ ~netascii ->
               [opts EXCEPT !.windowsize = Lesser(floor, TFTP_MAX_WINDOW), !.negotiated = @ \union {"windowsize"}]
          [] OTHER -> opts

parse_request_options(options, netascii) ==
    FoldLeft(LAMBDA opts, o : NegotiateOne(netascii, opts, o), NoOptions, options)

\* Whether the first reply is an OACK.
any_option_negotiated(opts) == opts.negotiated # {}

-----------------------------------------------------------------------------
(* Which file a request names.  A path is a sequence of components; dirs   *)
(* is the set of directories that exist.  prefix is --tftp-root (<<>> when *)
(* it is not set); unique is the client's --tftp-unique-root component.    *)

build_tftp_path(name, absolute, prefix, unique, dirs) ==
    LET own == Append(prefix, unique)
        root == IF prefix # <<>> /\ own \in dirs THEN own ELSE prefix
    IN  IF absolute /\ IsPrefix(root, name) THEN name ELSE root \o name

-----------------------------------------------------------------------------
(* Reading a block.                                                        *)

\* Scans buf from index i; a full buffer loses its last byte to every CR put in.
RECURSIVE Expand(_, _, _, _, _, _)
Expand(buf, i, expansion, carrylf, blocksize, lastcarrylf) ==
    LET full == Len(buf) = blocksize
        grown == SubSeq(buf, 1, i - 1) \o <<CR>> \o SubSeq(buf, i, IF full THEN Len(buf) - 1 ELSE Len(buf))
    IN  IF i > Len(buf) THEN [data |-> buf, expansion |-> expansion, carrylf |-> carrylf]
        ELSE IF buf[i] # LF \/ (i = 1 /\ lastcarrylf)
        THEN Expand(buf, i + 1, expansion, carrylf, blocksize, lastcarrylf)
        ELSE Expand(grown, i + 2, expansion + 1, carrylf \/ (full /\ i = Len(buf)), blocksize, lastcarrylf)

\* In netascii mode a line feed becomes CR LF, in place and never past
\* blocksize bytes: what no longer fits is read again for the next block.  A
\* CR in the last byte leaves its LF to the next block (carrylf).
netascii_expand(raw, blocksize, lastcarrylf) == Expand(raw, 1, 0, FALSE, blocksize, lastcarrylf)

\* A new transfer: TftpTransfer::new and what handle_new_request fills in.
NewTransfer(peer, file, netascii, opts) ==
    LET first == IF any_option_negotiated(opts) THEN 0 ELSE 1
    IN  [peer |-> peer, file |-> file, netascii |-> netascii,
         blocksize |-> opts.blocksize, windowsize |-> opts.windowsize,
         timeout |-> opts.timeout, backoff |-> 1,
         age |-> 0, due |-> IF opts.timeout < 1 THEN 1 ELSE opts.timeout,
         block |-> first, lastack |-> first, ackprev |-> 0, block_hi |-> 0,
         offset |-> 0, expansion |-> 0, carrylf |-> FALSE, lastcarrylf |-> FALSE,
         prefetch |-> NoPrefetch]

\* Fault: the shared descriptor is read where it stands, without the seek.
ReadInPlace(f, offset) == f.posn

\* Where the shared descriptor reads from: it is moved when it is elsewhere.
SeekTo(f, offset) == IF f.posn # offset THEN offset ELSE f.posn

\* The transfer with the offset of its next block.
Positioned(t) ==
    IF t.netascii \/ t.block = 0 THEN t ELSE [t EXCEPT !.offset = (t.block - 1) * t.blocksize]

\* The bytes read at a position of the shared file: fewer than wanted when the
\* file has become shorter.
RawBytes(f, from, want) ==
    IF want = 0 THEN <<>> ELSE SubSeq(f.content, from + 1, Lesser(from + want, Len(f.content)))

EncodedBlock(t, raw) ==
    IF t.netascii THEN netascii_expand(raw, t.blocksize, t.lastcarrylf)
    ELSE [data |-> raw, expansion |-> t.expansion, carrylf |-> t.carrylf]

\* A block that was read in full, kept for a retransmission.
BlockRead(t, f, want, coded) ==
    [kind |-> "data", data |-> coded.data,
     t |-> [t EXCEPT !.expansion = coded.expansion, !.carrylf = coded.carrylf,
                     !.prefetch = [offset |-> t.offset, data |-> coded.data]],
     f |-> IF want = 0 THEN f ELSE [f EXCEPT !.posn = t.offset + want]]

ReadBlock(t, f, want, raw) ==
    IF Len(raw) < want
    THEN [kind |-> "oops", data |-> <<>>, t |-> [t EXCEPT !.prefetch = NoPrefetch], f |-> f]
    ELSE BlockRead(t, f, want, EncodedBlock(t, raw))

NextBlock(t, f, want) ==
    CASE t.block = 0 -> [kind |-> "oack", data |-> <<>>, t |-> t, f |-> f]
      [] t.block # 0 /\ t.offset > f.size -> [kind |-> "done", data |-> <<>>, t |-> t, f |-> f]
      [] t.block # 0 /\ t.offset <= f.size /\ t.prefetch.offset = t.offset ->
           [kind |-> "data", data |-> t.prefetch.data, t |-> t, f |-> f]
      [] OTHER -> ReadBlock(t, f, want, RawBytes(f, SeekTo(f, t.offset), want))

BlockAt(t, f) == NextBlock(t, f, Lesser(f.size - t.offset, t.blocksize))

\* get_block's result: the transfer and the shared file after it, with kind
\* "oack", "data", "done" (past the end of the file) or "oops" (the file
\* has become shorter than it was when it was opened).
get_block(t, f) == BlockAt(Positioned(t), f)

RECURSIVE SendFrom(_, _, _, _, _)
\* The i-th block of the window is sent, and then the rest of it.
SendBlock(i, winsize, r, sent, out) ==
    CASE r.kind = "done" -> [t |-> r.t, f |-> r.f, sent |-> sent, endcon |-> i = 0, error |-> FALSE]
      [] r.kind = "oops" -> [t |-> r.t, f |-> r.f, sent |-> out, endcon |-> TRUE, error |-> TRUE]
      [] OTHER -> SendFrom(i + 1, winsize, [r.t EXCEPT !.block = @ + 1], r.f, out)

SendNext(i, winsize, r, sent) ==
    SendBlock(i, winsize, r, sent, sent \union {[kind |-> r.kind, block |-> r.t.block, data |-> r.data]})

SendFrom(i, winsize, t, f, sent) ==
    IF i = winsize THEN [t |-> t, f |-> f, sent |-> sent, endcon |-> FALSE, error |-> FALSE]
    ELSE SendNext(i, winsize, get_block(t, f), sent)

\* One window of blocks, or one OACK: what was sent, whether the transfer has
\* ended and whether it ended in an error.
send_window(t, f) == SendFrom(0, IF t.block # 0 THEN t.windowsize ELSE 1, t, f, {})

\* The retransmit timer moves on from the deadline it had, and the block
\* counter goes back to the first block without an ACK.
Rearm(t) ==
    [t EXCEPT !.due = @ + t.timeout + 2 ^ Lesser(t.backoff \div 2, 20), !.backoff = @ + 1, !.block = t.lastack]

Prefetched(w, ahead) == [w EXCEPT !.t = ahead.t, !.f = ahead.f]
ReadAhead(w) == IF w.endcon THEN w ELSE Prefetched(w, get_block(w.t, w.f))

\* Sends a window and then reads ahead one block, for the cache only.
SendAndPrefetch(t, f) == ReadAhead(send_window(Rearm(t), f))

-----------------------------------------------------------------------------
(* The window.  An ACK carries the low 16 bits of a block number; ackprev  *)
(* and block_hi recover the rest.                                          *)

\* A step from the top quarter to the bottom one is a wrap; the reverse is a
\* stray duplicate from before it.
UnwrapHigh(t, n) ==
    CASE n <= Word \div 4 /\ t.ackprev >= 3 * (Word \div 4) -> t.block_hi + 1
      [] n >= 3 * (Word \div 4) /\ t.ackprev <= Word \div 4 /\ t.block_hi # 0 -> t.block_hi - 1
      [] OTHER -> t.block_hi

\* Fault: a repeated ACK of the last block counts as progress.
RepeatIsFresh(t, block) == block + 1 >= t.lastack /\ block <= t.block

\* Whether an ACK of a block moves the window.
Fresh(t, block) == block >= t.lastack /\ block <= t.block

\* handle_tftp_packet for an ACK of wire block n: whether it is taken, and the
\* transfer after it.
handle_ack(t, n) ==
    LET seen == [t EXCEPT !.block_hi = UnwrapHigh(t, n), !.ackprev = n]
        block == seen.block_hi * Word + n
        acked == [seen EXCEPT !.due = 0, !.age = 0, !.backoff = 0, !.lastack = block + 1]
    IN  IF ~Fresh(t, block) THEN [taken |-> FALSE, t |-> seen]
        ELSE [taken |-> TRUE,
              t |-> IF t.netascii /\ block # 0
                    THEN [acked EXCEPT !.offset = @ + t.blocksize - t.expansion, !.lastcarrylf = t.carrylf]
                    ELSE acked]

---------------------------------------------------------------------------
(* The server *)

CONSTANTS
    Clients,
    Loads,                  \* set of [reqs, asks, single_port]: what each client may ask, how often,
                            \* and --tftp-single-port
    Disk,                   \* path -> content
    Dirs,                   \* the directories that exist
    Denied,                 \* paths that may not be opened
    Prefix,                 \* --tftp-root
    Ports,                  \* size of --tftp-port-range, 0 when not set
    MaxTransfers,           \* --tftp-max
    TFTP_TRANSFER_TIME,     \* 120 seconds
    MaxWire,                \* bound: packets in flight
    Lag                     \* network: a packet is at most this many blocks old when it arrives

ASSUME TransferLimits == {MaxTransfers, TFTP_TRANSFER_TIME, MaxWire, Lag, Ports} \subseteq Nat

VARIABLES transfers, next_id, files, disk, clients, wire, load

vars == <<transfers, next_id, files, disk, clients, wire, load>>

Ids == DOMAIN transfers

SinglePort == load.single_port

Init ==
    /\ transfers = <<>>
    /\ next_id = 1
    /\ files = <<>>
    /\ disk = Disk
    /\ clients = [c \in Clients |->
                    [phase |-> "idle", asked |-> 0, req |-> <<>>, id |-> 0, blocksize |-> 0, have |-> 0, got |-> <<>>]]
    /\ wire = {}
    /\ load \in Loads

Fits(w) == Cardinality(w) <= MaxWire

\* Any part of what is sent may be lost, and what finds no room is.
Transmit(rest, sent) == \E kept \in SUBSET sent : wire' = rest \union kept /\ Fits(wire')

ToClient(c, id, t, out) ==
    {[to |-> c, id |-> id, kind |-> s.kind, block |-> s.block, data |-> s.data, blocksize |-> t.blocksize] : s \in out}

Refusal(c) == {[to |-> c, id |-> 0, kind |-> "error", block |-> 0, data |-> <<>>, blocksize |-> 0]}

\* The shared TftpFile of a path: the one another transfer has open, or a new one.
OpenFile(path) ==
    IF path \in DOMAIN files THEN [files[path] EXCEPT !.content = disk[path]]
    ELSE [content |-> disk[path], size |-> Len(disk[path]), posn |-> 0]

\* A file closes with the last transfer that holds it.
Keep(fs, ts) == [p \in {q \in DOMAIN fs : \E i \in DOMAIN ts : ts[i].file = q} |-> fs[p]]

\* The network forgets packets that are too many blocks old.
Young(p, c) == p.block + Lag >= clients[c].have

Without(i) == [j \in Ids \ {i} |-> transfers[j]]

-----------------------------------------------------------------------------
(* A request.                                                              *)

PathOf(req, c) == build_tftp_path(req.name, req.absolute, Prefix, c, Dirs)

\* The end of handle_new_request: one packet goes out, whatever the window.
StartTransfer(t, r, others, rest) ==
    /\ Transmit(rest, ToClient(t.peer, next_id, t, {[kind |-> r.kind, block |-> t.block, data |-> r.data]}))
    /\ transfers' = [j \in DOMAIN others \union {next_id} |-> IF j = next_id THEN r.t ELSE others[j]]
    /\ files' = [q \in DOMAIN Keep(files, others) \union {t.file} |-> IF q = t.file THEN r.f ELSE files[q]]
    /\ next_id' = next_id + 1

\* The request is turned down, with or without an error packet.
TurnDown(c, others, rest, sent) ==
    /\ Transmit(rest, sent)
    /\ transfers' = others
    /\ files' = Keep(files, others)
    /\ UNCHANGED next_id

\* handle_new_request: on `others`, the table without the transfer a
\* single-port request replaces.
handle_new_request(c, req, others, rest) ==
    LET path == PathOf(req, c)
        netascii == req.mode = "netascii"
        full == Cardinality(DOMAIN others) >= MaxTransfers
        noPort == ~SinglePort /\ Ports # 0 /\ Cardinality(DOMAIN others) >= Ports
        refused == req.op = "wrq" \/ req.mode \notin {"netascii", "octet"} \/ req.name = <<>>
        missing == path \notin DOMAIN disk \/ path \in Denied
        silent == noPort \/ (~refused /\ (~req.allowed \/ (~missing /\ full)))
    IN  CASE silent -> TurnDown(c, others, rest, {})
          [] ~silent /\ (refused \/ missing) -> TurnDown(c, others, rest, Refusal(c))
          [] OTHER ->
               \E t \in {NewTransfer(c, path, netascii, parse_request_options(req.options, netascii))} :
               \E r \in {get_block(t, OpenFile(path))} :
                  IF r.kind = "oops" THEN TurnDown(c, others, rest, Refusal(c)) ELSE StartTransfer(t, r, others, rest)

\* In single-port mode the sender is matched to its transfer first: a new
\* request replaces it; at the limit a stranger is not looked at.
handle_listener_datagram(p) ==
    LET own == {i \in Ids : transfers[i].peer = p.from}
        rest == wire \ {p}
    IN  /\ p \in wire /\ p.kind = "rrq"
        /\ UNCHANGED <<disk, clients>>
        /\ IF SinglePort /\ own # {}
           THEN \E i \in own : handle_new_request(p.from, p.req, Without(i), rest)
           ELSE IF SinglePort /\ Cardinality(Ids) >= MaxTransfers
           THEN wire' = rest /\ UNCHANGED <<transfers, next_id, files>>
           ELSE handle_new_request(p.from, p.req, transfers, rest)

-----------------------------------------------------------------------------
(* A packet for a transfer.                                                *)

Drop(i, rest, sent) ==
    /\ transfers' = Without(i)
    /\ files' = Keep(files, Without(i))
    /\ Transmit(rest, sent)

\* The window w that an ACK let go out.
Continue(i, t, w, rest) ==
    IF w.endcon THEN Drop(i, rest, ToClient(t.peer, i, t, w.sent))
    ELSE /\ transfers' = [transfers EXCEPT ![i] = w.t]
         /\ files' = [files EXCEPT ![t.file] = w.f]
         /\ Transmit(rest, ToClient(t.peer, i, t, w.sent))

\* process_transfer_packet on an ACK: the next window goes out at once.
process_ack(i, n, rest) ==
    \E r \in {handle_ack(transfers[i], n)} :
        IF r.taken
        THEN \E w \in {SendAndPrefetch(r.t, [files[r.t.file] EXCEPT !.content = disk[r.t.file]])} :
                Continue(i, r.t, w, rest)
        ELSE /\ transfers' = [transfers EXCEPT ![i] = r.t]
             /\ wire' = rest
             /\ UNCHANGED files

\* An ACK or ERROR on a transfer's socket, or from its peer in single-port
\* mode.  One from another address is answered and otherwise ignored.
Transfer(p) ==
    LET ids == IF SinglePort THEN {i \in Ids : transfers[i].peer = p.from} ELSE {p.id} \intersect Ids
        rest == wire \ {p}
    IN  /\ p \in wire /\ p.kind \in {"ack", "abort"}
        /\ p.kind = "ack" => Young(p, p.from)
        /\ UNCHANGED <<next_id, disk, clients>>
        /\ \/ /\ ids = {}
              /\ wire' = rest
              /\ UNCHANGED <<transfers, files>>
           \/ \E i \in ids :
                IF p.from # transfers[i].peer
                THEN Transmit(rest, Refusal(p.from)) /\ UNCHANGED <<transfers, files>>
                ELSE IF p.kind = "abort" THEN Drop(i, rest, {})
                ELSE process_ack(i, p.block % Word, rest)

-----------------------------------------------------------------------------
(* The sweep.                                                              *)

Removed(s, i) == [s EXCEPT !.transfers = [j \in DOMAIN @ \ {i} |-> @[j]]]

\* An overdue transfer: its window w goes out again.
Resent(s, i, t, w) ==
    IF w.endcon THEN [Removed(s, i) EXCEPT !.sent = @ \union ToClient(t.peer, i, t, w.sent)]
    ELSE [s EXCEPT !.transfers[i] = w.t, !.files[t.file] = w.f, !.sent = @ \union ToClient(t.peer, i, t, w.sent)]

\* One transfer's part of the sweep, on the table, files and packets so far.
SweepOne(s, i) ==
    LET t == s.transfers[i]
    IN  CASE t.age > TFTP_TRANSFER_TIME -> Removed(s, i)
          [] t.age <= TFTP_TRANSFER_TIME /\ t.due <= 0 -> Resent(s, i, t, SendAndPrefetch(t, s.files[t.file]))
          [] OTHER -> s

\* A transfer is too old, or its retransmit deadline has passed.
SweepDue == \E i \in Ids : transfers[i].age > TFTP_TRANSFER_TIME \/ transfers[i].due <= 0

Swept ==
    FoldLeft(SweepOne,
             [transfers |-> transfers, sent |-> {},
              files |-> [p \in DOMAIN files |-> [files[p] EXCEPT !.content = disk[p]]]],
             SetToSeq(Ids))

\* The 250 ms tick: abandoned transfers go, overdue windows are sent again.
sweep_transfers ==
    /\ SweepDue
    /\ \E s \in {Swept} :
         /\ transfers' = s.transfers
         /\ files' = Keep(s.files, s.transfers)
         /\ Transmit(wire, s.sent)
    /\ UNCHANGED <<next_id, disk, clients>>

\* A second passes.  The loop's tick is much shorter: no transfer is left
\* overdue, or too old, for a whole second.
Tick ==
    /\ Ids # {}
    /\ ~SweepDue
    /\ transfers' = [i \in Ids |-> [transfers[i] EXCEPT !.age = @ + 1, !.due = @ - 1]]
    /\ UNCHANGED <<next_id, files, disk, clients, wire>>

-----------------------------------------------------------------------------
(* The clients, the network and the disk (external).                       *)

\* A client asks, or asks again before anything has arrived.
Ask(c, req) ==
    /\ clients[c].phase \in {"idle", "wait"}
    /\ clients[c].asked < load.asks
    /\ clients[c].phase = "wait" => req = clients[c].req
    /\ clients' = [clients EXCEPT ![c].phase = "wait", ![c].asked = @ + 1, ![c].req = req]
    /\ wire' = wire \union {[to |-> "server", from |-> c, kind |-> "rrq", req |-> req]}
    /\ Fits(wire')
    /\ UNCHANGED <<transfers, next_id, files, disk>>

ClientPacket(c, id, kind, block) == [to |-> "server", from |-> c, id |-> id, kind |-> kind, block |-> block]

\* The client acknowledges the last block it has in order (again).
Ack(c) ==
    /\ clients[c].phase \in {"run", "done"}
    /\ wire' = wire \union {ClientPacket(c, clients[c].id, "ack", clients[c].have)}
    /\ wire' # wire /\ Fits(wire')
    /\ UNCHANGED <<transfers, next_id, files, disk, clients>>

\* A packet reaches its client: the first one fixes the transfer, a block is
\* taken if it is the next one, and a second transfer is turned away.
Receive(p) ==
    LET me == clients[p.to]
        bound == IF me.phase = "wait" THEN [me EXCEPT !.phase = "run", !.id = p.id, !.blocksize = p.blocksize] ELSE me
        next == p.kind = "data" /\ p.block % Word = (bound.have + 1) % Word
        more == [bound EXCEPT !.have = @ + 1, !.got = @ \o p.data,
                              !.phase = IF Len(p.data) < bound.blocksize THEN "done" ELSE "run"]
        rest == wire \ {p}
    IN  /\ p \in wire /\ p.to \in Clients
        /\ me.phase # "idle"
        /\ Young(p, p.to)
        /\ UNCHANGED <<transfers, next_id, files, disk>>
        /\ CASE p.kind \in {"error", "oops"} ->
                  /\ clients' = [clients EXCEPT ![p.to].phase = IF me.phase = "wait" \/ p.id = me.id THEN "failed" ELSE @]
                  /\ wire' = rest
             [] p.kind \in {"oack", "data"} /\ bound.id = p.id /\ bound.phase # "failed" ->
                  /\ clients' = [clients EXCEPT ![p.to] = IF next /\ bound.phase = "run" THEN more ELSE bound]
                  /\ wire' = rest
             [] OTHER ->
                  /\ wire' = rest \union {ClientPacket(p.to, p.id, "abort", 0)}
                  /\ UNCHANGED clients

\* A packet too old to arrive is lost at the latest now.
Lose(p) ==
    /\ p \in wire
    /\ wire' = wire \ {p}
    /\ UNCHANGED <<transfers, next_id, files, disk, clients>>

\* A file becomes shorter on disk while it is being sent.
Shrink(path) ==
    /\ disk = Disk /\ path \in DOMAIN files /\ Len(disk[path]) > 1
    /\ disk' = [disk EXCEPT ![path] = SubSeq(@, 1, Len(@) - 1)]
    /\ UNCHANGED <<transfers, next_id, files, clients, wire>>

-----------------------------------------------------------------------------

Step ==
    \/ \E p \in wire : handle_listener_datagram(p)
    \/ \E p \in wire : Transfer(p)
    \/ sweep_transfers
    \/ Tick
    \/ \E c \in Clients : \E req \in load.reqs[c] : Ask(c, req)
    \/ \E c \in Clients : Ack(c)
    \/ \E p \in wire : Receive(p)
    \/ \E p \in wire : Lose(p)
    \/ \E path \in DOMAIN disk : Shrink(path)

Next == Step /\ UNCHANGED load

\* Weak fairness of the sweep, with the condition that enables it written out.
SweepFair == []<>~SweepDue \/ []<><<sweep_transfers /\ UNCHANGED load>>_vars

\* The loop's interval keeps ticking and time passes.  Nothing is assumed of
\* the clients or of the network.
Spec == Init /\ [][Next]_vars /\ WF_vars(Tick /\ UNCHANGED load) /\ SweepFair

-----------------------------------------------------------------------------

\* What a file looks like to a client that asked for it in this mode.
RECURSIVE Netascii(_)
Netascii(bytes) ==
    IF bytes = <<>> THEN <<>>
    ELSE (IF Head(bytes) = LF THEN <<CR, LF>> ELSE <<Head(bytes)>>) \o Netascii(Tail(bytes))

Encoded(req, c, fs) ==
    LET bytes == fs[PathOf(req, c)] IN IF req.mode = "netascii" THEN Netascii(bytes) ELSE bytes

\* Whatever is lost, repeated or delayed, and whoever else reads the same open
\* file, what a client has is the beginning of the file it asked for, and all
\* of it (as it was, or as it became) once the client saw a short block.  Rests on get_block (offsets, the
\* shared descriptor, the read-ahead cache), netascii_expand's carried line
\* feed, and the 16-bit block numbers of the window.
DeliveredIsFile ==
    \A c \in Clients :
        /\ clients[c].have > 0 => IsPrefix(clients[c].got, Encoded(clients[c].req, c, Disk))
        /\ clients[c].phase = "done" => clients[c].got \in {Encoded(clients[c].req, c, fs) : fs \in {Disk, disk}}

\* handle_tftp_packet recovers the block a 16-bit ACK stands for: an ACK of a
\* block the window still waits for moves the window there, an older one moves
\* nothing, across any number of wraps of the 16-bit counter.
AckUnderstood ==
    [][\A p \in wire : \A i \in Ids :
          (p \notin wire' /\ p.kind = "ack" /\ transfers' # transfers /\ p.id = i /\ p.from = transfers[i].peer)
          => \/ i \notin DOMAIN transfers'
             \/ transfers'[i].lastack = IF p.block >= transfers[i].lastack THEN p.block + 1 ELSE transfers[i].lastack]_vars

\* Both: what arrives is the file, and what is acknowledged is what arrived.
TransfersFaithful == [][DeliveredIsFile']_vars /\ AckUnderstood

\* Every transfer leaves the table: completed, given up or refused, however
\* long its client keeps repeating itself.  Only ACKs that advance the window
\* restart the clock that sweep_transfers reads.
Ends == \A i \in 1..2 : i \in Ids ~> i \notin Ids

=============================================================================

------------------------------ MODULE DhcpServer ------------------------------
(***************************************************************************)
(* The DHCPv4 server of src/dhcp.rs over the lease table of LeaseDb.       *)
(* `run_dhcp_loop` is one task: it takes a packet, dispatches it, saves    *)
(* the table if it is dirty, runs the lease scripts and sends the reply;   *)
(* once a second it picks up the configuration another task has reloaded.  *)
(* The process may die at any moment and starts again from the lease file. *)
(*                                                                         *)
(* A packet is [hw, clid, name, addr], where `addr` is option 50 or        *)
(* `ciaddr`.  A configuration is [hosts, ranges], the dhcp-host entries,   *)
(* each [hw, clid, name, addr, ignore], and the addresses of the dynamic   *)
(* dhcp-ranges.  Tags, options and relaying only shape the reply and are   *)
(* left out, as are wildcards in the hardware address of a dhcp-host       *)
(* entry; every dhcp-range has a finite lease time, and every address is   *)
(* on a subnet that is served.                                             *)
(***************************************************************************)
EXTENDS LeaseDb, Sequences, FiniteSetsExt

CONSTANTS Packets,      \* the packets clients may send
          Pool,         \* pool_start .. pool_end: the first dhcp-range at startup
          Routers,      \* addresses of the contexts' routers
          NoAddr,
          Configs,      \* the configurations a reload may install
          Config0,      \* the one the daemon starts with
          RapidCommit,  \* --dhcp-rapid-commit
          BootpDynamic  \* --bootp-dynamic

Packet == [hw : Ids, clid : Ids, name : Names \cup {NoName}, addr : Addrs]
Config == [hosts : Seq([hw : Ids, clid : Ids, name : Names \cup {NoName},
                        addr : Addrs \cup {NoAddr}, ignore : BOOLEAN]),
           ranges : SUBSET Addrs]

ASSUME ServerAssumption ==
  /\ NoAddr \notin Addrs /\ Pool \subseteq Addrs
  /\ Packets \subseteq Packet /\ Configs \subseteq Config /\ Config0 \in Config
  /\ RapidCommit \in BOOLEAN /\ BootpDynamic \in BOOLEAN

VARIABLES db,      \* the LeaseDb
          file,    \* the lines of the lease file
          cfg,     \* the loop's own configuration
          shared,  \* the SharedDhcpReloadConfig
          stale,   \* shared.generation # last_reload_generation
          phase,   \* "idle", or "saved" between the save and the scripts
          reply,   \* the reply on its way; an offer is remembered until the next packet
          known    \* history: the leased addresses the script was told of, or that were
                   \* read from the file

netVars == <<cfg, shared, stale>>
vars    == <<db, file, netVars, phase, reply, known>>

Reply(type, p, a) == [type |-> type, to |-> [hw |-> p.hw, clid |-> p.clid, name |-> p.name], addr |-> a]
NoReply           == [type |-> "NONE", to |-> <<>>, addr |-> NoAddr]

Init ==
  /\ db = EmptyDb /\ file = {} /\ phase = "idle" /\ reply = NoReply
  /\ cfg = Config0 /\ shared = Config0 /\ stale = FALSE
  /\ known = {}

---------------------------------------------------------------------------
(* The configuration of a client *)

First(S) == IF S = {} THEN {} ELSE {Min(S)}

\* `find_config`: by client id, else by hardware address, else by name; at most one index.
FindConfig(hosts, hw, clid, name) ==
  LET byClid == {i \in DOMAIN hosts : clid # NoId /\ hosts[i].clid = clid}
      byHw   == {i \in DOMAIN hosts : hw # NoId /\ hosts[i].hw = hw}
      byName == {i \in DOMAIN hosts : name # NoName /\ hosts[i].name = name}
  IN  IF byClid # {} THEN First(byClid) ELSE IF byHw # {} THEN First(byHw) ELSE First(byName)

ConfigOf(p)   == FindConfig(cfg.hosts, p.hw, p.clid, p.name)

StaticAddr(p) == {cfg.hosts[i].addr : i \in ConfigOf(p)} \ {NoAddr}
Ignored(p)    == \E i \in ConfigOf(p) : cfg.hosts[i].ignore

\* `config_find_by_address`
Reserving(a) == First({i \in DOMAIN cfg.hosts : cfg.hosts[i].addr = a})

\* Fault: a reserved address outside the pool is refused.
AddressInPool(p, a) == Reserving(a) \in {{}, ConfigOf(p)} /\ a \in Pool

\* `address_in_range`, with the `reserved_for_other` its callers compute.
AddressInRange(p, a) ==
  /\ Reserving(a) \in {{}, ConfigOf(p)}
  /\ IF StaticAddr(p) # {} THEN a \in StaticAddr(p) ELSE a \in Pool

\* `address_available`
Available(a) == a \notin Routers /\ a \in cfg.ranges

\* `address_allocate`: the scan starts anywhere in a range, and an address that answers
\* the ping is passed over, so any free address may be the one found, or none.
FreeAddrs(d) == {a \in Addrs : Available(a) /\ ~Leased(d, a) /\ Reserving(a) = {}}

---------------------------------------------------------------------------
(* Packets *)

\* `record_lease`: nothing is recorded when the table is full.
RecordLease(d, a, p, forever) ==
  IF ~Leased(d, a) /\ Full(d) THEN d
  ELSE LET found == IF Leased(d, a) THEN d ELSE AllocateV4(d, a)
       IN  SetExpires(SetHostname(SetHwaddr(found, a, p.hw, p.clid), a, p.name), a, forever)

\* Fault: the dirty flag is cleared whether or not the file was written.
SaveForgetting(d) ==
  \/ d.dirty /\ db' = Flagged(d, FALSE) /\ file' \in {file, Rows(d)}
  \/ ~d.dirty /\ db' = d /\ UNCHANGED file

\* `write_to_file` renames a complete file over the old one, or fails and the flag stays.
Save(d) ==
  \/ d.dirty /\ db' = Flagged(d, FALSE) /\ file' = Rows(d)
  \/ d.dirty /\ db' = d /\ UNCHANGED file
  \/ ~d.dirty /\ db' = d /\ UNCHANGED file

\* The rest of the receive arm once the packet has left table d and reply r.
Answer(d, r) ==
  /\ phase = "idle" /\ phase' = "saved"
  /\ Save(d)
  /\ reply' = r
  /\ known' = known \cap DOMAIN d.index
  /\ UNCHANGED netVars

\* No address is given and the table stays: a client to ignore, an unknown type, an INFORM
\* or a LEASEQUERY.
Pass(p) == Answer(db, NoReply)

\* DISCOVER: a reserved address, else one that is free, is offered ...
Offered(p) == IF StaticAddr(p) # {} THEN StaticAddr(p) ELSE FreeAddrs(db)

Discover(p) ==
  /\ ~Ignored(p)
  /\ \E a \in Offered(p) : Answer(db, Reply("OFFER", p, a))

\* ... or acknowledged at once.
DiscoverRapid(p) ==
  /\ RapidCommit /\ ~Ignored(p)
  /\ \E a \in Offered(p) :
       /\ AddressInRange(p, a)
       /\ Answer(RecordLease(db, a, p, FALSE), Reply("ACK", p, a))

\* REQUEST
Request(p) ==
  /\ ~Ignored(p)
  /\ \/ AddressInRange(p, p.addr)
        /\ Answer(RecordLease(db, p.addr, p, FALSE), Reply("ACK", p, p.addr))
     \/ ~AddressInRange(p, p.addr)
        /\ Answer(db, Reply("NAK", p, p.addr))

\* RELEASE and DECLINE
GiveUp(p) ==
  /\ ~Ignored(p)
  /\ Answer(IF p.addr \in Pool THEN RemoveByAddr(db, p.addr) ELSE db, NoReply)

\* BOOTP: the reserved address unless another machine holds it, else the one the client
\* has, else a free one.
BootpAddrs(p) ==
  LET own == {l.addr : l \in LeaseOf(db, p.hw, p.clid)}
  IN  IF StaticAddr(p) # {} THEN {a \in StaticAddr(p) : Leased(db, a) => LeaseAt(db, a).hw = p.hw}
      ELSE IF ~BootpDynamic THEN {}
      ELSE IF \E a \in own : Available(a) THEN own ELSE FreeAddrs(db)

Bootp(p) ==
  /\ ~Ignored(p) /\ p.hw # NoId
  /\ \E a \in BootpAddrs(p) : Answer(RecordLease(db, a, p, TRUE), Reply("BOOTP", p, a))

---------------------------------------------------------------------------
(* Scripts, reload and restart *)

\* `run_lease_scripts`, and the reply goes out.
Finish ==
  /\ phase = "saved" /\ phase' = "idle"
  /\ db' = ScriptsRun(db) /\ known' = Told(db, known)
  /\ reply' = IF reply.type = "OFFER" THEN reply ELSE NoReply
  /\ UNCHANGED <<file, netVars>>

\* `clear_cache_and_reload` in another task.
Reload ==
  /\ shared' \in Configs /\ stale' = TRUE
  /\ UNCHANGED <<db, file, cfg, phase, reply, known>>

\* `update_from_configs`: the leases whose dhcp-host entry names them.
Renames(hosts) ==
  UNION {{<<l.addr, hosts[i].name>> :
             i \in {i \in FindConfig(hosts, l.hw, l.clid, NoName) :
                      hosts[i].name # NoName /\ hosts[i].addr \in {NoAddr, l.addr}}} :
         l \in Range(db.leases)}

\* The reload tick: the scripts run for every lease once per reload.
ReloadTick ==
  /\ phase = "idle"
  /\ cfg' = shared /\ stale' = FALSE
  /\ \E last \in LastOfEachName(Renames(shared.hosts)) :
       LET d == Rename(db, Renames(shared.hosts), last)
       IN  IF stale
           THEN /\ db' = Flagged(ScriptsRun(d), TRUE)
                /\ known' = Told(d, known) \cup DOMAIN d.index
           ELSE db' = d /\ UNCHANGED known
  /\ reply' = IF shared = cfg THEN reply ELSE NoReply
  /\ UNCHANGED <<file, shared, phase>>

\* The process dies and starts again.
Restart ==
  /\ db' \in Load(file)
  /\ cfg' = shared /\ stale' = FALSE /\ phase' = "idle" /\ reply' = NoReply
  /\ known' = DOMAIN db'.index
  /\ UNCHANGED <<file, shared>>

Next ==
  \/ \E p \in Packets : \/ Pass(p) \/ Discover(p) \/ DiscoverRapid(p) \/ Request(p)
                        \/ GiveUp(p) \/ Bootp(p)
  \/ Finish \/ Reload \/ ReloadTick \/ Restart

Spec == Init /\ [][Next]_vars

---------------------------------------------------------------------------
(* Properties *)

\* The variables hold values of the types of the code.
LeasesTypeOK ==
  /\ IsDb(db) /\ file \subseteq Line
  /\ cfg \in Config /\ shared \in Config /\ stale \in BOOLEAN
  /\ phase \in {"idle", "saved"} /\ known \subseteq Addrs
  /\ reply.type \in {"NONE", "OFFER", "ACK", "NAK", "BOOTP"}

\* No address is in two leases and every lease is found by its address, through every
\* eviction, re-keying, release and restart: `addr_index` and `leases` are inverse.
AddressesIndexed == Indexed(db)

\* A host name belongs to at most one lease, whether a client or a reloaded dhcp-host
\* entry set it.
NamesUnique == NamesDistinct(db)

\* Unless `file_dirty` is set, the table in memory is the one last saved, or what a
\* restart made of it: no change, failed write or reload is forgotten by the flag.
FileCurrent ==
  ~db.dirty => \/ file = Rows(db)
               \/ \E d \in Load(file) : Rows(d) = Rows(db)

\* The table never holds more than `max_leases` leases.
LeasesBounded == Cardinality(DOMAIN db.leases) <= MaxLeases

\* Between packets the script has been told of every lease that was made since the last
\* restart: the flag LEASE_NEW survives the re-keying that gives the lease its client id.
ScriptsKnowLeases == phase = "idle" => DOMAIN db.index \subseteq known

\* A client that requests the address it has just been offered is not refused.
OffersHonoured ==
  [][~(/\ reply.type = "OFFER" /\ reply'.type = "NAK"
       /\ reply' = [reply EXCEPT !.type = "NAK"])]_vars

\* "A REQUEST that is ACK'd creates or renews a lease": afterwards the client has the
\* address, and every other client still has the lease it had.
RequestCreatesOrRenews ==
  [][reply' # reply /\ reply'.type = "ACK"
       => /\ \E l \in Range(db'.leases) : l.hw = reply'.to.hw /\ l.addr = reply'.addr
          /\ \A l \in Range(db.leases) :
               l.hw # reply'.to.hw
                 => \E m \in Range(db'.leases) : m.hw = l.hw /\ m.addr = l.addr]_vars

\* A restart reads back every lease that was saved.
RestartKeepsLeases == [][Restart => Rows(db') = file]_vars

\* The lease table and the lease file as the book of LeaseBook and its copy: the table
\* read through its index, the file through its lines.
Holding(d)     == [a \in DOMAIN d.index |-> LeaseAt(d, a).hw]
FileHolds(rows) == [a \in {r.addr : r \in rows} |-> (CHOOSE r \in rows : r.addr = a).hw]

Book == INSTANCE LeaseBook WITH Holders <- Ids, book <- Holding(db), disk <- FileHolds(file)

\* The server implements the book: through every eviction, re-keying, failed save and
\* restart, a packet changes the holder of one address only and takes the others' leases
\* at most, the file never says what the table never said, and a restart restores no
\* lease that was not in the file.
KeepsTheBook == Book!Spec
================================================================================

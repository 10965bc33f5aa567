---------------------------- MODULE DhcpServerProofs ----------------------------
(***************************************************************************)
(* Safety of DhcpServer for every set of clients, addresses, names and     *)
(* configurations and every `max_leases`: types, one lease per address,    *)
(* one lease per name, a bounded table and every lease announced, through  *)
(* restarts and reloads.  The inductive invariant is IInv: it adds to the  *)
(* properties that the lease file has a line per address and per name,     *)
(* which a restart needs.  Announced, inductive given IInv, is for the     *)
(* scripts.                                                                *)
(***************************************************************************)
EXTENDS DhcpServer, LeaseDbProofs, WellFoundedInduction

ServerOK ==
  /\ cfg \in Config /\ shared \in Config /\ stale \in BOOLEAN
  /\ phase \in {"idle", "saved"} /\ known \subseteq Addrs
  /\ reply.type \in {"NONE", "OFFER", "ACK", "NAK", "BOOTP"}

IInv == Good(db) /\ FileGood(file) /\ ServerOK

\* Every lease the script does not know is still marked new, and nothing waits for its
\* `del` while it is leased; between packets there is nothing left to tell.
Announced ==
  /\ Settled(db) \subseteq known /\ db.old \cap DOMAIN db.index = {}
  /\ phase = "idle" => db.old = {} /\ Settled(db) = DOMAIN db.index

ReplyType == {"NONE", "OFFER", "ACK", "NAK", "BOOTP"}

\* What a packet may make of the table.
Outcome(d) == Good(d) /\ Noted(d, db) /\ (Follows(d, db) \/ \E a : d = RemoveByAddr(db, a))

---------------------------------------------------------------------------
(* Addresses and names come from the configuration and the packets *)

\* A non-empty set of naturals has a least element.
LEMMA MinExists ==
  ASSUME NEW S \in SUBSET Nat, S # {}
  PROVE  \E m \in S : \A y \in S : m <= y
<1> DEFINE R == {ss \in Nat \X Nat : ss[1] < ss[2]}
<1>1. IsWellFoundedOn(R, Nat)
  BY NatLessThanWellFounded DEF OpToRel
<1> HIDE DEF R
<1>2. PICK m \in S : \A y \in S : ~(<<y, m>> \in R)
  BY <1>1, WFMin
<1>3. \A y \in Nat, z \in Nat : y < z => <<y, z>> \in R
  BY DEF R
<1>4. \A y \in S : m <= y
  <2> TAKE y \in S
  <2>1. y \in Nat /\ m \in Nat
    OBVIOUS
  <2>2. ~(y < m)
    BY <1>2, <1>3, <2>1
  <2> QED BY <2>1, <2>2
<1> QED BY <1>4

\* Min picks it.
LEMMA MinIsLeast ==
  ASSUME NEW S \in SUBSET Nat, S # {}
  PROVE  Min(S) \in S /\ \A y \in S : Min(S) <= y
BY MinExists DEF Min

\* The first of a set of indices is one of them.
LEMMA FirstIn ==
  ASSUME NEW S, S \subseteq Nat
  PROVE  First(S) \subseteq S
BY MinIsLeast DEF First

\* `find_config` returns entries of the list.
LEMMA FindConfigIn ==
  ASSUME NEW c \in Config, NEW hw, NEW clid, NEW name
  PROVE  FindConfig(c.hosts, hw, clid, name) \subseteq DOMAIN c.hosts
<1> DEFINE hosts == c.hosts
           byClid == {i \in DOMAIN hosts : clid # NoId /\ hosts[i].clid = clid}
           byHw   == {i \in DOMAIN hosts : hw # NoId /\ hosts[i].hw = hw}
           byName == {i \in DOMAIN hosts : name # NoName /\ hosts[i].name = name}
<1>1. DOMAIN hosts \subseteq Nat
  BY DEF Config
<1>2. byClid \subseteq DOMAIN hosts /\ byHw \subseteq DOMAIN hosts /\ byName \subseteq DOMAIN hosts
  OBVIOUS
<1>3. FindConfig(hosts, hw, clid, name)
        = IF byClid # {} THEN First(byClid) ELSE IF byHw # {} THEN First(byHw) ELSE First(byName)
  BY DEF FindConfig
<1> HIDE DEF byClid, byHw, byName, hosts
<1>4. First(byClid) \subseteq byClid /\ First(byHw) \subseteq byHw /\ First(byName) \subseteq byName
  BY <1>1, <1>2, FirstIn
<1>5. FindConfig(hosts, hw, clid, name) \subseteq DOMAIN hosts
  BY <1>2, <1>3, <1>4
<1> QED BY <1>5 DEF hosts

\* The entries of a configuration are of their types.
LEMMA HostFields ==
  ASSUME NEW c \in Config, NEW i \in DOMAIN c.hosts
  PROVE  c.hosts[i].addr \in Addrs \cup {NoAddr} /\ c.hosts[i].name \in Names \cup {NoName}
<1> DEFINE H == [hw : Ids, clid : Ids, name : Names \cup {NoName}, addr : Addrs \cup {NoAddr}, ignore : BOOLEAN]
<1>1. c.hosts \in Seq(H)
  BY DEF Config
<1>2. c.hosts[i] \in H
  <2> HIDE DEF H
  <2> QED BY <1>1
<1> QED BY <1>2

\* Every address a packet may be answered with is an address.
LEMMA AnsweredAddrs ==
  ASSUME IInv, NEW p \in Packets
  PROVE  /\ StaticAddr(p) \subseteq Addrs /\ FreeAddrs(db) \subseteq Addrs
         /\ Offered(p) \subseteq Addrs /\ BootpAddrs(p) \subseteq Addrs
         /\ p.addr \in Addrs /\ p.hw \in Ids /\ p.clid \in Ids /\ p.name \in Names \cup {NoName}
<1>1. cfg \in Config
  BY DEF IInv, ServerOK
<1>2. StaticAddr(p) \subseteq Addrs
  <2>1. ConfigOf(p) \subseteq DOMAIN cfg.hosts
    BY <1>1, FindConfigIn DEF ConfigOf
  <2> QED BY <1>1, <2>1, HostFields DEF StaticAddr
<1>3. FreeAddrs(db) \subseteq Addrs
  BY DEF FreeAddrs
<1>4. p \in Packet
  BY ServerAssumption
<1>5. p.addr \in Addrs /\ p.hw \in Ids /\ p.clid \in Ids /\ p.name \in Names \cup {NoName}
  BY <1>4 DEF Packet
<1>6. \A l \in LeaseOf(db, p.hw, p.clid) : l.addr \in Addrs
  <2>1. IsFunc(db.leases, Keys, Lease)
    BY DEF IInv, Good, IsDb
  <2> QED BY <2>1, LeaseFields DEF LeaseOf, IsFunc
<1>7. BootpAddrs(p) \subseteq Addrs
  BY <1>2, <1>3, <1>6 DEF BootpAddrs
<1> QED BY <1>2, <1>3, <1>5, <1>7 DEF Offered

---------------------------------------------------------------------------
(* One lemma per step *)

\* `record_lease`
LEMMA RecordGood ==
  ASSUME NEW d, Good(d), NEW a \in Addrs, NEW p,
         p.hw \in Ids, p.clid \in Ids, p.name \in Names \cup {NoName}, NEW forever \in BOOLEAN
  PROVE  LET n == RecordLease(d, a, p, forever) IN Good(n) /\ Follows(n, d) /\ Noted(n, d)
<1>1. CASE ~Leased(d, a) /\ Full(d)
  BY <1>1 DEF RecordLease, Follows, Noted
<1>2. CASE ~(~Leased(d, a) /\ Full(d))
  <2> DEFINE f == IF Leased(d, a) THEN d ELSE AllocateV4(d, a)
             g == SetHwaddr(f, a, p.hw, p.clid)
             h == SetHostname(g, a, p.name)
  <2>1. Good(f) /\ Leased(f, a) /\ Follows(f, d) /\ Noted(f, d)
    BY <1>2, AllocateGood, AllocateFollows, AllocateNoted DEF Follows, Noted
  <2> HIDE DEF f
  <2>2. Good(g) /\ Leased(g, a) /\ Follows(g, f) /\ Noted(g, f)
    BY <2>1, SetHwaddrGood, SetHwaddrFollows, SetHwaddrNoted
  <2> HIDE DEF g
  <2>3. Good(h) /\ Leased(h, a) /\ Follows(h, g) /\ Noted(h, g)
    BY <2>2, SetHostnameGood, SetHostnameFollows, SetHostnameNoted
  <2> HIDE DEF h
  <2>4. /\ Good(SetExpires(h, a, forever)) /\ Follows(SetExpires(h, a, forever), h)
        /\ Noted(SetExpires(h, a, forever), h)
    BY <2>3, SetExpiresGood, SetExpiresFollows, SetExpiresNoted
  <2>5. Follows(SetExpires(h, a, forever), d) /\ Noted(SetExpires(h, a, forever), d)
    BY <2>1, <2>2, <2>3, <2>4 DEF Follows, Noted
  <2> QED BY <1>2, <2>4, <2>5 DEF RecordLease, f, g, h
<1> QED BY <1>1, <1>2

\* The save, whether or not it succeeds.
LEMMA SaveGood ==
  ASSUME NEW d, Good(d), FileGood(file), Save(d)
  PROVE  Good(db') /\ FileGood(file')
<1>1. Good(Flagged(d, FALSE)) /\ FileGood(Rows(d))
  BY DirtyGood, RowsGood
<1> QED BY <1>1 DEF Save

\* The types of the replies.
LEMMA ReplyTypes ==
  /\ NoReply.type \in ReplyType
  /\ \A t \in ReplyType : \A p, a : Reply(t, p, a).type \in ReplyType
BY DEF NoReply, Reply, ReplyType

\* A packet, whichever handler takes it, leaves a good table and a reply to the rest of
\* the receive arm.
LEMMA PacketOutcome ==
  ASSUME IInv, NEW p \in Packets,
         Pass(p) \/ Discover(p) \/ DiscoverRapid(p) \/ Request(p) \/ GiveUp(p) \/ Bootp(p)
  PROVE  \E d, r : Answer(d, r) /\ Outcome(d) /\ r.type \in ReplyType
<1>1. Outcome(db) /\ Good(db)
  BY DEF IInv, Outcome, Follows, Noted
<1>2. \A a \in Addrs, forever \in BOOLEAN : Outcome(RecordLease(db, a, p, forever))
  BY <1>1, AnsweredAddrs, RecordGood DEF Outcome
<1>3. {"OFFER", "ACK", "NAK", "BOOTP"} \subseteq ReplyType
  BY DEF ReplyType
<1>4. CASE Pass(p)
  BY <1>1, <1>4, ReplyTypes DEF Pass
<1>5. CASE Discover(p)
  <2>1. PICK a : Answer(db, Reply("OFFER", p, a))
    BY <1>5 DEF Discover
  <2> QED BY <1>1, <1>3, <2>1, ReplyTypes
<1>6. CASE DiscoverRapid(p)
  <2>1. PICK a \in Offered(p) : Answer(RecordLease(db, a, p, FALSE), Reply("ACK", p, a))
    BY <1>6 DEF DiscoverRapid
  <2>2. Outcome(RecordLease(db, a, p, FALSE))
    BY <1>2, AnsweredAddrs
  <2> QED BY <1>3, <2>1, <2>2, ReplyTypes
<1>7. CASE Request(p)
  <2> DEFINE a == p.addr
  <2>1. Outcome(RecordLease(db, a, p, FALSE))
    BY <1>2, AnsweredAddrs
  <2>2. \/ Answer(RecordLease(db, a, p, FALSE), Reply("ACK", p, a))
        \/ Answer(db, Reply("NAK", p, a))
    BY <1>7 DEF Request
  <2> HIDE DEF a
  <2>3. CASE Answer(RecordLease(db, a, p, FALSE), Reply("ACK", p, a))
    BY <1>3, <2>1, <2>3, ReplyTypes
  <2>4. CASE Answer(db, Reply("NAK", p, a))
    BY <1>1, <1>3, <2>4, ReplyTypes
  <2> QED BY <2>2, <2>3, <2>4
<1>8. CASE GiveUp(p)
  <2> DEFINE d == IF p.addr \in Pool THEN RemoveByAddr(db, p.addr) ELSE db
  <2>1. Outcome(d)
    BY <1>1, RemoveGood, RemoveNoted DEF Outcome
  <2>2. Answer(d, NoReply)
    BY <1>8 DEF GiveUp
  <2> HIDE DEF d
  <2> QED BY <2>1, <2>2, ReplyTypes
<1>9. CASE Bootp(p)
  <2>1. PICK a \in BootpAddrs(p) : Answer(RecordLease(db, a, p, TRUE), Reply("BOOTP", p, a))
    BY <1>9 DEF Bootp
  <2>2. Outcome(RecordLease(db, a, p, TRUE))
    BY <1>2, AnsweredAddrs
  <2> QED BY <1>3, <2>1, <2>2, ReplyTypes
<1> QED BY <1>4, <1>5, <1>6, <1>7, <1>8, <1>9

\* The rest of the receive arm keeps the invariant.
LEMMA AnswerStep ==
  ASSUME IInv, NEW d, Outcome(d), NEW r, Answer(d, r), r.type \in ReplyType
  PROVE  IInv'
<1>1. Good(db') /\ FileGood(file')
  BY SaveGood DEF IInv, Answer, Outcome
<1>2. ServerOK'
  BY DEF IInv, ServerOK, Answer, netVars, ReplyType
<1> QED BY <1>1, <1>2 DEF IInv

\* The receive arm runs between packets, so what it leaves new is told afterwards.
LEMMA AnswerAnnounced ==
  ASSUME IInv, Announced, NEW d, Outcome(d), NEW r, Answer(d, r)
  PROVE  Announced'
<1>1. /\ Good(db) /\ db.old = {} /\ Settled(db) \subseteq known /\ phase' = "saved"
      /\ known' = known \cap DOMAIN d.index /\ Save(d)
  BY DEF IInv, Announced, Answer
<1>2. d.old \cap DOMAIN d.index = {} /\ Settled(d) \subseteq Settled(db)
  <2>1. CASE Follows(d, db)
    BY <1>1, <2>1 DEF Follows
  <2>2. CASE \E a : d = RemoveByAddr(db, a)
    BY <1>1, <2>2, RemoveFollows
  <2> QED BY <2>1, <2>2 DEF Outcome
<1>3. Settled(d) \subseteq known'
  BY <1>1, <1>2 DEF Settled
<1>4. /\ Flagged(d, FALSE).index = d.index /\ Flagged(d, FALSE).old = d.old
      /\ Settled(Flagged(d, FALSE)) = Settled(d)
  BY FlaggedFollows, DirtyGood DEF Outcome
<1>5. db' \in {d, Flagged(d, FALSE)}
  BY <1>1 DEF Save
<1>6. db'.index = d.index /\ db'.old = d.old /\ Settled(db') = Settled(d)
  BY <1>4, <1>5
<1> QED BY <1>1, <1>2, <1>3, <1>6 DEF Announced, Settled, LeaseAt

\* The addresses of a table, and those the script hears of.
LEMMA TableAddrs ==
  ASSUME NEW d, Good(d), NEW told, told \subseteq Addrs
  PROVE  DOMAIN d.index \subseteq Addrs /\ Told(d, told) \subseteq Addrs
<1>1. IsFunc(d.leases, Keys, Lease) /\ IsFunc(d.index, Addrs, Keys)
  BY DEF Good, IsDb
<1>2. \A l \in Range(d.leases) : l.addr \in Addrs
  BY <1>1, LeaseFields DEF Range, IsFunc
<1> QED BY <1>1, <1>2 DEF Told, IsFunc

\* `run_lease_scripts` at the end of the receive arm.
LEMMA FinishStep ==
  ASSUME IInv, Finish
  PROVE  IInv'
<1>1. Good(ScriptsRun(db)) /\ Told(db, known) \subseteq Addrs
  BY ScriptsRunGood, TableAddrs DEF IInv, ServerOK
<1>2. Good(db') /\ FileGood(file')
  BY <1>1 DEF Finish, IInv
<1>3. ServerOK'
  BY <1>1, ReplyTypes DEF Finish, IInv, ServerOK, netVars, ReplyType
<1> QED BY <1>2, <1>3 DEF IInv

\* A reload by another task.
LEMMA ReloadStep ==
  ASSUME IInv, Reload
  PROVE  IInv'
BY ServerAssumption DEF IInv, ServerOK, Reload

\* The names a configuration gives are names, and given to addresses.
LEMMA RenamesIn ==
  ASSUME NEW c \in Config, Good(db)
  PROVE  Renames(c.hosts) \in SUBSET (Addrs \X Names)
<1>1. \A l \in Range(db.leases) : l.addr \in Addrs
  <2>1. IsFunc(db.leases, Keys, Lease)
    BY DEF Good, IsDb
  <2> QED BY <2>1, LeaseFields DEF Range, IsFunc
<1>2. \A hw, clid : \A i \in FindConfig(c.hosts, hw, clid, NoName) : c.hosts[i].name \in Names \cup {NoName}
  BY FindConfigIn, HostFields
<1> QED BY <1>1, <1>2 DEF Renames

\* The reload tick.
LEMMA ReloadTickStep ==
  ASSUME IInv, ReloadTick
  PROVE  IInv'
<1>1. Good(db) /\ FileGood(file) /\ shared \in Config /\ known \subseteq Addrs
  BY DEF IInv, ServerOK
<1> DEFINE R == Renames(shared.hosts)
           D(last) == Rename(db, R, last)
<1>2. R \in SUBSET (Addrs \X Names)
  BY <1>1, RenamesIn
<1>3. PICK last \in LastOfEachName(R) :
        \/ /\ db' = Flagged(ScriptsRun(D(last)), TRUE)
           /\ known' = Told(D(last), known) \cup DOMAIN D(last).index
        \/ db' = D(last) /\ known' = known
  BY DEF ReloadTick
<1>4. Good(D(last))
  <2> HIDE DEF R
  <2> QED BY <1>1, <1>2, <1>3, RenameGood
<1> HIDE DEF D, R
<1>5. Good(ScriptsRun(D(last)))
  BY <1>4, ScriptsRunGood
<1>6. Good(Flagged(ScriptsRun(D(last)), TRUE))
  BY <1>5, DirtyGood
<1>7. Told(D(last), known) \subseteq Addrs /\ DOMAIN D(last).index \subseteq Addrs
  BY <1>1, <1>4, TableAddrs
<1>8. Good(db') /\ FileGood(file')
  BY <1>1, <1>3, <1>4, <1>6 DEF ReloadTick
<1>9. known' \subseteq Addrs
  BY <1>1, <1>3, <1>7
<1>10. ServerOK'
  BY <1>9, ReplyTypes DEF ReloadTick, IInv, ServerOK, ReplyType
<1> QED BY <1>8, <1>10 DEF IInv

\* A restart from the file.
LEMMA RestartStep ==
  ASSUME IInv, Restart
  PROVE  IInv'
<1>1. Good(db') /\ FileGood(file')
  BY LoadGood DEF IInv, Restart
<1>2. DOMAIN db'.index \subseteq Addrs
  BY <1>1 DEF Good, IsDb, IsFunc
<1>3. ServerOK'
  BY <1>2, ReplyTypes DEF IInv, ServerOK, Restart, ReplyType
<1> QED BY <1>1, <1>3 DEF IInv

\* `run_lease_scripts` tells the rest.
LEMMA FinishAnnounced ==
  ASSUME IInv, Announced, Finish
  PROVE  Announced'
<1>1. Good(db) /\ Settled(db) \subseteq known /\ db.old \cap DOMAIN db.index = {}
  BY DEF IInv, Announced
<1>2. DOMAIN db.index \subseteq Told(db, known)
  BY <1>1, ToldCovers
<1>3. db'.old = {} /\ db'.index = db.index /\ Settled(db') = DOMAIN db.index
  BY <1>1, ScriptsRunSettled DEF Finish
<1>4. known' = Told(db, known)
  BY DEF Finish
<1> QED BY <1>2, <1>3, <1>4 DEF Announced, Settled, LeaseAt

\* The reload tick renames leases and may announce them again.
LEMMA ReloadTickAnnounced ==
  ASSUME IInv, Announced, ReloadTick
  PROVE  Announced'
<1>1. /\ Good(db) /\ db.old = {} /\ Settled(db) = DOMAIN db.index /\ Settled(db) \subseteq known
      /\ shared \in Config /\ phase' = phase
  BY DEF IInv, ServerOK, Announced, ReloadTick
<1> DEFINE R == Renames(shared.hosts)
           D(last) == Rename(db, R, last)
<1>2. PICK last \in LastOfEachName(R) :
        \/ /\ db' = Flagged(ScriptsRun(D(last)), TRUE)
           /\ known' = Told(D(last), known) \cup DOMAIN D(last).index
        \/ db' = D(last) /\ known' = known
  BY DEF ReloadTick
<1>3. R \in SUBSET (Addrs \X Names)
  BY <1>1, RenamesIn
<1> HIDE DEF R
<1>4. Good(D(last))
  BY <1>1, <1>2, <1>3, RenameGood
<1>5. D(last).old = {} /\ D(last).index = db.index /\ Settled(D(last)) = DOMAIN db.index
  BY <1>1, RenameFollows
<1> HIDE DEF D
<1>6. /\ ScriptsRun(D(last)).old = {} /\ ScriptsRun(D(last)).index = db.index
      /\ Settled(ScriptsRun(D(last))) = DOMAIN db.index
  BY <1>4, <1>5, ScriptsRunSettled
<1>7. Good(ScriptsRun(D(last)))
  BY <1>4, ScriptsRunGood
<1>8. /\ Flagged(ScriptsRun(D(last)), TRUE).old = {}
      /\ Flagged(ScriptsRun(D(last)), TRUE).index = db.index
      /\ Settled(Flagged(ScriptsRun(D(last)), TRUE)) = DOMAIN db.index
  BY <1>6, <1>7, DirtyGood, FlaggedFollows
<1>9. db'.old = {} /\ db'.index = db.index /\ Settled(db') = DOMAIN db.index
  BY <1>2, <1>5, <1>8
<1>10. DOMAIN db.index \subseteq known'
  BY <1>1, <1>2, <1>5
<1> QED BY <1>9, <1>10 DEF Announced, Settled, LeaseAt

\* A restart knows what it reads.
LEMMA RestartAnnounced ==
  ASSUME IInv, Restart
  PROVE  Announced'
<1>1. db'.old = {} /\ Settled(db') = DOMAIN db'.index
  BY LoadSettled DEF IInv, Restart
<1>2. known' = DOMAIN db'.index
  BY DEF Restart
<1> QED BY <1>1, <1>2 DEF Announced, Settled, LeaseAt

---------------------------------------------------------------------------
(* The flag `file_dirty` *)

\* The rest of the receive arm: a save that succeeds writes the table, one that fails
\* leaves the flag, and without the flag there was nothing to write.
LEMMA AnswerCurrent ==
  ASSUME FileCurrent, NEW d, Outcome(d), NEW r, Answer(d, r)
  PROVE  FileCurrent'
<1>1. Noted(d, db) /\ Save(d)
  BY DEF Outcome, Answer
<1>2. CASE db' = Flagged(d, FALSE) /\ file' = Rows(d)
  <2>1. file' = Rows(db')
    BY <1>2, FlaggedRows
  <2> QED BY <2>1 DEF FileCurrent
<1>3. CASE d.dirty /\ db' = d
  BY <1>3 DEF FileCurrent
<1>4. CASE ~d.dirty /\ db' = d /\ UNCHANGED file
  <2>1. ~db.dirty /\ Rows(db') = Rows(db) /\ file' = file
    BY <1>1, <1>4 DEF Noted
  <2>2. file = Rows(db) \/ \E x \in Load(file) : Rows(x) = Rows(db)
    BY <2>1 DEF FileCurrent
  <2> HIDE DEF Load
  <2> QED BY <2>1, <2>2 DEF FileCurrent
<1> QED BY <1>1, <1>2, <1>3, <1>4 DEF Save

\* `run_lease_scripts` changes no line.
LEMMA FinishCurrent ==
  ASSUME IInv, FileCurrent, Finish
  PROVE  FileCurrent'
<1>1. Rows(db') = Rows(db) /\ db'.dirty = db.dirty /\ file' = file
  BY ScriptsRunNoted DEF Finish, IInv
<1> QED BY <1>1 DEF FileCurrent

\* The leases the configuration renames are in the table.
LEMMA RenamesLeased ==
  ASSUME NEW hosts, Good(db)
  PROVE  \A r \in Renames(hosts) : Leased(db, r[1]) /\ r[2] # NoName
<1>1. \A l \in Range(db.leases) : Leased(db, l.addr)
  BY DEF Good, Indexed, Range, Leased
<1> QED BY <1>1 DEF Renames

\* The reload tick sets the flag if the reload is news or a name changes.
LEMMA ReloadTickCurrent ==
  ASSUME IInv, FileCurrent, ReloadTick
  PROVE  FileCurrent'
<1> DEFINE R == Renames(shared.hosts)
           D(last) == Rename(db, R, last)
<1>1. Good(db) /\ file' = file
  BY DEF IInv, ReloadTick
<1>2. PICK last \in LastOfEachName(R) :
        db' = Flagged(ScriptsRun(D(last)), TRUE) \/ db' = D(last)
  BY DEF ReloadTick
<1>3. \A r \in R : Leased(db, r[1]) /\ r[2] # NoName
  BY <1>1, RenamesLeased
<1> HIDE DEF R
<1>4. Noted(D(last), db)
  BY <1>1, <1>3, RenameNoted
<1> HIDE DEF D
<1>5. CASE db' = Flagged(ScriptsRun(D(last)), TRUE)
  <2>1. db'.dirty = TRUE
    BY <1>5, FlaggedRows
  <2> QED BY <2>1 DEF FileCurrent
<1>6. CASE db' = D(last)
  <2>1. ~db'.dirty => ~db.dirty /\ Rows(db') = Rows(db)
    BY <1>4, <1>6 DEF Noted
  <2> QED BY <1>1, <2>1 DEF FileCurrent
<1> QED BY <1>2, <1>5, <1>6

---------------------------------------------------------------------------
(* Offers *)

\* A configuration whose ranges lie in the pool the daemon started with and that reserves
\* no address twice.
Coherent(c) ==
  /\ c.ranges \subseteq Pool
  /\ \A i, j \in DOMAIN c.hosts : c.hosts[i].addr = c.hosts[j].addr /\ c.hosts[i].addr # NoAddr => i = j

AllCoherent == \A c \in Configs \cup {Config0} : Coherent(c)

\* The configurations in use are among those.
InUse == cfg \in Configs \cup {Config0} /\ shared \in Configs \cup {Config0}

\* A REQUEST of the client for the address it was offered would be granted.
OfferGood ==
  reply.type = "OFFER"
    => \A q \in Packets : reply = Reply("OFFER", q, reply.addr) => AddressInRange(q, reply.addr)

\* `find_config` finds one entry at most.
LEMMA FindConfigOne ==
  ASSUME NEW hosts, NEW hw, NEW clid, NEW name
  PROVE  \A i, j \in FindConfig(hosts, hw, clid, name) : i = j
<1>1. \A S : \A i, j \in First(S) : i = j
  BY DEF First
<1>2. \E S : FindConfig(hosts, hw, clid, name) = First(S)
  BY DEF FindConfig
<1> QED BY <1>1, <1>2

\* What DISCOVER offers is what REQUEST grants.
LEMMA OfferedInRange ==
  ASSUME IInv, Coherent(cfg), NEW p \in Packets, NEW a \in Offered(p)
  PROVE  AddressInRange(p, a)
<1>1. cfg \in Config
  BY DEF IInv, ServerOK
<1>2. CASE StaticAddr(p) # {}
  <2>1. PICK i \in ConfigOf(p) : cfg.hosts[i].addr = a /\ a # NoAddr
    BY <1>2 DEF Offered, StaticAddr
  <2>2. ConfigOf(p) \subseteq DOMAIN cfg.hosts /\ ConfigOf(p) = {i}
    BY <1>1, <2>1, FindConfigIn, FindConfigOne DEF ConfigOf
  <2> DEFINE S == {j \in DOMAIN cfg.hosts : cfg.hosts[j].addr = a}
  <2>3. S = {i} /\ i \in Nat
    <3>1. DOMAIN cfg.hosts \subseteq Nat
      BY <1>1 DEF Config
    <3> QED BY <2>1, <2>2, <3>1 DEF Coherent
  <2>4. First(S) = {i}
    <3> HIDE DEF S
    <3>1. Min(S) \in S
      BY <2>3, MinIsLeast
    <3> QED BY <2>3, <3>1 DEF First
  <2>5. Reserving(a) = ConfigOf(p)
    BY <2>2, <2>4 DEF Reserving
  <2> QED BY <1>2, <2>5 DEF AddressInRange, Offered
<1>3. CASE StaticAddr(p) = {}
  <2>1. a \in FreeAddrs(db)
    BY <1>3 DEF Offered
  <2>2. Reserving(a) = {} /\ a \in Pool
    BY <2>1 DEF FreeAddrs, Available, Coherent
  <2> QED BY <1>3, <2>2 DEF AddressInRange
<1> QED BY <1>2, <1>3

\* The answer depends on who asks and not on the rest of the packet.
LEMMA SameClient ==
  ASSUME NEW p, NEW q, NEW a, NEW b, Reply("OFFER", p, a) = Reply("OFFER", q, b)
  PROVE  a = b /\ (AddressInRange(p, a) <=> AddressInRange(q, b))
<1>1. p.hw = q.hw /\ p.clid = q.clid /\ p.name = q.name /\ a = b
  BY DEF Reply
<1>2. ConfigOf(p) = ConfigOf(q)
  BY <1>1 DEF ConfigOf
<1> QED BY <1>1, <1>2 DEF AddressInRange, StaticAddr

\* What comes to be offered.
LEMMA ReplyStep ==
  ASSUME IInv, InUse, OfferGood, AllCoherent, [Next]_vars
  PROVE  OfferGood'
<1>1. CASE reply'.type # "OFFER"
  BY <1>1 DEF OfferGood
<1>2. CASE reply' = reply /\ cfg' = cfg
  BY <1>2 DEF OfferGood, AddressInRange, Reserving, StaticAddr, ConfigOf
<1>3. ASSUME NEW p \in Packets, Discover(p) PROVE OfferGood'
  <2>1. PICK a \in Offered(p) : reply' = Reply("OFFER", p, a) /\ cfg' = cfg
    BY <1>3 DEF Discover, Answer, netVars
  <2>2. AddressInRange(p, a)
    BY OfferedInRange DEF InUse, AllCoherent
  <2>3. \A q \in Packets : reply' = Reply("OFFER", q, reply'.addr) => AddressInRange(q, reply'.addr)
    BY <2>1, <2>2, SameClient
  <2>4. \A q, b : AddressInRange(q, b)' <=> AddressInRange(q, b)
    BY <2>1 DEF AddressInRange, Reserving, StaticAddr, ConfigOf
  <2> QED BY <2>3, <2>4 DEF OfferGood
<1>4. ASSUME NEW p \in Packets, Pass(p) \/ DiscoverRapid(p) \/ Request(p) \/ GiveUp(p) \/ Bootp(p)
      PROVE  reply'.type # "OFFER"
  <2>1. reply' = NoReply \/ \E t \in {"ACK", "NAK", "BOOTP"} : \E a : reply' = Reply(t, p, a)
    BY <1>4 DEF Pass, DiscoverRapid, Request, GiveUp, Bootp, Answer
  <2> QED BY <2>1 DEF Reply, NoReply
<1>5. CASE Finish
  BY <1>1, <1>2, <1>5 DEF Finish, netVars, NoReply
<1>6. CASE Reload
  BY <1>2, <1>6 DEF Reload
<1>7. CASE ReloadTick
  BY <1>1, <1>2, <1>7 DEF ReloadTick, NoReply
<1>8. CASE Restart
  BY <1>1, <1>8 DEF Restart, NoReply
<1>9. CASE UNCHANGED vars
  BY <1>2, <1>9 DEF vars, netVars
<1> QED BY <1>1, <1>3, <1>4, <1>5, <1>6, <1>7, <1>8, <1>9 DEF Next

\* A refusal of what was offered would come from REQUEST.
LEMMA NotRefused ==
  ASSUME OfferGood, [Next]_vars, reply.type = "OFFER", reply' = [reply EXCEPT !.type = "NAK"],
         reply = [type |-> reply.type, to |-> reply.to, addr |-> reply.addr]
  PROVE  reply'.type # "NAK"
<1>1. CASE reply' = reply
  BY <1>1
<1>2. ASSUME NEW p \in Packets, Request(p) PROVE reply'.type # "NAK"
  <2>1. CASE reply' = Reply("ACK", p, p.addr)
    BY <2>1 DEF Reply
  <2>2. CASE ~AddressInRange(p, p.addr) /\ reply' = Reply("NAK", p, p.addr)
    <3>1. reply = Reply("OFFER", p, reply.addr) /\ reply.addr = p.addr
      BY <2>2 DEF Reply
    <3> QED BY <2>2, <3>1 DEF OfferGood
  <2> QED BY <1>2, <2>1, <2>2 DEF Request, Answer
<1>3. ASSUME NEW p \in Packets, Pass(p) \/ Discover(p) \/ DiscoverRapid(p) \/ GiveUp(p) \/ Bootp(p)
      PROVE  reply'.type # "NAK"
  BY <1>3 DEF Pass, Discover, DiscoverRapid, GiveUp, Bootp, Answer, Reply, NoReply
<1>4. CASE Finish \/ Reload \/ ReloadTick \/ Restart \/ UNCHANGED vars
  BY <1>1, <1>4 DEF Finish, Reload, ReloadTick, Restart, vars, NoReply
<1> QED BY <1>2, <1>3, <1>4 DEF Next

---------------------------------------------------------------------------
(* Theorems *)

\* The inductive invariant holds in every reachable state of the server: whatever packets
\* arrive, writes fail, reloads happen and crashes intervene, table and file stay good.
THEOREM Invariance == Spec => []IInv
<1>1. Init => IInv
  <2> SUFFICES ASSUME Init PROVE IInv
    OBVIOUS
  <2>1. Good(db)
    BY EmptyGood DEF Init
  <2>2. FileGood(file)
    BY FS_EmptySet, LeaseAssumption DEF Init, FileGood
  <2>3. ServerOK
    BY ServerAssumption, ReplyTypes DEF Init, ServerOK, ReplyType
  <2> QED BY <2>1, <2>2, <2>3 DEF IInv
<1>2. IInv /\ [Next]_vars => IInv'
  <2> SUFFICES ASSUME IInv, [Next]_vars PROVE IInv'
    OBVIOUS
  <2>1. CASE \E p \in Packets : \/ Pass(p) \/ Discover(p) \/ DiscoverRapid(p) \/ Request(p)
                                \/ GiveUp(p) \/ Bootp(p)
    BY <2>1, PacketOutcome, AnswerStep
  <2>2. CASE Finish
    BY <2>2, FinishStep
  <2>3. CASE Reload
    BY <2>3, ReloadStep
  <2>4. CASE ReloadTick
    BY <2>4, ReloadTickStep
  <2>5. CASE Restart
    BY <2>5, RestartStep
  <2>6. CASE UNCHANGED vars
    BY <2>6 DEF vars, netVars, IInv, ServerOK
  <2> QED BY <2>1, <2>2, <2>3, <2>4, <2>5, <2>6 DEF Next
<1> QED BY <1>1, <1>2, PTL DEF Spec

\* The variables always hold values of the types of the code.
THEOREM LeasesTyped == Spec => []LeasesTypeOK
<1>1. IInv => LeasesTypeOK
  BY DEF IInv, Good, FileGood, ServerOK, LeasesTypeOK
<1> QED BY <1>1, Invariance, PTL

\* `addr_index` and `leases` are always inverse: no address is ever in two leases.
THEOREM AddressesStayIndexed == Spec => []AddressesIndexed
<1>1. IInv => AddressesIndexed
  BY DEF IInv, Good, AddressesIndexed
<1> QED BY <1>1, Invariance, PTL

\* A host name never belongs to two leases, through requests, reloads and restarts.
THEOREM NamesStayUnique == Spec => []NamesUnique
<1>1. IInv => NamesUnique
  BY DEF IInv, Good, NamesUnique
<1> QED BY <1>1, Invariance, PTL

\* The table never outgrows `max_leases`, a restart included.
THEOREM LeasesStayBounded == Spec => []LeasesBounded
<1>1. IInv => LeasesBounded
  BY DEF IInv, Good, Bounded, LeasesBounded
<1> QED BY <1>1, Invariance, PTL

\* Between packets the script knows every lease made since the last restart: the flag
\* LEASE_NEW is lost neither by re-keying nor by evicting another lease.
THEOREM ScriptsAlwaysKnow == Spec => []ScriptsKnowLeases
<1>1. Init => Announced
  BY DEF Init, Announced, EmptyDb, Db, Settled
<1>2. IInv /\ Announced /\ [Next]_vars => Announced'
  <2> SUFFICES ASSUME IInv, Announced, [Next]_vars PROVE Announced'
    OBVIOUS
  <2>1. CASE \E p \in Packets : \/ Pass(p) \/ Discover(p) \/ DiscoverRapid(p) \/ Request(p)
                                \/ GiveUp(p) \/ Bootp(p)
    BY <2>1, PacketOutcome, AnswerAnnounced
  <2>2. CASE Finish
    BY <2>2, FinishAnnounced
  <2>3. CASE Reload
    BY <2>3 DEF Reload, Announced, Settled, LeaseAt
  <2>4. CASE ReloadTick
    BY <2>4, ReloadTickAnnounced
  <2>5. CASE Restart
    BY <2>5, RestartAnnounced
  <2>6. CASE UNCHANGED vars
    BY <2>6 DEF vars, Announced, Settled, LeaseAt
  <2> QED BY <2>1, <2>2, <2>3, <2>4, <2>5, <2>6 DEF Next
<1>3. Announced => ScriptsKnowLeases
  BY DEF Announced, ScriptsKnowLeases
<1> QED BY <1>1, <1>2, <1>3, Invariance, PTL DEF Spec

\* Whatever fails or restarts, a table that is not marked `file_dirty` is the one in the
\* lease file or what a restart made of it: no handler changes a lease and forgets the flag.
THEOREM FileStaysCurrent == Spec => []FileCurrent
<1>1. Init => FileCurrent
  <2> SUFFICES ASSUME Init PROVE FileCurrent
    OBVIOUS
  <2>1. Rows(EmptyDb) = {}
    BY DEF Rows, EmptyDb, Db
  <2> QED BY <2>1 DEF Init, FileCurrent
<1>2. IInv /\ FileCurrent /\ [Next]_vars => FileCurrent'
  <2> SUFFICES ASSUME IInv, FileCurrent, [Next]_vars PROVE FileCurrent'
    OBVIOUS
  <2>1. CASE \E p \in Packets : \/ Pass(p) \/ Discover(p) \/ DiscoverRapid(p) \/ Request(p)
                                \/ GiveUp(p) \/ Bootp(p)
    BY <2>1, PacketOutcome, AnswerCurrent
  <2>2. CASE Finish
    BY <2>2, FinishCurrent
  <2>3. CASE Reload
    BY <2>3 DEF Reload, FileCurrent
  <2>4. CASE ReloadTick
    BY <2>4, ReloadTickCurrent
  <2>5. CASE Restart
    BY <2>5 DEF Restart, FileCurrent
  <2>6. CASE UNCHANGED vars
    BY <2>6 DEF vars, FileCurrent
  <2> QED BY <2>1, <2>2, <2>3, <2>4, <2>5, <2>6 DEF Next
<1> QED BY <1>1, <1>2, Invariance, PTL DEF Spec

\* A client that requests what it was just offered is never refused, provided the ranges
\* stay within the pool of the first range and no address is reserved for two hosts.
THEOREM OffersAlwaysHonoured == ASSUME AllCoherent PROVE Spec => OffersHonoured
<1> DEFINE Shape == reply = [type |-> reply.type, to |-> reply.to, addr |-> reply.addr]
           OInv  == InUse /\ OfferGood /\ Shape
<1>1. Init => OInv
  BY DEF Init, InUse, OfferGood, NoReply
<1>2. IInv /\ OInv /\ [Next]_vars => OInv'
  <2> SUFFICES ASSUME IInv, OInv, [Next]_vars PROVE OInv'
    OBVIOUS
  <2>1. InUse'
    BY DEF Next, Pass, Discover, DiscoverRapid, Request, GiveUp, Bootp, Answer, Finish, Reload,
           ReloadTick, Restart, vars, netVars, InUse
  <2>2. Shape'
    BY DEF Next, Pass, Discover, DiscoverRapid, Request, GiveUp, Bootp, Answer, Finish, Reload,
           ReloadTick, Restart, vars, Reply, NoReply
  <2> QED BY <2>1, <2>2, ReplyStep
<1>3. OInv /\ [Next]_vars
        => [~(/\ reply.type = "OFFER" /\ reply'.type = "NAK"
              /\ reply' = [reply EXCEPT !.type = "NAK"])]_vars
  BY NotRefused
<1> QED BY <1>1, <1>2, <1>3, Invariance, PTL DEF Spec, OffersHonoured
================================================================================

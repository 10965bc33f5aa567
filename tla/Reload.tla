------------------------------- MODULE Reload -------------------------------
(***************************************************************************)
(* Configuration reload at run time.                                       *)
(*                                                                         *)
(* Three kinds of task re-read configuration files while the daemon runs:  *)
(* the main loop on SIGHUP, the management interfaces (web API, D-Bus),    *)
(* and the inotify watcher.  They share the Daemon under a read-write      *)
(* lock, the cache under a mutex, and the two snapshots that the forward   *)
(* loop and the DHCP loop really use, each under a mutex of its own.       *)
(*                                                                         *)
(* A critical section is one step.  The only nested sections take the      *)
(* daemon lock and then the cache lock, and nobody holding the cache lock  *)
(* ever waits for the daemon lock, so a nested section is one step too.    *)
(* What matters is what happens between the sections of one reload.        *)
(*                                                                         *)
(* Files are represented by the version of their contents.                 *)
(***************************************************************************)
EXTENDS Naturals, Sequences, FiniteSets

CONSTANTS
    Reloaders,     \* tasks that run on_sighup or a D-Bus reload: main, admin
    Watcher,       \* the inotify watch task
    Watching,      \* the values of `watching`: inotify could be opened or not
    NoPolls,       \* the values of --no-poll
    Ports,         \* the values of --port; 0 turns DNS off
    MaxEdits,      \* bound on the changes made to files
    MaxReloads     \* bound on the reloads asked for

Tasks == Reloaders \union {Watcher}

Files == {"resolv", "conf", "hosts", "zone", "net", "bank"}

\* UID_NONE: the hosts file has no records in the cache.
UID_NONE == 0

VARIABLES
    env,           \* --port, --no-poll, and whether inotify works
    disk,          \* version of each file; 0 is a file that is not there
    events,        \* inotify events not read yet
    daemon,        \* the part of Daemon that reload changes
    cache,         \* records from the hosts directory, by uid and version
    fwdCfg,        \* SharedForwardConfig: what queries are answered from
    dhcpCfg,       \* SharedDhcpReloadConfig
    dhcpLoop,      \* the DHCP loop: its own copy and the generation it has seen
    pc,            \* the next critical section of each task
    snap,          \* the snapshots a task has built and not yet installed
    hits,          \* what the watcher found in its last pass
    edits,
    reloads,
    history        \* of the run, for the properties only

reloadVars ==
    <<env, disk, events, daemon, cache, fwdCfg, dhcpCfg, dhcpLoop, pc, snap,
      hits, edits, reloads, history>>

----------------------------------------------------------------------------
(* The files.                                                              *)

\* The directories and files the watcher is told about; dhcp-hostsfile is
\* only read again by a full reload.
Watched == {"resolv", "conf", "hosts", "zone", "net"}

\* Files that can go away: a resolv-file during a rewrite, a hosts file.
\* The watch on the resolv-file's directory does not report a removal.
Edit(f) ==
    /\ edits < MaxEdits
    /\ edits' = edits + 1
    /\ \E v \in {edits + 2} \union (IF f \in {"resolv", "hosts"} THEN {0} ELSE {}) :
          /\ v # disk[f]
          /\ disk' = [disk EXCEPT ![f] = v]
          /\ events' = IF f \in Watched /\ env.watching /\ ~(f = "resolv" /\ v = 0)
                       THEN Append(events, [file |-> f, delete |-> v = 0])
                       ELSE events
    /\ UNCHANGED <<env, daemon, cache, fwdCfg, dhcpCfg, dhcpLoop, pc, snap, hits, reloads, history>>

\* An editor's temporary or backup file is reported and ignored
\* (is_ignorable_filename); "other" is never the name of a file we track.
EditTemporary ==
    /\ edits < MaxEdits
    /\ env.watching
    /\ edits' = edits + 1
    /\ events' = Append(events, [file |-> "other", delete |-> FALSE])
    /\ UNCHANGED <<env, disk, daemon, cache, fwdCfg, dhcpCfg, dhcpLoop, pc, snap, hits, reloads, history>>

----------------------------------------------------------------------------
(* Reading them.                                                           *)

\* The hosts records in the cache and the uid the directory entry remembers:
\* [recs, index, next].  Every load takes a fresh uid (load_hosts_file).
LoadHosts(h) ==
    IF disk.hosts = 0
    THEN [h EXCEPT !.index = UID_NONE]
    ELSE [recs  |-> h.recs \union {[uid |-> h.next, ver |-> disk.hosts]},
          index |-> h.next,
          next  |-> h.next + 1]

RemoveByUid(h) == [h EXCEPT !.recs = {r \in @ : r.uid # h.index}]

Hosts == [recs |-> cache, index |-> daemon.index, next |-> daemon.next]

\* One event on a hosts directory: the records of the last load go, then the
\* file is read again unless it was deleted.
OnHostsEvent(h, e) ==
    IF e.delete THEN [RemoveByUid(h) EXCEPT !.index = UID_NONE] ELSE LoadHosts(RemoveByUid(h))

\* inotify_check's loop over the events it drains.
OnEvents[n \in Nat] ==
    IF n = 0 THEN Hosts
    ELSE IF events[n].file = "hosts" THEN OnHostsEvent(OnEvents[n - 1], events[n])
    ELSE OnEvents[n - 1]

\* set_dynamic_inotify: a file that is not there leaves the old index alone,
\* and a directory without a watch is not read at all.
ScanHosts == IF disk.hosts = 0 \/ ~env.watching THEN Hosts ELSE LoadHosts(Hosts)

\* reload_resolv_servers: nothing to do without DNS or a readable file.
ResolvServers ==
    IF env.port = 0 \/ disk.resolv = 0 THEN daemon.resolv ELSE disk.resolv

\* daemon_forward_config: the dump handle is not part of it.
ForwardSnapshot(d) == [resolv |-> d.resolv, zone |-> d.zone, dump |-> FALSE]

\* daemon_dhcp_reload_config reads the networks directory itself.
DhcpSnapshot(d) == [bank |-> d.bank, net |-> disk.net, generation |-> 0]

----------------------------------------------------------------------------
(* clear_cache_and_reload, one critical section per step.                  *)

Goto(t, label) == pc' = [pc EXCEPT ![t] = label]

Idle(t) == pc[t] = "idle"

OthersIdle(t) == \A u \in Tasks \ {t} : Idle(u)

\* SIGHUP, POST /reload, or a D-Bus method.
AskReload(t) ==
    /\ Idle(t)
    /\ reloads < MaxReloads
    /\ reloads' = reloads + 1
    /\ Goto(t, "flush")
    /\ history' = [history EXCEPT !.solo = OthersIdle(t)]
    /\ UNCHANGED <<env, disk, events, daemon, cache, fwdCfg, dhcpCfg, dhcpLoop, snap, hits, edits>>

\* reload_hosts: the whole cache goes, the records of hostsdir with it.
Flush(t) ==
    /\ pc[t] = "flush"
    /\ cache' = {}
    /\ Goto(t, "scan")
    /\ UNCHANGED <<env, disk, events, daemon, fwdCfg, dhcpCfg, dhcpLoop, snap, hits, edits, reloads, history>>

\* set_dynamic_inotify: hosts directories, then the zone directories.
Scan(t) ==
    /\ pc[t] = "scan"
    /\ cache' = ScanHosts.recs
    /\ daemon' = [daemon EXCEPT !.index = ScanHosts.index, !.next = ScanHosts.next, !.zone = disk.zone]
    /\ Goto(t, "read")
    /\ UNCHANGED <<env, disk, events, fwdCfg, dhcpCfg, dhcpLoop, snap, hits, edits, reloads, history>>

\* Resolv servers and DHCP files are read, and both snapshots are built,
\* before the daemon lock is released.
ReadServers(t) ==
    /\ pc[t] = "read"
    /\ LET d == [daemon EXCEPT !.resolv = ResolvServers, !.bank = disk.bank, !.dirty = TRUE]
       IN  /\ daemon' = d
           /\ snap' = [snap EXCEPT ![t] = [fwd |-> ForwardSnapshot(d), dhcp |-> DhcpSnapshot(d)]]
    /\ Goto(t, "install_fwd")
    /\ UNCHANGED <<env, disk, events, cache, fwdCfg, dhcpCfg, dhcpLoop, hits, edits, reloads, history>>

InstallForward(t) ==
    /\ pc[t] = "install_fwd"
    /\ fwdCfg' = snap[t].fwd
    /\ Goto(t, "install_dhcp")
    /\ UNCHANGED <<env, disk, events, daemon, cache, dhcpCfg, dhcpLoop, snap, hits, edits, reloads, history>>

\* The generation counts on from the snapshot that is being replaced.
NextGeneration(old) == old + 1

\* Fault: the generation of the fresh snapshot is used as it is.
SameGeneration(t) ==
    /\ pc[t] = "install_dhcp"
    /\ dhcpCfg' = snap[t].dhcp
    /\ Goto(t, IF t = Watcher THEN "push_zone" ELSE "count")
    /\ history' = [history EXCEPT !.owed = TRUE]
    /\ UNCHANGED <<env, disk, events, daemon, cache, fwdCfg, dhcpLoop, snap, hits, edits, reloads>>

InstallDhcp(t) ==
    /\ pc[t] = "install_dhcp"
    /\ dhcpCfg' = [snap[t].dhcp EXCEPT !.generation = NextGeneration(dhcpCfg.generation)]
    /\ Goto(t, IF t = Watcher THEN "push_zone" ELSE "count")
    /\ history' = [history EXCEPT !.owed = TRUE]
    /\ UNCHANGED <<env, disk, events, daemon, cache, fwdCfg, dhcpLoop, snap, hits, edits, reloads>>

\* on_sighup counts the reload once it is over.
CountReload(t) ==
    /\ pc[t] = "count"
    /\ daemon' = [daemon EXCEPT !.reload_count = @ + 1]
    /\ Goto(t, "idle")
    /\ UNCHANGED <<env, disk, events, cache, fwdCfg, dhcpCfg, dhcpLoop, snap, hits, edits, reloads, history>>

----------------------------------------------------------------------------
(* watch_inotify_changes.                                                  *)

Hit(f) == \E n \in DOMAIN events : events[n].file = f

\* --no-poll turns off reloads forced by an event; port 0 those of resolv.
ForcesReload ==
    /\ ~env.no_poll
    /\ Hit("conf") \/ (Hit("resolv") /\ env.port # 0)

\* inotify_check drains every event under both locks.
InotifyCheck ==
    /\ Idle(Watcher)
    /\ events # <<>>
    /\ LET h == OnEvents[Len(events)]
       IN  /\ cache' = h.recs
           /\ daemon' = [daemon EXCEPT !.index = h.index, !.next = h.next,
                                       !.zone = IF Hit("zone") THEN disk.zone ELSE @]
    /\ hits' = {f \in {"zone", "net"} : Hit(f)}
    /\ events' = <<>>
    /\ Goto(Watcher, IF ForcesReload THEN "flush" ELSE "push_zone")
    /\ history' = [history EXCEPT !.solo = OthersIdle(Watcher) /\ (ForcesReload \/ @)]
    /\ UNCHANGED <<env, disk, fwdCfg, dhcpCfg, dhcpLoop, snap, edits, reloads>>

\* push_fresh_forward_config: built under the read lock, installed after it.
PushZone ==
    /\ pc[Watcher] = "push_zone"
    /\ IF "zone" \in hits
       THEN /\ snap' = [snap EXCEPT ![Watcher].fwd = ForwardSnapshot(daemon)]
            /\ Goto(Watcher, "put_zone")
       ELSE /\ Goto(Watcher, "push_net")
            /\ UNCHANGED snap
    /\ UNCHANGED <<env, disk, events, daemon, cache, fwdCfg, dhcpCfg, dhcpLoop, hits, edits, reloads, history>>

\* Fault: the rescan is not pushed to the forward loop.
PutZoneNothing ==
    /\ pc[Watcher] = "put_zone"
    /\ Goto(Watcher, "push_net")
    /\ UNCHANGED <<env, disk, events, daemon, cache, fwdCfg, dhcpCfg, dhcpLoop, snap, hits, edits, reloads, history>>

PutZone ==
    /\ pc[Watcher] = "put_zone"
    /\ fwdCfg' = snap[Watcher].fwd
    /\ Goto(Watcher, "push_net")
    /\ UNCHANGED <<env, disk, events, daemon, cache, dhcpCfg, dhcpLoop, snap, hits, edits, reloads, history>>

\* push_fresh_dhcp_reload_config: the snapshot is installed as it was built,
\* with generation 0.
PushNet ==
    /\ pc[Watcher] = "push_net"
    /\ IF "net" \in hits
       THEN /\ snap' = [snap EXCEPT ![Watcher].dhcp = DhcpSnapshot(daemon)]
            /\ Goto(Watcher, "put_net")
       ELSE /\ Goto(Watcher, "idle")
            /\ UNCHANGED snap
    /\ UNCHANGED <<env, disk, events, daemon, cache, fwdCfg, dhcpCfg, dhcpLoop, hits, edits, reloads, history>>

PutNet ==
    /\ pc[Watcher] = "put_net"
    /\ dhcpCfg' = snap[Watcher].dhcp
    /\ Goto(Watcher, "idle")
    /\ history' = [history EXCEPT !.netPushed = TRUE]
    /\ UNCHANGED <<env, disk, events, daemon, cache, fwdCfg, dhcpLoop, snap, hits, edits, reloads>>

----------------------------------------------------------------------------
(* The DHCP loop's one-second tick.                                        *)

should_rerun_scripts(generation, last) == generation # last

DhcpTick ==
    /\ dhcpLoop # [cfg |-> [bank |-> dhcpCfg.bank, net |-> dhcpCfg.net], seen |-> dhcpCfg.generation]
    /\ dhcpLoop' = [cfg |-> [bank |-> dhcpCfg.bank, net |-> dhcpCfg.net], seen |-> dhcpCfg.generation]
    /\ history' = IF should_rerun_scripts(dhcpCfg.generation, dhcpLoop.seen)
                  THEN [history EXCEPT !.owed = FALSE]
                  ELSE history
    /\ UNCHANGED <<env, disk, events, daemon, cache, fwdCfg, dhcpCfg, pc, snap, hits, edits, reloads>>

----------------------------------------------------------------------------

\* init_daemon_with, resolve_run_config and the first scan of run_main_loop.
ReloadInit ==
    /\ env \in [port : Ports, no_poll : NoPolls, watching : Watching]
    /\ disk = [f \in Files |-> 1]
    /\ events = <<>>
    /\ daemon = [resolv |-> IF env.port = 0 THEN 0 ELSE 1, zone |-> 1, bank |-> 1, dirty |-> FALSE,
                 index |-> IF env.watching THEN 1 ELSE UID_NONE, next |-> 2, reload_count |-> 0]
    /\ cache = IF env.watching THEN {[uid |-> 1, ver |-> 1]} ELSE {}
    /\ fwdCfg = [ForwardSnapshot(daemon) EXCEPT !.dump = TRUE]
    /\ dhcpCfg = DhcpSnapshot(daemon)
    /\ dhcpLoop = [cfg |-> [bank |-> 1, net |-> 1], seen |-> 0]
    /\ pc = [t \in Tasks |-> "idle"]
    /\ snap = [t \in Tasks |-> [fwd |-> fwdCfg, dhcp |-> dhcpCfg]]
    /\ hits = {}
    /\ edits = 0
    /\ reloads = 0
    /\ history = [solo |-> TRUE, owed |-> FALSE, netPushed |-> FALSE]

ReloadStep(t) ==
    \/ Flush(t) \/ Scan(t) \/ ReadServers(t) \/ InstallForward(t) \/ InstallDhcp(t)

ReloadNext ==
    \/ \E f \in Files : Edit(f)
    \/ EditTemporary
    \/ \E t \in Reloaders : AskReload(t) \/ CountReload(t)
    \/ \E t \in Tasks : ReloadStep(t)
    \/ InotifyCheck \/ PushZone \/ PutZone \/ PushNet \/ PutNet
    \/ DhcpTick

----------------------------------------------------------------------------

Quiet == events = <<>> /\ \A t \in Tasks : Idle(t)

Current ==
    /\ {r.ver : r \in cache} = {disk.hosts} \ {0}
    /\ fwdCfg.zone = disk.zone
    /\ fwdCfg.resolv = daemon.resolv
    /\ (~env.no_poll /\ env.port # 0 /\ disk.resolv # 0) => daemon.resolv = disk.resolv
    /\ dhcpCfg.net = disk.net
    /\ dhcpCfg.bank = daemon.bank

\* When the watcher has read every event and nobody is reloading, the daemon
\* answers from the files as they are: exactly the records of the hosts file
\* that is there now, the zones and networks on disk, the servers of the
\* resolv-file.  Edits may come at any moment, in the middle of a reload too.
\* This needs the last full reload to have run by itself: `solo` is lost when
\* two tasks overlap, and a reload that runs alone heals whatever an overlap
\* has left behind.
QuietIsCurrent == (Quiet /\ history.solo /\ env.watching) => Current

\* While no networks directory changes, the DHCP loop's comparison of
\* generations tells exactly whether a reload has happened whose scripts were
\* not run yet: none is missed and none is run twice, however the reloads of
\* several tasks fall between two ticks.
RerunOwed ==
    ~history.netPushed => (history.owed <=> should_rerun_scripts(dhcpCfg.generation, dhcpLoop.seen))

\* What the comment on the installation of the snapshots intends: updates
\* reach the live loops even when reloads overlap.
ReloadsReachLoops == (Quiet /\ env.watching) => Current

\* "Bumped by clear_cache_and_reload every time it pushes a fresh snapshot":
\* the DHCP loop re-runs scripts once per actual reload.
ScriptsOncePerReload ==
    history.owed <=> should_rerun_scripts(dhcpCfg.generation, dhcpLoop.seen)

=============================================================================

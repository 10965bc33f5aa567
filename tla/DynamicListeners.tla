--------------------------- MODULE DynamicListeners ---------------------------
(***************************************************************************)
(* The DNS listening sockets and their reconciliation with the kernel's    *)
(* addresses under --bind-dynamic: `ArrivalFilter::refresh_dynamic`        *)
(* (src/network.rs) and `apply_dynamic_listener_diff` (src/forward.rs).    *)
(* `ifaddr` is the kernel's view, `interfaces` the list the filter         *)
(* remembers, `listeners` the bound sockets in order: a client query       *)
(* remembers its listener by index.                                        *)
(***************************************************************************)
EXTENDS Naturals, Sequences, FiniteSets, SequencesExt

CONSTANTS ListenAddrs,   \* addresses the interfaces may carry
          CleverBind,    \* --bind-dynamic
          MaxListeners   \* bound on the sockets, for model checking

ASSUME ListenAssumption == CleverBind \in BOOLEAN /\ MaxListeners \in Nat

VARIABLES ifaddr, interfaces, listeners

listenVars == <<ifaddr, interfaces, listeners>>

AddrState == {"absent", "tentative", "ready"}

Present == {a \in ListenAddrs : ifaddr[a] # "absent"}
Ready   == {a \in ListenAddrs : ifaddr[a] = "ready"}

\* `bind_dns_listeners`: addresses still in duplicate address detection are neither
\* bound nor remembered, and starting with no listener is an error.
ListenInit ==
  /\ ifaddr \in [ListenAddrs -> AddrState]
  /\ interfaces = Ready
  /\ Ready # {}
  /\ listeners \in SetToSeqs(Ready)

\* Faults: the last listeners may go; new listeners replace the old ones.
ApplyDiffUnguarded(ls, new, removed) ==
  LET StillPresent(a) == a \notin removed IN SelectSeq(ls \o new, StillPresent)

ApplyDiffReplaces(ls, new, removed) == IF new = <<>> THEN ls ELSE new

\* `apply_dynamic_listener_diff` when the addresses `bound` of the added ones could
\* be bound, in the order `new`.
ApplyDiff(ls, new, removed) ==
  LET all             == ls \o new
      StillPresent(a) == a \notin removed
      remaining       == SelectSeq(all, StillPresent)
  IN  IF remaining = <<>> THEN all ELSE remaining

\* `refresh_dynamic`, then the diff.  Enumeration may fail; binding a tentative
\* address always fails, and binding a ready one may.
RefreshDynamic ==
  \/ /\ ~CleverBind
     /\ UNCHANGED listenVars
  \/ /\ CleverBind
     /\ UNCHANGED listenVars
  \/ /\ CleverBind
     /\ interfaces' = Present
     /\ \E bound \in SUBSET ((Present \ interfaces) \cap Ready) :
          \E new \in SetToSeqs(bound) :
            listeners' = ApplyDiff(listeners, new, interfaces \ Present)
     /\ UNCHANGED ifaddr

\* The kernel: an address is configured, passes detection, or is taken away.
\* MaxListeners bounds the model only: each time all addresses go and come back, every
\* address is bound once more (SO_REUSEADDR lets it) next to its old listener.
AddrAppears(a) ==
  /\ ifaddr[a] = "absent"
  /\ Len(listeners) < MaxListeners
  /\ ifaddr' \in {[ifaddr EXCEPT ![a] = s] : s \in {"tentative", "ready"}}
  /\ UNCHANGED <<interfaces, listeners>>

DadCompletes(a) ==
  /\ ifaddr[a] = "tentative"
  /\ ifaddr' = [ifaddr EXCEPT ![a] = "ready"]
  /\ UNCHANGED <<interfaces, listeners>>

AddrRemoved(a) ==
  /\ ifaddr[a] # "absent"
  /\ ifaddr' = [ifaddr EXCEPT ![a] = "absent"]
  /\ UNCHANGED <<interfaces, listeners>>

Kernel == \E a \in ListenAddrs : AddrAppears(a) \/ DadCompletes(a) \/ AddrRemoved(a)

ListenNext == Kernel \/ RefreshDynamic

\* The loop's 1-second interval always fires again.
ListenSpec == ListenInit /\ [][ListenNext]_listenVars /\ WF_listenVars(RefreshDynamic)

---------------------------------------------------------------------------
(* Properties *)

Bound == {listeners[l] : l \in DOMAIN listeners}

\* The daemon is never left without a DNS socket, whatever the kernel reports:
\* `apply_dynamic_listener_diff` refuses a pass that would release them all.
NeverDeaf == listeners # <<>>

\* An address the daemon listens on keeps its listener as long as enumeration finds it.
StableListenersKept ==
  [][Bound \cap interfaces \cap interfaces' \subseteq Bound']_listenVars

\* While another address stays bound and up, the listener of an address that goes away
\* for good is eventually released.
ReleasedWhile(a, b) ==
  [](ifaddr[b] = "ready" /\ b \in Bound) /\ <>[](ifaddr[a] = "absent") => <>[](a \notin Bound)

GoneAddressesReleased == \A a, b \in ListenAddrs : a # b => ReleasedWhile(a, b)

\* Both: the sockets follow the addresses (`apply_dynamic_listener_diff`).
ListenersFollow == StableListenersKept /\ GoneAddressesReleased

(* What comments of the code say and the code does not do (see README) *)

\* An address that comes up and stays is eventually listened on.
UpAddressesBound ==
  \A a \in ListenAddrs : <>[](ifaddr[a] = "ready") => <>(a \in Bound)
===============================================================================

----------------------------- MODULE MCDhcpServer -----------------------------
(***************************************************************************)
(* Small instances of DhcpServer, with clients known by their hardware     *)
(* address alone and clients that send a client id.  "a3" lies outside the *)
(* first dhcp-range.                                                       *)
(***************************************************************************)
EXTENDS DhcpServer

MCToKey == [i \in Ids |-> <<i>>]
MCKeys  == {<<i>> : i \in Ids}

From(hw, clid, name, addrs) == {[hw |-> hw, clid |-> clid, name |-> name, addr |-> a] : a \in addrs}
Host(hw, name, a)           == [hw |-> hw, clid |-> "", name |-> name, addr |-> a, ignore |-> FALSE]

OneRange(hosts) == [hosts |-> hosts, ranges |-> {"a1", "a2"}]
TwoRanges       == [hosts |-> <<>>, ranges |-> {"a1", "a2", "a3"}]
NoHosts         == OneRange(<<>>)
Reserved        == OneRange(<<Host("h2", "n1", "a3"), Host("h1", "n1", "-")>>)
Barred          == OneRange(<<[Host("h1", "-", "-") EXCEPT !.ignore = TRUE]>>)
LaterConfigs    == {Reserved}
OneConfig       == {NoHosts}
RangeConfig     == {TwoRanges}

LeasePackets == From("h1", "", "n1", {"a2"}) \cup From("h2", "c1", "n1", {"a2", "a3"})
OfferPackets == From("h1", "", "-", {"a3"})
BlankPackets == From("h1", "", "n2", {"a1"}) \cup From("h2", "c1", "-", {"a2"})
TwoClients   == From("h1", "", "-", {"a1"}) \cup From("h2", "", "-", {"a2"})
================================================================================
